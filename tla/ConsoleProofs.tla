---------------------------- MODULE ConsoleProofs -----------------------------
(***************************************************************************)
(* Theorems of Console, for every ring size, FIFO size, set of messages,   *)
(* number of timer slots and set of timeouts.                              *)
(*                                                                         *)
(* The theorems of TimerProofs carry over: whatever the shell and the      *)
(* interrupts do around them, the slots go through steps of Timer.         *)
(*                                                                         *)
(* The output ring implements Line.  A message is put at the tail and one  *)
(* byte at a time taken at the head, all modulo the size of the ring; what *)
(* lies between them is the queue of Line, and of a message longer than    *)
(* the ring the last bytes, which the whole turns of the ring give.        *)
(*                                                                         *)
(* ConsoleInv says besides how many characters the reader may have left in *)
(* its ring at each point of async_uart_gets, and where its registers and  *)
(* pointers are.                                                           *)
(***************************************************************************)
EXTENDS Console, Integers, SequenceTheorems, WellFoundedInduction, TLAPS

TP == INSTANCE TimerProofs


(* A step of Console is a step of Timer, or leaves it alone.               *)
LEMMA TimerStep ==
    ASSUME [Next]_vars
    PROVE  [TP!Next]_TP!vars
<1> USE DEF timer, TP!vars, TP!slots
<1>1. ASSUME NEW cb \in Callbacks, NEW timeout \in Timeouts, Asks(cb, timeout)
      PROVE  TP!Next
  <2>1. timeout \in TP!Times
    BY ConsoleAssumption DEF T!Times, TP!Times
  <2>2. TP!AddTimer(cb, timeout)
    BY <1>1 DEF Asks, T!AddTimer, TP!AddTimer, T!Timers, TP!Timers, T!Idle, TP!Idle,
                T!FirstFree, TP!FirstFree, T!Ahead, TP!Ahead
  <2> QED
    BY <2>1, <2>2 DEF TP!Next
<1>2. CASE SetTimerFull
  BY <1>2 DEF SetTimerFull, T!AddTimerFull, T!vars
<1>3. CASE BeginTick
  BY <1>3 DEF BeginTick, T!BeginTick, TP!BeginTick, TP!Next, T!Idle, TP!Idle, T!Up, TP!Up, T!slots
<1>4. CASE Count
  BY <1>4 DEF Count, T!SkipSlot, T!CountDown, TP!SkipSlot, TP!CountDown, TP!Next,
              T!Idle, TP!Idle, T!Down, TP!Down, T!slots
<1>5. ASSUME NEW cb \in Callbacks, T!Expire(cb)
      PROVE  TP!Next
  <2>1. TP!Expire(cb)
    BY <1>5 DEF T!Expire, TP!Expire, T!Idle, TP!Idle, T!Down, TP!Down
  <2> QED
    BY <2>1 DEF TP!Next
<1>6. CASE UNCHANGED vars
  BY <1>6 DEF vars
<1>7. CASE \/ ReadCommand \/ Command \/ Shell \/ Schedule
           \/ RxInterrupt \/ TxInterrupt \/ Sending \/ Type
  BY <1>7 DEF ReadCommand, Command, Shell, Schedule, RxInterrupt, TxInterrupt, Sending, Type
<1> QED
  BY <1>1, <1>2, <1>3, <1>4, <1>5, <1>6, <1>7 DEF Next, SetTimer, Tick, WriteMessage

(* The timers of the console are the timers of Timer.                      *)
THEOREM ImplementsTimer == Spec => TP!Spec
<1>1. Init => TP!Init
  BY DEF Init, T!Init, TP!Init, T!Timers, TP!Timers, T!Idle, TP!Idle
<1> QED
  BY <1>1, TimerStep, PTL DEF Spec, TP!Spec

(* And so they keep time while messages are read, written and sent around  *)
(* them, for every size of ring, number of slots and set of timeouts.      *)
THEOREM Punctual == Spec => []OnTime
<1>1. TP!OnTime => OnTime
  BY DEF OnTime, T!OnTime, TP!OnTime, T!Timers, TP!Timers, T!Until, TP!Until,
         T!CountedIn, TP!CountedIn
<1>2. TP!Spec => []TP!OnTime
  <2>1. TP!TimerConstants
    BY ConsoleAssumption DEF T!TimerConstants, TP!TimerConstants
  <2> QED
    BY <2>1, TP!Punctual
<1> QED
  BY <1>1, <1>2, ImplementsTimer, PTL

(* A message is written in the tick that was asked for.                    *)
THEOREM CalledInTime == Spec => CalledWhenDue
<1>1. TP!CalledWhenDue => CalledWhenDue
  BY PTL DEF CalledWhenDue, T!CalledWhenDue, TP!CalledWhenDue, T!Timers, TP!Timers,
         T!vars, TP!vars
<1>2. TP!Spec => TP!CalledWhenDue
  <2>1. TP!TimerConstants
    BY ConsoleAssumption DEF T!TimerConstants, TP!TimerConstants
  <2> QED
    BY <2>1, TP!CalledInTime
<1> QED
  BY <1>1, <1>2, ImplementsTimer, PTL

-----------------------------------------------------------------------------
(* The least element of a set of numbers, and induction.                   *)
LEMMA Least ==
    ASSUME NEW S \in SUBSET Nat, S # {}
    PROVE  \E m \in S : \A k \in S : m <= k
<1> DEFINE R == OpToRel(<, Nat)
<1>1. IsWellFoundedOn(R, Nat)
  BY NatLessThanWellFounded
<1>2. \A x, y \in Nat : <<y, x>> \in R <=> y < x
  BY DEF OpToRel
<1> HIDE DEF R
<1>3. PICK m \in S : \A k \in S : ~(<<k, m>> \in R)
  BY <1>1, WFMin
<1>4. \A k \in S : ~(k < m)
  BY <1>2, <1>3
<1>5. m \in Nat /\ \A k \in S : k \in Nat
  OBVIOUS
<1> QED
  BY <1>4, <1>5

LEMMA Induction ==
    ASSUME NEW S, 0 \in S, \A n \in Nat : n \in S => n + 1 \in S
    PROVE  Nat \subseteq S
<1> SUFFICES ASSUME Nat \ S # {}
             PROVE  FALSE
  OBVIOUS
<1>1. PICK m \in Nat \ S : \A k \in Nat \ S : m <= k
  BY Least
<1>2. m # 0 /\ m - 1 \in Nat /\ m - 1 \in S
  BY <1>1
<1> QED
  BY <1>1, <1>2

-----------------------------------------------------------------------------
(* Division by the size of a ring.                                         *)
LEMMA Division ==
    ASSUME NEW n \in Nat \ {0}, NEW a \in Int
    PROVE  \E q \in Int, r \in 0 .. n - 1 : r = a % n /\ a = n * q + r
<1>1. a % n \in 0 .. n - 1
  OBVIOUS
<1>2. a \div n \in Int
  OBVIOUS
<1>3. ASSUME NEW q, q = a \div n, NEW r, r = a % n
      PROVE  a = n * q + r
  BY <1>3
<1>4. PICK q, r : q = a \div n /\ r = a % n
  OBVIOUS
<1>5. a = n * q + r
  BY <1>3, <1>4
<1>6. q \in Int /\ r \in 0 .. n - 1
  BY <1>1, <1>2, <1>4
<1> QED
  BY <1>4, <1>5, <1>6

LEMMA OneTurn ==
    ASSUME NEW n \in Nat \ {0}, NEW s \in Int, n * s < n, n * s > -n
    PROVE  s = 0
<1>1. s >= 1 => n * s >= n
  OBVIOUS
<1>2. s <= -1 => n * s <= -n
  OBVIOUS
<1> QED
  BY <1>1, <1>2

LEMMA Size == UART_BUFFER_SIZE \in Nat \ {0}
BY ConsoleAssumption DEF U!UartConstants

(* Whole turns around a ring.                                              *)
Turns(z) == \E s \in Int : z = UART_BUFFER_SIZE * s

LEMMA TurnsAdd ==
    ASSUME NEW y, NEW z, Turns(y), Turns(z)
    PROVE  y \in Int /\ z \in Int /\ Turns(y + z) /\ Turns(y - z)
<1> DEFINE N == UART_BUFFER_SIZE
<1>1. PICK s \in Int : y = N * s
  BY DEF Turns
<1>2. PICK t \in Int : z = N * t
  BY DEF Turns
<1>3. y \in Int /\ z \in Int /\ N * (s + t) = N * s + N * t /\ N * (s - t) = N * s - N * t
  BY <1>1, <1>2, Size
<1>4. s + t \in Int /\ s - t \in Int
  OBVIOUS
<1> QED
  BY <1>1, <1>2, <1>3, <1>4 DEF Turns

LEMMA NoTurn ==
    ASSUME NEW z, Turns(z)
    PROVE  /\ z \in Int
           /\ z < UART_BUFFER_SIZE /\ z > -UART_BUFFER_SIZE => z = 0
<1>1. PICK s \in Int : z = UART_BUFFER_SIZE * s
  BY DEF Turns
<1>2. z \in Int
  BY <1>1, Size
<1>3. ASSUME z < UART_BUFFER_SIZE, z > -UART_BUFFER_SIZE
      PROVE  z = 0
  <2>1. s = 0
    BY <1>1, <1>3, Size, OneTurn
  <2> QED
    BY <1>1, <2>1, Size
<1> QED
  BY <1>2, <1>3

(* Numbers of the same place in a ring.                                    *)
LEMMA InRing ==
    ASSUME NEW a \in Int
    PROVE  /\ a % UART_BUFFER_SIZE \in 0 .. UART_BUFFER_SIZE - 1
           /\ Turns(a - (a % UART_BUFFER_SIZE))
<1> DEFINE N == UART_BUFFER_SIZE
<1>1. PICK q \in Int, r \in 0 .. N - 1 : r = a % N /\ a = N * q + r
  BY Size, Division
<1>2. N * q \in Int /\ r \in Int
  BY <1>1, Size
<1>3. a - r = N * q
  BY <1>1, <1>2
<1>4. Turns(a - r)
  BY <1>3 DEF Turns
<1> QED
  BY <1>1, <1>4

LEMMA SamePlace ==
    ASSUME NEW a \in Int, NEW b \in Int
    PROVE  a % UART_BUFFER_SIZE = b % UART_BUFFER_SIZE <=> Turns(a - b)
<1>1. PICK c \in 0 .. UART_BUFFER_SIZE - 1 : c = a % UART_BUFFER_SIZE /\ Turns(a - c)
  BY InRing
<1>2. PICK d \in 0 .. UART_BUFFER_SIZE - 1 : d = b % UART_BUFFER_SIZE /\ Turns(b - d)
  BY InRing
<1>3. c \in Int /\ d \in Int /\ c - d < UART_BUFFER_SIZE /\ c - d > -UART_BUFFER_SIZE
  BY Size
<1>4. Turns((a - c) - (b - d)) /\ Turns((b - d) - (a - c))
  BY <1>1, <1>2, TurnsAdd
<1>5. ASSUME c = d PROVE Turns(a - b)
  <2>1. (a - c) - (b - d) = a - b
    BY <1>3, <1>5
  <2> QED
    BY <1>4, <2>1
<1>6. ASSUME Turns(a - b) PROVE c = d
  <2>1. Turns((a - b) - ((a - c) - (b - d)))
    BY <1>4, <1>6, TurnsAdd
  <2>2. (a - b) - ((a - c) - (b - d)) = c - d
    BY <1>3
  <2>3. Turns(c - d)
    BY <2>1, <2>2
  <2>4. c - d = 0
    BY <1>3, <2>3, NoTurn
  <2> QED
    BY <1>3, <2>4
<1> QED
  BY <1>1, <1>2, <1>5, <1>6

-----------------------------------------------------------------------------
(* A message with its carriage returns is a sequence of bytes.             *)
LEMMA CrlfBytes ==
    ASSUME NEW m \in Messages
    PROVE  U!Crlf(m) \in Seq(U!Bytes)
<1> DEFINE B == U!Bytes
           Piece(i) == IF m[i] = LF THEN <<CR, LF>> ELSE <<m[i]>>
           Step(f) == [i \in 0 .. Len(m) |-> IF i = 0 THEN <<>> ELSE f[i - 1] \o Piece(i)]
           from == CHOOSE f : f = Step(f)
           Known(k) == \E f \in [0 .. k -> Seq(B)] :
                          /\ f[0] = <<>>
                          /\ \A i \in 1 .. k : f[i] = f[i - 1] \o Piece(i)
           S == {k \in Nat : k <= Len(m) => Known(k)}
<1>1. m \in Seq(B) /\ Len(m) \in Nat /\ \A i \in 1 .. Len(m) : m[i] \in B
  BY ConsoleAssumption, ElementOfSeq, LenProperties DEF U!UartConstants
<1>2. CR \in B /\ LF \in B /\ <<>> \in Seq(B)
  BY DEF U!Bytes
<1>3. \A i \in 1 .. Len(m) : Piece(i) \in Seq(B)
  BY <1>1, <1>2
<1>4. U!Crlf(m) = from[Len(m)]
  BY DEF U!Crlf, U!TheLine!Crlf
<1> HIDE DEF B, Piece
<1>a. \A k : k \in S <=> k \in Nat /\ (k <= Len(m) => Known(k))
  OBVIOUS
<1> HIDE DEF S
<1>5. 0 \in S
  <2> DEFINE f == [i \in 0 .. 0 |-> <<>>]
  <2>1. f \in [0 .. 0 -> Seq(B)] /\ f[0] = <<>> /\ \A i \in 1 .. 0 : f[i] = f[i - 1] \o Piece(i)
    BY <1>2
  <2> HIDE DEF f
  <2> QED
    BY <1>a, <2>1
<1>6. ASSUME NEW k \in Nat, k \in S
      PROVE  k + 1 \in S
  <2> SUFFICES ASSUME k + 1 <= Len(m)
               PROVE  Known(k + 1)
    <3> HIDE DEF Known
    <3> QED
      BY <1>6, <1>a
  <2>1. PICK f \in [0 .. k -> Seq(B)] :
             f[0] = <<>> /\ \A i \in 1 .. k : f[i] = f[i - 1] \o Piece(i)
    <3>1. k <= Len(m)
      BY <1>1
    <3>2. Known(k)
      <4> HIDE DEF Known
      <4> QED
        BY <1>6, <1>a, <3>1
    <3> QED
      BY <3>2
  <2> DEFINE g == [i \in 0 .. k + 1 |-> IF i = k + 1 THEN f[k] \o Piece(k + 1) ELSE f[i]]
  <2>2. f[k] \in Seq(B) /\ Piece(k + 1) \in Seq(B)
    BY <1>1, <1>3, <2>1
  <2>3. f[k] \o Piece(k + 1) \in Seq(B)
    BY <2>2, ConcatProperties
  <2>4. g \in [0 .. k + 1 -> Seq(B)]
    BY <2>1, <2>3
  <2>5. g[0] = <<>> /\ \A i \in 1 .. k + 1 : g[i] = g[i - 1] \o Piece(i)
    <3>1. ASSUME NEW i \in 1 .. k + 1
          PROVE  g[i] = g[i - 1] \o Piece(i)
      <4>1. CASE i = k + 1
        <5>1. i - 1 = k /\ k \in 0 .. k + 1 /\ k # k + 1
          BY <4>1
        <5>2. g[k] = f[k] /\ g[k + 1] = f[k] \o Piece(k + 1)
          BY <5>1
        <5> QED
          BY <4>1, <5>1, <5>2
      <4>2. CASE i # k + 1
        <5>1. i \in 1 .. k /\ i \in 0 .. k + 1 /\ i - 1 \in 0 .. k + 1 /\ i - 1 # k + 1
          BY <4>2
        <5>2. g[i] = f[i] /\ g[i - 1] = f[i - 1]
          BY <4>2, <5>1
        <5> QED
          BY <2>1, <5>1, <5>2
      <4> QED
        BY <4>1, <4>2
    <3>2. g[0] = f[0]
      <4>1. 0 \in 0 .. k + 1 /\ 0 # k + 1
        OBVIOUS
      <4> QED
        BY <4>1
    <3> QED
      BY <2>1, <3>1, <3>2
  <2> HIDE DEF g
  <2> QED
    BY <2>4, <2>5
<1>7. Known(Len(m))
  <2>1. Nat \subseteq S
    BY <1>5, <1>6, Induction
  <2> HIDE DEF Known
  <2> QED
    BY <1>1, <1>a, <2>1
<1>8. PICK f \in [0 .. Len(m) -> Seq(B)] :
           f[0] = <<>> /\ \A i \in 1 .. Len(m) : f[i] = f[i - 1] \o Piece(i)
  BY <1>7
<1>9. f = Step(f)
  <2>1. \A i \in 0 .. Len(m) : f[i] = Step(f)[i]
    BY <1>1, <1>8
  <2> QED
    BY <1>8, <2>1
<1>10. from = Step(from)
  <2> HIDE DEF Step
  <2> QED
    BY <1>9
<1> DEFINE W == {k \in Nat : k <= Len(m) => from[k] \in Seq(B)}
<1> HIDE DEF from
<1>b. \A k : k \in W <=> k \in Nat /\ (k <= Len(m) => from[k] \in Seq(B))
  OBVIOUS
<1> HIDE DEF W
<1>11. 0 \in W
  <2>1. 0 \in 0 .. Len(m)
    BY <1>1
  <2>2. from[0] = Step(from)[0]
    <3> HIDE DEF Step
    <3> QED
      BY <1>10
  <2> QED
    BY <1>2, <1>b, <2>1, <2>2
<1>12. ASSUME NEW k \in Nat, k \in W
       PROVE  k + 1 \in W
  <2> SUFFICES ASSUME k + 1 <= Len(m)
               PROVE  from[k + 1] \in Seq(B)
    BY <1>b
  <2>1. from[k] \in Seq(B) /\ Piece(k + 1) \in Seq(B)
    BY <1>1, <1>3, <1>12, <1>b
  <2>2. from[k + 1] = from[k] \o Piece(k + 1)
    <3>1. k + 1 \in 0 .. Len(m) /\ k + 1 # 0 /\ (k + 1) - 1 = k
      BY <1>1
    <3>2. from[k + 1] = Step(from)[k + 1]
      <4> HIDE DEF Step
      <4> QED
        BY <1>10
    <3> QED
      BY <3>1, <3>2
  <2> QED
    BY <2>1, <2>2, ConcatProperties
<1>13. from[Len(m)] \in Seq(B)
  <2>1. Nat \subseteq W
    BY <1>11, <1>12, Induction
  <2> QED
    BY <1>1, <1>b, <2>1
<1> QED
  BY <1>4, <1>13 DEF B

-----------------------------------------------------------------------------
(* The places of the ring, and the bytes from head to tail.                *)
Place(at, k) == (at + k - 1) % UART_BUFFER_SIZE
Between(buf, head, tail) ==
    [j \in 1 .. (tail + UART_BUFFER_SIZE - head) % UART_BUFFER_SIZE |-> buf[Place(head, j)]]

(* The first L places from head on hold q; and all is q, then bytes.       *)
Holds(buf, head, L, q) == \A j \in 1 .. L : q[j] = buf[Place(head, j)]
Joined(all, q, L, bytes, n) ==
    \A i \in 1 .. L + n : all[i] = IF i <= L THEN q[i] ELSE bytes[i - L]

Shifted(r, all, d, M) == \A j \in 1 .. M : r[j] = all[d + j]
Apart(head, tail, L) == Turns(tail - (head + L))
Over(d, L, n, M) == d \in Int /\ d = L + n - M

LEMMA PlaceType ==
    ASSUME NEW at \in U!Slots, NEW k \in Int
    PROVE  /\ Place(at, k) \in U!Slots
           /\ \A other \in U!Slots, l \in Int :
                 Place(at, k) = Place(other, l) <=> Turns((at + k) - (other + l))
<1>1. at + k - 1 \in Int /\ at \in Int
  BY Size DEF U!Slots
<1>2. Place(at, k) \in U!Slots
  BY <1>1, InRing DEF Place, U!Slots
<1>3. ASSUME NEW other \in U!Slots, NEW l \in Int
      PROVE  Place(at, k) = Place(other, l) <=> Turns((at + k) - (other + l))
  <2>1. other + l - 1 \in Int /\ other \in Int
    BY Size DEF U!Slots
  <2>2. Place(at, k) = Place(other, l) <=> Turns((at + k - 1) - (other + l - 1))
    BY <1>1, <2>1, SamePlace DEF Place
  <2>3. (at + k - 1) - (other + l - 1) = (at + k) - (other + l)
    BY <1>1, <2>1
  <2> QED
    BY <2>2, <2>3
<1> QED
  BY <1>2, <1>3

LEMMA RingIs ==
    ASSUME NEW buf \in [U!Slots -> U!Bytes], NEW head \in U!Slots, NEW tail \in U!Slots,
           NEW q, q = Between(buf, head, tail)
    PROVE  /\ q \in Seq(U!Bytes) /\ Len(q) \in 0 .. UART_BUFFER_SIZE - 1
           /\ Holds(buf, head, Len(q), q) /\ Apart(head, tail, Len(q))
           /\ Len(q) = 0 <=> head = tail
<1> DEFINE N == UART_BUFFER_SIZE
           a == tail + N - head
           n == a % N
<1>1. /\ N \in Nat \ {0} /\ head \in Nat /\ tail \in Nat /\ a \in Int /\ head < N /\ tail < N
  BY Size DEF U!Slots
<1>2. n \in 0 .. N - 1 /\ Turns(a - n)
  BY <1>1, InRing
<1>3. q = [j \in 1 .. n |-> buf[Place(head, j)]]
  BY DEF Between
<1> HIDE DEF n
<1>4. \A j \in 1 .. n : buf[Place(head, j)] \in U!Bytes
  <2> SUFFICES ASSUME NEW j \in 1 .. n
               PROVE  buf[Place(head, j)] \in U!Bytes
    OBVIOUS
  <2>1. j \in Int
    BY <1>1, <1>2
  <2>2. Place(head, j) \in U!Slots
    BY <2>1, PlaceType
  <2> QED
    BY <2>2
<1>5. q \in Seq(U!Bytes) /\ Len(q) = n
  BY <1>1, <1>2, <1>3, <1>4
<1>6. Turns(N)
  <2>1. UART_BUFFER_SIZE = UART_BUFFER_SIZE * 1 /\ 1 \in Int
    BY <1>1
  <2> QED
    BY <2>1, Zenon DEF Turns
<1>7. Turns(tail - (head + n))
  <2>1. Turns((a - n) - N)
    BY <1>2, <1>6, TurnsAdd
  <2>2. (a - n) - N = tail - (head + n)
    BY <1>1, <1>2
  <2> QED
    BY <2>1, <2>2
<1>8. n = 0 <=> head = tail
  <2>1. ASSUME head = tail PROVE n = 0
    <3>1. Turns(N - (a - n))
      BY <1>2, <1>6, TurnsAdd
    <3>2. N - (a - n) = n
      BY <1>1, <1>2, <2>1
    <3>3. Turns(n)
      BY <3>1, <3>2
    <3> QED
      BY <1>1, <1>2, <3>3, NoTurn
  <2>2. ASSUME n = 0 PROVE head = tail
    <3>1. tail - (head + n) = 0
      BY <1>1, <1>7, <2>2, NoTurn
    <3> QED
      BY <1>1, <2>2, <3>1
  <2> QED
    BY <2>1, <2>2
<1> QED
  BY <1>2, <1>3, <1>5, <1>7, <1>8 DEF Holds, Apart

LEMMA UnsentIs ==
    /\ U!Unsent  = Between(write_buf, write_head, write_tail)
    /\ U!Unsent' = Between(write_buf', write_head', write_tail')
BY DEF U!Unsent, Between, Place

(* What async_uart_puts leaves in the ring: each place has the last byte   *)
(* that was written there.                                                 *)
LastByte(bytes, n, buf, tail, new) ==
    \A p \in U!Slots :
        /\ \A k \in 1 .. n : Place(tail, k) = p /\ k + UART_BUFFER_SIZE > n => new[p] = bytes[k]
        /\ (\A k \in 1 .. n : Place(tail, k) # p) => new[p] = buf[p]

Ring ==
    /\ write_buf \in [U!Slots -> U!Bytes]
    /\ write_head \in U!Slots /\ write_tail \in U!Slots

LEMMA Filled ==
    ASSUME Ring, NEW m \in Messages, U!Fill(m)
    PROVE  /\ LastByte(U!Crlf(m), Len(U!Crlf(m)), write_buf, write_tail, write_buf')
           /\ \A p \in U!Slots : write_buf'[p] \in U!Bytes
<1> SUFFICES ASSUME NEW p \in U!Slots
             PROVE  /\ \A k \in 1 .. Len(U!Crlf(m)) :
                          Place(write_tail, k) = p /\ k + UART_BUFFER_SIZE > Len(U!Crlf(m))
                             => write_buf'[p] = U!Crlf(m)[k]
                    /\ (\A k \in 1 .. Len(U!Crlf(m)) : Place(write_tail, k) # p)
                          => write_buf'[p] = write_buf[p]
                    /\ write_buf'[p] \in U!Bytes
  BY DEF LastByte
<1> DEFINE N == UART_BUFFER_SIZE
           bytes == U!Crlf(m)
           n == Len(bytes)
           Written == {k \in 1 .. n : Place(write_tail, k) = p}
           Latest(k) == k \in Written /\ \A l \in Written : l <= k
           last == CHOOSE k \in Written : \A l \in Written : l <= k
<1>1. bytes \in Seq(U!Bytes) /\ n \in Nat
  BY CrlfBytes, LenProperties
<1>2. write_buf'[p] = IF Written = {} THEN write_buf[p] ELSE bytes[last]
  BY DEF U!Fill, Place
<1>3. N \in Nat \ {0} /\ write_tail \in Int /\ write_tail \in U!Slots
  BY Size DEF Ring, U!Slots
<1>4. \A k : Latest(k) => Latest(last)
  BY <1>1
<1>5. Written # {} => \E k : Latest(k)
  <2> SUFFICES ASSUME Written # {}
               PROVE  \E k : Latest(k)
    OBVIOUS
  <2> DEFINE Behind == {n - k : k \in Written}
  <2>1. Behind \in SUBSET Nat /\ Behind # {}
    BY <1>1
  <2>2. PICK b \in Behind : \A c \in Behind : b <= c
    <3> HIDE DEF Behind
    <3> QED
      BY <2>1, Least
  <2>3. PICK k \in Written : b = n - k
    BY <2>2
  <2>4. \A l \in Written : n - k <= n - l
    BY <2>2, <2>3
  <2>5. \A l \in Written : l <= k
    BY <1>1, <2>4
  <2> QED
    BY <2>5
<1>6. \A k \in Written : k + N > n => Latest(k)
  <2> SUFFICES ASSUME NEW k \in Written, k + N > n, NEW l \in Written, l > k
               PROVE  FALSE
    BY <1>1
  <2>1. k \in Int /\ l \in Int
    BY <1>1
  <2>2. Place(write_tail, l) = Place(write_tail, k)
    OBVIOUS
  <2>3. Turns((write_tail + l) - (write_tail + k))
    BY <1>3, <2>1, <2>2, PlaceType
  <2>4. (write_tail + l) - (write_tail + k) = l - k
    BY <1>3, <2>1
  <2>5. l - k > 0 /\ l - k < N
    BY <1>1, <1>3
  <2> QED
    BY <1>3, <2>1, <2>3, <2>4, <2>5, NoTurn
<1>7. \A k, l : Latest(k) /\ Latest(l) => k = l
  BY <1>1
<1> HIDE DEF last
<1>8. ASSUME NEW k \in 1 .. n, Place(write_tail, k) = p, k + N > n
      PROVE  write_buf'[p] = bytes[k]
  <2>1. k \in Written /\ Latest(k) /\ Latest(last)
    BY <1>4, <1>6, <1>8
  <2> QED
    BY <1>2, <1>7, <2>1
<1>9. write_buf'[p] \in U!Bytes
  <2>1. CASE Written = {}
    BY <1>2, <2>1 DEF Ring
  <2>2. CASE Written # {}
    <3>1. last \in 1 .. n
      BY <1>4, <1>5, <2>2
    <3>2. bytes[last] \in U!Bytes
      BY <1>1, <3>1, ElementOfSeq
    <3> QED
      BY <1>2, <2>2, <3>2
  <2> QED
    BY <2>1, <2>2
<1>10. (\A k \in 1 .. n : Place(write_tail, k) # p) => write_buf'[p] = write_buf[p]
  BY <1>2
<1> QED
  BY <1>8, <1>9, <1>10

(* The bytes between head and tail are then the last of all of them: q was *)
(* there before, r is there now.                                           *)
LEMMA LastOnes ==
    ASSUME NEW buf, NEW new, NEW head \in U!Slots, NEW tail \in U!Slots,
           NEW bytes, NEW n \in Nat, LastByte(bytes, n, buf, tail, new),
           NEW L \in 0 .. UART_BUFFER_SIZE - 1, NEW M \in 0 .. UART_BUFFER_SIZE - 1,
           NEW q, Holds(buf, head, L, q),
           NEW r, Holds(new, head, M, r),
           NEW all, Joined(all, q, L, bytes, n),
           Apart(head, tail, L), NEW d, Over(d, L, n, M), Turns(d)
    PROVE  d >= 0 /\ Shifted(r, all, d, M)
<1> USE DEF Holds, Joined, Apart, Over, Shifted
<1> DEFINE N == UART_BUFFER_SIZE
<1>1. N \in Nat \ {0} /\ d \in Int /\ head \in Int /\ tail \in Int /\ L \in Int /\ M \in Int
  BY Size DEF U!Slots
<1>2. d >= 0 /\ (d < N => d = 0)
  <2>1. d > -N
    BY <1>1
  <2> QED
    BY <1>1, <2>1, NoTurn
<1>3. ASSUME NEW j \in 1 .. M, d + j > L
      PROVE  r[j] = all[d + j]
  <2>1. PICK k \in 1 .. n : k = d + j - L
    BY <1>1, <1>2, <1>3
  <2>2. k + N > n /\ d + j \in 1 .. L + n /\ (d + j) - L = k /\ j \in Int /\ k \in Int
    BY <1>1, <1>2, <1>3, <2>1
  <2>3. Place(tail, k) = Place(head, j) /\ Place(head, j) \in U!Slots
    <3>1. Turns((tail - (head + L)) + d)
      BY TurnsAdd
    <3>2. (tail - (head + L)) + d = (tail + k) - (head + j)
      BY <1>1, <2>1, <2>2
    <3>3. Turns((tail + k) - (head + j))
      BY <3>1, <3>2
    <3> QED
      BY <2>2, <3>3, PlaceType
  <2>4. new[Place(head, j)] = bytes[k]
    BY <2>2, <2>3 DEF LastByte
  <2>5. all[d + j] = bytes[k]
    BY <1>1, <1>3, <2>2
  <2> QED
    BY <2>4, <2>5
<1>4. ASSUME NEW j \in 1 .. M, ~(d + j > L)
      PROVE  r[j] = all[d + j]
  <2>1. d = 0 /\ j \in 1 .. L /\ j \in 1 .. L + n /\ L + n = M /\ j \in Int
    BY <1>1, <1>2, <1>4
  <2>2. ASSUME NEW k \in 1 .. n, Place(tail, k) = Place(head, j)
        PROVE  FALSE
    <3>1. k \in Int
      OBVIOUS
    <3>2. Turns((tail + k) - (head + j))
      BY <2>1, <2>2, <3>1, PlaceType
    <3>3. Turns(((tail + k) - (head + j)) - (tail - (head + L)))
      BY <3>2, TurnsAdd
    <3>4. ((tail + k) - (head + j)) - (tail - (head + L)) = L + k - j
      BY <1>1, <2>1, <3>1
    <3>5. L + k - j > 0 /\ L + k - j < N
      BY <1>1, <2>1
    <3>6. Turns(L + k - j)
      BY <3>3, <3>4
    <3>7. L + k - j = 0
      BY <1>1, <3>5, <3>6, NoTurn
    <3> QED
      BY <3>5, <3>7
  <2>3. Place(head, j) \in U!Slots
    BY <2>1, PlaceType
  <2>4. new[Place(head, j)] = buf[Place(head, j)]
    BY <2>2, <2>3 DEF LastByte
  <2>5. all[d + j] = q[j]
    BY <2>1
  <2> QED
    BY <2>1, <2>4, <2>5
<1> QED
  BY <1>2, <1>3, <1>4

(* How many there are.                                                     *)
LEMMA HowMany ==
    ASSUME NEW head \in U!Slots, NEW tail \in U!Slots, NEW end \in U!Slots, NEW n \in Nat,
           NEW L \in 0 .. UART_BUFFER_SIZE - 1, NEW M \in 0 .. UART_BUFFER_SIZE - 1,
           Turns(tail - (head + L)), Turns(end - (head + M)), Turns((tail + n) - end)
    PROVE  Turns(L + n - M) /\ (L + n) % UART_BUFFER_SIZE = M
<1>1. head \in Int /\ tail \in Int /\ end \in Int /\ L \in Int /\ M \in Int
  BY Size DEF U!Slots
<1>2. Turns(((tail + n) - end) - (tail - (head + L)))
  BY TurnsAdd
<1>3. Turns((((tail + n) - end) - (tail - (head + L))) + (end - (head + M)))
  BY <1>2, TurnsAdd
<1>4. (((tail + n) - end) - (tail - (head + L))) + (end - (head + M)) = L + n - M
  BY <1>1
<1>5. Turns(L + n - M)
  BY <1>3, <1>4
<1>6. (L + n) % UART_BUFFER_SIZE = M
  <2>1. L + n \in Int
    BY <1>1
  <2>2. PICK c \in 0 .. UART_BUFFER_SIZE - 1 :
            c = (L + n) % UART_BUFFER_SIZE /\ Turns((L + n) - c)
    BY <2>1, InRing
  <2>3. Turns((L + n - M) - ((L + n) - c))
    BY <1>5, <2>2, TurnsAdd
  <2>4. (L + n - M) - ((L + n) - c) = c - M /\ c - M < UART_BUFFER_SIZE /\ c - M > -UART_BUFFER_SIZE
    BY <1>1, Size
  <2>5. c - M = 0
    BY <2>3, <2>4, NoTurn
  <2> QED
    BY <1>1, <2>2, <2>5
<1> QED
  BY <1>5, <1>6

LEMMA Cut ==
    ASSUME NEW S, NEW s \in Seq(S), NEW r \in Seq(S), NEW d \in Nat, Len(s) = d + Len(r),
           Shifted(r, s, d, Len(r))
    PROVE  r = U!TheLine!LastOf(s, Len(r))
<1>1. Len(s) \in Nat /\ Len(r) \in Nat
  BY LenProperties
<1>2. U!TheLine!LastOf(s, Len(r)) = SubSeq(s, d + 1, Len(s))
  <2>1. Len(s) - Len(r) + 1 = d + 1
    BY <1>1
  <2> QED
    BY <2>1 DEF U!TheLine!LastOf
<1>3. \A i \in d + 1 .. Len(s) : s[i] \in S
  BY <1>1, ElementOfSeq
<1>4. PICK cut : cut = SubSeq(s, d + 1, Len(s))
  OBVIOUS
<1>5. /\ cut \in Seq(S) /\ Len(cut) = IF d + 1 <= Len(s) THEN Len(s) - (d + 1) + 1 ELSE 0
      /\ \A i \in 1 .. Len(s) - (d + 1) + 1 : cut[i] = s[(d + 1) + i - 1]
  <2>1. d + 1 \in Int /\ Len(s) \in Int
    BY <1>1
  <2> QED
    BY <1>3, <1>4, <2>1, SubSeqProperties
<1>6. Len(cut) = Len(r) /\ Len(s) - (d + 1) + 1 = Len(r)
  BY <1>1, <1>5
<1>7. \A i \in 1 .. Len(r) : cut[i] = r[i]
  <2> SUFFICES ASSUME NEW i \in 1 .. Len(r)
               PROVE  cut[i] = r[i]
    OBVIOUS
  <2>1. (d + 1) + i - 1 = d + i
    BY <1>1
  <2> QED
    BY <1>5, <1>6, <2>1 DEF Shifted
<1>8. cut = r
  BY <1>5, <1>6, <1>7, SeqEqual
<1> QED
  BY <1>2, <1>4, <1>8

(* Together: q before, r after bytes are put there.                        *)
EndOf(tail, n, end) == end = (tail + n) % UART_BUFFER_SIZE
PutAs(q, bytes, r) == r = U!TheLine!LastOf(q \o bytes, Len(q \o bytes) % UART_BUFFER_SIZE)

LEMMA Appended ==
    ASSUME NEW buf \in [U!Slots -> U!Bytes], NEW new \in [U!Slots -> U!Bytes],
           NEW head \in U!Slots, NEW tail \in U!Slots, NEW end \in U!Slots,
           NEW bytes \in Seq(U!Bytes), NEW n \in Nat, n = Len(bytes),
           LastByte(bytes, n, buf, tail, new), EndOf(tail, n, end),
           NEW q, q = Between(buf, head, tail), NEW r, r = Between(new, head, end)
    PROVE  PutAs(q, bytes, r)
<1>1. Turns((tail + n) - end)
  <2>1. tail + n \in Int
    BY Size DEF U!Slots
  <2> QED
    BY <2>1, InRing DEF EndOf
<1>2. PICK L : L = Len(q)
  OBVIOUS
<1>3. PICK M : M = Len(r)
  OBVIOUS
<1>4. q \in Seq(U!Bytes) /\ L \in 0 .. UART_BUFFER_SIZE - 1 /\ Holds(buf, head, L, q) /\ Apart(head, tail, L)
  BY <1>2, RingIs
<1>5. r \in Seq(U!Bytes) /\ M \in 0 .. UART_BUFFER_SIZE - 1 /\ Holds(new, head, M, r) /\ Apart(head, end, M)
  BY <1>3, RingIs
<1>6. PICK d : d = L + n - M
  OBVIOUS
<1>7. Over(d, L, n, M) /\ Turns(d) /\ (L + n) % UART_BUFFER_SIZE = M
  <2>1. Turns(L + n - M) /\ (L + n) % UART_BUFFER_SIZE = M
    BY <1>1, <1>4, <1>5, HowMany DEF Apart
  <2> QED
    BY <1>6, <2>1, NoTurn DEF Over
<1>8. PICK all : all = q \o bytes
  OBVIOUS
<1>9. all \in Seq(U!Bytes) /\ Len(all) = L + n /\ Joined(all, q, L, bytes, n)
  BY <1>2, <1>4, <1>8, ConcatProperties DEF Joined
<1>10. d >= 0 /\ Shifted(r, all, d, M)
  BY <1>4, <1>5, <1>7, <1>9, LastOnes
<1>11. r = U!TheLine!LastOf(all, M)
  <2>1. L \in Int /\ M \in Int /\ d \in Int
    BY <1>4, <1>5, <1>7 DEF Over
  <2>2. Len(all) = d + M /\ d \in Nat
    BY <1>9, <1>10, <1>7, <2>1 DEF Over
  <2> QED
    BY <1>3, <1>5, <1>9, <1>10, <2>2, Cut
<1> QED
  BY <1>7, <1>8, <1>9, <1>11 DEF PutAs

(* So async_uart_puts does what Line says.                                 *)
LEMMA PutRefines ==
    ASSUME Ring, NEW m \in Messages, U!Fill(m), write_head' = write_head
    PROVE  Ring' /\ U!TheLine!Put(m)
<1>1. PICK bytes \in Seq(U!Bytes), n \in Nat : bytes = U!Crlf(m) /\ n = Len(bytes)
  BY CrlfBytes, LenProperties
<1>2. write_tail \in Int /\ write_tail + n \in Int
  BY <1>1, Size DEF Ring, U!Slots
<1>3. EndOf(write_tail, n, write_tail') /\ write_tail' \in U!Slots
  <2>1. write_tail' = (write_tail + n) % UART_BUFFER_SIZE
    BY <1>1 DEF U!Fill
  <2> QED
    BY <1>2, <2>1, InRing DEF U!Slots, EndOf
<1>4. Ring'
  <2>1. write_buf' = [i \in U!Slots |-> write_buf'[i]]
    BY DEF U!Fill
  <2>2. \A i \in U!Slots : write_buf'[i] \in U!Bytes
    BY Filled
  <2>3. write_buf' \in [U!Slots -> U!Bytes]
    BY <2>1, <2>2
  <2> QED
    BY <1>3, <2>3 DEF Ring
<1>5. LastByte(bytes, n, write_buf, write_tail, write_buf')
  BY <1>1, Filled
<1>6. PICK q : q = U!Unsent
  OBVIOUS
<1>7. PICK r : r = U!Unsent'
  OBVIOUS
<1>8. q = Between(write_buf, write_head, write_tail) /\ r = Between(write_buf', write_head, write_tail')
  BY <1>6, <1>7, UnsentIs
<1>9. PutAs(q, bytes, r)
  <2>1. /\ write_buf \in [U!Slots -> U!Bytes] /\ write_buf' \in [U!Slots -> U!Bytes]
        /\ write_head \in U!Slots /\ write_tail \in U!Slots /\ write_tail' \in U!Slots
    BY <1>3, <1>4 DEF Ring
  <2> QED
    <3>1. PICK buf, new, head, tail, end :
              /\ buf = write_buf /\ new = write_buf' /\ head = write_head
              /\ tail = write_tail /\ end = write_tail'
      OBVIOUS
    <3>2. /\ buf \in [U!Slots -> U!Bytes] /\ new \in [U!Slots -> U!Bytes]
          /\ head \in U!Slots /\ tail \in U!Slots /\ end \in U!Slots
          /\ LastByte(bytes, n, buf, tail, new) /\ EndOf(tail, n, end)
          /\ q = Between(buf, head, tail) /\ r = Between(new, head, end)
      BY <1>3, <1>5, <1>8, <2>1, <3>1
    <3> QED
      BY <1>1, <3>2, Appended
<1> QED
  BY <1>1, <1>4, <1>6, <1>7, <1>9 DEF PutAs, U!TheLine!Put, U!Crlf

(* Taking the byte at the head.                                            *)
Follows(head, next) == next = (head + 1) % UART_BUFFER_SIZE

LEMMA OneSent ==
    ASSUME NEW buf \in [U!Slots -> U!Bytes], NEW head \in U!Slots, NEW next \in U!Slots,
           NEW tail \in U!Slots, head # tail, Follows(head, next),
           NEW q, q = Between(buf, head, tail), NEW r, r = Between(buf, next, tail)
    PROVE  q # <<>> /\ Head(q) = buf[head] /\ r = Tail(q)
<1>1. UART_BUFFER_SIZE \in Nat \ {0} /\ head \in Int /\ next \in Int /\ tail \in Int
  BY Size DEF U!Slots
<1>2. Turns((head + 1) - next)
  <2>1. head + 1 \in Int
    BY <1>1
  <2> QED
    BY <2>1, InRing DEF Follows
<1>3. PICK L : L = Len(q)
  OBVIOUS
<1>4. PICK M : M = Len(r)
  OBVIOUS
<1>5. /\ q \in Seq(U!Bytes) /\ L \in 0 .. UART_BUFFER_SIZE - 1
      /\ Holds(buf, head, L, q) /\ Apart(head, tail, L) /\ L # 0
  BY <1>3, RingIs
<1>6. /\ r \in Seq(U!Bytes) /\ M \in 0 .. UART_BUFFER_SIZE - 1
      /\ Holds(buf, next, M, r) /\ Apart(next, tail, M)
  BY <1>4, RingIs
<1>7. L \in Int /\ M \in Int /\ L > 0
  BY <1>1, <1>5, <1>6
<1>8. M = L - 1
  <2>1. Turns((tail - (next + M)) - (tail - (head + L)))
    BY <1>5, <1>6, TurnsAdd DEF Apart
  <2>2. Turns(((tail - (next + M)) - (tail - (head + L))) - ((head + 1) - next))
    BY <1>2, <2>1, TurnsAdd
  <2>3. ((tail - (next + M)) - (tail - (head + L))) - ((head + 1) - next) = (L - 1) - M
    BY <1>1, <1>7
  <2>4. Turns((L - 1) - M)
    BY <2>2, <2>3
  <2>5. (L - 1) - M < UART_BUFFER_SIZE /\ (L - 1) - M > -UART_BUFFER_SIZE
    BY <1>1, <1>5, <1>6, <1>7
  <2>6. (L - 1) - M = 0
    BY <2>4, <2>5, NoTurn
  <2> QED
    BY <1>7, <2>6
<1>9. q[1] = buf[head]
  <2>1. (head + 1 - 1) % UART_BUFFER_SIZE = head
    <3>1. PICK c \in 0 .. UART_BUFFER_SIZE - 1 : c = head % UART_BUFFER_SIZE /\ Turns(head - c)
      BY <1>1, InRing
    <3>2. head - c < UART_BUFFER_SIZE /\ head - c > -UART_BUFFER_SIZE
      BY <1>1, <3>1 DEF U!Slots
    <3>3. head - c = 0
      BY <3>1, <3>2, NoTurn
    <3>4. c = head
      BY <1>1, <3>1, <3>3
    <3>5. head + 1 - 1 = head
      BY <1>1
    <3> QED
      BY <3>1, <3>4, <3>5
  <2>2. 1 \in 1 .. L
    BY <1>7
  <2> QED
    BY <1>5, <2>1, <2>2 DEF Holds, Place
<1>10. \A j \in 1 .. M : r[j] = q[j + 1]
  <2> SUFFICES ASSUME NEW j \in 1 .. M
               PROVE  r[j] = q[j + 1]
    OBVIOUS
  <2>1. j \in Int /\ j + 1 \in Int /\ j + 1 \in 1 .. L
    BY <1>7, <1>8
  <2>2. Place(head, j + 1) = Place(next, j)
    <3>1. (head + (j + 1)) - (next + j) = (head + 1) - next
      BY <1>1, <2>1
    <3>2. Turns((head + (j + 1)) - (next + j))
      BY <1>2, <3>1
    <3> QED
      BY <2>1, <3>2, PlaceType
  <2>3. r[j] = buf[Place(next, j)] /\ q[j + 1] = buf[Place(head, j + 1)]
    BY <1>5, <1>6, <2>1 DEF Holds
  <2> QED
    BY <2>2, <2>3
<1>11. q # <<>> /\ Head(q) = q[1]
  BY <1>3, <1>5, <1>7
<1>12. Tail(q) = r
  <2>1. /\ Tail(q) \in Seq(U!Bytes) /\ Len(Tail(q)) = Len(q) - 1
        /\ \A i \in 1 .. Len(Tail(q)) : Tail(q)[i] = q[i + 1]
    BY <1>5, <1>11, HeadTailProperties
  <2> QED
    BY <1>3, <1>4, <1>6, <1>8, <1>10, <2>1, SeqEqual
<1> QED
  BY <1>9, <1>11, <1>12

LEMMA SendRefines ==
    ASSUME Ring, U!SendByte
    PROVE  Ring' /\ U!TheLine!Send
<1>1. /\ write_head # write_tail /\ UNCHANGED <<write_buf, write_tail>>
      /\ write_head' = (write_head + 1) % UART_BUFFER_SIZE
      /\ io' = write_buf[write_head]
  BY DEF U!SendByte, U!Inc
<1>2. write_head' \in U!Slots /\ Follows(write_head, write_head')
  <2>1. write_head + 1 \in Int
    BY Size DEF Ring, U!Slots
  <2> QED
    BY <1>1, <2>1, InRing DEF U!Slots, Follows
<1>3. PICK q : q = U!Unsent
  OBVIOUS
<1>4. PICK r : r = U!Unsent'
  OBVIOUS
<1>5. /\ q = Between(write_buf, write_head, write_tail)
      /\ r = Between(write_buf, write_head', write_tail)
  BY <1>1, <1>3, <1>4, UnsentIs
<1>6. q # <<>> /\ Head(q) = write_buf[write_head] /\ r = Tail(q)
  <2>1. PICK buf, head, next, tail :
            /\ buf = write_buf /\ head = write_head /\ next = write_head' /\ tail = write_tail
    OBVIOUS
  <2>2. /\ buf \in [U!Slots -> U!Bytes] /\ head \in U!Slots /\ next \in U!Slots
        /\ tail \in U!Slots /\ head # tail /\ Follows(head, next)
        /\ q = Between(buf, head, tail) /\ r = Between(buf, next, tail)
    BY <1>1, <1>2, <1>5, <2>1 DEF Ring
  <2> QED
    BY <2>1, <2>2, OneSent
<1> QED
  BY <1>1, <1>2, <1>3, <1>4, <1>6 DEF Ring, U!TheLine!Send

-----------------------------------------------------------------------------
(* The state of the UART and the shell, with what the reader leaves in the *)
(* ring: while the receive interrupt is being enabled again, one character *)
(* less than while the ring is read.                                       *)
RxOn == IF "rx" \in ier THEN 1 ELSE 0
UartTypes ==
    /\ Ring /\ unread \in U!Slots
    /\ ier \in SUBSET {"rx", "tx"} /\ loaded \in SUBSET {"rx", "tx"}
    /\ typed \in 0 .. FifoSize /\ sending \in BOOLEAN
    /\ pc \in {"shell", "gets", "load_rx", "store_rx", "echo", "load_tx", "store_tx"}
ReadEnough ==
    /\ Reading => unread + RxOn <= 2
    /\ pc \in {"load_rx", "store_rx"} => unread + RxOn <= 1
LineTypes ==
    /\ line \in Lines /\ asked \in [T!Timers -> Messages]
    /\ running \in {"main", "tick", "shell"}

(* The transmit handler runs only between two steps of main's shell.       *)
Masked == running # "main" => ~sending

ConsoleInv == UartTypes /\ ReadEnough /\ LineTypes /\ Masked

(* What a step does to the UART.                                           *)
ShellMoves ==
    \/ U!TestStart \/ U!RecvChar \/ U!GetsWait \/ U!GetsChar
    \/ U!Load("load_rx", "store_rx") \/ U!Store("rx", "store_rx", "gets")
    \/ U!Load("load_tx", "store_tx") \/ U!Store("tx", "store_tx", "shell")
ShellPuts(m) == U!Puts(m) \/ U!Echo(m)
LeftInTick == running = "tick" /\ running' = "shell"

LEMMA TextType ==
    ASSUME line \in Lines, NEW cb \in Callbacks
    PROVE  Text(cb) \in Messages
BY ConsoleAssumption DEF Text

LEMMA UartSteps ==
    ASSUME line \in Lines, Masked, [Next]_vars
    PROVE  \/ UNCHANGED uart
           \/ ~sending /\ ShellMoves
           \/ U!ShellStarts /\ LeftInTick
           \/ \E m \in Messages : ShellPuts(m)
           \/ \E m \in Messages : U!PutsInTick(m)
           \/ U!RxInterrupt \/ U!TxInterrupt \/ U!SendByte \/ U!SendDone \/ U!Type
<1>1. CASE ReadCommand \/ SetTimer \/ SetTimerFull \/ BeginTick \/ Count \/ UNCHANGED vars
  BY <1>1 DEF ReadCommand, SetTimer, SetTimerFull, BeginTick, Count, vars
<1>2. CASE Command \/ Shell
  BY <1>2 DEF Command, Shell, U!Command, U!Shell, ShellMoves, ShellPuts, ShellRuns, Unmasked, Masked
<1>3. CASE WriteMessage
  BY <1>3, TextType DEF WriteMessage
<1>4. CASE RxInterrupt \/ TxInterrupt \/ Sending \/ Type
  BY <1>4 DEF RxInterrupt, TxInterrupt, Sending, Type, U!Sending
<1>5. CASE Schedule
  BY <1>5 DEF Schedule, LeftInTick
<1> QED
  BY <1>1, <1>2, <1>3, <1>4, <1>5 DEF Next, Tick

LEMMA ShellMovesStep ==
    ASSUME UartTypes, ReadEnough, ShellMoves
    PROVE  UartTypes' /\ ReadEnough' /\ UNCHANGED <<U!Unsent, io>>
<1> USE DEF U!writing
<1>1. UNCHANGED <<write_buf, write_head, write_tail, io, sending>>
  BY DEF ShellMoves, U!TestStart, U!RecvChar, U!GetsWait, U!GetsChar, U!Load, U!Store
<1>2. Ring' /\ UNCHANGED <<U!Unsent, io>>
  BY <1>1 DEF UartTypes, Ring, U!Unsent
<1>3. /\ unread \in Nat /\ unread < UART_BUFFER_SIZE /\ typed \in Int /\ FifoSize \in Nat
      /\ UART_BUFFER_SIZE \in Nat /\ RxOn \in {0, 1}
  BY ConsoleAssumption DEF UartTypes, U!UartConstants, U!Slots, RxOn
<1>4. CASE U!TestStart
  <2>1. unread' = 0 /\ pc' = "gets" /\ UNCHANGED <<ier, typed, loaded>>
    BY <1>4 DEF U!TestStart
  <2> QED
    BY <1>1, <1>2, <1>3, <2>1, Size DEF UartTypes, ReadEnough, RxOn, U!Slots
<1>5. CASE U!RecvChar
  <2>1. pc = "shell" /\ typed > 0 /\ typed' = typed - 1 /\ UNCHANGED <<unread, ier, pc, loaded>>
    BY <1>5 DEF U!RecvChar
  <2> QED
    BY <1>1, <1>2, <1>3, <2>1 DEF UartTypes, ReadEnough, Reading
<1>6. CASE U!GetsWait
  <2>1. unread = 0 /\ pc' = "load_rx" /\ UNCHANGED <<unread, ier, typed, loaded>>
    BY <1>6 DEF U!GetsWait
  <2> QED
    BY <1>1, <1>2, <1>3, <2>1 DEF UartTypes, ReadEnough, RxOn
<1>7. CASE U!GetsChar
  <2>1. /\ pc = "gets" /\ unread # 0 /\ unread' = unread - 1 /\ pc' \in {"gets", "echo"}
        /\ UNCHANGED <<ier, typed, loaded>>
    BY <1>7 DEF U!GetsChar
  <2> QED
    BY <1>1, <1>2, <1>3, <2>1 DEF UartTypes, ReadEnough, Reading, RxOn, U!Slots
<1>8. CASE U!Load("load_rx", "store_rx") \/ U!Load("load_tx", "store_tx")
  <2>1. /\ loaded' = ier /\ UNCHANGED <<unread, ier, typed>>
        /\ \/ pc = "load_rx" /\ pc' = "store_rx"
           \/ pc' = "store_tx"
    BY <1>8 DEF U!Load
  <2> QED
    BY <1>1, <1>2, <1>3, <2>1 DEF UartTypes, ReadEnough, Reading, RxOn
<1>9. CASE U!Store("rx", "store_rx", "gets")
  <2>1. /\ pc = "store_rx" /\ pc' = "gets" /\ ier' = loaded \cup {"rx"} /\ loaded' = {}
        /\ UNCHANGED <<unread, typed>>
    BY <1>9 DEF U!Store
  <2>2. unread <= 1
    BY <1>3, <2>1 DEF ReadEnough
  <2> QED
    BY <1>1, <1>2, <1>3, <2>1, <2>2 DEF UartTypes, ReadEnough, RxOn
<1>10. CASE U!Store("tx", "store_tx", "shell")
  <2>1. pc' = "shell" /\ ier' = loaded \cup {"tx"} /\ loaded' = {} /\ UNCHANGED <<unread, typed>>
    BY <1>10 DEF U!Store
  <2> QED
    BY <1>1, <1>2, <1>3, <2>1 DEF UartTypes, ReadEnough, Reading
<1> QED
  BY <1>4, <1>5, <1>6, <1>7, <1>8, <1>9, <1>10 DEF ShellMoves

LEMMA PutsStep ==
    ASSUME UartTypes, ReadEnough, NEW m \in Messages, ShellPuts(m) \/ U!PutsInTick(m)
    PROVE  UartTypes' /\ ReadEnough' /\ U!TheLine!Put(m) /\ UNCHANGED io
<1>1. /\ U!Fill(m) /\ UNCHANGED <<write_head, unread, io, typed, sending, loaded>>
      /\ \/ pc' = "load_tx" /\ UNCHANGED ier
         \/ pc' = pc /\ ier' = ier \cup {"tx"}
  BY DEF ShellPuts, U!Puts, U!Echo, U!PutsFrom, U!PutsInTick
<1>2. Ring' /\ U!TheLine!Put(m)
  BY <1>1, PutRefines DEF UartTypes
<1>3. UartTypes'
  BY <1>1, <1>2 DEF UartTypes
<1>4. ReadEnough'
  BY <1>1 DEF ReadEnough, Reading, RxOn
<1> QED
  BY <1>1, <1>2, <1>3, <1>4

LEMMA NextPlace ==
    ASSUME NEW n \in Nat
    PROVE  /\ (n + 1) % UART_BUFFER_SIZE \in U!Slots
           /\ n + 1 < UART_BUFFER_SIZE => (n + 1) % UART_BUFFER_SIZE = n + 1
<1>1. PICK c \in 0 .. UART_BUFFER_SIZE - 1 : c = (n + 1) % UART_BUFFER_SIZE /\ Turns((n + 1) - c)
  <2>1. n + 1 \in Int
    OBVIOUS
  <2> QED
    BY <2>1, InRing
<1>2. ASSUME n + 1 < UART_BUFFER_SIZE PROVE c = n + 1
  <2>1. c \in Int /\ (n + 1) - c < UART_BUFFER_SIZE /\ (n + 1) - c > -UART_BUFFER_SIZE
    BY <1>2, Size
  <2>2. (n + 1) - c = 0
    BY <1>1, <2>1, NoTurn
  <2> QED
    BY <2>1, <2>2
<1> QED
  BY <1>1, <1>2 DEF U!Slots

LEMMA InterruptStep ==
    ASSUME UartTypes, ReadEnough, U!RxInterrupt \/ U!TxInterrupt \/ U!Type
    PROVE  UartTypes' /\ ReadEnough' /\ UNCHANGED <<U!Unsent, io>>
<1> USE DEF U!writing
<1>1. UNCHANGED <<write_buf, write_head, write_tail, io, pc, loaded>>
  BY DEF U!RxInterrupt, U!TxInterrupt, U!Type
<1>2. Ring' /\ UNCHANGED <<U!Unsent, io>>
  BY <1>1 DEF UartTypes, Ring, U!Unsent
<1>3. /\ unread \in Nat /\ unread < UART_BUFFER_SIZE /\ typed \in Nat /\ FifoSize \in Nat
      /\ UART_BUFFER_SIZE \in Nat /\ UART_BUFFER_SIZE > 2
  BY ConsoleAssumption DEF UartTypes, U!UartConstants, U!Slots
<1>4. CASE U!RxInterrupt
  <2>1. /\ "rx" \in ier /\ typed > 0 /\ ier' = ier \ {"rx"} /\ typed' = typed - 1
        /\ unread' = U!Inc(unread) /\ UNCHANGED sending
    BY <1>4 DEF U!RxInterrupt, U!RxPending
  <2>2. unread' \in U!Slots /\ (unread + 1 < UART_BUFFER_SIZE => unread' = unread + 1)
    BY <1>3, <2>1, NextPlace DEF U!Inc
  <2>3. RxOn = 1 /\ RxOn' = 0
    BY <2>1 DEF RxOn
  <2>4. UartTypes'
    BY <1>1, <1>2, <1>3, <2>1, <2>2 DEF UartTypes
  <2>5. ReadEnough'
    <3>1. Reading' => Reading /\ unread + 1 < UART_BUFFER_SIZE
      BY <1>1, <1>3, <2>3 DEF ReadEnough, Reading
    <3>2. pc \in {"load_rx", "store_rx"} => Reading
      BY DEF Reading
    <3>3. Reading => unread' + RxOn' = unread + RxOn
      BY <1>1, <1>3, <2>2, <2>3, <3>1 DEF Reading
    <3> QED
      BY <1>1, <3>1, <3>2, <3>3 DEF ReadEnough
  <2> QED
    BY <1>2, <2>4, <2>5
<1>5. CASE U!TxInterrupt
  <2>1. ier' = ier \ {"tx"} /\ sending' = TRUE /\ UNCHANGED <<unread, typed>>
    BY <1>5 DEF U!TxInterrupt
  <2>2. RxOn' = RxOn
    BY <2>1 DEF RxOn
  <2> QED
    BY <1>1, <1>2, <2>1, <2>2 DEF UartTypes, ReadEnough, Reading
<1>6. CASE U!Type
  <2>1. typed < FifoSize /\ typed' = typed + 1 /\ UNCHANGED <<ier, unread, sending>>
    BY <1>6 DEF U!Type
  <2> QED
    BY <1>1, <1>2, <1>3, <2>1 DEF UartTypes, ReadEnough, Reading, RxOn
<1> QED
  BY <1>4, <1>5, <1>6

LEMMA StartsStep ==
    ASSUME UartTypes, ReadEnough, U!ShellStarts
    PROVE  UartTypes' /\ ReadEnough' /\ UNCHANGED <<U!Unsent, io>>
<1>1. /\ UNCHANGED <<write_buf, write_head, write_tail, unread, ier, io, typed, sending>>
      /\ pc' = "shell" /\ loaded' = {}
  BY DEF U!ShellStarts, U!writing
<1>2. Ring' /\ UNCHANGED <<U!Unsent, io>>
  BY <1>1 DEF UartTypes, Ring, U!Unsent
<1> QED
  BY <1>1, <1>2 DEF UartTypes, ReadEnough, Reading

LEMMA SendingStep ==
    ASSUME UartTypes, ReadEnough, U!SendByte \/ U!SendDone
    PROVE  UartTypes' /\ ReadEnough' /\ (U!TheLine!Send \/ U!TheLine!Sent)
<1> USE DEF U!writing
<1>1. UNCHANGED <<unread, ier, typed, pc, loaded>> /\ sending' \in BOOLEAN
  BY DEF U!SendByte, U!SendDone, UartTypes
<1>2. Ring' /\ (U!TheLine!Send \/ U!TheLine!Sent)
  <2>1. CASE U!SendByte
    BY <2>1, SendRefines DEF UartTypes
  <2>2. CASE U!SendDone
    BY <2>2 DEF U!SendDone, UartTypes, Ring, U!Unsent, U!TheLine!Sent
  <2> QED
    BY <2>1, <2>2
<1> QED
  BY <1>1, <1>2 DEF UartTypes, ReadEnough, Reading, RxOn

LEMMA MaskedStep ==
    ASSUME Masked, [Next]_vars
    PROVE  Masked'
<1> USE DEF Masked
<1>1. CASE BeginTick
  BY <1>1 DEF BeginTick, Unmasked, uart
<1>2. CASE Schedule
  BY <1>2 DEF Schedule, U!ShellStarts, uart
<1>3. CASE TxInterrupt
  BY <1>3 DEF TxInterrupt, Unmasked
<1>4. CASE RxInterrupt \/ Type
  BY <1>4 DEF RxInterrupt, Type, U!RxInterrupt, U!Type
<1>5. CASE Sending
  BY <1>5 DEF Sending, U!Sending, U!SendByte, U!SendDone
<1>6. CASE Command \/ Shell
  BY <1>6 DEF Command, Shell, U!Command, U!Shell, U!Puts, U!Echo, U!PutsFrom, U!TestStart,
              U!RecvChar, U!GetsWait, U!GetsChar, U!Load, U!Store
<1>7. CASE Tick
  BY <1>7 DEF Tick, Count, WriteMessage, U!PutsInTick, uart
<1>8. CASE ReadCommand \/ SetTimer \/ SetTimerFull \/ UNCHANGED vars
  BY <1>8 DEF ReadCommand, SetTimer, SetTimerFull, vars, uart
<1> QED
  BY <1>1, <1>2, <1>3, <1>4, <1>5, <1>6, <1>7, <1>8 DEF Next

LEMMA ConsoleStep ==
    ASSUME ConsoleInv, [Next]_vars
    PROVE  ConsoleInv'
<1>1. UartTypes /\ ReadEnough /\ line \in Lines /\ Masked
  BY DEF ConsoleInv, LineTypes
<1>2. UartTypes' /\ ReadEnough'
  <2>1. CASE UNCHANGED uart
    BY <1>1, <2>1 DEF uart, UartTypes, Ring, ReadEnough, Reading, RxOn
  <2>2. CASE ShellMoves
    BY <1>1, <2>2, ShellMovesStep
  <2>3. CASE \E m \in Messages : ShellPuts(m) \/ U!PutsInTick(m)
    BY <1>1, <2>3, PutsStep
  <2>4. CASE U!RxInterrupt \/ U!TxInterrupt \/ U!Type
    BY <1>1, <2>4, InterruptStep
  <2>5. CASE U!SendByte \/ U!SendDone
    BY <1>1, <2>5, SendingStep
  <2>6. CASE U!ShellStarts
    BY <1>1, <2>6, StartsStep
  <2> QED
    BY <1>1, <2>1, <2>2, <2>3, <2>4, <2>5, <2>6, UartSteps
<1>3. LineTypes'
  <2>1. CASE ReadCommand
    BY <2>1 DEF ReadCommand, ConsoleInv, LineTypes
  <2>2. CASE SetTimer
    <3>1. PICK cb \in Callbacks, timeout \in Timeouts : Asks(cb, timeout)
      BY <2>2 DEF SetTimer
    <3>2. Text(cb) \in Messages
      BY <1>1, TextType
    <3> QED
      BY <2>2, <3>1, <3>2 DEF SetTimer, Asks, ConsoleInv, LineTypes
  <2>3. CASE UNCHANGED <<line, asked>> /\ running' \in {running, "main", "tick", "shell"}
    BY <2>3 DEF ConsoleInv, LineTypes
  <2> QED
    BY <2>1, <2>2, <2>3 DEF Next, Command, Shell, SetTimerFull, BeginTick, Tick, Count,
       WriteMessage, Schedule, RxInterrupt, TxInterrupt, Sending, Type, vars
<1>4. Masked'
  BY <1>1, MaskedStep
<1> QED
  BY <1>2, <1>3, <1>4 DEF ConsoleInv

LEMMA ConsoleInit == Init => ConsoleInv /\ U!TheLine!Init
<1> SUFFICES ASSUME Init
             PROVE  ConsoleInv /\ U!TheLine!Init
  OBVIOUS
<1>1. U!Init /\ line \in Lines /\ asked = [i \in T!Timers |-> line] /\ running = "main"
  BY DEF Init
<1>2. 0 \in U!Slots /\ LF \in U!Bytes /\ FifoSize \in Nat
  BY ConsoleAssumption DEF U!UartConstants, U!Slots, U!Bytes
<1>3. Ring
  BY <1>1, <1>2 DEF U!Init, Ring
<1>4. UartTypes
  <2>1. ier = {} /\ loaded = {} /\ typed = 0 /\ sending = FALSE /\ pc = "shell" /\ unread = 0
    BY <1>1 DEF U!Init
  <2>2. ier \in SUBSET {"rx", "tx"} /\ loaded \in SUBSET {"rx", "tx"}
    BY <2>1
  <2>3. typed \in 0 .. FifoSize
    BY <1>2, <2>1
  <2> QED
    BY <1>2, <1>3, <2>1, <2>2, <2>3 DEF UartTypes
<1>5. ReadEnough
  BY <1>1 DEF U!Init, ReadEnough, Reading
<1>6. LineTypes
  BY <1>1, ConsoleAssumption DEF LineTypes
<1>7. U!Unsent = <<>>
  <2>1. PICK q : q = U!Unsent
    OBVIOUS
  <2>2. q = Between(write_buf, write_head, write_tail) /\ write_head = write_tail
    BY <1>1, <2>1, UnsentIs DEF U!Init
  <2>3. q \in Seq(U!Bytes) /\ Len(q) = 0
    BY <1>3, <2>2, RingIs DEF Ring
  <2> QED
    BY <2>1, <2>3, EmptySeq
<1> QED
  BY <1>1, <1>4, <1>5, <1>6, <1>7 DEF ConsoleInv, Masked, U!Init, U!TheLine!Init

LEMMA ConsoleAlways == Spec => []ConsoleInv
BY ConsoleInit, ConsoleStep, PTL DEF Spec

(* Every pointer stays in its ring, the bytes to send are bytes of         *)
(* messages, and the register, the shell and the timers keep their types.  *)
THEOREM TypeCorrect == Spec => []TypeOK
<1>1. TP!Spec => []TP!TypeOK
  <2>1. TP!TimerConstants
    BY ConsoleAssumption DEF T!TimerConstants, TP!TimerConstants
  <2> QED
    BY <2>1, TP!TypeCorrect
<1>2. TP!TypeOK => T!TypeOK
  BY DEF TP!TypeOK, T!TypeOK, TP!Timers, T!Timers, TP!Times, T!Times
<1>3. T!TypeOK /\ ConsoleInv => TypeOK
  BY DEF ConsoleInv, UartTypes, Ring, LineTypes, TypeOK
<1> QED
  BY <1>1, <1>2, <1>3, ConsoleAlways, ImplementsTimer, PTL

(* The read ring never holds more than two characters while                *)
(* async_uart_gets runs, for any size of ring and however fast somebody    *)
(* types, although no handler tests for a full ring (uart.c:179).          *)
THEOREM ReaderAlwaysKeepsUp == Spec => []ReaderKeepsUp
<1>1. ConsoleInv => ReaderKeepsUp
  BY DEF ConsoleInv, ReadEnough, ReaderKeepsUp, RxOn
<1> QED
  BY <1>1, ConsoleAlways, PTL

(* Output is a queue, for every size of ring and all messages: whichever   *)
(* way the shell, the timers' messages and the transmit handler interleave *)
(* each byte is sent once and in order, and of what does not fit exactly   *)
(* the bytes are lost that Line says.                                      *)
THEOREM OutputIsAQueue == Spec => ImplementsLine
<1>1. ConsoleInv /\ [Next]_vars => [U!TheLine!Next]_U!TheLine!vars
  <2> SUFFICES ASSUME ConsoleInv, [Next]_vars
               PROVE  [U!TheLine!Next]_U!TheLine!vars
    OBVIOUS
  <2>1. UartTypes /\ ReadEnough /\ line \in Lines /\ Masked
    BY DEF ConsoleInv, LineTypes
  <2>2. CASE UNCHANGED uart
    BY <2>2 DEF uart, U!Unsent, U!TheLine!vars
  <2>3. CASE ShellMoves
    BY <2>1, <2>3, ShellMovesStep DEF U!TheLine!vars
  <2>4. CASE \E m \in Messages : ShellPuts(m) \/ U!PutsInTick(m)
    BY <2>1, <2>4, PutsStep DEF U!TheLine!Next
  <2>5. CASE U!RxInterrupt \/ U!TxInterrupt \/ U!Type
    BY <2>1, <2>5, InterruptStep DEF U!TheLine!vars
  <2>6. CASE U!SendByte \/ U!SendDone
    BY <2>1, <2>6, SendingStep DEF U!TheLine!Next
  <2>7. CASE U!ShellStarts
    BY <2>1, <2>7, StartsStep DEF U!TheLine!vars
  <2> QED
    BY <2>1, <2>2, <2>3, <2>4, <2>5, <2>6, <2>7, UartSteps
<1> QED
  BY <1>1, ConsoleInit, ConsoleAlways, PTL DEF Spec, ImplementsLine, U!TheLine!Spec

(* Output comes to stand still in two ways only: the shell stores an       *)
(* interrupt enable register that it loaded before a timer's message       *)
(* enabled the transmit interrupt (uart.c:152), or main is left for the    *)
(* shell thread when it is about to enable it (timer.c:89).                *)
THEOREM StallsByLostUpdate == Spec => StallNeedsLostUpdate
<1> DEFINE Lost == ~Stalled /\ Stalled' => LosesUpdate \/ LeavesMain
<1>1. ConsoleInv /\ [Next]_vars => Lost
  <2> SUFFICES ASSUME ConsoleInv, [Next]_vars, ~Stalled, Stalled'
               PROVE  LosesUpdate \/ LeavesMain
    OBVIOUS
  <2> USE DEF U!writing, LosesUpdate
  <2>1. UartTypes /\ ReadEnough /\ line \in Lines /\ Masked
    BY DEF ConsoleInv, LineTypes
  <2>2. ~sending' /\ "tx" \notin ier' /\ pc' \notin {"load_tx", "store_tx"} /\ U!Unsent' # <<>>
    BY DEF Stalled
  <2>3. CASE UNCHANGED uart
    BY <2>3 DEF uart, U!Unsent, Stalled
  <2>4. CASE ~sending /\ ShellMoves
    <3>1. U!Unsent' = U!Unsent
      BY <2>1, <2>4, ShellMovesStep
    <3>2. "tx" \in ier \/ pc \in {"load_tx", "store_tx"}
      BY <2>2, <2>4, <3>1 DEF Stalled
    <3> QED
      BY <2>2, <2>4, <3>2 DEF ShellMoves, U!TestStart, U!RecvChar, U!GetsWait, U!GetsChar, U!Load, U!Store
  <2>5. CASE \E m \in Messages : ShellPuts(m) \/ U!PutsInTick(m)
    BY <2>2, <2>5 DEF ShellPuts, U!Puts, U!Echo, U!PutsFrom, U!PutsInTick
  <2>6. CASE U!RxInterrupt \/ U!TxInterrupt \/ U!Type
    <3>1. U!Unsent' = U!Unsent
      BY <2>1, <2>6, InterruptStep
    <3> QED
      BY <2>2, <2>6, <3>1 DEF Stalled, U!RxInterrupt, U!TxInterrupt, U!Type
  <2>7. CASE U!SendByte
    BY <2>1, <2>2, <2>7 DEF U!SendByte
  <2>8. CASE U!SendDone
    <3>1. UNCHANGED <<write_buf, write_head, write_tail>> /\ write_head = write_tail
      BY <2>8 DEF U!SendDone
    <3>2. PICK q : q = U!Unsent'
      OBVIOUS
    <3>3. q = Between(write_buf, write_head, write_tail)
      BY <3>1, <3>2, UnsentIs
    <3>4. q \in Seq(U!Bytes) /\ Len(q) = 0
      BY <2>1, <3>1, <3>3, RingIs DEF UartTypes, Ring
    <3> QED
      BY <2>2, <3>2, <3>4, EmptySeq
  <2>9. CASE U!ShellStarts /\ LeftInTick
    <3>1. U!Unsent' = U!Unsent
      BY <2>1, <2>9, StartsStep
    <3>2. UNCHANGED <<ier, sending>>
      BY <2>9 DEF U!ShellStarts
    <3>3. pc \in {"load_tx", "store_tx"}
      BY <2>2, <3>1, <3>2 DEF Stalled
    <3> QED
      BY <2>9, <3>3 DEF LeftInTick, LeavesMain
  <2> QED
    BY <2>1, <2>3, <2>4, <2>5, <2>6, <2>7, <2>8, <2>9, UartSteps
<1> QED
  BY <1>1, ConsoleAlways, PTL DEF Spec, StallNeedsLostUpdate

=============================================================================
