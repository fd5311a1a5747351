----------------------------- MODULE TimerProofs ------------------------------
(***************************************************************************)
(* Proofs about Timer for every number of slots, every word size and every *)
(* set of callbacks.  OnTime is inductive together with the types: it says *)
(* what a slot holds at each point of a tick, so that a step of the tick   *)
(* moves both sides of its equation by one, around the clock.              *)
(***************************************************************************)
EXTENDS Timer, TLAPS

IndInv == TypeOK /\ OnTime

(* Arithmetic around the clock: of what is added, taken away and left.     *)
LEMMA Clock ==
    ASSUME TimerConstants, NEW n \in Times
    PROVE  /\ Up(n) \in Times /\ Down(n) \in Times
           /\ Down(Up(n)) = n
  BY DEF Times, Up, Down, TimerConstants

LEMMA AheadIsUntil ==
    ASSUME TimerConstants, TypeOK, NEW timeout \in Times
    PROVE  /\ Ahead(timeout) \in Times
           /\ \A i \in Timers : due[i] = Ahead(timeout) => Until(i, now) = timeout
  BY DEF TypeOK, Times, Ahead, Until, TimerConstants

(* One tick later there is one less to go.                                 *)
LEMMA UntilCounts ==
    ASSUME TimerConstants, TypeOK, NEW i \in Timers, NEW n \in Times
    PROVE  /\ Until(i, n) \in Times
           /\ Until(i, Up(n)) = Down(Until(i, n))
           /\ Until(i, n) = 1 <=> due[i] = Up(n)
<1>1. due[i] \in Nat /\ due[i] < WordSize /\ n \in Nat /\ n < WordSize
  BY DEF TypeOK, Times, TimerConstants
<1>2. CASE n = WordSize - 1
  BY <1>1, <1>2 DEF Times, Until, Up, Down, TimerConstants
<1>3. CASE n # WordSize - 1
  BY <1>1, <1>3 DEF Times, Until, Up, Down, TimerConstants
<1> QED
  BY <1>2, <1>3

(* CountedIn is this tick, or the one before it.                           *)
LEMMA CountedInIs ==
    ASSUME TimerConstants, TypeOK, NEW i \in Timers
    PROVE  CountedIn(i) = IF i < tick THEN now ELSE Down(now)
  BY DEF CountedIn, Down

LEMMA TypeStep ==
    ASSUME TimerConstants, TypeOK, [Next]_vars
    PROVE  TypeOK'
<1> USE DEF TypeOK, TimerConstants
<1>1. ASSUME NEW cb \in Callbacks, NEW timeout \in Times, AddTimer(cb, timeout)
      PROVE  TypeOK'
  BY <1>1, AheadIsUntil DEF AddTimer
<1>2. CASE BeginTick
  BY <1>2, Clock DEF BeginTick, slots, Idle, Timers
<1>3. CASE SkipSlot
  BY <1>3 DEF SkipSlot, slots, Idle, Timers
<1>4. CASE CountDown
  BY <1>4, Clock DEF CountDown, Idle, Timers
<1>5. ASSUME NEW cb \in Callbacks, Expire(cb)
      PROVE  TypeOK'
  <2>1. tick \in Timers /\ tick + 1 \in 0 .. NumTimers /\ 0 \in Times
    BY <1>5 DEF Expire, Idle, Timers, Times
  <2>2. Down(expire_time[tick]) \in Times
    BY <2>1, Clock
  <2> QED
    BY <1>5, <2>1, <2>2 DEF Expire
<1>6. CASE AddTimerFull \/ UNCHANGED vars
  BY <1>6 DEF AddTimerFull, vars
<1> QED
  BY <1>1, <1>2, <1>3, <1>4, <1>5, <1>6 DEF Next

(* Every step moves a slot's count and its time to go alike.               *)
LEMMA OnTimeStep ==
    ASSUME TimerConstants, IndInv, [Next]_vars
    PROVE  OnTime'
<1>1. TypeOK /\ TypeOK' /\ OnTime
  BY TypeStep DEF IndInv
<1>2. SUFFICES ASSUME NEW i \in Timers, ~available'[i]
               PROVE  expire_time'[i] = Until(i, CountedIn(i))'
  BY DEF OnTime
<1>3. /\ i \in Nat /\ i < NumTimers /\ NumTimers \in Nat /\ tick \in Nat
      /\ now \in Times /\ due \in [Timers -> Times] /\ available \in [Timers -> BOOLEAN]
      /\ expire_time \in [Timers -> Times]
  BY <1>1 DEF TypeOK, Timers, TimerConstants
<1>4. Until(i, CountedIn(i))' = IF due'[i] >= CountedIn(i)' THEN due'[i] - CountedIn(i)'
                                ELSE due'[i] + WordSize - CountedIn(i)'
  BY DEF Until
<1>5. CountedIn(i)' = IF i < tick' THEN now' ELSE Down(now')
  BY DEF CountedIn, Down
<1>6. ~available[i] => expire_time[i] = Until(i, CountedIn(i))
  BY <1>1 DEF OnTime
<1>7. CountedIn(i) = IF i < tick THEN now ELSE Down(now)
  BY <1>1, CountedInIs
<1>8. ASSUME NEW cb \in Callbacks, NEW timeout \in Times, AddTimer(cb, timeout)
      PROVE  expire_time'[i] = Until(i, CountedIn(i))'
  <2>1. PICK j \in Timers :
            /\ available' = [available EXCEPT ![j] = FALSE]
            /\ expire_time' = [expire_time EXCEPT ![j] = timeout]
            /\ due' = [due EXCEPT ![j] = Ahead(timeout)]
    BY <1>8 DEF AddTimer
  <2>2. tick = NumTimers /\ tick' = tick /\ now' = now
    BY <1>8 DEF AddTimer, Idle
  <2>3. CountedIn(i)' = now /\ CountedIn(i) = now
    BY <1>3, <1>5, <1>7, <2>2
  <2>4. CASE i = j
    <3>1. expire_time'[i] = timeout /\ due'[i] = Ahead(timeout)
      BY <1>3, <2>1, <2>4
    <3>2. (IF Ahead(timeout) >= now THEN Ahead(timeout) - now
           ELSE Ahead(timeout) + WordSize - now) = timeout
      BY <1>3 DEF Ahead, Times, TimerConstants
    <3> QED
      BY <1>4, <2>3, <3>1, <3>2
  <2>5. CASE i # j
    BY <1>2, <1>3, <1>4, <1>6, <2>1, <2>3, <2>5 DEF Until
  <2> QED
    BY <2>4, <2>5
<1>9. CASE BeginTick
  <2>1. /\ tick = NumTimers /\ tick' = 0 /\ now' = Up(now)
        /\ UNCHANGED <<available, expire_time, due>>
    BY <1>9 DEF BeginTick, slots, Idle
  <2>2. CountedIn(i)' = now /\ CountedIn(i) = now
    BY <1>3, <1>5, <1>7, <2>1, Clock
  <2> QED
    BY <1>2, <1>4, <1>6, <2>1, <2>2 DEF Until
<1>10. CASE SkipSlot
  <2>1. /\ available[tick] /\ tick' = tick + 1
        /\ UNCHANGED <<available, expire_time, due, now>>
    BY <1>10 DEF SkipSlot, slots
  <2>2. i # tick
    BY <1>2, <2>1
  <2>3. CountedIn(i)' = CountedIn(i)
    BY <1>3, <1>5, <1>7, <2>1, <2>2
  <2> QED
    BY <1>2, <1>4, <1>6, <2>1, <2>3 DEF Until
<1>11. CASE CountDown
  <2>1. /\ ~available[tick] /\ tick' = tick + 1
        /\ expire_time' = [expire_time EXCEPT ![tick] = Down(@)]
        /\ UNCHANGED <<available, due, now>>
    BY <1>11 DEF CountDown
  <2>2. CASE i = tick
    <3>1. CountedIn(i)' = now /\ CountedIn(i) = Down(now)
      BY <1>3, <1>5, <1>7, <2>1, <2>2
    <3>2. Down(now) \in Times /\ Up(Down(now)) = now
      BY <1>3 DEF Times, Up, Down, TimerConstants
    <3>3. Until(i, now) = Down(Until(i, Down(now)))
      BY <1>1, <3>2, UntilCounts
    <3>4. expire_time'[i] = Down(expire_time[i])
      BY <1>3, <2>1, <2>2
    <3> QED
      BY <1>2, <1>4, <1>6, <2>1, <3>1, <3>3, <3>4 DEF Until
  <2>3. CASE i # tick
    <3>1. CountedIn(i)' = CountedIn(i)
      BY <1>3, <1>5, <1>7, <2>1, <2>3
    <3> QED
      BY <1>2, <1>3, <1>4, <1>6, <2>1, <2>3, <3>1 DEF Until
  <2> QED
    BY <2>2, <2>3
<1>12. ASSUME NEW cb \in Callbacks, Expire(cb)
       PROVE  expire_time'[i] = Until(i, CountedIn(i))'
  <2>1. /\ tick' = tick + 1
        /\ available' = [available EXCEPT ![tick] = TRUE]
        /\ expire_time' = [expire_time EXCEPT ![tick] = Down(@)]
        /\ due' = [due EXCEPT ![tick] = 0]
        /\ now' = now
    BY <1>12 DEF Expire
  <2>2. i # tick
    BY <1>2, <1>3, <2>1
  <2>3. CountedIn(i)' = CountedIn(i)
    BY <1>3, <1>5, <1>7, <2>1, <2>2
  <2> QED
    BY <1>2, <1>3, <1>4, <1>6, <2>1, <2>2, <2>3 DEF Until
<1>13. CASE AddTimerFull \/ UNCHANGED vars
  BY <1>1, <1>2, <1>13 DEF AddTimerFull, vars, OnTime, Until, CountedIn
<1> QED
  BY <1>8, <1>9, <1>10, <1>11, <1>12, <1>13 DEF Next

(* The inductive invariant holds in every behaviour.                       *)
THEOREM Invariance ==
    ASSUME TimerConstants
    PROVE  Spec => []IndInv
<1>1. Init => IndInv
  BY DEF Init, IndInv, TypeOK, OnTime, Timers, Times, Idle, TimerConstants
<1>2. IndInv /\ [Next]_vars => IndInv'
  BY TypeStep, OnTimeStep DEF IndInv
<1> QED
  BY <1>1, <1>2, PTL DEF Spec

(* Slots, clock and position keep their types.                             *)
THEOREM TypeCorrect ==
    ASSUME TimerConstants
    PROVE  Spec => []TypeOK
<1>1. IndInv => TypeOK
  BY DEF IndInv
<1> QED
  BY <1>1, Invariance, PTL

(* No slot's count is ever ahead of the clock or behind it (timer.c:71).   *)
THEOREM Punctual ==
    ASSUME TimerConstants
    PROVE  Spec => []OnTime
<1>1. IndInv => OnTime
  BY DEF IndInv
<1> QED
  BY <1>1, Invariance, PTL

(* os_time_tick calls a timer in the tick it was set for and in no other   *)
(* (timer.c:73).                                                           *)
THEOREM CalledInTime ==
    ASSUME TimerConstants
    PROVE  Spec => CalledWhenDue
<1> DEFINE Call ==
      \A i \in Timers :
          /\ ~available[i] /\ available'[i] => due[i] = now
          /\ tick = i /\ tick' # i /\ ~available[i] /\ due[i] = now => available'[i]
<1>1. ASSUME IndInv, [Next]_vars
      PROVE  [Call]_vars
  <2>1. SUFFICES ASSUME NEW i \in Timers
                 PROVE  /\ ~available[i] /\ available'[i] => due[i] = now
                        /\ tick = i /\ tick' # i /\ ~available[i] /\ due[i] = now
                               => available'[i]
    OBVIOUS
  <2>2. /\ TypeOK /\ now \in Times /\ available \in [Timers -> BOOLEAN]
        /\ i \in Nat /\ i # Idle /\ Down(now) \in Times /\ Up(Down(now)) = now
    BY <1>1 DEF IndInv, TypeOK, Timers, Times, Up, Down, Idle, TimerConstants
  <2>3. tick = i /\ ~available[i] => (expire_time[i] = 1 <=> due[i] = now)
    <3>1. tick = i => CountedIn(i) = Down(now)
      BY <2>2 DEF CountedIn, Down
    <3> QED
      BY <1>1, <2>2, <3>1, UntilCounts DEF IndInv, OnTime
  <2>4. ASSUME NEW cb \in Callbacks, NEW timeout \in Times, AddTimer(cb, timeout)
        PROVE  (~available[i] => ~available'[i]) /\ tick' = tick
    BY <2>2, <2>4 DEF AddTimer
  <2>5. ASSUME NEW cb \in Callbacks, Expire(cb)
        PROVE  /\ ~available[i] /\ available'[i] => tick = i /\ expire_time[i] = 1
               /\ tick = i => available'[i]
    BY <2>2, <2>5 DEF Expire
  <2>6. CASE CountDown
    BY <2>2, <2>3, <2>6 DEF CountDown
  <2>7. CASE BeginTick \/ SkipSlot
    BY <2>2, <2>7 DEF BeginTick, SkipSlot, slots
  <2>8. CASE AddTimerFull \/ UNCHANGED vars
    BY <2>8 DEF AddTimerFull, vars
  <2> QED
    BY <1>1, <2>3, <2>4, <2>5, <2>6, <2>7, <2>8 DEF Next
<1> QED
  BY <1>1, Invariance, PTL DEF Spec, CalledWhenDue
=============================================================================
