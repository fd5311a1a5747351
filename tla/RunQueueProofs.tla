--------------------------- MODULE RunQueueProofs ---------------------------
(***************************************************************************)
(* Proofs about RunQueue for every number of threads.                      *)
(*                                                                         *)
(* pop_rq and push_rq are always used in pairs after boot: the queue loses *)
(* at most one thread and gains one, so it keeps a head and a tail, and    *)
(* the search of schedule() always finds a thread pointer.  That is enough *)
(* for the types and the states of the threads.                            *)
(*                                                                         *)
(* What is on the queue needs more: Linked says that the queue is a list   *)
(* (Chain), which a thread queued twice cuts short but does not break.     *)
(***************************************************************************)
EXTENDS RunQueue, FiniteSetTheorems, WellFoundedInduction, TLAPS

Queues == [head : Pointers, tail : Pointers,
           next : [Threads -> Pointers], prev : [Threads -> Pointers]]

(* push_rq yields a queue with a head and a tail, if it is given one that  *)
(* has both or neither.                                                    *)
LEMMA PushRqResult ==
    ASSUME NEW q \in Queues, NEW th \in Threads,
           q.head = THREAD_NULL <=> q.tail = THREAD_NULL
    PROVE  /\ PushRq(q, th) \in Queues
           /\ PushRq(q, th).head # THREAD_NULL
           /\ PushRq(q, th).tail # THREAD_NULL
<1>1. THREAD_NULL \notin Threads
  BY RunQueueAssumption
<1>2. CASE q.tail = THREAD_NULL
  BY <1>1, <1>2 DEF PushRq, Queues, Pointers
<1>3. CASE q.tail # THREAD_NULL
  BY <1>1, <1>3 DEF PushRq, Queues, Pointers
<1> QED
  BY <1>2, <1>3

(* pop_rq leaves a queue that has a head and a tail, or neither.           *)
LEMMA PopRqResult ==
    ASSUME NEW q \in Queues, q.head # THREAD_NULL, q.tail # THREAD_NULL
    PROVE  /\ PopRq(q) \in Queues
           /\ PopRq(q).head = THREAD_NULL <=> PopRq(q).tail = THREAD_NULL
<1>1. q.next[q.head] \in Pointers
  BY DEF Queues, Pointers
<1> QED
  BY <1>1 DEF PopRq, Queues, Pointers

(* thread_create queues its thread like push_rq.                           *)
LEMMA ThreadCreateResult ==
    ASSUME NEW q \in Queues, NEW t \in Threads,
           q.head = THREAD_NULL <=> q.tail = THREAD_NULL
    PROVE  /\ ThreadCreate(q, t) \in Queues
           /\ ThreadCreate(q, t).head # THREAD_NULL
           /\ ThreadCreate(q, t).tail # THREAD_NULL
<1> DEFINE cleared == [q EXCEPT !.next[t] = THREAD_NULL, !.prev[t] = THREAD_NULL]
<1>1. /\ cleared \in Queues
      /\ cleared.head = q.head /\ cleared.tail = q.tail
  BY DEF Queues, Pointers
<1> QED
  BY <1>1, PushRqResult DEF ThreadCreate

(* A turn of schedule(): a thread is popped and a thread is pushed.        *)
LEMMA RotateResult ==
    ASSUME NEW q \in Queues, q.head # THREAD_NULL, q.tail # THREAD_NULL,
           NEW th \in Threads
    PROVE  /\ PushRq(PopRq(q), th) \in Queues
           /\ PushRq(PopRq(q), th).head # THREAD_NULL
           /\ PushRq(PopRq(q), th).tail # THREAD_NULL
  BY PopRqResult, PushRqResult

(* init_scheduler: thread 0 running, both boot threads queued.             *)
LEMMA InitSchedulerStep ==
    ASSUME IndInv, InitScheduler
    PROVE  IndInv'
<1>1. 0 \in Threads /\ 1 \in Threads
  BY RunQueueAssumption DEF Threads
<1>2. /\ Empty \in Queues
      /\ Empty.head = THREAD_NULL /\ Empty.tail = THREAD_NULL
  BY DEF Empty, Queues, Pointers
<1>3. /\ rq' \in Queues
      /\ rq'.head # THREAD_NULL /\ rq'.tail # THREAD_NULL
  <2> DEFINE one == ThreadCreate(Empty, 0)
             two == ThreadCreate(one, 1)
  <2>1. one \in Queues /\ one.head # THREAD_NULL /\ one.tail # THREAD_NULL
    BY <1>1, <1>2, ThreadCreateResult
  <2>2. two \in Queues /\ two.head # THREAD_NULL /\ two.tail # THREAD_NULL
    <3> HIDE DEF one
    <3> QED BY <1>1, <2>1, ThreadCreateResult
  <2>3. rq' = PushRq(two, 1)
    BY DEF InitScheduler
  <2> HIDE DEF two
  <2> QED
    BY <1>1, <2>2, <2>3, PushRqResult
<1>4. OnlyCurrentRuns'
  BY <1>1 DEF InitScheduler, IndInv, TypeOK, OnlyCurrentRuns, NoneBeforeBoot,
              FREE, READY, RUN, DEAD
<1>5. TypeOK'
  BY <1>1, <1>3 DEF InitScheduler, IndInv, TypeOK, Queues, FREE, READY, RUN, DEAD
<1> QED
  BY <1>3, <1>4, <1>5 DEF InitScheduler, IndInv, HeadAndTail, NoneBeforeBoot

(* The timer interrupt and the exit call only decide to search.            *)
LEMMA ScheduleStep ==
    ASSUME IndInv, Tick \/ Exit
    PROVE  IndInv'
<1>1. CASE Tick
  BY <1>1 DEF Tick, Schedule, IndInv, TypeOK, OnlyCurrentRuns, HeadAndTail, NoneBeforeBoot
<1>2. CASE Exit
  BY <1>2 DEF Exit, Schedule, IndInv, TypeOK, OnlyCurrentRuns, HeadAndTail, NoneBeforeBoot,
              FREE, READY, RUN, DEAD
<1> QED
  BY <1>1, <1>2

(* A turn of the search that meets a dead thread.                          *)
LEMMA PickDeadStep ==
    ASSUME IndInv, PickDead
    PROVE  IndInv'
<1>1. rq \in Queues /\ rq.head \in Threads /\ rq.tail # THREAD_NULL /\ rq.head # THREAD_NULL
  BY DEF IndInv, TypeOK, HeadAndTail, PickDead, Queues, Pointers
<1>2. /\ rq' \in Queues
      /\ rq'.head # THREAD_NULL /\ rq'.tail # THREAD_NULL
  BY <1>1, RotateResult DEF PickDead
<1> QED
  BY <1>2 DEF PickDead, IndInv, TypeOK, OnlyCurrentRuns, HeadAndTail, NoneBeforeBoot, Queues

(* The switch: the mark RUN moves from the old thread to the new one.      *)
LEMMA PickLiveStep ==
    ASSUME IndInv, PickLive
    PROVE  IndInv'
<1>1. /\ rq \in Queues /\ rq.head \in Threads /\ cur_thread \in Threads
      /\ rq.tail # THREAD_NULL /\ rq.head # THREAD_NULL
  BY DEF IndInv, TypeOK, HeadAndTail, PickLive, Queues, Pointers
<1>2. /\ rq' \in Queues
      /\ rq'.head # THREAD_NULL /\ rq'.tail # THREAD_NULL
  BY <1>1, RotateResult DEF PickLive
<1>3. status' \in [Threads -> {FREE, READY, RUN, DEAD}]
  BY <1>1 DEF PickLive, OffStatus, IndInv, TypeOK
<1>4. OnlyCurrentRuns'
  BY <1>1 DEF PickLive, OffStatus, IndInv, TypeOK, OnlyCurrentRuns, FREE, READY, RUN, DEAD
<1> QED
  BY <1>1, <1>2, <1>3, <1>4 DEF PickLive, IndInv, TypeOK, HeadAndTail, NoneBeforeBoot, Queues

(* The kill system call.                                                   *)
LEMMA KillStep ==
    ASSUME IndInv, NEW t \in Threads, Kill(t)
    PROVE  IndInv'
  BY DEF Kill, IndInv, TypeOK, OnlyCurrentRuns, HeadAndTail, NoneBeforeBoot, FREE, READY, RUN, DEAD

(* The fork system call: the child is queued twice.                        *)
LEMMA ForkStep ==
    ASSUME IndInv, Fork
    PROVE  IndInv'
<1>1. PICK t \in Threads :
          /\ FirstFree(t)
          /\ rq' = PushRq(ThreadCreate(rq, t), t)
          /\ status' = [status EXCEPT ![t] = READY]
  BY DEF Fork
<1>2. /\ rq \in Queues /\ rq.head # THREAD_NULL /\ rq.tail # THREAD_NULL
  BY DEF IndInv, TypeOK, HeadAndTail, Fork, Queues
<1>3. /\ ThreadCreate(rq, t) \in Queues
      /\ ThreadCreate(rq, t).head # THREAD_NULL
      /\ ThreadCreate(rq, t).tail # THREAD_NULL
  BY <1>2, ThreadCreateResult
<1>4. /\ rq' \in Queues
      /\ rq'.head # THREAD_NULL /\ rq'.tail # THREAD_NULL
  BY <1>1, <1>3, PushRqResult
<1> QED
  BY <1>1, <1>4 DEF Fork, IndInv, TypeOK, OnlyCurrentRuns, HeadAndTail, NoneBeforeBoot, Queues,
                    FREE, READY, RUN, DEAD

(* A fork that ends with a free descriptor on the queue.                   *)
LEMMA ForkNoProgramStep ==
    ASSUME IndInv, ForkNoProgram
    PROVE  IndInv'
<1>1. /\ rq \in Queues /\ rq.head # THREAD_NULL /\ rq.tail # THREAD_NULL
  BY DEF IndInv, TypeOK, HeadAndTail, ForkNoProgram, Queues
<1>2. /\ rq' \in Queues
      /\ rq'.head # THREAD_NULL /\ rq'.tail # THREAD_NULL
  BY <1>1, ThreadCreateResult DEF ForkNoProgram
<1> QED
  BY <1>2 DEF ForkNoProgram, IndInv, TypeOK, OnlyCurrentRuns, HeadAndTail, NoneBeforeBoot, Queues

(* Steps that change nothing.                                              *)
LEMMA QuietStep ==
    ASSUME IndInv, UNCHANGED vars
    PROVE  IndInv'
  BY DEF vars, IndInv, TypeOK, OnlyCurrentRuns, HeadAndTail, NoneBeforeBoot

(* The inductive invariant holds in every behaviour of the kernel.         *)
THEOREM Invariance == Spec => []IndInv
<1>1. Init => IndInv
  BY DEF Init, Empty, IndInv, TypeOK, OnlyCurrentRuns, HeadAndTail, NoneBeforeBoot, Pointers,
         FREE, READY, RUN, DEAD
<1>2. IndInv /\ [Next]_vars => IndInv'
  <2> SUFFICES ASSUME IndInv, [Next]_vars
               PROVE  IndInv'
    OBVIOUS
  <2>1. CASE InitScheduler
    BY <2>1, InitSchedulerStep
  <2>2. CASE Tick \/ Exit
    BY <2>2, ScheduleStep
  <2>3. CASE PickDead
    BY <2>3, PickDeadStep
  <2>4. CASE PickLive
    BY <2>4, PickLiveStep
  <2>5. CASE \E t \in Threads : Kill(t)
    BY <2>5, KillStep
  <2>6. CASE Fork
    BY <2>6, ForkStep
  <2>7. CASE ForkNoProgram
    BY <2>7, ForkNoProgramStep
  <2>8. CASE UNCHANGED vars \/ (\E t \in Threads : KillIgnored(t)) \/ ForkFails
    BY <2>8, QuietStep DEF KillIgnored, ForkFails
  <2> QED
    BY <2>1, <2>2, <2>3, <2>4, <2>5, <2>6, <2>7, <2>8 DEF Next, Syscall, Pick
<1> QED
  BY <1>1, <1>2, PTL DEF Spec

(* The pointers and states keep their types, and after boot some thread is *)
(* always the running one.                                                 *)
THEOREM TypeCorrect == Spec => []TypeOK
<1>1. IndInv => TypeOK
  BY DEF IndInv
<1> QED
  BY <1>1, Invariance, PTL

(* Never two threads marked as running, for any number of threads and any  *)
(* order of ticks, forks, kills and exits.                                 *)
THEOREM OneRunning == Spec => []OnlyCurrentRuns
<1>1. IndInv => OnlyCurrentRuns
  BY DEF IndInv
<1> QED
  BY <1>1, Invariance, PTL

(* pop_rq never returns THREAD_NULL to schedule(), so the early return of  *)
(* schedule() is not taken after boot and its loop dereferences a thread.  *)
THEOREM QueueNeverEmpty == Spec => []HeadAndTail
<1>1. IndInv => HeadAndTail
  BY DEF IndInv
<1> QED
  BY <1>1, Invariance, PTL

(* What exit and kill mark dead stays dead and is never switched to.       *)
THEOREM DeadForGood == Spec => DeadStaysDead
<1>1. ASSUME IndInv, [Next]_vars, NEW t \in Threads, status[t] = DEAD
      PROVE  status'[t] = DEAD /\ (cur_thread' = t => cur_thread = t)
  <2> USE DEF FREE, READY, RUN, DEAD
  <2>1. status \in [Threads -> {FREE, READY, RUN, DEAD}]
    BY <1>1 DEF IndInv, TypeOK
  <2>2. CASE InitScheduler
    BY <1>1, <2>2 DEF InitScheduler, IndInv, NoneBeforeBoot
  <2>3. CASE Tick \/ PickDead \/ ForkNoProgram \/ ForkFails \/ UNCHANGED vars
    BY <1>1, <2>3 DEF Tick, PickDead, ForkNoProgram, ForkFails, vars
  <2>4. CASE Exit
    BY <1>1, <2>1, <2>4 DEF Exit
  <2>5. CASE PickLive
    <3>1. /\ rq.head # t /\ cur_thread' = rq.head
          /\ status' = OffStatus([status EXCEPT ![rq.head] = RUN], cur_thread)
      BY <1>1, <2>5 DEF PickLive
    <3> QED
      BY <1>1, <2>1, <3>1 DEF OffStatus
  <2>6. ASSUME NEW u \in Threads, Kill(u) \/ KillIgnored(u)
        PROVE  status'[t] = DEAD /\ (cur_thread' = t => cur_thread = t)
    BY <1>1, <2>1, <2>6 DEF Kill, KillIgnored, vars
  <2>7. CASE Fork
    BY <1>1, <2>1, <2>7 DEF Fork, FirstFree
  <2> QED
    BY <1>1, <2>2, <2>3, <2>4, <2>5, <2>6, <2>7 DEF Next, Syscall, Pick
<1>2. IndInv /\ [Next]_vars =>
        [\A t \in Threads : status[t] = DEAD =>
            /\ status'[t] = DEAD
            /\ cur_thread' = t => cur_thread = t]_vars
  BY <1>1
<1> QED
  BY <1>2, Invariance, PTL DEF Spec, DeadStaysDead

-----------------------------------------------------------------------------
(* The least element of a set of numbers, and induction.                   *)
LEMMA Least ==
    ASSUME NEW S \in SUBSET Nat, S # {}
    PROVE  \E m \in S : \A k \in S : m <= k
<1> DEFINE R == OpToRel(<, Nat)
<1>1. IsWellFoundedOn(R, Nat)
  BY NatLessThanWellFounded
<1>2. \A x, y \in Nat : <<y, x>> \in R <=> y < x
  BY DEF OpToRel
<1> HIDE DEF R
<1>3. PICK m \in S : \A k \in S : ~(<<k, m>> \in R)
  BY <1>1, WFMin
<1>4. \A k \in S : ~(k < m)
  BY <1>2, <1>3
<1>5. m \in Nat /\ \A k \in S : k \in Nat
  OBVIOUS
<1> QED
  BY <1>4, <1>5

LEMMA Induction ==
    ASSUME NEW S, 0 \in S, \A n \in Nat : n \in S => n + 1 \in S
    PROVE  Nat \subseteq S
<1> SUFFICES ASSUME Nat \ S # {}
             PROVE  FALSE
  OBVIOUS
<1>1. PICK m \in Nat \ S : \A k \in Nat \ S : m <= k
  BY Least
<1>2. m # 0 /\ m - 1 \in Nat /\ m - 1 \in S
  BY <1>1
<1> QED
  BY <1>1, <1>2

-----------------------------------------------------------------------------
(* The queue as a list: its n threads from the head to the tail, none      *)
(* twice, each leading to the one behind it.  A tail that was queued again *)
(* leads to itself.                                                        *)
InOrder(q, n, c) ==
    /\ q.head = IF n = 0 THEN THREAD_NULL ELSE c[1]
    /\ q.tail = IF n = 0 THEN THREAD_NULL ELSE c[n]
    /\ \A i \in 1 .. n : i < n => q.next[c[i]] = c[i + 1]
    /\ n # 0 => q.next[c[n]] \in {THREAD_NULL, c[n]}
    /\ \A i, j \in 1 .. n : c[i] = c[j] => i = j

Chain(q, S) ==
    \E n \in Nat : \E c \in [1 .. n -> Threads] :
        InOrder(q, n, c) /\ S = {c[i] : i \in 1 .. n}

(* What the walk of Queued meets in a queue q.                             *)
Walk(q) ==
    LET w[n \in Threads] ==
            IF n = 0 THEN q.head
            ELSE IF w[n - 1] = THREAD_NULL THEN THREAD_NULL ELSE q.next[w[n - 1]]
    IN  w

Met(q) == {Walk(q)[n] : n \in Threads} \ {THREAD_NULL}

LEMMA QueuedIsMet == Queued = Met(rq) /\ Queued' = Met(rq')
BY DEF Queued, Met, Walk

(* It is no longer than there are threads.                                 *)
LEMMA ChainShort ==
    ASSUME NEW q, NEW n \in Nat, NEW c \in [1 .. n -> Threads], InOrder(q, n, c)
    PROVE  n <= MAX_THREAD_COUNT
<1> SUFFICES ASSUME MAX_THREAD_COUNT < n
             PROVE  FALSE
  BY RunQueueAssumption
<1>1. IsFiniteSet(1 .. n) /\ Cardinality(1 .. n) = n
  BY FS_Interval
<1>2. IsFiniteSet(Threads) /\ Cardinality(Threads) = MAX_THREAD_COUNT
  BY FS_Interval, RunQueueAssumption DEF Threads
<1>3. \E x, y \in 1 .. n : x # y /\ c[x] = c[y]
  BY <1>1, <1>2, FS_PigeonHole
<1> QED
  BY <1>3 DEF InOrder

(* The walk meets the threads of a queue in their order, then nothing, or  *)
(* the tail for ever.                                                      *)
LEMMA WalkInOrder ==
    ASSUME NEW q, NEW n \in Nat, NEW c \in [1 .. n -> Threads], InOrder(q, n, c)
    PROVE  \A i \in Threads :
               Walk(q)[i] = IF i < n THEN c[i + 1]
                            ELSE IF n = 0 THEN THREAD_NULL ELSE q.next[c[n]]
<1> DEFINE Step(w) == [i \in Threads |->
                          IF i = 0 THEN q.head
                          ELSE IF w[i - 1] = THREAD_NULL THEN THREAD_NULL ELSE q.next[w[i - 1]]]
           After == IF n = 0 THEN THREAD_NULL ELSE q.next[c[n]]
           At(i) == IF i < n THEN c[i + 1] ELSE After
           order == [i \in Threads |-> At(i)]
           w == Walk(q)
           S == {i \in Nat : i \in Threads => w[i] = At(i)}
<1>1. THREAD_NULL \notin Threads /\ MAX_THREAD_COUNT \in Nat
  BY RunQueueAssumption
<1>2. \A i \in Threads : i \in Nat /\ (i # 0 => i - 1 \in Threads)
  BY <1>1 DEF Threads
<1>3. ASSUME NEW i \in Nat, i # 0
      PROVE  At(i) = IF At(i - 1) = THREAD_NULL THEN THREAD_NULL ELSE q.next[At(i - 1)]
  <2>1. CASE i < n
    <3>1. i \in 1 .. n /\ c[i] \in Threads /\ At(i - 1) = c[i] /\ At(i) = c[i + 1]
      BY <1>3, <2>1
    <3> QED
      BY <1>1, <2>1, <3>1 DEF InOrder
  <2>2. CASE i = n
    <3>1. i \in 1 .. n /\ c[i] \in Threads /\ At(i - 1) = c[n] /\ At(i) = q.next[c[n]]
      BY <1>3, <2>2
    <3> QED
      BY <1>1, <2>2, <3>1
  <2>3. CASE i > n
    <3>1. At(i - 1) = After /\ At(i) = After
      BY <1>3, <2>3
    <3>2. After = THREAD_NULL \/ (n # 0 /\ After = c[n] /\ q.next[c[n]] = c[n])
      BY DEF InOrder
    <3> QED
      BY <3>1, <3>2
  <2> QED
    BY <1>3, <2>1, <2>2, <2>3
<1>4. At(0) = q.head
  BY DEF InOrder
<1>5. order = Step(order)
  <2>1. ASSUME NEW i \in Threads
        PROVE  order[i] = Step(order)[i]
    <3>1. CASE i = 0
      BY <1>4, <3>1
    <3>2. CASE i # 0
      <4>1. i - 1 \in Threads /\ i \in Nat
        BY <1>2, <3>2
      <4>2. order[i - 1] = At(i - 1) /\ order[i] = At(i)
        <5> HIDE DEF At
        <5> QED BY <4>1
      <4> HIDE DEF At, order
      <4> QED
        BY <1>3, <3>2, <4>1, <4>2
    <3> QED
      BY <3>1, <3>2
  <2> HIDE DEF At
  <2> QED
    BY <2>1
<1>6. w = Step(w)
  <2>1. w = CHOOSE f : f = Step(f)
    BY DEF Walk
  <2> HIDE DEF w, Step, order
  <2> QED
    BY <1>5, <2>1
<1> HIDE DEF w, At
<1>7. 0 \in S
  BY <1>6, <1>4
<1>8. ASSUME NEW i \in Nat, i \in S
      PROVE  i + 1 \in S
  <2> SUFFICES ASSUME i + 1 \in Threads
               PROVE  w[i + 1] = At(i + 1)
    OBVIOUS
  <2>1. i \in Threads /\ i + 1 # 0 /\ (i + 1) - 1 = i
    BY <1>1 DEF Threads
  <2>2. w[i] = At(i)
    BY <1>8, <2>1
  <2>3. w[i + 1] = IF w[i] = THREAD_NULL THEN THREAD_NULL ELSE q.next[w[i]]
    BY <1>6, <2>1
  <2>4. At(i + 1) = IF At(i) = THREAD_NULL THEN THREAD_NULL ELSE q.next[At(i)]
    BY <1>3, <2>1
  <2> QED
    BY <2>2, <2>3, <2>4
<1>9. Nat \subseteq S
  <2> HIDE DEF S
  <2> QED BY <1>7, <1>8, Induction
<1> QED
  BY <1>9, <1>2 DEF w, At

(* So what it meets are the threads of the queue, and the queue can be     *)
(* used: its tail is among them and leads nowhere else.                    *)
LEMMA ChainMet ==
    ASSUME NEW q, NEW S, Chain(q, S)
    PROVE  /\ Met(q) = S
           /\ S # {} => q.tail \in S /\ q.next[q.tail] \in {THREAD_NULL, q.tail}
<1>0. PICK n \in Nat : \E c \in [1 .. n -> Threads] :
          InOrder(q, n, c) /\ S = {c[i] : i \in 1 .. n}
  BY DEF Chain
<1>1. PICK c \in [1 .. n -> Threads] : InOrder(q, n, c) /\ S = {c[i] : i \in 1 .. n}
  BY <1>0
<1>2. n <= MAX_THREAD_COUNT /\ MAX_THREAD_COUNT \in Nat /\ THREAD_NULL \notin Threads
  BY <1>1, ChainShort, RunQueueAssumption
<1>3. \A i \in Threads :
          Walk(q)[i] = IF i < n THEN c[i + 1] ELSE IF n = 0 THEN THREAD_NULL ELSE q.next[c[n]]
  BY <1>1, WalkInOrder
<1>4. ASSUME NEW t \in Met(q)
      PROVE  t \in S
  <2>1. PICK i \in Threads : t = Walk(q)[i] /\ t # THREAD_NULL
    BY <1>4 DEF Met
  <2>2. CASE i < n
    <3>1. i + 1 \in 1 .. n /\ t = c[i + 1]
      BY <1>2, <1>3, <2>1, <2>2 DEF Threads
    <3> QED
      BY <1>1, <3>1
  <2>3. CASE ~(i < n)
    <3>1. n # 0 /\ t = c[n] /\ n \in 1 .. n
      BY <1>1, <1>3, <2>1, <2>3 DEF InOrder
    <3> QED
      BY <1>1, <3>1
  <2> QED
    BY <2>2, <2>3
<1>5. ASSUME NEW t \in S
      PROVE  t \in Met(q)
  <2>1. PICK i \in 1 .. n : t = c[i]
    BY <1>1, <1>5
  <2>2. i - 1 \in Threads /\ i - 1 < n /\ (i - 1) + 1 = i
    BY <1>2 DEF Threads
  <2>3. Walk(q)[i - 1] = t /\ t \in Threads
    BY <1>3, <2>1, <2>2
  <2> QED
    BY <1>2, <2>2, <2>3 DEF Met
<1>6. ASSUME S # {}
      PROVE  q.tail \in S /\ q.next[q.tail] \in {THREAD_NULL, q.tail}
  <2>1. n # 0 /\ n \in 1 .. n
    BY <1>1, <1>6
  <2> QED
    BY <1>1, <2>1 DEF InOrder
<1> QED
  BY <1>4, <1>5, <1>6

(* Queueing a thread that is not on the queue puts it at the end.          *)
LEMMA PushNew ==
    ASSUME NEW q \in Queues, NEW S, Chain(q, S), NEW th \in Threads, th \notin S
    PROVE  Chain(PushRq(q, th), S \cup {th}) /\ PushRq(q, th).tail = th
<1>0. PICK n \in Nat : \E c \in [1 .. n -> Threads] :
          InOrder(q, n, c) /\ S = {c[i] : i \in 1 .. n}
  BY DEF Chain
<1>1. PICK c \in [1 .. n -> Threads] : InOrder(q, n, c) /\ S = {c[i] : i \in 1 .. n}
  BY <1>0
<1> DEFINE d == [i \in 1 .. n + 1 |-> IF i <= n THEN c[i] ELSE th]
           p == PushRq(q, th)
<1>2. THREAD_NULL \notin Threads /\ n + 1 \in Nat /\ n + 1 # 0 /\ 1 \in 1 .. n + 1
  BY RunQueueAssumption
<1>3. d \in [1 .. n + 1 -> Threads] /\ d[n + 1] = th
  OBVIOUS
<1>4. /\ p.head = d[1] /\ p.tail = th
      /\ p.next[th] = THREAD_NULL
      /\ \A i \in 1 .. n : i < n => p.next[c[i]] = c[i + 1]
      /\ n # 0 => p.next[c[n]] = th
  <2>1. CASE n = 0
    <3>1. q.tail = THREAD_NULL
      BY <1>1, <2>1 DEF InOrder
    <3> QED
      BY <2>1, <3>1 DEF PushRq, Queues
  <2>2. CASE n # 0
    <3>1. /\ n \in 1 .. n /\ q.tail = c[n] /\ c[n] \in Threads /\ q.head = c[1] /\ 1 <= n
          /\ \A i \in 1 .. n : c[i] \in Threads /\ c[i] # th
      BY <1>1, <2>2 DEF InOrder
    <3>2. p = [q EXCEPT !.next = [@ EXCEPT ![th] = THREAD_NULL, ![c[n]] = th],
                        !.prev[th] = c[n], !.tail = th]
      BY <1>2, <3>1 DEF PushRq
    <3>3. p.head = c[1] /\ p.tail = th
          /\ p.next = [q.next EXCEPT ![th] = THREAD_NULL, ![c[n]] = th]
      BY <3>1, <3>2 DEF Queues
    <3>4. q.next \in [Threads -> Pointers]
      BY DEF Queues
    <3>5. p.next[th] = THREAD_NULL /\ p.next[c[n]] = th
      BY <3>1, <3>3, <3>4
    <3>6. ASSUME NEW i \in 1 .. n, i < n
          PROVE  p.next[c[i]] = c[i + 1]
      <4>1. c[i] # c[n] /\ c[i] # th /\ c[i] \in Threads
        BY <1>1, <3>1, <3>6 DEF InOrder
      <4>2. p.next[c[i]] = q.next[c[i]]
        BY <3>1, <3>3, <3>4, <4>1
      <4> QED
        BY <1>1, <3>6, <4>2 DEF InOrder
    <3>7. d[1] = c[1]
      BY <1>2, <3>1
    <3> QED
      BY <3>3, <3>5, <3>6, <3>7
  <2> QED
    BY <2>1, <2>2
<1>5. ASSUME NEW i \in 1 .. n + 1, NEW j \in 1 .. n + 1, d[i] = d[j]
      PROVE  i = j
  <2>1. \A k \in 1 .. n : d[k] = c[k] /\ c[k] # th
    BY <1>1
  <2>2. CASE i \in 1 .. n /\ j \in 1 .. n
    BY <1>1, <1>5, <2>1, <2>2 DEF InOrder
  <2>3. CASE ~(i \in 1 .. n /\ j \in 1 .. n)
    BY <1>3, <1>5, <2>1, <2>3
  <2> QED
    BY <2>2, <2>3
<1>6. ASSUME NEW i \in 1 .. n + 1, i < n + 1
      PROVE  p.next[d[i]] = d[i + 1]
  <2>1. i \in 1 .. n /\ d[i] = c[i] /\ i + 1 \in 1 .. n + 1
    BY <1>6
  <2>2. CASE i < n
    BY <1>4, <2>1, <2>2
  <2>3. CASE i = n
    BY <1>3, <1>4, <2>1, <2>3
  <2> QED
    BY <1>6, <2>2, <2>3
<1>7. InOrder(p, n + 1, d)
  <2> HIDE DEF d, p
  <2> QED
    BY <1>2, <1>3, <1>4, <1>5, <1>6 DEF InOrder
<1>8. S \cup {th} = {d[i] : i \in 1 .. n + 1}
  <2>1. \A k \in 1 .. n : d[k] = c[k] /\ k \in 1 .. n + 1
    OBVIOUS
  <2>2. \A k \in 1 .. n + 1 : k \in 1 .. n \/ k = n + 1
    OBVIOUS
  <2>3. n + 1 \in 1 .. n + 1
    BY <1>2
  <2> HIDE DEF d
  <2> QED
    BY <1>1, <1>3, <2>1, <2>2, <2>3
<1> QED
  <2> HIDE DEF d, p
  <2>1. Chain(p, S \cup {th}) /\ p.tail = th
    BY <1>2, <1>3, <1>4, <1>7, <1>8 DEF Chain
  <2> QED
    BY <2>1 DEF p

(* Queueing a thread that is there cuts the queue off behind it; the tail  *)
(* queued again keeps it all.                                              *)
LEMMA PushAgain ==
    ASSUME NEW q \in Queues, NEW S, Chain(q, S), NEW th \in S
    PROVE  /\ \E R \in SUBSET S : Chain(PushRq(q, th), R)
           /\ th = q.tail => Chain(PushRq(q, th), S)
           /\ PushRq(q, th).tail = th
<1>0. PICK n \in Nat : \E c \in [1 .. n -> Threads] :
          InOrder(q, n, c) /\ S = {c[i] : i \in 1 .. n}
  BY DEF Chain
<1>1. PICK c \in [1 .. n -> Threads] : InOrder(q, n, c) /\ S = {c[i] : i \in 1 .. n}
  BY <1>0
<1>2. PICK k \in 1 .. n : th = c[k]
  BY <1>1
<1> DEFINE d == [i \in 1 .. k |-> c[i]]
           p == PushRq(q, th)
<1>3. /\ k \in Nat /\ k # 0 /\ n # 0 /\ k <= n /\ n \in 1 .. n /\ 1 \in 1 .. k /\ k \in 1 .. k
      /\ 1 .. k \subseteq 1 .. n
  OBVIOUS
<1>4. d \in [1 .. k -> Threads] /\ \A i \in 1 .. k : d[i] = c[i]
  BY <1>3
<1>5. /\ p.head = c[1] /\ p.tail = th
      /\ p.next = [q.next EXCEPT ![th] = THREAD_NULL, ![c[n]] = th]
  <2>1. q.tail = c[n] /\ q.head = c[1] /\ c[n] \in Threads /\ th \in Threads
    BY <1>1, <1>2, <1>3 DEF InOrder
  <2>2. q.tail # THREAD_NULL
    BY <2>1, RunQueueAssumption
  <2> QED
    BY <2>1, <2>2 DEF PushRq, Queues
<1>6. q.next \in [Threads -> Pointers] /\ th \in Threads /\ c[n] \in Threads
  BY <1>2, <1>3 DEF Queues
<1>7. ASSUME NEW i \in 1 .. n, i < n, i # k
      PROVE  p.next[c[i]] = c[i + 1]
  <2>1. c[i] # th /\ c[i] # c[n] /\ c[i] \in Threads
    BY <1>1, <1>2, <1>3, <1>7 DEF InOrder
  <2>2. p.next[c[i]] = q.next[c[i]]
    BY <1>5, <1>6, <2>1
  <2> QED
    BY <1>1, <1>7, <2>2 DEF InOrder
<1>8. p.next[th] \in {THREAD_NULL, th}
  BY <1>5, <1>6
<1>9. InOrder(p, k, d)
  <2>1. ASSUME NEW i \in 1 .. k, i < k
        PROVE  p.next[d[i]] = d[i + 1]
    <3>1. i \in 1 .. n /\ i < n /\ i # k /\ i + 1 \in 1 .. k
      BY <1>3, <2>1
    <3> QED
      BY <1>4, <1>7, <3>1
  <2>2. p.head = d[1] /\ p.tail = d[k] /\ p.next[d[k]] \in {THREAD_NULL, d[k]}
    BY <1>2, <1>3, <1>4, <1>5, <1>8
  <2>3. ASSUME NEW i \in 1 .. k, NEW j \in 1 .. k, d[i] = d[j]
        PROVE  i = j
    BY <1>1, <1>3, <1>4, <2>3 DEF InOrder
  <2> HIDE DEF d, p
  <2> QED
    BY <1>3, <2>1, <2>2, <2>3 DEF InOrder
<1>10. Chain(p, {d[i] : i \in 1 .. k}) /\ {d[i] : i \in 1 .. k} \in SUBSET S
  <2> HIDE DEF d, p
  <2> QED
    BY <1>1, <1>3, <1>4, <1>9 DEF Chain
<1>11. ASSUME th = q.tail
       PROVE  Chain(p, S)
  <2>1. k = n
    BY <1>1, <1>2, <1>3, <1>11 DEF InOrder
  <2>2. {d[i] : i \in 1 .. k} = S
    <3> HIDE DEF d
    <3> QED
      BY <1>1, <1>4, <2>1
  <2> QED
    BY <1>10, <2>2
<1> QED
  BY <1>5, <1>10, <1>11

(* Taking the first thread: it is gone, unless it is the only one and was  *)
(* queued again.                                                           *)
LEMMA Popped ==
    ASSUME NEW q \in Queues, NEW S, Chain(q, S), S # {}
    PROVE  /\ q.head \in S
           /\ \/ Chain(PopRq(q), S \ {q.head})
              \/ Chain(PopRq(q), S) /\ S = {q.head} /\ PopRq(q).tail = q.head
<1>0. PICK n \in Nat : \E c \in [1 .. n -> Threads] :
          InOrder(q, n, c) /\ S = {c[i] : i \in 1 .. n}
  BY DEF Chain
<1>1. PICK c \in [1 .. n -> Threads] : InOrder(q, n, c) /\ S = {c[i] : i \in 1 .. n}
  BY <1>0
<1> DEFINE p == PopRq(q)
           h == c[1]
<1>2. n # 0 /\ 1 \in 1 .. n /\ n \in 1 .. n
  BY <1>1
<1>3. q.head = h /\ h \in Threads /\ h \in S /\ h # THREAD_NULL /\ q.tail = c[n]
  BY <1>1, <1>2, RunQueueAssumption DEF InOrder
<1>4. /\ p.head = q.next[h]
      /\ p.tail = IF q.next[h] = THREAD_NULL THEN THREAD_NULL ELSE c[n]
      /\ p.next = [q.next EXCEPT ![h] = THREAD_NULL]
  BY <1>3 DEF PopRq, Queues
<1>5. q.next \in [Threads -> Pointers]
  BY DEF Queues
<1>6. CASE n = 1 /\ q.next[h] = THREAD_NULL
  <2> DEFINE d == [i \in 1 .. 0 |-> c[i]]
  <2>1. p.head = THREAD_NULL /\ p.tail = THREAD_NULL
    BY <1>4, <1>6
  <2>2. d \in [1 .. 0 -> Threads] /\ {d[i] : i \in 1 .. 0} = {}
    OBVIOUS
  <2>3. InOrder(p, 0, d)
    <3> HIDE DEF p, d
    <3> QED BY <2>1 DEF InOrder
  <2>4. S \ {h} = {}
    BY <1>1, <1>6
  <2>5. Chain(p, {})
    <3> HIDE DEF p, d
    <3> QED BY <2>2, <2>3 DEF Chain
  <2> QED
    BY <1>3, <2>4, <2>5
<1>7. CASE n = 1 /\ q.next[h] # THREAD_NULL
  <2>1. q.next[h] = h
    BY <1>1, <1>2, <1>7 DEF InOrder
  <2>2. p.head = h /\ p.tail = h /\ p.next[h] = THREAD_NULL
    BY <1>3, <1>4, <1>5, <1>7, <2>1
  <2>3. InOrder(p, n, c)
    <3> HIDE DEF p
    <3> QED BY <1>7, <2>2, <1>1 DEF InOrder
  <2>4. S = {h}
    BY <1>1, <1>7
  <2>5. Chain(p, S)
    <3> HIDE DEF p
    <3> QED BY <1>1, <2>3 DEF Chain
  <2> QED
    BY <1>3, <2>2, <2>4, <2>5
<1>8. CASE n # 1
  <2> DEFINE m == n - 1
             d == [i \in 1 .. m |-> c[i + 1]]
  <2>1. /\ m \in Nat /\ m # 0 /\ m \in 1 .. m /\ 1 \in 1 .. m /\ m + 1 = n /\ 2 \in 1 .. n
        /\ \A i \in 1 .. m : i + 1 \in 1 .. n /\ i + 1 # 1 /\ d[i] = c[i + 1]
    BY <1>2, <1>8
  <2>2. q.next[h] = c[2] /\ c[2] # THREAD_NULL
    <3>1. 1 < n /\ 1 + 1 = 2 /\ c[2] \in Threads
      BY <1>2, <1>8, <2>1
    <3> QED
      BY <1>1, <1>2, <3>1, RunQueueAssumption DEF InOrder
  <2>3. p.head = d[1] /\ p.tail = d[m]
    BY <1>4, <2>1, <2>2
  <2>4. \A i \in 1 .. m : d[i] \in Threads /\ d[i] # h /\ p.next[d[i]] = q.next[d[i]]
    <3>1. ASSUME NEW i \in 1 .. m
          PROVE  d[i] \in Threads /\ d[i] # h
      BY <1>1, <1>2, <2>1 DEF InOrder
    <3> QED
      BY <1>3, <1>4, <1>5, <3>1
  <2>5. d \in [1 .. m -> Threads]
    BY <2>4
  <2>6. ASSUME NEW i \in 1 .. m, i < m
        PROVE  p.next[d[i]] = d[i + 1]
    <3>1. i + 1 \in 1 .. m /\ i + 1 \in 1 .. n /\ i + 1 < n
      BY <2>1, <2>6
    <3>2. d[i] = c[i + 1] /\ d[i + 1] = c[(i + 1) + 1]
      BY <2>1, <3>1
    <3> HIDE DEF d, m, p
    <3> QED
      BY <1>1, <2>4, <3>1, <3>2 DEF InOrder
  <2>7. p.next[d[m]] \in {THREAD_NULL, d[m]}
    <3>1. d[m] = c[n]
      BY <2>1
    <3>2. p.next[d[m]] = q.next[c[n]]
      <4> HIDE DEF d, m, p
      <4> QED BY <2>1, <2>4, <3>1
    <3> QED
      BY <1>1, <1>2, <3>1, <3>2 DEF InOrder
  <2>8. ASSUME NEW i \in 1 .. m, NEW j \in 1 .. m, d[i] = d[j]
        PROVE  i = j
    <3>1. i + 1 = j + 1
      BY <1>1, <2>1, <2>8 DEF InOrder
    <3> QED
      BY <3>1
  <2>9. InOrder(p, m, d)
    <3> HIDE DEF p, d, m
    <3> QED BY <2>1, <2>3, <2>6, <2>7, <2>8 DEF InOrder
  <2>10. S \ {h} = {d[i] : i \in 1 .. m}
    <3>1. ASSUME NEW t \in S, t # h
          PROVE  \E i \in 1 .. m : t = d[i]
      <4>1. PICK j \in 1 .. n : t = c[j]
        BY <1>1
      <4>2. j # 1 /\ j - 1 \in 1 .. m /\ (j - 1) + 1 = j
        BY <3>1, <4>1
      <4> QED
        BY <2>1, <4>1, <4>2
    <3>2. ASSUME NEW i \in 1 .. m
          PROVE  d[i] \in S /\ d[i] # h
      BY <1>1, <2>1, <2>4
    <3> HIDE DEF d, m
    <3> QED BY <3>1, <3>2
  <2>11. Chain(p, S \ {h})
    <3> HIDE DEF p, d, m
    <3> QED BY <2>1, <2>5, <2>9, <2>10 DEF Chain
  <2> QED
    BY <1>3, <2>11
<1> QED
  BY <1>6, <1>7, <1>8

(* thread_create queues its thread as push_rq does: what it clears first,  *)
(* push_rq sets.                                                           *)
LEMMA CreatePushes ==
    ASSUME NEW q \in Queues, NEW t \in Threads
    PROVE  ThreadCreate(q, t) = PushRq(q, t)
<1> DEFINE cleared == [q EXCEPT !.next[t] = THREAD_NULL, !.prev[t] = THREAD_NULL]
<1>1. /\ cleared.head = q.head /\ cleared.tail = q.tail
      /\ cleared.next = [q.next EXCEPT ![t] = THREAD_NULL]
      /\ cleared.prev = [q.prev EXCEPT ![t] = THREAD_NULL]
      /\ cleared \in Queues
  BY DEF Queues, Pointers
<1> HIDE DEF cleared
<1>2. PushRq(cleared, t) = PushRq(q, t)
  <2> DEFINE a == PushRq(cleared, t)
             b == PushRq(q, t)
  <2>1. /\ a \in [head : {a.head}, tail : {a.tail}, next : {a.next}, prev : {a.prev}]
        /\ b \in [head : {b.head}, tail : {b.tail}, next : {b.next}, prev : {b.prev}]
    BY <1>1 DEF PushRq, Queues
  <2>2. a.head = b.head /\ a.tail = b.tail
    BY <1>1 DEF PushRq, Queues
  <2>3. a.next = b.next
    BY <1>1 DEF PushRq, Queues
  <2>4. a.prev = b.prev
    BY <1>1 DEF PushRq, Queues
  <2> HIDE DEF a, b
  <2>5. a = b
    BY <2>1, <2>2, <2>3, <2>4
  <2> QED
    BY <2>5 DEF a, b
<1> QED
  BY <1>2 DEF ThreadCreate, cleared

LEMMA ChainEmpty == Empty \in Queues /\ Chain(Empty, {})
<1> DEFINE c == [i \in 1 .. 0 |-> THREAD_NULL]
<1>1. c \in [1 .. 0 -> Threads] /\ {c[i] : i \in 1 .. 0} = {}
  OBVIOUS
<1>2. InOrder(Empty, 0, c)
  BY DEF InOrder, Empty
<1>3. Chain(Empty, {})
  <2> HIDE DEF c
  <2> QED BY <1>1, <1>2 DEF Chain
<1> QED
  BY <1>3 DEF Empty, Queues, Pointers

(* A queue that has threads has a head and a tail.                         *)
LEMMA ChainEnds ==
    ASSUME NEW q, NEW S, Chain(q, S), S # {}
    PROVE  q.head \in Threads /\ q.tail \in Threads /\ S \subseteq Threads
           /\ q.head # THREAD_NULL /\ q.tail # THREAD_NULL
<1>0. PICK n \in Nat : \E c \in [1 .. n -> Threads] :
          InOrder(q, n, c) /\ S = {c[i] : i \in 1 .. n}
  BY DEF Chain
<1>1. PICK c \in [1 .. n -> Threads] : InOrder(q, n, c) /\ S = {c[i] : i \in 1 .. n}
  BY <1>0
<1>2. n # 0 /\ 1 \in 1 .. n /\ n \in 1 .. n
  BY <1>1
<1> QED
  BY <1>1, <1>2, RunQueueAssumption DEF InOrder

(* Queueing any thread.                                                    *)
LEMMA Pushed ==
    ASSUME NEW q \in Queues, NEW S, Chain(q, S), NEW th \in Threads
    PROVE  \E R : Chain(PushRq(q, th), R) /\ R # {}
<1>1. CASE th \in S
  <2>1. PICK R \in SUBSET S : Chain(PushRq(q, th), R)
    BY <1>1, PushAgain
  <2>2. R # {}
    <3>1. PushRq(q, th).tail = th /\ q.tail # THREAD_NULL
      BY <1>1, PushAgain, ChainEnds
    <3>2. ASSUME R = {}
          PROVE  FALSE
      <4>1. PushRq(q, th).tail = THREAD_NULL
        <5>1. PICK n \in Nat : \E c \in [1 .. n -> Threads] :
                  InOrder(PushRq(q, th), n, c) /\ R = {c[i] : i \in 1 .. n}
          BY <2>1 DEF Chain
        <5>2. n = 0
          BY <3>2, <5>1
        <5> QED
          BY <5>1, <5>2 DEF InOrder
      <4> QED
        BY <3>1, <4>1, RunQueueAssumption
    <3> QED
      BY <3>2
  <2> QED
    BY <2>1, <2>2
<1>2. CASE th \notin S
  <2>1. Chain(PushRq(q, th), S \cup {th})
    BY <1>2, PushNew
  <2> QED
    BY <2>1
<1> QED
  BY <1>1, <1>2

(* A turn of schedule(): the head goes to the tail, or another thread goes *)
(* there and only the head may be gone.                                    *)
LEMMA Rotated ==
    ASSUME NEW q \in Queues, NEW S, Chain(q, S), S # {}, NEW th \in Threads
    PROVE  /\ \E R : Chain(PushRq(PopRq(q), th), R) /\ R # {}
           /\ th = q.head => Chain(PushRq(PopRq(q), th), S)
           /\ th \notin S => \E R : /\ Chain(PushRq(PopRq(q), th), R) /\ R # {}
                                    /\ S \subseteq R \cup {q.head}
<1> DEFINE p == PopRq(q)
<1>1. q.head \in S /\ (\/ Chain(p, S \ {q.head})
                       \/ Chain(p, S) /\ S = {q.head} /\ p.tail = q.head)
  BY Popped
<1>2. p \in Queues
  BY ChainEnds, PopRqResult
<1> HIDE DEF p
<1>3. CASE Chain(p, S \ {q.head})
  <2>1. \E R : Chain(PushRq(p, th), R) /\ R # {}
    BY <1>2, <1>3, Pushed
  <2>2. ASSUME th \notin S \ {q.head}
        PROVE  Chain(PushRq(p, th), (S \ {q.head}) \cup {th})
    BY <1>2, <1>3, <2>2, PushNew
  <2>3. th = q.head => (S \ {q.head}) \cup {th} = S
    BY <1>1
  <2>4. th \notin S => th \notin S \ {q.head} /\ S \subseteq ((S \ {q.head}) \cup {th}) \cup {q.head}
                       /\ (S \ {q.head}) \cup {th} # {}
    OBVIOUS
  <2>5. th = q.head => Chain(PushRq(p, th), S)
    BY <2>2, <2>3
  <2>6. ASSUME th \notin S
        PROVE  \E R : Chain(PushRq(p, th), R) /\ R # {} /\ S \subseteq R \cup {q.head}
    BY <2>2, <2>4, <2>6
  <2> QED
    BY <2>1, <2>5, <2>6 DEF p
<1>4. CASE Chain(p, S) /\ S = {q.head} /\ p.tail = q.head
  <2>1. \E R : Chain(PushRq(p, th), R) /\ R # {}
    BY <1>2, <1>4, Pushed
  <2>2. th = q.head => Chain(PushRq(p, th), S)
    BY <1>2, <1>4, PushAgain
  <2>3. ASSUME th \notin S
        PROVE  \E R : Chain(PushRq(p, th), R) /\ R # {} /\ S \subseteq R \cup {q.head}
    <3>1. Chain(PushRq(p, th), S \cup {th})
      BY <1>2, <1>4, <2>3, PushNew
    <3> QED
      BY <3>1
  <2> QED
    BY <2>1, <2>2, <2>3 DEF p
<1> QED
  BY <1>1, <1>3, <1>4

(* thread_create, with the second push of those that make one.             *)
LEMMA Created ==
    ASSUME NEW q \in Queues, NEW S, Chain(q, S), NEW t \in Threads
    PROVE  /\ ThreadCreate(q, t) \in Queues
           /\ \E R : Chain(ThreadCreate(q, t), R) /\ R # {}
           /\ \E R : Chain(PushRq(ThreadCreate(q, t), t), R) /\ R # {}
           /\ t \notin S => /\ Chain(ThreadCreate(q, t), S \cup {t})
                            /\ Chain(PushRq(ThreadCreate(q, t), t), S \cup {t})
<1> DEFINE p == ThreadCreate(q, t)
<1>0. q.head = THREAD_NULL <=> q.tail = THREAD_NULL
  <2>1. CASE S # {}
    BY <2>1, ChainEnds
  <2>2. CASE S = {}
    <3>1. PICK n \in Nat : \E c \in [1 .. n -> Threads] :
              InOrder(q, n, c) /\ S = {c[i] : i \in 1 .. n}
      BY DEF Chain
    <3>2. n = 0
      BY <2>2, <3>1
    <3> QED
      BY <3>1, <3>2 DEF InOrder
  <2> QED
    BY <2>1, <2>2
<1>1. p = PushRq(q, t) /\ p \in Queues
  BY <1>0, CreatePushes, ThreadCreateResult
<1> HIDE DEF p
<1>2. \E R : Chain(p, R) /\ R # {}
  BY <1>1, Pushed
<1>3. \E R : Chain(PushRq(p, t), R) /\ R # {}
  BY <1>1, <1>2, Pushed
<1>4. ASSUME t \notin S
      PROVE  Chain(p, S \cup {t}) /\ Chain(PushRq(p, t), S \cup {t})
  <2>1. Chain(p, S \cup {t}) /\ p.tail = t
    BY <1>1, <1>4, PushNew
  <2> QED
    BY <1>1, <2>1, PushAgain
<1> QED
  BY <1>1, <1>2, <1>3, <1>4 DEF p

-----------------------------------------------------------------------------
(* The queue is a list; it is empty before boot and then never again.      *)
Linked == Chain(rq, Queued) /\ (pc = "boot" <=> Queued = {})
Dropped ==
    (/\ cur_thread \notin Queued
     /\ \A t \in Queued : status[t] # FREE)
       => Queued \subseteq Queued' \cup {cur_thread'}

LEMMA LinkedAfter ==
    ASSUME NEW R, Chain(rq', R), R # {}, pc' # "boot"
    PROVE  Linked' /\ Queued' = R
<1>1. Queued' = R
  BY ChainMet, QueuedIsMet
<1> QED
  BY <1>1 DEF Linked

LEMMA LinkedStep ==
    ASSUME IndInv, Linked, [Next]_vars
    PROVE  Linked' /\ Dropped
<1>1. rq \in Queues /\ Chain(rq, Queued) /\ (pc = "boot" <=> Queued = {})
  BY DEF IndInv, TypeOK, Linked, Queues
<1>2. CASE InitScheduler
  <2>1. 0 \in Threads /\ 1 \in Threads
    BY RunQueueAssumption DEF Threads
  <2> DEFINE one == ThreadCreate(Empty, 0)
  <2>2. one \in Queues /\ \E R : Chain(one, R)
    BY <2>1, ChainEmpty, Created
  <2> HIDE DEF one
  <2>3. \E R : Chain(PushRq(ThreadCreate(one, 1), 1), R) /\ R # {}
    BY <2>1, <2>2, Created
  <2>4. \E R : Chain(rq', R) /\ R # {}
    BY <1>2, <2>3 DEF InitScheduler, one
  <2>5. pc' # "boot" /\ pc = "boot"
    BY <1>2 DEF InitScheduler
  <2> QED
    BY <1>1, <2>4, <2>5, LinkedAfter DEF Dropped
<1>3. CASE PickDead
  <2>1. Queued # {} /\ pc' # "boot" /\ rq' = PushRq(PopRq(rq), rq.head)
    BY <1>1, <1>3 DEF PickDead
  <2>2. rq.head \in Threads
    BY <1>1, <2>1, ChainEnds
  <2>3. Chain(rq', Queued)
    BY <1>1, <2>1, <2>2, Rotated
  <2> QED
    BY <2>1, <2>3, LinkedAfter DEF Dropped
<1>4. CASE PickLive
  <2>1. /\ Queued # {} /\ pc' # "boot" /\ rq' = PushRq(PopRq(rq), cur_thread)
        /\ cur_thread' = rq.head /\ cur_thread \in Threads
    BY <1>1, <1>4 DEF PickLive, IndInv, TypeOK
  <2>2. /\ \E R : Chain(rq', R) /\ R # {}
        /\ cur_thread \notin Queued =>
             \E R : Chain(rq', R) /\ R # {} /\ Queued \subseteq R \cup {rq.head}
    BY <1>1, <2>1, Rotated
  <2>3. Linked'
    BY <2>1, <2>2, LinkedAfter
  <2>4. ASSUME cur_thread \notin Queued
        PROVE  Queued \subseteq Queued' \cup {cur_thread'}
    <3>1. PICK R : Chain(rq', R) /\ R # {} /\ Queued \subseteq R \cup {rq.head}
      BY <2>2, <2>4
    <3>2. Queued' = R
      BY <2>1, <3>1, LinkedAfter
    <3> QED
      BY <2>1, <3>1, <3>2
  <2> QED
    BY <2>3, <2>4 DEF Dropped
<1>5. CASE Fork \/ ForkNoProgram
  <2>1. PICK t \in Threads :
            /\ FirstFree(t)
            /\ \/ rq' = ThreadCreate(rq, t)
               \/ rq' = PushRq(ThreadCreate(rq, t), t)
    BY <1>5 DEF Fork, ForkNoProgram
  <2>2. pc' # "boot"
    BY <1>5 DEF Fork, ForkNoProgram
  <2>3. \E R : Chain(rq', R) /\ R # {}
    BY <1>1, <2>1, Created
  <2>4. Linked'
    BY <2>2, <2>3, LinkedAfter
  <2>5. ASSUME \A u \in Queued : status[u] # FREE
        PROVE  Queued \subseteq Queued'
    <3>1. t \notin Queued
      BY <2>1, <2>5 DEF FirstFree
    <3>2. Chain(rq', Queued \cup {t})
      BY <1>1, <2>1, <3>1, Created
    <3>3. Queued' = Queued \cup {t}
      BY <2>2, <3>2, LinkedAfter
    <3> QED
      BY <3>3
  <2> QED
    BY <2>4, <2>5 DEF Dropped
<1>6. CASE Tick \/ Exit \/ (\E t \in Threads : Kill(t) \/ KillIgnored(t)) \/ ForkFails
            \/ UNCHANGED vars
  <2>1. rq' = rq /\ (pc' = "boot" <=> pc = "boot")
    BY <1>6 DEF Tick, Exit, Kill, KillIgnored, ForkFails, Schedule, vars
  <2>2. Queued' = Queued
    BY <2>1, QueuedIsMet
  <2> QED
    BY <1>1, <2>1, <2>2 DEF Linked, Dropped
<1> QED
  BY <1>2, <1>3, <1>4, <1>5, <1>6 DEF Next, Syscall, Pick

LEMMA LinkedInit ==
    ASSUME Init
    PROVE  Linked
<1>1. rq = Empty /\ pc = "boot"
  BY DEF Init
<1>2. Queued = {}
  BY <1>1, ChainEmpty, ChainMet, QueuedIsMet
<1> QED
  BY <1>1, <1>2, ChainEmpty DEF Linked

LEMMA LinkedAlways == Spec => []Linked
BY LinkedInit, LinkedStep, Invariance, PTL DEF Spec

(* For any number of threads, however often threads have been queued       *)
(* twice, pushing and popping leave a queue whose tail the walk from the   *)
(* head meets: schedule() never pops a null thread and what push_rq        *)
(* appends can be reached (sched.c:57).                                    *)
THEOREM QueueAlwaysUsable == Spec => []QueueUsable
<1>1. Linked => QueueUsable
  BY ChainMet DEF Linked, QueueUsable
<1> QED
  BY <1>1, LinkedAlways, PTL

(* The only way to lose a thread is to queue one that is queued: the one   *)
(* that runs (init_scheduler, copy_thread), or one whose descriptor a      *)
(* failed fork left on the queue.                                          *)
THEOREM LossByDoubleQueueing == Spec => LossNeedsDoubleQueueing
<1>1. IndInv /\ Linked /\ [Next]_vars =>
        [(/\ cur_thread \notin Queued
          /\ \A t \in Queued : status[t] # FREE)
            => Queued \subseteq Queued' \cup {cur_thread'}]_vars
  BY LinkedStep DEF Dropped
<1> QED
  BY <1>1, LinkedAlways, Invariance, PTL DEF Spec, LossNeedsDoubleQueueing

-----------------------------------------------------------------------------
(***************************************************************************)
(* The search of schedule() comes to every thread that waits               *)
(***************************************************************************)

(* The walk from the head meets t after n others.                          *)
Place(q, t, n) == Walk(q)[n] = t /\ \A m \in 0 .. n - 1 : Walk(q)[m] # t

(* A turn of the search keeps the queue's threads, and all but the dead    *)
(* one it puts back come one place nearer to the head.                     *)
SearchAdvances ==
    [][PickDead =>
          /\ Queued' = Queued
          /\ \A t \in Queued, n \in Threads :
                Place(rq, t, n) /\ n > 0 => Place(rq', t, n - 1)]_vars

(* A dead thread that goes from the head to the tail moves all others up.  *)
LEMMA RotatedInOrder ==
    ASSUME NEW q \in Queues, NEW n \in Nat \ {0}, NEW c \in [1 .. n -> Threads],
           InOrder(q, n, c)
    PROVE  LET d == [i \in 1 .. n |-> IF i < n THEN c[i + 1] ELSE c[1]]
           IN  d \in [1 .. n -> Threads] /\ InOrder(PushRq(PopRq(q), q.head), n, d)
<1> DEFINE d == [i \in 1 .. n |-> IF i < n THEN c[i + 1] ELSE c[1]]
           h == c[1]
           p == PopRq(q)
           r == PushRq(p, h)
<1>1. 1 \in 1 .. n /\ n \in 1 .. n /\ THREAD_NULL \notin Threads /\ n >= 1
  BY RunQueueAssumption
<1>2. h \in Threads /\ q.head = h /\ q.tail = c[n] /\ c[n] \in Threads
  BY <1>1 DEF InOrder
<1>3. q.next \in [Threads -> Pointers]
  BY DEF Queues
<1>4. /\ p.head = q.next[h]
      /\ p.tail = IF q.next[h] = THREAD_NULL THEN THREAD_NULL ELSE c[n]
      /\ p.next = [q.next EXCEPT ![h] = THREAD_NULL]
  BY <1>2 DEF PopRq, Queues
<1>5. p \in Queues
  BY <1>1, <1>2, PopRqResult
<1>6. \A i \in 1 .. n : d[i] = IF i < n THEN c[i + 1] ELSE h
  OBVIOUS
<1>7. \A i \in 1 .. n : d[i] \in Threads
  BY <1>2, <1>6
<1>8. d \in [1 .. n -> Threads]
  BY <1>7
<1>9. \A i, j \in 1 .. n : d[i] = d[j] => i = j
  <2> SUFFICES ASSUME NEW i \in 1 .. n, NEW j \in 1 .. n, d[i] = d[j] PROVE i = j
    OBVIOUS
  <2>1. \A a, b \in 1 .. n : c[a] = c[b] => a = b
    BY DEF InOrder
  <2> HIDE DEF d
  <2>2. CASE i < n /\ j < n
    <3>1. i + 1 \in 1 .. n /\ j + 1 \in 1 .. n /\ c[i + 1] = c[j + 1]
      BY <1>6, <2>2
    <3>2. i + 1 = j + 1
      BY <2>1, <3>1
    <3> QED
      BY <3>2
  <2>3. CASE i < n /\ ~(j < n)
    <3>1. i + 1 \in 1 .. n /\ c[i + 1] = c[1]
      BY <1>6, <2>3
    <3>2. i + 1 = 1
      BY <1>1, <2>1, <3>1
    <3> QED
      BY <3>2
  <2>4. CASE ~(i < n) /\ j < n
    <3>1. j + 1 \in 1 .. n /\ c[j + 1] = c[1]
      BY <1>6, <2>4
    <3>2. j + 1 = 1
      BY <1>1, <2>1, <3>1
    <3> QED
      BY <3>2
  <2>5. CASE ~(i < n) /\ ~(j < n)
    BY <2>5
  <2> QED
    BY <2>2, <2>3, <2>4, <2>5
<1>10. CASE n = 1 /\ q.next[h] = THREAD_NULL
  <2>1. p.tail = THREAD_NULL
    BY <1>4, <1>10
  <2>2. r.head = h /\ r.tail = h /\ r.next[h] = THREAD_NULL
    <3> HIDE DEF p
    <3> QED BY <1>2, <1>5, <2>1 DEF PushRq, Queues
  <2>3. d[1] = h
    BY <1>10
  <2>4. InOrder(r, n, d)
    <3> HIDE DEF r, d
    <3> QED BY <1>9, <1>10, <2>2, <2>3 DEF InOrder
  <2> QED
    BY <1>2, <1>8, <2>4
<1>11. CASE n = 1 /\ q.next[h] # THREAD_NULL
  <2>1. q.next[h] = h
    BY <1>1, <1>11 DEF InOrder
  <2>2. p.head = h /\ p.tail = h
    BY <1>1, <1>2, <1>4, <1>11, <2>1
  <2>3. r.head = h /\ r.tail = h /\ r.next[h] = h
    <3> HIDE DEF p
    <3> QED BY <1>1, <1>2, <1>5, <2>2 DEF PushRq, Queues
  <2>4. d[1] = h
    BY <1>11
  <2>5. InOrder(r, n, d)
    <3> HIDE DEF r, d
    <3> QED BY <1>9, <1>11, <2>3, <2>4 DEF InOrder
  <2> QED
    BY <1>2, <1>8, <2>5
<1>12. CASE n # 1
  <2>1. 1 < n /\ 2 \in 1 .. n /\ c[2] \in Threads /\ n - 1 \in 1 .. n
    BY <1>1, <1>12
  <2>2. q.next[h] = c[2] /\ c[2] # THREAD_NULL /\ c[n] # h
    <3>1. 1 + 1 = 2
      OBVIOUS
    <3> QED
      BY <1>1, <2>1, <3>1 DEF InOrder
  <2>3. p.head = c[2] /\ p.tail = c[n] /\ p.tail # THREAD_NULL
    BY <1>1, <1>2, <1>4, <2>2
  <2>4. /\ r.head = c[2] /\ r.tail = h
        /\ r.next = [[p.next EXCEPT ![h] = THREAD_NULL] EXCEPT ![c[n]] = h]
    <3> HIDE DEF p
    <3> QED BY <2>3 DEF PushRq
  <2>5. \A t \in Threads :
            r.next[t] = IF t = c[n] THEN h ELSE IF t = h THEN THREAD_NULL ELSE q.next[t]
    <3>1. p.next \in [Threads -> Pointers] /\ \A t \in Threads \ {h} : p.next[t] = q.next[t]
      BY <1>3, <1>4, <1>5 DEF Queues
    <3> HIDE DEF p, r
    <3> QED BY <1>2, <2>4, <3>1
  <2>6. d[1] = c[2] /\ d[n] = h
    BY <1>1, <1>6, <2>1
  <2>7. ASSUME NEW i \in 1 .. n, i < n
        PROVE  r.next[d[i]] = d[i + 1]
    <3>1. i + 1 \in 1 .. n /\ d[i] = c[i + 1] /\ c[i + 1] \in Threads
      BY <1>6, <2>7
    <3>2. CASE i + 1 = n
      <4>1. r.next[d[i]] = h
        <5> HIDE DEF r, d
        <5> QED BY <2>5, <3>1, <3>2
      <4> QED
        BY <2>6, <3>2, <4>1
    <3>3. CASE i + 1 # n
      <4>1. i + 1 < n /\ d[i + 1] = c[(i + 1) + 1]
        BY <1>6, <3>1, <3>3
      <4>2. c[i + 1] # c[n] /\ c[i + 1] # h /\ q.next[c[i + 1]] = c[(i + 1) + 1]
        <5>1. i + 1 # 1
          OBVIOUS
        <5> QED
          BY <1>1, <3>1, <3>3, <4>1, <5>1 DEF InOrder
      <4> HIDE DEF r, d
      <4> QED
        BY <2>5, <3>1, <4>1, <4>2
    <3> QED
      BY <3>2, <3>3
  <2>8. r.next[d[n]] = THREAD_NULL
    <3> HIDE DEF r, d
    <3> QED BY <1>2, <2>2, <2>5, <2>6
  <2>9. InOrder(r, n, d)
    <3> HIDE DEF r, d
    <3> QED BY <1>1, <1>9, <2>4, <2>6, <2>7, <2>8 DEF InOrder
  <2> QED
    BY <1>2, <1>8, <2>9
<1> QED
  BY <1>10, <1>11, <1>12

(* The walk of the turned queue meets each of them one place earlier.      *)
LEMMA MovedUp ==
    ASSUME NEW q \in Queues, NEW S, Chain(q, S), NEW t \in S, NEW m \in Threads,
           m > 0, Place(q, t, m)
    PROVE  Place(PushRq(PopRq(q), q.head), t, m - 1)
<1>0. PICK n \in Nat : \E c \in [1 .. n -> Threads] :
          InOrder(q, n, c) /\ S = {c[i] : i \in 1 .. n}
  BY DEF Chain
<1>1. PICK c \in [1 .. n -> Threads] : InOrder(q, n, c) /\ S = {c[i] : i \in 1 .. n}
  BY <1>0
<1> DEFINE d == [i \in 1 .. n |-> IF i < n THEN c[i + 1] ELSE c[1]]
           r == PushRq(PopRq(q), q.head)
<1>2. /\ n # 0 /\ n \in 1 .. n /\ t \in Threads /\ THREAD_NULL \notin Threads
      /\ m \in Nat /\ n <= MAX_THREAD_COUNT /\ MAX_THREAD_COUNT \in Nat /\ m < MAX_THREAD_COUNT
  BY <1>1, ChainShort, RunQueueAssumption DEF Threads
<1>3. d \in [1 .. n -> Threads] /\ InOrder(r, n, d)
  BY <1>1, <1>2, RotatedInOrder
<1>4. \A i \in Threads : Walk(q)[i] = IF i < n THEN c[i + 1] ELSE q.next[c[n]]
  BY <1>1, <1>2, WalkInOrder
<1>5. \A i \in Threads : i < n => Walk(r)[i] = d[i + 1]
  <2> HIDE DEF d, r
  <2> QED BY <1>3, WalkInOrder
<1>6. m < n
  <2> SUFFICES ASSUME ~(m < n) PROVE FALSE
    OBVIOUS
  <2>1. Walk(q)[m] = q.next[c[n]] /\ Walk(q)[m] = t
    BY <1>4 DEF Place
  <2>2. t = c[n]
    BY <1>1, <1>2, <2>1 DEF InOrder
  <2>3. n - 1 \in Threads /\ n - 1 < n /\ (n - 1) + 1 = n /\ n - 1 \in 0 .. m - 1
    BY <1>2 DEF Threads
  <2>4. Walk(q)[n - 1] = c[n]
    BY <1>4, <2>3
  <2> QED
    BY <2>2, <2>3, <2>4 DEF Place
<1>7. t = c[m + 1] /\ m + 1 \in 1 .. n
  BY <1>2, <1>4, <1>6 DEF Place
<1>8. Walk(r)[m - 1] = t
  <2>1. m - 1 \in Threads /\ m - 1 < n /\ (m - 1) + 1 = m /\ m \in 1 .. n
    BY <1>2, <1>6 DEF Threads
  <2>2. d[m] = c[m + 1]
    BY <1>6, <2>1
  <2> HIDE DEF d, r
  <2> QED BY <1>5, <1>7, <2>1, <2>2
<1>9. ASSUME NEW k \in 0 .. (m - 1) - 1
      PROVE  Walk(r)[k] # t
  <2>1. k \in Threads /\ k + 1 \in 1 .. n /\ k + 1 < n /\ k + 1 \in Threads /\ k + 1 \in 0 .. m - 1
    BY <1>2, <1>6 DEF Threads
  <2>2. d[k + 1] = c[(k + 1) + 1] /\ k < n
    BY <1>2, <2>1
  <2>3. Walk(r)[k] = d[k + 1]
    <3> HIDE DEF d, r
    <3> QED BY <1>5, <2>1, <2>2
  <2>4. Walk(q)[k + 1] = c[(k + 1) + 1]
    BY <1>4, <2>1
  <2> HIDE DEF d, r
  <2> QED
    BY <2>1, <2>2, <2>3, <2>4 DEF Place
<1> HIDE DEF r
<1>10. Place(r, t, m - 1)
  BY <1>8, <1>9 DEF Place
<1> QED
  BY <1>10 DEF r

(* For any number of threads: while schedule() searches, it loses no       *)
(* thread, and each turn brings every thread one place nearer to the head, *)
(* the first that is not dead too.  So the search ends if there is one, in *)
(* at most as many turns as there are threads (sched.c:36).                *)
THEOREM SearchMovesOn == Spec => SearchAdvances
<1>1. ASSUME IndInv, Linked, PickDead
      PROVE  /\ Queued' = Queued
             /\ \A t \in Queued, n \in Threads :
                   Place(rq, t, n) /\ n > 0 => Place(rq', t, n - 1)
  <2>1. /\ rq \in Queues /\ Chain(rq, Queued) /\ Queued # {} /\ pc' # "boot"
        /\ rq' = PushRq(PopRq(rq), rq.head)
    BY <1>1 DEF IndInv, TypeOK, Linked, Queues, PickDead
  <2>2. rq.head \in Threads
    BY <2>1, ChainEnds
  <2>3. Chain(rq', Queued)
    BY <2>1, <2>2, Rotated
  <2>4. Queued' = Queued
    BY <2>1, <2>3, LinkedAfter
  <2> QED
    BY <2>1, <2>4, MovedUp
<1>2. IndInv /\ Linked /\ [Next]_vars =>
        [PickDead =>
          /\ Queued' = Queued
          /\ \A t \in Queued, n \in Threads :
                Place(rq, t, n) /\ n > 0 => Place(rq', t, n - 1)]_vars
  BY <1>1
<1> QED
  BY <1>2, LinkedAlways, Invariance, PTL DEF Spec, SearchAdvances
=============================================================================
