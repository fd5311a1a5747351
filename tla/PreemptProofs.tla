---------------------------- MODULE PreemptProofs -----------------------------
(***************************************************************************)
(* Proofs about Preempt for every number of threads and every bound on its *)
(* interrupts, calls and tasks.                                            *)
(*                                                                         *)
(* First, Preempt implements RunQueue, so the theorems of RunQueueProofs   *)
(* hold with interrupts nested around schedule() and switches in the       *)
(* middle of handlers.  Second, no interrupt line stays off for good: this *)
(* is inductive with what is known of the threads' frames, and with the    *)
(* fact that a thread that has not begun has none, so that the frame a     *)
(* child begins with replaces nothing.                                     *)
(*                                                                         *)
(* Third, how tasks nest (NestInv): over all threads at most one frame     *)
(* runs a tick and at most one, later in the same stack, a more urgent     *)
(* task; and each frame keeps the priority below it.  Fourth, what the     *)
(* nesting count covers (CountInv): all that the running thread will count *)
(* down, and two more while another thread was left in a section, which is *)
(* what a child's count down needs.  Fifth, from both, what comes on top   *)
(* of a tick before it calls schedule() (TickInv): one interrupt at most,  *)
(* masked to its end, which takes the task that it adds.                   *)
(***************************************************************************)
EXTENDS Preempt, WellFoundedInduction, SequenceTheorems, FiniteSetTheorems, TLAPS

RP == INSTANCE RunQueueProofs

-----------------------------------------------------------------------------
(* The run queue and the thread states move by steps of RunQueue alone.    *)
LEMMA RunQueueStep ==
    ASSUME [Next]_vars
    PROVE  [RP!Next]_RP!vars
<1> USE DEF threads, RP!vars
<1>1. CASE InitScheduler
  <2>1. \A q, t : RQ!PushRq(q, t) = RP!PushRq(q, t)
    BY DEF RQ!PushRq, RP!PushRq
  <2>2. \A q, t : RQ!ThreadCreate(q, t) = RP!ThreadCreate(q, t)
    BY <2>1 DEF RQ!ThreadCreate, RP!ThreadCreate
  <2>3. RQ!Empty = RP!Empty
    BY DEF RQ!Empty, RP!Empty, RQ!Threads, RP!Threads
  <2> QED
    BY <1>1, <2>1, <2>2, <2>3 DEF InitScheduler, RQ!InitScheduler, RP!InitScheduler, RP!Next,
       RQ!RUN, RP!RUN, RQ!READY, RP!READY
<1>2. CASE RunTick
  BY <1>2 DEF RunTick, RQ!Tick, RP!Tick, RQ!Schedule, RP!Schedule, RP!Next
<1>3. CASE PickDead
  BY <1>3 DEF PickDead, RQ!PickDead, RP!PickDead, RP!Next, RP!Pick, RQ!DEAD, RP!DEAD,
      RQ!PushRq, RP!PushRq, RQ!PopRq, RP!PopRq, RQ!Threads, RP!Threads
<1>4. CASE PickStarted \/ PickShell \/ PickChild
  <2>1. RQ!PickLive
    BY <1>4 DEF PickStarted, PickShell, PickChild
  <2>2. RP!PickLive
    BY <2>1 DEF RQ!PickLive, RP!PickLive, RQ!OffStatus, RP!OffStatus, RQ!DEAD, RP!DEAD,
        RQ!READY, RP!READY, RQ!RUN, RP!RUN,
        RQ!PushRq, RP!PushRq, RQ!PopRq, RP!PopRq, RQ!Threads, RP!Threads
  <2> QED
    BY <2>2 DEF RP!Next, RP!Pick
<1>5. CASE ForkCall
  BY <1>5 DEF ForkCall, RQ!Fork, RP!Fork, RP!Next, RP!Syscall, RQ!FirstFree, RP!FirstFree,
      RQ!ThreadCreate, RP!ThreadCreate, RQ!PushRq, RP!PushRq,
      RQ!Threads, RP!Threads, RQ!FREE, RP!FREE, RQ!READY, RP!READY
<1>11. CASE ForkNoProgramCall
  BY <1>11 DEF ForkNoProgramCall, RQ!ForkNoProgram, RP!ForkNoProgram, RP!Next, RP!Syscall,
      RQ!FirstFree, RP!FirstFree, RQ!ThreadCreate, RP!ThreadCreate, RQ!PushRq, RP!PushRq,
      RQ!Threads, RP!Threads, RQ!FREE, RP!FREE
<1>6. CASE KillCall
  BY <1>6 DEF KillCall, RQ!Kill, RP!Kill, RP!Next, RP!Syscall, Threads, RP!Threads,
      RQ!FREE, RP!FREE, RQ!DEAD, RP!DEAD
<1>7. CASE ExitCall
  BY <1>7 DEF ExitCall, RQ!Exit, RP!Exit, RP!Next, RP!Syscall, RQ!Schedule, RP!Schedule,
      RQ!DEAD, RP!DEAD
<1>8. CASE Irq \/ Return \/ Below0 \/ Test \/ UNCHANGED vars
  BY <1>8 DEF Irq, Test, TestPreempt, PutsMessage, TestDone, TimerIrq, UartIrq, UartIrqInUser, Return, LoadAll, Eret, ReadDone,
      Below0, Compute, EnterSection, LeaveSection, Exec, vars
<1>9. CASE AddTask \/ AddTaskFails \/ PopTask \/ PopNothing \/ RunUart \/ RunPrint \/ EndTick \/ Leave
  BY <1>9 DEF AddTask, AddTaskFails, PopTask, PopNothing, RunUart, RunPrint, EndTick, Leave
<1>10. CASE OtherCall \/ ReadCall
  BY <1>10 DEF OtherCall, ReadCall
<1> QED
  BY <1>1, <1>2, <1>3, <1>4, <1>5, <1>6, <1>7, <1>8, <1>9, <1>10, <1>11
     DEF Next, Handle, Pick, Call

(* Interrupts, calls and switches in the middle of handlers implement the  *)
(* run queue of RunQueue.                                                  *)
THEOREM ImplementsRunQueue == Spec => RP!Spec
<1>1. Init => RP!Init
  BY DEF Init, RQ!Init, RP!Init, RQ!Empty, RP!Empty, RQ!Threads, RP!Threads, RQ!FREE, RP!FREE
<1> QED
  BY <1>1, RunQueueStep, PTL DEF Spec, RP!Spec

(* No interleaving of interrupts, calls and switches lets a thread that is *)
(* not the running one be marked as running.                               *)
THEOREM OneRunning == Spec => []RP!OnlyCurrentRuns
<1>1. RP!Spec => []RP!OnlyCurrentRuns
  BY RP!OneRunning, PreemptAssumption DEF RP!Threads
<1> QED
  BY <1>1, ImplementsRunQueue, PTL

(* No interleaving of them revives a thread that exited or was killed.     *)
THEOREM DeadForGood == Spec => RP!DeadStaysDead
<1>1. RP!Spec => RP!DeadStaysDead
  BY RP!DeadForGood, PreemptAssumption DEF RP!Threads
<1> QED
  BY <1>1, ImplementsRunQueue, PTL

(* Under them, too, what push_rq appends can be reached from the head.     *)
THEOREM QueueAlwaysUsable == Spec => []RP!QueueUsable
<1>1. RP!Spec => []RP!QueueUsable
  BY RP!QueueAlwaysUsable, PreemptAssumption DEF RP!Threads
<1> QED
  BY <1>1, ImplementsRunQueue, PTL

-----------------------------------------------------------------------------
(* What is known of a stack: its frames have the three fields, only a      *)
(* system call waits at "read", and only who has a task to add is at "add". *)
IsSeq(s) == \E S : s \in Seq(S)
Suits(irq, at) ==
    /\ at = "read" => irq = "sync"
    /\ at = "add" => irq \in {"timer", "uart", "test"}
IsFrame(f) ==
    /\ f = [irq |-> f.irq, at |-> f.at, orin_prio |-> f.orin_prio]
    /\ Suits(f.irq, f.at)
Frames(s) == IsSeq(s) /\ \A i \in 1 .. Len(s) : IsFrame(s[i])

Stacks ==
    /\ stack = [t \in Threads |-> stack[t]]
    /\ \A t \in Threads : Frames(stack[t])

(* Only a thread that has begun has frames, and only such a thread runs.   *)
Begun ==
    /\ begin = [t \in Threads |-> begin[t]]
    /\ \A t \in Threads : begin[t] # "started" => stack[t] = <<>>
    /\ IF pc = "boot" THEN begin[0] = "started"
       ELSE cur_thread \in Threads /\ begin[cur_thread] = "started"

LineInv == Stacks /\ Begun /\ LinesComeBack

(* A frame that will turn on the line of irq.                              *)
Turns(f, irq) == f.irq = irq /\ f.at \notin {"return", "eret"}

LEMMA Domains ==
    ASSUME NEW s, Frames(s)
    PROVE  Len(s) \in Nat /\ DOMAIN s = 1 .. Len(s)
<1>1. PICK S : s \in Seq(S)
  BY DEF Frames, IsSeq
<1> QED
  BY <1>1, LenProperties

(* The last frame of a stack moves on.                                     *)
LEMMA MovedOn ==
    ASSUME NEW s, Frames(s), Len(s) > 0, NEW f, IsFrame(f)
    PROVE  /\ Frames([s EXCEPT ![Len(s)] = f])
           /\ Len([s EXCEPT ![Len(s)] = f]) = Len(s)
           /\ \A i \in 1 .. Len(s) :
                 [s EXCEPT ![Len(s)] = f][i] = IF i = Len(s) THEN f ELSE s[i]
<1>1. PICK S : s \in Seq(S)
  BY DEF Frames, IsSeq
<1>2. s \in Seq(S \cup {f})
  BY <1>1, SeqMonotonic
<1>3. Len(s) \in 1 .. Len(s)
  BY Domains
<1>4. /\ [s EXCEPT ![Len(s)] = f] \in Seq(S \cup {f})
      /\ Len([s EXCEPT ![Len(s)] = f]) = Len(s)
      /\ \A i \in 1 .. Len(s) :
            [s EXCEPT ![Len(s)] = f][i] = IF i = Len(s) THEN f ELSE s[i]
  BY <1>2, <1>3, ExceptSeq
<1> QED
  BY <1>4 DEF Frames, IsSeq

(* An exception adds one.                                                  *)
LEMMA Pushed ==
    ASSUME NEW s, Frames(s), NEW f, IsFrame(f)
    PROVE  /\ Frames(Append(s, f))
           /\ Len(Append(s, f)) = Len(s) + 1
           /\ Append(s, f)[Len(s) + 1] = f
           /\ \A i \in 1 .. Len(s) : Append(s, f)[i] = s[i]
<1>1. PICK S : s \in Seq(S)
  BY DEF Frames, IsSeq
<1>2. s \in Seq(S \cup {f})
  BY <1>1, SeqMonotonic
<1>3. /\ Append(s, f) \in Seq(S \cup {f})
      /\ Len(Append(s, f)) = Len(s) + 1
      /\ Append(s, f)[Len(s) + 1] = f
      /\ \A i \in 1 .. Len(s) : Append(s, f)[i] = s[i]
  BY <1>2, AppendProperties
<1> QED
  BY <1>3, Domains DEF Frames, IsSeq

(* The return from it removes one.                                         *)
LEMMA Popped ==
    ASSUME NEW s, Frames(s), Len(s) > 0
    PROVE  /\ Frames(SubSeq(s, 1, Len(s) - 1))
           /\ Len(SubSeq(s, 1, Len(s) - 1)) = Len(s) - 1
           /\ \A i \in 1 .. Len(s) - 1 : SubSeq(s, 1, Len(s) - 1)[i] = s[i]
<1>1. PICK S : s \in Seq(S)
  BY DEF Frames, IsSeq
<1>2. Len(s) \in Nat /\ Len(s) - 1 \in Int /\ 1 \in Int
  BY <1>1, Domains
<1>3. \A i \in 1 .. Len(s) - 1 : s[i] \in S
  BY <1>1, <1>2, ElementOfSeq
<1> DEFINE n == Len(s) - 1
           rest == SubSeq(s, 1, n)
<1>4. /\ rest \in Seq(S)
      /\ Len(rest) = IF 1 <= n THEN n - 1 + 1 ELSE 0
      /\ \A i \in 1 .. n - 1 + 1 : rest[i] = s[1 + i - 1]
  <2>1. n \in Int /\ 1 \in Int /\ \A i \in 1 .. n : s[i] \in S
    BY <1>2, <1>3
  <2> HIDE DEF n
  <2> QED
    BY <2>1, SubSeqProperties
<1>5. Len(rest) = n /\ \A i \in 1 .. n : rest[i] = s[i]
  <2>1. n \in Nat /\ n - 1 + 1 = n /\ \A i \in 1 .. n : 1 + i - 1 = i
    BY <1>2
  <2>2. Len(rest) = n
    <3> HIDE DEF rest, n
    <3> QED
      BY <1>4, <2>1
  <2>3. ASSUME NEW i \in 1 .. n
        PROVE  rest[i] = s[i]
    <3>1. rest[i] = s[1 + i - 1]
      <4> HIDE DEF rest, n
      <4> QED
        BY <1>4, <2>1
    <3> HIDE DEF rest, n
    <3> QED
      BY <2>1, <3>1
  <2> QED
    BY <2>2, <2>3
<1>6. Frames(rest)
  <2>1. \A i \in 1 .. n : i \in 1 .. Len(s)
    BY <1>2
  <2> HIDE DEF rest, n
  <2> QED
    BY <1>4, <1>5, <2>1 DEF Frames, IsSeq
<1> QED
  BY <1>5, <1>6

(* The stack of the running thread becomes another one.                    *)
LEMMA StackStep ==
    ASSUME LineInv, cur_thread \in Threads, begin[cur_thread] = "started", UNCHANGED begin,
           NEW r, Frames(r), stack' = [stack EXCEPT ![cur_thread] = r]
    PROVE  /\ Stacks'
           /\ \A t \in Threads : begin'[t] # "started" => stack'[t] = <<>>
           /\ \A irq : (\E i \in DOMAIN r : Turns(r[i], irq)) => TurnsOn(irq)'
           /\ \A irq : TurnsOn(irq) =>
                 \/ TurnsOn(irq)'
                 \/ \E i \in DOMAIN Stack : Turns(Stack[i], irq)
<1>1. /\ stack'[cur_thread] = r
      /\ \A t \in Threads : t # cur_thread => stack'[t] = stack[t]
      /\ stack' = [t \in Threads |-> stack'[t]]
  BY DEF LineInv, Stacks
<1> QED
  BY <1>1 DEF LineInv, Stacks, Begun, TurnsOn, Turns, Stack

(* A handler goes on.  Its line stays promised unless it is about to       *)
(* return.                                                                 *)
Moves(f) ==
    stack' = [stack EXCEPT ![cur_thread] = [Stack EXCEPT ![Depth] = f]]

LEMMA MovesStep ==
    ASSUME LineInv, pc = "run", Depth > 0, UNCHANGED begin,
           NEW f, IsFrame(f), f.irq = Last.irq, Moves(f)
    PROVE  /\ Stacks'
           /\ \A t \in Threads : begin'[t] # "started" => stack'[t] = <<>>
           /\ \A irq : TurnsOn(irq) =>
                 \/ TurnsOn(irq)'
                 \/ Turns(Last, irq) /\ f.at \in {"return", "eret"}
<1> DEFINE r == [Stack EXCEPT ![Depth] = f]
<1>1. cur_thread \in Threads /\ begin[cur_thread] = "started" /\ Frames(Stack)
  BY DEF LineInv, Begun, Stacks, Stack
<1>2. /\ Frames(r) /\ Len(r) = Depth
      /\ \A i \in 1 .. Depth : r[i] = IF i = Depth THEN f ELSE Stack[i]
  BY <1>1, MovedOn DEF Depth
<1>3. /\ DOMAIN r = 1 .. Depth /\ DOMAIN Stack = 1 .. Depth
      /\ Depth \in 1 .. Depth
  <2> HIDE DEF r
  <2> QED
    BY <1>1, <1>2, Domains DEF Depth
<1>4. /\ Stacks'
      /\ \A t \in Threads : begin'[t] # "started" => stack'[t] = <<>>
      /\ \A irq : (\E i \in DOMAIN r : Turns(r[i], irq)) => TurnsOn(irq)'
      /\ \A irq : TurnsOn(irq) =>
            TurnsOn(irq)' \/ \E i \in DOMAIN Stack : Turns(Stack[i], irq)
  <2>1. stack' = [stack EXCEPT ![cur_thread] = r]
    BY DEF Moves
  <2> HIDE DEF r
  <2> QED
    BY <1>1, <1>2, <2>1, StackStep
<1>5. ASSUME NEW irq, NEW i \in DOMAIN Stack, Turns(Stack[i], irq),
             ~(Turns(Last, irq) /\ f.at \in {"return", "eret"})
      PROVE  TurnsOn(irq)'
  <2>1. Turns(r[i], irq)
    <3> HIDE DEF r
    <3> QED
      BY <1>2, <1>3, <1>5 DEF Turns, Last
  <2> HIDE DEF r
  <2> QED
    BY <1>3, <1>4, <1>5, <2>1
<1> QED
  BY <1>4, <1>5

(* An exception is taken, and its own line, if it has one, is promised.    *)
LEMMA PushStep ==
    ASSUME LineInv, pc = "run", UNCHANGED begin,
           NEW irq, NEW at, Suits(irq, at), Push(irq, at)
    PROVE  /\ Stacks'
           /\ \A t \in Threads : begin'[t] # "started" => stack'[t] = <<>>
           /\ \A other : TurnsOn(other) => TurnsOn(other)'
           /\ at \notin {"return", "eret"} => TurnsOn(irq)'
<1> DEFINE f == [irq |-> irq, at |-> at, orin_prio |-> LOW_PRIO]
           r == Append(Stack, f)
<1>1. cur_thread \in Threads /\ begin[cur_thread] = "started" /\ Frames(Stack) /\ IsFrame(f)
  BY DEF LineInv, Begun, Stacks, Stack, IsFrame
<1>2. /\ Frames(r) /\ Len(r) = Depth + 1 /\ r[Depth + 1] = f
      /\ \A i \in 1 .. Depth : r[i] = Stack[i]
  <2> HIDE DEF f
  <2> QED
    BY <1>1, Pushed DEF Depth
<1>3. /\ DOMAIN r = 1 .. Depth + 1 /\ DOMAIN Stack = 1 .. Depth /\ Depth \in Nat
  <2> HIDE DEF r
  <2> QED
    BY <1>1, <1>2, Domains DEF Depth
<1>4. /\ Stacks'
      /\ \A t \in Threads : begin'[t] # "started" => stack'[t] = <<>>
      /\ \A other : (\E i \in DOMAIN r : Turns(r[i], other)) => TurnsOn(other)'
      /\ \A other : TurnsOn(other) =>
            TurnsOn(other)' \/ \E i \in DOMAIN Stack : Turns(Stack[i], other)
  <2>1. stack' = [stack EXCEPT ![cur_thread] = r]
    BY DEF Push, Stack
  <2> HIDE DEF r
  <2> QED
    BY <1>1, <1>2, <2>1, StackStep
<1>5. \A other : (\E i \in DOMAIN Stack : Turns(Stack[i], other)) => TurnsOn(other)'
  <2> HIDE DEF r, f
  <2> QED
    BY <1>2, <1>3, <1>4
<1>6. at \notin {"return", "eret"} => TurnsOn(irq)'
  <2>1. at \notin {"return", "eret"} => Turns(f, irq)
    BY DEF Turns
  <2> HIDE DEF r, f
  <2> QED
    BY <1>2, <1>3, <1>4, <2>1
<1> QED
  BY <1>4, <1>5, <1>6

(* A frame goes that has promised nothing any more.                        *)
LEMMA GoneStep ==
    ASSUME LineInv, pc = "run", Depth > 0, UNCHANGED begin,
           Last.at \in {"return", "eret"} \/ Last.irq = "test",
           stack' = [stack EXCEPT ![cur_thread] = SubSeq(Stack, 1, Depth - 1)]
    PROVE  /\ Stacks'
           /\ \A t \in Threads : begin'[t] # "started" => stack'[t] = <<>>
           /\ \A irq : irq # "test" /\ TurnsOn(irq) => TurnsOn(irq)'
<1> DEFINE r == SubSeq(Stack, 1, Depth - 1)
<1>1. /\ cur_thread \in Threads /\ begin[cur_thread] = "started" /\ Frames(Stack)
      /\ Stack[Depth].at \in {"return", "eret"} \/ Stack[Depth].irq = "test"
  BY DEF LineInv, Begun, Stacks, Stack, Last
<1>2. /\ Frames(r) /\ Len(r) = Depth - 1
      /\ \A i \in 1 .. Depth - 1 : r[i] = Stack[i]
  BY <1>1, Popped DEF Depth
<1>3. DOMAIN r = 1 .. Depth - 1 /\ DOMAIN Stack = 1 .. Depth /\ Depth \in Nat
  <2> HIDE DEF r
  <2> QED
    BY <1>1, <1>2, Domains DEF Depth
<1>4. /\ Stacks'
      /\ \A t \in Threads : begin'[t] # "started" => stack'[t] = <<>>
      /\ \A irq : (\E i \in DOMAIN r : Turns(r[i], irq)) => TurnsOn(irq)'
      /\ \A irq : TurnsOn(irq) =>
            TurnsOn(irq)' \/ \E i \in DOMAIN Stack : Turns(Stack[i], irq)
  <2>1. stack' = [stack EXCEPT ![cur_thread] = r]
    OBVIOUS
  <2> HIDE DEF r
  <2> QED
    BY <1>1, <1>2, <2>1, StackStep
<1>5. ASSUME NEW irq, irq # "test", NEW i \in DOMAIN Stack, Turns(Stack[i], irq)
      PROVE  TurnsOn(irq)'
  <2>1. i \in 1 .. Depth - 1
    BY <1>1, <1>3, <1>5 DEF Turns
  <2> HIDE DEF r
  <2> QED
    BY <1>2, <1>3, <1>4, <1>5, <2>1
<1> QED
  BY <1>4, <1>5

(* eret, which may leave the frame where it is, and test_preempt's return. *)
LEMMA EretStep ==
    ASSUME LineInv, Eret \/ TestDone
    PROVE  LineInv'
<1>1. /\ pc = "run" /\ Depth > 0 /\ UNCHANGED <<begin, cur_thread, pc, timer_on, uart_on>>
      /\ Last.at = "eret" \/ Last.irq = "test"
  BY DEF Eret, TestDone, Here, threads, below, lines
<1>2. /\ Stacks'
      /\ \A t \in Threads : begin'[t] # "started" => stack'[t] = <<>>
      /\ \A irq : irq # "test" /\ TurnsOn(irq) => TurnsOn(irq)'
  <2>1. CASE UNCHANGED stack
    BY <1>1, <2>1 DEF LineInv, Stacks, Begun, TurnsOn
  <2>2. CASE stack' = [stack EXCEPT ![cur_thread] = SubSeq(Stack, 1, Depth - 1)]
    BY <1>1, <2>2, GoneStep
  <2> QED
    BY <2>1, <2>2 DEF Eret, TestDone, Stack
<1> QED
  BY <1>1, <1>2 DEF LineInv, LinesComeBack, Begun

(* A handler that leaves for its return has turned its line on; so no step *)
(* of a handler forgets a line.                                            *)
LEMMA HandlerStep ==
    ASSUME LineInv, pc = "run", Depth > 0, UNCHANGED <<begin, cur_thread>>, pc' # "boot",
           NEW f, IsFrame(f), f.irq = Last.irq, Moves(f),
           timer_on => timer_on', uart_on => uart_on',
           f.at \in {"return", "eret"} =>
               \/ Last.irq \notin {"timer", "uart"} \/ Last.at \in {"return", "eret"}
               \/ Last.irq = "timer" /\ timer_on'
               \/ Last.irq = "uart" /\ uart_on'
    PROVE  LineInv'
<1>1. /\ Stacks'
      /\ \A t \in Threads : begin'[t] # "started" => stack'[t] = <<>>
      /\ \A irq : TurnsOn(irq) =>
            \/ TurnsOn(irq)'
            \/ Turns(Last, irq) /\ f.at \in {"return", "eret"}
  BY MovesStep
<1>2. LinesComeBack'
  BY <1>1 DEF LineInv, LinesComeBack, Turns
<1>3. Begun'
  BY <1>1 DEF LineInv, Begun
<1> QED
  BY <1>1, <1>2, <1>3 DEF LineInv

(* The frame a handler is in.                                              *)
LEMMA LastFrame ==
    ASSUME LineInv, pc = "run", Depth > 0
    PROVE  /\ cur_thread \in Threads /\ IsFrame(Last)
           /\ \A at : at \notin {"read", "add"} => IsFrame([Last EXCEPT !.at = at])
           /\ \A at, prio : at \notin {"read", "add"} =>
                 IsFrame([Last EXCEPT !.at = at, !.orin_prio = prio])
<1>1. cur_thread \in Threads /\ Frames(Stack)
  BY DEF LineInv, Begun, Stacks, Stack
<1>2. Depth \in 1 .. Len(Stack)
  BY <1>1, Domains DEF Depth
<1>3. IsFrame(Last)
  BY <1>1, <1>2 DEF Frames, Last
<1>4. ASSUME NEW at, NEW prio, at \notin {"read", "add"}
      PROVE  /\ IsFrame([Last EXCEPT !.at = at])
             /\ IsFrame([Last EXCEPT !.at = at, !.orin_prio = prio])
  <2>1. /\ [Last EXCEPT !.at = at] = [irq |-> Last.irq, at |-> at, orin_prio |-> Last.orin_prio]
        /\ [Last EXCEPT !.at = at, !.orin_prio = prio]
               = [irq |-> Last.irq, at |-> at, orin_prio |-> prio]
    <3> DEFINE f == Last
    <3>1. PICK a, b, c : f = [irq |-> a, at |-> b, orin_prio |-> c]
      BY <1>3 DEF IsFrame
    <3> HIDE DEF f
    <3>3. f.irq = a /\ f.orin_prio = c
      BY <3>1
    <3>4. [f EXCEPT !.at = at] = [irq |-> a, at |-> at, orin_prio |-> c]
      BY <3>1
    <3>5. [f EXCEPT !.at = at, !.orin_prio = prio] = [irq |-> a, at |-> at, orin_prio |-> prio]
      <4> DEFINE g == [f EXCEPT !.at = at]
      <4>1. [f EXCEPT !.at = at, !.orin_prio = prio] = [g EXCEPT !.orin_prio = prio]
        OBVIOUS
      <4>2. g = [irq |-> a, at |-> at, orin_prio |-> c]
        BY <3>4
      <4> HIDE DEF g
      <4>3. [g EXCEPT !.orin_prio = prio] = [irq |-> a, at |-> at, orin_prio |-> prio]
        BY <4>2
      <4> QED
        BY <4>1, <4>3
    <3>2. /\ [f EXCEPT !.at = at] = [irq |-> f.irq, at |-> at, orin_prio |-> f.orin_prio]
          /\ [f EXCEPT !.at = at, !.orin_prio = prio]
                = [irq |-> f.irq, at |-> at, orin_prio |-> prio]
      BY <3>3, <3>4, <3>5
    <3> QED
      BY <3>2 DEF f
  <2> QED
    BY <1>4, <2>1 DEF IsFrame, Suits
<1> QED
  BY <1>1, <1>3, <1>4

(* The tasks on the list.                                                  *)
Kinds == {"tick", "uart", "print"}

LEMMA HandleStep ==
    ASSUME LineInv, tasks \in Seq(Kinds), Handle \/ LoadAll \/ ReadDone \/ PutsMessage
    PROVE  LineInv'
<1>1. pc = "run" /\ Depth > 0 /\ UNCHANGED <<begin, cur_thread>> /\ pc' # "boot"
  BY DEF Handle, AddTask, AddTaskFails, PopTask, PopNothing, RunUart, RunPrint, RunTick, EndTick,
         Leave, LoadAll, ReadDone, PutsMessage, Here, threads, below, RQ!Tick, RQ!Schedule
<1>2. /\ cur_thread \in Threads /\ IsFrame(Last)
      /\ \A at : at \notin {"read", "add"} => IsFrame([Last EXCEPT !.at = at])
      /\ \A at, prio : at \notin {"read", "add"} => IsFrame([Last EXCEPT !.at = at, !.orin_prio = prio])
  BY <1>1, LastFrame
<1>3. \A at : Goto(at) => Moves([Last EXCEPT !.at = at])
  BY DEF Goto, Moves, Stack, Depth, Last
<1>4. StartTask => Moves([Last EXCEPT !.at = tasks[1], !.orin_prio = cur_prio])
  BY DEF StartTask, Moves, Stack, Depth, Last
<1>5. \A at, prio : /\ [Last EXCEPT !.at = at].at = at
                    /\ [Last EXCEPT !.at = at].irq = Last.irq
                    /\ [Last EXCEPT !.at = at, !.orin_prio = prio].at = at
                    /\ [Last EXCEPT !.at = at, !.orin_prio = prio].irq = Last.irq
  BY <1>2 DEF IsFrame
<1>6. ASSUME NEW at \in {"puts", "pop", "leave", "ticked"}, Goto(at),
             timer_on => timer_on', uart_on => uart_on'
      PROVE  LineInv'
  BY <1>1, <1>2, <1>3, <1>5, <1>6, HandlerStep
<1>7. CASE \/ AddTask \/ AddTaskFails \/ PopNothing \/ PutsMessage
           \/ RunUart \/ RunPrint \/ RunTick \/ EndTick
  BY <1>6, <1>7 DEF AddTask, AddTaskFails, AfterAdd, PopNothing, PutsMessage, RunUart, RunPrint,
     RunTick, EndTick, EnableUart, lines, queue
<1>8. CASE PopTask
  <2>1. PICK at \in Kinds :
            Moves([Last EXCEPT !.at = at, !.orin_prio = cur_prio])
    <3>1. tasks[1] \in Kinds
      <4>1. Len(tasks) \in Nat \ {0}
        BY <1>8, EmptySeq DEF PopTask, Due
      <4> QED
        BY <4>1, ElementOfSeq
    <3> QED
      BY <1>4, <1>8, <3>1 DEF PopTask
  <2>2. UNCHANGED lines
    BY <1>8 DEF PopTask
  <2> QED
    BY <1>1, <1>2, <1>5, <2>1, <2>2, HandlerStep DEF lines, Kinds
<1>9. CASE Leave
  <2>1. \/ Last.irq = "timer" /\ timer_on' /\ uart_on' = uart_on
        \/ Last.irq = "uart" /\ uart_on' /\ timer_on' = timer_on
    BY <1>9 DEF Leave, EnableTimer, EnableUart
  <2>2. Moves([Last EXCEPT !.at = "return"])
    BY <1>3, <1>9 DEF Leave
  <2>3. (timer_on => timer_on') /\ (uart_on => uart_on')
    <3>1. CASE timer_on' /\ uart_on' = uart_on
      BY <3>1, Zenon
    <3>2. CASE uart_on' /\ timer_on' = timer_on
      BY <3>2, Zenon
    <3> QED
      BY <2>1, <3>1, <3>2
  <2>4. [Last EXCEPT !.at = "return"].irq = Last.irq /\ IsFrame([Last EXCEPT !.at = "return"])
    BY <1>2, <1>5
  <2> QED
    BY <1>1, <2>1, <2>2, <2>3, <2>4, HandlerStep
<1>10. CASE LoadAll
  <2>1. Last.at = "return" /\ UNCHANGED lines
    BY <1>10 DEF LoadAll, Here
  <2>2. Moves([Last EXCEPT !.at = "eret"])
    BY <1>3, <1>10 DEF LoadAll
  <2> QED
    BY <1>1, <1>2, <1>5, <2>1, <2>2, HandlerStep DEF lines
<1>11. CASE ReadDone
  <2>1. Last.irq = "sync" /\ UNCHANGED lines
    BY <1>2, <1>11 DEF ReadDone, Here, IsFrame, Suits
  <2>2. Moves([Last EXCEPT !.at = "return"])
    BY <1>3, <1>11 DEF ReadDone
  <2> QED
    BY <1>1, <1>2, <1>5, <2>1, <2>2, HandlerStep DEF lines
<1> QED
  BY <1>7, <1>8, <1>9, <1>10, <1>11 DEF Handle

(* The system calls that return.                                           *)
PlainCall == OtherCall \/ ForkCall \/ ForkNoProgramCall \/ KillCall \/ ReadCall

LEMMA PlainCalls ==
    ASSUME PlainCall
    PROVE  /\ Called("return") \/ Called("read")
           /\ CallMasks
           /\ UNCHANGED <<cur_thread, pc>> /\ UNCHANGED <<below, lines, queue>>
BY DEF PlainCall, OtherCall, ForkCall, ForkNoProgramCall, KillCall, ReadCall, threads,
       RQ!Fork, RQ!ForkNoProgram, RQ!Kill

(* Interrupts, these calls, the start of a program, and test_preempt.      *)
LEMMA ExceptionStep ==
    ASSUME LineInv, TimerIrq \/ UartIrq \/ PlainCall \/ Exec \/ TestPreempt
    PROVE  LineInv'
<1>1. pc = "run" /\ UNCHANGED <<begin, cur_thread>> /\ pc' # "boot"
  BY PlainCalls DEF TimerIrq, UartIrq, Exec, TestPreempt, Called, Below, threads, below
<1>2. ASSUME NEW irq, NEW at, Suits(irq, at), Push(irq, at)
      PROVE  /\ Stacks' /\ Begun'
             /\ \A other : TurnsOn(other) => TurnsOn(other)'
             /\ at \notin {"return", "eret"} => TurnsOn(irq)'
  <2>1. /\ Stacks'
        /\ \A t \in Threads : begin'[t] # "started" => stack'[t] = <<>>
        /\ \A other : TurnsOn(other) => TurnsOn(other)'
        /\ at \notin {"return", "eret"} => TurnsOn(irq)'
    BY <1>1, <1>2, PushStep
  <2>2. Begun'
    BY <1>1, <2>1 DEF LineInv, Begun
  <2> QED
    BY <2>1, <2>2
<1>3. CASE TimerIrq
  <2>1. Push("timer", "add") /\ UNCHANGED uart_on
    BY <1>3 DEF TimerIrq, Except
  <2>2. Stacks' /\ Begun' /\ (\A other : TurnsOn(other) => TurnsOn(other)') /\ TurnsOn("timer")'
    BY <1>2, <2>1 DEF Suits
  <2> QED
    BY <2>1, <2>2 DEF LineInv, LinesComeBack
<1>4. CASE UartIrq
  <2>1. Push("uart", "add") /\ UNCHANGED timer_on
    BY <1>4 DEF UartIrq, Except
  <2>2. Stacks' /\ Begun' /\ (\A other : TurnsOn(other) => TurnsOn(other)') /\ TurnsOn("uart")'
    BY <1>2, <2>1 DEF Suits
  <2> QED
    BY <2>1, <2>2 DEF LineInv, LinesComeBack
<1>5. CASE PlainCall \/ Exec \/ TestPreempt
  <2>1. UNCHANGED <<timer_on, uart_on>>
    BY <1>5, PlainCalls DEF Exec, TestPreempt, lines
  <2>2. \/ Push("sync", "return") \/ Push("sync", "read") \/ Push("sync", "eret")
        \/ Push("test", "add")
    BY <1>5, PlainCalls DEF Exec, TestPreempt, Called
  <2>3. Stacks' /\ Begun' /\ \A other : TurnsOn(other) => TurnsOn(other)'
    BY <1>2, <2>2 DEF Suits
  <2> QED
    BY <2>1, <2>3 DEF LineInv, LinesComeBack
<1> QED
  BY <1>3, <1>4, <1>5

(* A switch: the thread switched to has begun, and a child begins with its *)
(* first frame on an empty stack.                                          *)
LEMMA SwitchStep ==
    ASSUME LineInv, RP!IndInv, Pick
    PROVE  LineInv'
<1>1. CASE PickDead
  <2>1. UNCHANGED <<begin, cur_thread, stack, timer_on, uart_on>> /\ pc # "boot" /\ pc' # "boot"
    BY <1>1 DEF PickDead, RQ!PickDead, below, lines
  <2> QED
    BY <2>1 DEF LineInv, Stacks, Begun, LinesComeBack, TurnsOn
<1>2. CASE PickStarted \/ PickShell \/ PickChild
  <2>1. cur_thread' = rq.head /\ pc = "pick" /\ pc' = "run"
    BY <1>2 DEF PickStarted, PickShell, PickChild, RQ!PickLive
  <2>2. rq.head \in Threads
    BY <2>1 DEF RP!IndInv, RP!TypeOK, RP!HeadAndTail, RP!Pointers, RP!Threads, Threads
  <2>3. CASE PickStarted
    BY <2>1, <2>2, <2>3 DEF PickStarted, LineInv, Stacks, Begun, LinesComeBack, TurnsOn,
       below, lines
  <2>4. CASE PickShell
    BY <2>1, <2>2, <2>4 DEF PickShell, LineInv, Stacks, Begun, LinesComeBack, TurnsOn, lines
  <2>5. CASE PickChild
    <3> DEFINE new == [irq |-> "sync", at |-> "return", orin_prio |-> LOW_PRIO]
    <3>1. /\ stack' = [stack EXCEPT ![rq.head] = <<new>>]
          /\ begin' = [begin EXCEPT ![rq.head] = "started"]
          /\ begin[rq.head] = "child"
          /\ timer_on' /\ uart_on' = uart_on
      BY <2>5 DEF PickChild, EnableTimer
    <3>2. Frames(<<new>>)
      <4>1. <<new>> \in Seq({new})
        OBVIOUS
      <4>2. IsFrame(new)
        BY DEF IsFrame, Suits
      <4>3. Len(<<new>>) = 1 /\ <<new>>[1] = new
        OBVIOUS
      <4> HIDE DEF new
      <4>4. IsSeq(<<new>>)
        BY <4>1 DEF IsSeq
      <4> QED
        BY <4>2, <4>3, <4>4 DEF Frames
    <3>3. stack[rq.head] = <<>> /\ \A t \in Threads : t # rq.head => stack'[t] = stack[t]
      BY <2>2, <3>1 DEF LineInv, Begun, Stacks
    <3>4. Stacks' /\ Begun'
      <4> HIDE DEF new
      <4> QED
        BY <2>1, <2>2, <3>1, <3>2 DEF LineInv, Stacks, Begun
    <3>5. \A irq : TurnsOn(irq) => TurnsOn(irq)'
      <4>1. ASSUME NEW irq, NEW t \in Threads, NEW i \in DOMAIN stack[t], Turns(stack[t][i], irq)
            PROVE  TurnsOn(irq)'
        <5>1. DOMAIN stack[rq.head] = {}
          BY <3>3
        <5>2. t # rq.head
          BY <4>1, <5>1
        <5> QED
          BY <3>3, <4>1, <5>2 DEF TurnsOn, Turns
      <4> QED
        BY <4>1 DEF TurnsOn, Turns
    <3> QED
      BY <3>1, <3>4, <3>5 DEF LineInv, LinesComeBack
  <2> QED
    BY <1>2, <2>3, <2>4, <2>5
<1> QED
  BY <1>1, <1>2 DEF Pick

(* Steps that touch neither a stack nor a line.                            *)
LEMMA QuietStep ==
    ASSUME LineInv,
           \/ InitScheduler \/ UartIrqInUser \/ ExitCall \/ Compute
           \/ EnterSection \/ LeaveSection \/ UNCHANGED vars
    PROVE  LineInv'
<1>1. UNCHANGED <<begin, stack, timer_on, uart_on>>
  BY DEF InitScheduler, UartIrqInUser, ExitCall, Compute, EnterSection, LeaveSection, vars,
         below, lines
<1>2. CASE InitScheduler
  <2>1. pc = "boot" /\ pc' = "run" /\ cur_thread' = 0
    BY <1>2 DEF InitScheduler, RQ!InitScheduler
  <2>2. 0 \in Threads
    BY PreemptAssumption DEF Threads
  <2> QED
    BY <1>1, <2>1, <2>2 DEF LineInv, Stacks, Begun, LinesComeBack, TurnsOn
<1>3. CASE ~InitScheduler
  <2>1. UNCHANGED cur_thread /\ (pc = "boot" <=> pc' = "boot")
    BY <1>3 DEF UartIrqInUser, ExitCall, Compute, EnterSection, LeaveSection, vars, threads,
       Below, RQ!Exit, RQ!Schedule
  <2> QED
    BY <1>1, <2>1 DEF LineInv, Stacks, Begun, LinesComeBack, TurnsOn
<1> QED
  BY <1>2, <1>3

(* The interrupts' lines in every step.                                    *)
LEMMA LineStep ==
    ASSUME LineInv, tasks \in Seq(Kinds), RP!IndInv, [Next]_vars
    PROVE  LineInv'
BY HandleStep, EretStep, ExceptionStep, SwitchStep, QuietStep
   DEF Next, Irq, Return, Call, PlainCall, Below0, Test

LEMMA LineInit == Init => LineInv
<1> SUFFICES ASSUME Init
             PROVE  LineInv
  OBVIOUS
<1>1. Frames(<<>>)
  <2>1. <<>> \in Seq({}) /\ Len(<<>>) = 0
    OBVIOUS
  <2> QED
    BY <2>1 DEF Frames, IsSeq
<1>2. 0 \in Threads /\ pc = "boot"
  BY PreemptAssumption DEF Threads, Init, RQ!Init
<1> QED
  BY <1>1, <1>2 DEF Init, LineInv, Stacks, Begun, LinesComeBack

-----------------------------------------------------------------------------
(* The frames one by one.                                                  *)
Top(t) == Len(stack[t])
At(t, i) == stack[t][i].at
IrqOf(t, i) == stack[t][i].irq
PrioOf(t, i) == stack[t][i].orin_prio

(* What a step does to them: nothing to a frame; to all but the last one   *)
(* of the running thread, which moves on; adds one; or removes the last.   *)
SameFrame(t, i) ==
    At(t, i)' = At(t, i) /\ IrqOf(t, i)' = IrqOf(t, i) /\ PrioOf(t, i)' = PrioOf(t, i)
LastMoves(at, prio) ==
    \A t \in Threads :
        /\ Top(t)' = Top(t)
        /\ \A i \in 1 .. Top(t) :
              IF t = cur_thread /\ i = Top(t)
              THEN At(t, i)' = at /\ IrqOf(t, i)' = IrqOf(t, i) /\ PrioOf(t, i)' = prio
              ELSE SameFrame(t, i)
OneComes(irq, at) ==
    \A t \in Threads :
        /\ Top(t)' = IF t = cur_thread THEN Top(t) + 1 ELSE Top(t)
        /\ \A i \in 1 .. Top(t) : SameFrame(t, i)
        /\ t = cur_thread =>
              \A i \in 1 .. Top(t) + 1 : i = Top(t) + 1 => At(t, i)' = at /\ IrqOf(t, i)' = irq
LastGoes ==
    \A t \in Threads :
        /\ Top(t)' = IF t = cur_thread THEN Top(t) - 1 ELSE Top(t)
        /\ \A i \in 1 .. Top(t)' : SameFrame(t, i)
AllStay ==
    \A t \in Threads : Top(t)' = Top(t) /\ \A i \in 1 .. Top(t) : SameFrame(t, i)

LEMMA TopType ==
    ASSUME Stacks, NEW t \in Threads
    PROVE  Top(t) \in Nat /\ DOMAIN stack[t] = 1 .. Top(t)
BY Domains DEF Stacks, Top

LEMMA FrameMoves ==
    ASSUME Stacks, cur_thread \in Threads, Depth > 0, NEW f, IsFrame(f), f.irq = Last.irq,
           Moves(f)
    PROVE  LastMoves(f.at, f.orin_prio)
<1> DEFINE r == [Stack EXCEPT ![Depth] = f]
<1>1. Frames(Stack) /\ Len(Stack) = Depth
  BY DEF Stacks, Stack, Depth
<1>2. Len(r) = Depth /\ \A i \in 1 .. Depth : r[i] = IF i = Depth THEN f ELSE Stack[i]
  BY <1>1, MovedOn DEF Depth
<1>3. /\ stack'[cur_thread] = r
      /\ \A t \in Threads : t # cur_thread => stack'[t] = stack[t]
  BY DEF Stacks, Moves
<1> HIDE DEF r
<1> QED
  BY <1>1, <1>2, <1>3 DEF LastMoves, SameFrame, Top, At, IrqOf, PrioOf, Stack, Last

LEMMA GotoFrames ==
    ASSUME LineInv, pc = "run", Depth > 0, NEW at, at \notin {"read", "add"}, Goto(at)
    PROVE  LastMoves(at, Last.orin_prio)
<1> DEFINE f == [Last EXCEPT !.at = at]
<1>1. cur_thread \in Threads /\ IsFrame(Last) /\ IsFrame(f)
  BY LastFrame
<1>2. Moves(f)
  BY DEF Goto, Moves, Stack, Depth, Last
<1>3. f.at = at /\ f.irq = Last.irq /\ f.orin_prio = Last.orin_prio
  BY <1>1 DEF IsFrame
<1> HIDE DEF f
<1>4. LastMoves(f.at, f.orin_prio)
  BY <1>1, <1>2, <1>3, FrameMoves DEF LineInv
<1> QED
  BY <1>3, <1>4

LEMMA StartFrames ==
    ASSUME LineInv, pc = "run", Depth > 0, StartTask, tasks[1] \in Kinds
    PROVE  LastMoves(tasks[1], cur_prio)
<1> DEFINE at == tasks[1]
           f == [Last EXCEPT !.at = at, !.orin_prio = cur_prio]
<1>1. cur_thread \in Threads /\ IsFrame(Last) /\ IsFrame(f)
  <2>1. at \notin {"read", "add"}
    BY DEF Kinds
  <2> HIDE DEF at
  <2> QED
    BY <2>1, LastFrame
<1>2. Moves(f)
  BY DEF StartTask, Moves, Stack, Depth, Last
<1>3. f.at = at /\ f.irq = Last.irq /\ f.orin_prio = cur_prio
  <2> HIDE DEF at
  <2> QED
    BY <1>1 DEF IsFrame
<1> HIDE DEF f
<1>4. LastMoves(f.at, f.orin_prio)
  BY <1>1, <1>2, <1>3, FrameMoves DEF LineInv
<1> QED
  BY <1>3, <1>4

LEMMA PushFrames ==
    ASSUME LineInv, pc = "run", NEW irq, NEW at, Suits(irq, at), Push(irq, at)
    PROVE  OneComes(irq, at)
<1> DEFINE f == [irq |-> irq, at |-> at, orin_prio |-> LOW_PRIO]
           r == Append(Stack, f)
<1>1. cur_thread \in Threads /\ Frames(Stack) /\ Len(Stack) = Depth /\ IsFrame(f)
  BY DEF LineInv, Begun, Stacks, Stack, Depth, IsFrame
<1>2. Len(r) = Depth + 1 /\ r[Depth + 1] = f /\ \A i \in 1 .. Depth : r[i] = Stack[i]
  <2> HIDE DEF f
  <2> QED
    BY <1>1, Pushed
<1>3. /\ stack'[cur_thread] = r
      /\ \A t \in Threads : t # cur_thread => stack'[t] = stack[t]
  BY <1>1 DEF LineInv, Stacks, Push, Stack
<1>4. f.at = at /\ f.irq = irq
  OBVIOUS
<1> HIDE DEF r, f
<1> QED
  BY <1>1, <1>2, <1>3, <1>4 DEF OneComes, SameFrame, Top, At, IrqOf, PrioOf, Stack, Depth

LEMMA GoneFrames ==
    ASSUME LineInv, pc = "run", Depth > 0,
           stack' = [stack EXCEPT ![cur_thread] = SubSeq(Stack, 1, Depth - 1)]
    PROVE  LastGoes
<1> DEFINE r == SubSeq(Stack, 1, Depth - 1)
<1>1. cur_thread \in Threads /\ Frames(Stack) /\ Len(Stack) = Depth
  BY DEF LineInv, Begun, Stacks, Stack, Depth
<1>2. Len(r) = Depth - 1 /\ \A i \in 1 .. Depth - 1 : r[i] = Stack[i]
  BY <1>1, Popped
<1>3. /\ stack'[cur_thread] = r
      /\ \A t \in Threads : t # cur_thread => stack'[t] = stack[t]
  BY <1>1 DEF LineInv, Stacks
<1> HIDE DEF r
<1> QED
  BY <1>1, <1>2, <1>3 DEF LastGoes, SameFrame, Top, At, IrqOf, PrioOf, Stack, Depth

LEMMA EretFrames ==
    ASSUME LineInv, Eret \/ TestDone
    PROVE  /\ AllStay \/ LastGoes
           /\ elr # Depth => LastGoes
<1>1. UNCHANGED stack => AllStay
  BY DEF AllStay, SameFrame, Top, At, IrqOf, PrioOf
<1>2. stack' = [stack EXCEPT ![cur_thread] = SubSeq(Stack, 1, Depth - 1)] => LastGoes
  BY GoneFrames DEF Eret, TestDone, Here
<1> QED
  BY <1>1, <1>2 DEF Eret, TestDone, Stack

-----------------------------------------------------------------------------
(* The task list is sorted.  A task more urgent than a tick is in front.   *)
Sorted ==
    /\ tasks \in Seq(Kinds)
    /\ \A i, j \in 1 .. Len(tasks) : i < j => Prio[tasks[i]] <= Prio[tasks[j]]
Urgent(task) == task \in {"uart", "print"}
UrgentWaits == Len(tasks) > 0 /\ Urgent(tasks[1])

LEMMA Prios ==
    ASSUME NEW k \in Kinds
    PROVE  /\ Prio[k] = IF Urgent(k) THEN 1 ELSE 16
           /\ Urgent(k) <=> k # "tick"
BY DEF Kinds, Prio, Urgent, UART_PRIO, TIMER_PRIO

LEMMA Least ==
    ASSUME NEW S, S \subseteq Nat, S # {}
    PROVE  \E n \in S : \A m \in S : n <= m
<1> DEFINE R == OpToRel(<, Nat)
<1>1. IsWellFoundedOn(R, Nat)
  BY NatLessThanWellFounded
<1>2. \A n, m \in Nat : n < m => <<n, m>> \in R
  BY DEF OpToRel
<1> HIDE DEF R
<1>3. PICK n \in S : \A m \in S : ~(<<m, n>> \in R)
  BY <1>1, WFMin
<1>4. ASSUME NEW m \in S
      PROVE  n <= m
  <2>1. m \in Nat /\ n \in Nat
    OBVIOUS
  <2>2. ~(m < n)
    BY <1>2, <1>3, <2>1
  <2> QED
    BY <2>1, <2>2
<1> QED
  BY <1>4

(* insert_task leaves the tasks before and after the new one as they were. *)
LEMMA Inserted ==
    ASSUME Sorted, NEW task \in Kinds, tasks' = InsertTask(task)
    PROVE  \E at \in 1 .. Len(tasks) + 1 :
              /\ at > Len(tasks) \/ Prio[task] < Prio[tasks[at]]
              /\ \A j \in 1 .. at - 1 : Prio[task] >= Prio[tasks[j]]
              /\ tasks' \in Seq(Kinds) /\ Len(tasks') = Len(tasks) + 1
              /\ \A i \in 1 .. Len(tasks) + 1 :
                    tasks'[i] = IF i <= at THEN IF i < at THEN tasks[i] ELSE task ELSE tasks[i - 1]
<1> DEFINE Goes(i) == /\ i > Len(tasks) \/ Prio[task] < Prio[tasks[i]]
                      /\ \A j \in 1 .. i - 1 : Prio[task] >= Prio[tasks[j]]
           at == CHOOSE i \in 1 .. Len(tasks) + 1 : Goes(i)
           front == SubSeq(tasks, 1, at - 1)
           back == SubSeq(tasks, at, Len(tasks))
<1>1. /\ Len(tasks) \in Nat
      /\ \A i \in 1 .. Len(tasks) : tasks[i] \in Kinds
  BY LenProperties, ElementOfSeq DEF Sorted
<1>2. \E i \in 1 .. Len(tasks) + 1 : Goes(i)
  <2>1. \A i \in 1 .. Len(tasks) : Prio[tasks[i]] = IF Urgent(tasks[i]) THEN 1 ELSE 16
    BY <1>1, Prios
  <2>2. Prio[task] = IF Urgent(task) THEN 1 ELSE 16
    BY Prios
  <2>3. CASE ~Urgent(task)
    <3>1. Goes(Len(tasks) + 1)
      BY <1>1, <2>1, <2>2, <2>3
    <3> QED
      BY <1>1, <3>1
  <2>4. CASE Urgent(task)
    <3> DEFINE Lower == {i \in 1 .. Len(tasks) : ~Urgent(tasks[i])}
    <3>1. CASE Lower = {}
      <4>1. Goes(Len(tasks) + 1)
        BY <1>1, <2>1, <2>2, <2>4, <3>1
      <4> QED
        BY <1>1, <4>1
    <3>2. CASE Lower # {}
      <4>1. Lower \subseteq Nat /\ Lower # {}
        BY <3>2
      <4>2. PICK n \in Lower : \A m \in Lower : n <= m
        <5> HIDE DEF Lower
        <5> QED
          BY <4>1, Least
      <4>3. Goes(n)
        BY <1>1, <2>1, <2>2, <2>4, <4>2
      <4> QED
        BY <1>1, <4>2, <4>3
    <3> QED
      BY <3>1, <3>2
  <2> QED
    BY <2>3, <2>4
<1>3. at \in 1 .. Len(tasks) + 1 /\ Goes(at)
  <2> HIDE DEF Goes
  <2> QED
    BY <1>2
<1>4. tasks' = front \o <<task>> \o back
  BY DEF InsertTask
<1> HIDE DEF at
<1>5. /\ front \in Seq(Kinds) /\ Len(front) = at - 1
      /\ \A i \in 1 .. at - 1 : front[i] = tasks[i]
  <2>1. /\ front \in Seq(Kinds)
        /\ Len(front) = IF 1 <= at - 1 THEN at - 1 - 1 + 1 ELSE 0
        /\ \A i \in 1 .. at - 1 - 1 + 1 : front[i] = tasks[1 + i - 1]
    <3>1. at - 1 \in Int /\ \A i \in 1 .. at - 1 : tasks[i] \in Kinds
      BY <1>1, <1>3
    <3> QED
      BY <3>1, SubSeqProperties
  <2> HIDE DEF front
  <2> QED
    BY <1>3, <2>1
<1>6. /\ back \in Seq(Kinds) /\ Len(back) = Len(tasks) - at + 1
      /\ \A i \in 1 .. Len(tasks) - at + 1 : back[i] = tasks[at + i - 1]
  <2>1. /\ back \in Seq(Kinds)
        /\ Len(back) = IF at <= Len(tasks) THEN Len(tasks) - at + 1 ELSE 0
        /\ \A i \in 1 .. Len(tasks) - at + 1 : back[i] = tasks[at + i - 1]
    <3>1. Len(tasks) \in Int /\ \A i \in at .. Len(tasks) : tasks[i] \in Kinds
      BY <1>1, <1>3
    <3> QED
      BY <1>3, <3>1, SubSeqProperties
  <2> HIDE DEF back
  <2> QED
    BY <1>1, <1>3, <2>1
<1>7. <<task>> \in Seq(Kinds) /\ Len(<<task>>) = 1 /\ <<task>>[1] = task
  OBVIOUS
<1> DEFINE mid == <<task>>
<1> HIDE DEF front, back, mid, Goes
<1>8. /\ front \o mid \in Seq(Kinds) /\ Len(front \o mid) = at
      /\ \A i \in 1 .. at : (front \o mid)[i] = IF i < at THEN tasks[i] ELSE task
  <2>1. /\ front \o mid \in Seq(Kinds)
        /\ Len(front \o mid) = Len(front) + Len(mid)
        /\ \A i \in 1 .. Len(front) + Len(mid) :
              (front \o mid)[i] = IF i <= Len(front) THEN front[i] ELSE mid[i - Len(front)]
    BY <1>5, <1>7, ConcatProperties DEF mid
  <2>2. Len(mid) = 1 /\ mid[1] = task
    BY <1>7 DEF mid
  <2>3. \A i \in 1 .. at : i > at - 1 => i - (at - 1) = 1
    BY <1>3
  <2>4. \A i \in 1 .. at : (front \o mid)[i] = IF i < at THEN tasks[i] ELSE task
    BY <1>3, <1>5, <2>1, <2>2, <2>3
  <2> QED
    BY <1>3, <1>5, <2>1, <2>2, <2>4
<1> DEFINE most == front \o mid
<1>9. /\ tasks' \in Seq(Kinds) /\ Len(tasks') = Len(tasks) + 1
      /\ \A i \in 1 .. Len(tasks) + 1 :
            tasks'[i] = IF i <= at THEN IF i < at THEN tasks[i] ELSE task ELSE tasks[i - 1]
  <2>1. tasks' = most \o back
    BY <1>4 DEF mid
  <2> HIDE DEF most
  <2>2. /\ most \o back \in Seq(Kinds)
        /\ Len(most \o back) = Len(most) + Len(back)
        /\ \A i \in 1 .. Len(most) + Len(back) :
              (most \o back)[i] = IF i <= Len(most) THEN most[i] ELSE back[i - Len(most)]
    BY <1>6, <1>8, ConcatProperties DEF most
  <2>3. Len(most) = at /\ \A i \in 1 .. at : most[i] = IF i < at THEN tasks[i] ELSE task
    BY <1>8 DEF most
  <2> QED
    BY <1>1, <1>3, <1>6, <2>1, <2>2, <2>3
<1> QED
  BY <1>3, <1>9 DEF Goes

(* It keeps the list sorted; among ticks alone the new task is the only    *)
(* urgent one, if it is one.                                               *)
LEMMA TaskInserted ==
    ASSUME Sorted, NEW task \in Kinds, tasks' = InsertTask(task)
    PROVE  /\ Sorted'
           /\ ~UrgentWaits => \A i \in 2 .. Len(tasks') : tasks'[i] = "tick"
<1>1. PICK at \in 1 .. Len(tasks) + 1 :
          /\ at > Len(tasks) \/ Prio[task] < Prio[tasks[at]]
          /\ \A j \in 1 .. at - 1 : Prio[task] >= Prio[tasks[j]]
          /\ tasks' \in Seq(Kinds) /\ Len(tasks') = Len(tasks) + 1
          /\ \A i \in 1 .. Len(tasks) + 1 :
                tasks'[i] = IF i <= at THEN IF i < at THEN tasks[i] ELSE task ELSE tasks[i - 1]
  BY Inserted
<1>2. /\ Len(tasks) \in Nat
      /\ \A i \in 1 .. Len(tasks) :
            /\ tasks[i] \in Kinds
            /\ Prio[tasks[i]] = IF Urgent(tasks[i]) THEN 1 ELSE 16
            /\ Urgent(tasks[i]) <=> tasks[i] # "tick"
  BY LenProperties, ElementOfSeq, Prios DEF Sorted
<1>3. Prio[task] = (IF Urgent(task) THEN 1 ELSE 16) /\ (Urgent(task) <=> task # "tick")
  BY Prios
<1>4. ASSUME NEW i \in 1 .. Len(tasks'), NEW j \in 1 .. Len(tasks'), i < j
      PROVE  Prio[tasks'[i]] <= Prio[tasks'[j]]
  <2>1. CASE i < at /\ j < at
    BY <1>1, <1>2, <1>4, <2>1 DEF Sorted
  <2>2. CASE i < at /\ j = at
    BY <1>1, <1>2, <1>3, <1>4, <2>2
  <2>3. CASE i < at /\ j > at
    <3>1. i < j - 1 \/ i = j - 1
      BY <1>1, <1>2, <1>4
    <3>2. tasks'[i] = tasks[i] /\ tasks'[j] = tasks[j - 1] /\ i \in 1 .. Len(tasks) /\ j - 1 \in 1 .. Len(tasks)
      BY <1>1, <1>2, <1>4, <2>3
    <3> QED
      BY <1>2, <3>1, <3>2 DEF Sorted
  <2>4. CASE i = at
    <3>1. /\ tasks'[i] = task /\ tasks'[j] = tasks[j - 1] /\ j - 1 \in 1 .. Len(tasks)
          /\ at \in 1 .. Len(tasks) /\ at <= j - 1
      BY <1>1, <1>2, <1>4, <2>4
    <3>2. Prio[tasks[at]] <= Prio[tasks[j - 1]]
      <4>1. CASE at = j - 1
        BY <1>2, <3>1, <4>1
      <4>2. CASE at < j - 1
        BY <3>1, <4>2 DEF Sorted
      <4> QED
        BY <3>1, <4>1, <4>2
    <3> QED
      BY <1>1, <1>2, <1>3, <3>1, <3>2
  <2>5. CASE i > at
    <3>1. /\ tasks'[i] = tasks[i - 1] /\ tasks'[j] = tasks[j - 1] /\ i - 1 < j - 1
          /\ i - 1 \in 1 .. Len(tasks) /\ j - 1 \in 1 .. Len(tasks)
      BY <1>1, <1>2, <1>4, <2>5
    <3> QED
      BY <3>1 DEF Sorted
  <2> QED
    BY <1>1, <1>4, <2>1, <2>2, <2>3, <2>4, <2>5
<1>5. ASSUME ~UrgentWaits, NEW i \in 2 .. Len(tasks')
      PROVE  tasks'[i] = "tick"
  <2>1. \A j \in 1 .. Len(tasks) : tasks[j] = "tick"
    <3>1. Len(tasks) > 0 => tasks[1] = "tick" /\ Prio[tasks[1]] = 16
      BY <1>2, <1>5 DEF UrgentWaits
    <3>2. ASSUME NEW j \in 1 .. Len(tasks)
          PROVE  Prio[tasks[1]] <= Prio[tasks[j]]
      <4>1. 1 \in 1 .. Len(tasks) /\ (1 < j \/ j = 1)
        BY <1>2
      <4> QED
        BY <1>2, <4>1 DEF Sorted
    <3> QED
      BY <1>2, <3>1, <3>2
  <2>2. Prio[task] < 16 => at = 1
    <3>1. at > 1 => Prio[task] >= Prio[tasks[1]] /\ 1 \in 1 .. Len(tasks)
      BY <1>1, <1>2
    <3> QED
      BY <1>2, <1>3, <2>1, <3>1
  <2>3. CASE i = at
    BY <1>1, <1>3, <1>5, <2>2, <2>3
  <2>4. CASE i # at
    BY <1>1, <1>2, <1>5, <2>1, <2>4
  <2> QED
    BY <2>3, <2>4
<1> QED
  BY <1>1, <1>4, <1>5 DEF Sorted

(* pop_task takes the first one, and a tick only if no urgent one waits.   *)
LEMMA TaskRemoved ==
    ASSUME Sorted, tasks # <<>>, tasks' = Tail(tasks)
    PROVE  /\ Sorted' /\ Len(tasks) > 0 /\ tasks[1] \in Kinds
           /\ tasks[1] = "tick" => ~UrgentWaits'
           /\ (\A i \in 2 .. Len(tasks) : tasks[i] = "tick") => ~UrgentWaits'
<1>1. Len(tasks) \in Nat \ {0}
  BY EmptySeq DEF Sorted
<1>2. /\ Tail(tasks) \in Seq(Kinds) /\ Len(Tail(tasks)) = Len(tasks) - 1
      /\ \A i \in 1 .. Len(Tail(tasks)) : Tail(tasks)[i] = tasks[i + 1]
  <2>1. tasks \in Seq(Kinds)
    BY DEF Sorted
  <2> QED
    BY <2>1, HeadTailProperties
<1>3. \A i \in 1 .. Len(tasks) :
          /\ tasks[i] \in Kinds
          /\ Prio[tasks[i]] = IF Urgent(tasks[i]) THEN 1 ELSE 16
          /\ Urgent(tasks[i]) <=> tasks[i] # "tick"
  BY <1>1, ElementOfSeq, Prios DEF Sorted
<1>4. Sorted'
  <2>1. ASSUME NEW i \in 1 .. Len(tasks'), NEW j \in 1 .. Len(tasks'), i < j
        PROVE  Prio[tasks'[i]] <= Prio[tasks'[j]]
    <3>1. i + 1 \in 1 .. Len(tasks) /\ j + 1 \in 1 .. Len(tasks) /\ i + 1 < j + 1
      BY <1>1, <1>2, <2>1
    <3>2. Prio[tasks[i + 1]] <= Prio[tasks[j + 1]]
      BY <3>1 DEF Sorted
    <3> QED
      BY <1>2, <3>2
  <2> QED
    BY <1>2, <2>1 DEF Sorted
<1>5. ASSUME UrgentWaits'
      PROVE  2 \in 1 .. Len(tasks) /\ 2 \in 2 .. Len(tasks) /\ tasks[2] # "tick" /\ tasks[1] # "tick"
  <2>1. Len(tasks) > 1 /\ Urgent(tasks[2])
    BY <1>1, <1>2, <1>5 DEF UrgentWaits
  <2>2. Prio[tasks[1]] <= Prio[tasks[2]]
    <3>1. 1 \in 1 .. Len(tasks) /\ 2 \in 1 .. Len(tasks) /\ 1 < 2
      BY <1>1, <2>1
    <3> QED
      BY <3>1 DEF Sorted
  <2> QED
    BY <1>1, <1>3, <2>1, <2>2
<1> QED
  BY <1>1, <1>3, <1>4, <1>5

-----------------------------------------------------------------------------
(* Frames that run a task.                                                 *)
IsTick(t, i) == At(t, i) \in {"tick", "ticked"}
IsUrgent(t, i) == Urgent(At(t, i))
SomeTick == \E t \in Threads : \E i \in 1 .. Top(t) : IsTick(t, i)
SomeUrgent == \E t \in Threads : \E i \in 1 .. Top(t) : IsUrgent(t, i)

(* A thread that was left has a task running only as its last frame, and   *)
(* that is a tick.                                                         *)
Away ==
    \A t \in Threads : \A i \in 1 .. Top(t) :
        IsTick(t, i) \/ IsUrgent(t, i) =>
            \/ pc = "run" /\ t = cur_thread
            \/ At(t, i) = "ticked" /\ i = Top(t)

(* At most one frame of all threads runs a tick and at most one a more     *)
(* urgent task, which is the later of the two.                             *)
Nested ==
    \A t, u \in Threads : \A i \in 1 .. Top(t), j \in 1 .. Top(u) :
        /\ IsTick(t, i) /\ IsTick(u, j) => t = u /\ i = j
        /\ IsUrgent(t, i) /\ IsUrgent(u, j) => t = u /\ i = j
        /\ t = u /\ IsTick(t, i) /\ IsUrgent(u, j) => i < j

(* Each keeps the priority below it.                                       *)
Restores ==
    /\ \A t \in Threads : \A i \in 1 .. Top(t) :
          /\ IsTick(t, i) => PrioOf(t, i) = LOW_PRIO
          /\ IsUrgent(t, i) => PrioOf(t, i) = IF SomeTick THEN TIMER_PRIO ELSE LOW_PRIO
    /\ cur_prio = IF SomeUrgent THEN UART_PRIO ELSE IF SomeTick THEN TIMER_PRIO ELSE LOW_PRIO

NestInv == Sorted /\ Away /\ Nested /\ Restores

LEMMA LastAt ==
    ASSUME LineInv, NEW at, Here(at)
    PROVE  /\ pc = "run" /\ cur_thread \in Threads
           /\ Depth = Top(cur_thread) /\ Depth > 0 /\ Top(cur_thread) \in Nat \ {0}
           /\ At(cur_thread, Top(cur_thread)) = at
           /\ Last.irq = IrqOf(cur_thread, Top(cur_thread))
           /\ Last.orin_prio = PrioOf(cur_thread, Top(cur_thread))
<1>1. cur_thread \in Threads /\ pc = "run" /\ Depth = Top(cur_thread) /\ Depth > 0
  BY DEF LineInv, Begun, Here, Depth, Stack, Top
<1> QED
  BY <1>1, TopType DEF LineInv, Here, Last, Stack, Depth, Top, At, IrqOf, PrioOf

(* Between these points a frame moves on without a task of its own.        *)
Idle == {"add", "puts", "pop", "leave", "return", "read", "eret"}
QuietHandle ==
    AddTask \/ AddTaskFails \/ PopNothing \/ Leave \/ LoadAll \/ ReadDone \/ PutsMessage

LEMMA QuietMoves ==
    ASSUME LineInv, QuietHandle
    PROVE  \E from \in Idle \ {"eret"}, at \in Idle \ {"read", "add"} :
              Here(from) /\ LastMoves(at, Last.orin_prio)
<1>1. \A from, at : Here(from) /\ at \notin {"read", "add"} /\ Goto(at) => LastMoves(at, Last.orin_prio)
  BY LastAt, GotoFrames
<1>2. AfterAdd \in {"puts", "pop"}
  BY DEF AfterAdd
<1> QED
  BY <1>1, <1>2 DEF Idle, QuietHandle, AddTask, AddTaskFails, PopNothing, Leave, LoadAll, ReadDone,
     PutsMessage

LEMMA IdleFrames ==
    ASSUME NEW t, NEW i, At(t, i) \in Idle
    PROVE  ~IsTick(t, i) /\ ~IsUrgent(t, i)
BY DEF Idle, IsTick, IsUrgent, Urgent

LEMMA IdleFramesNext ==
    ASSUME NEW t, NEW i, At(t, i)' \in Idle
    PROVE  ~IsTick(t, i)' /\ ~IsUrgent(t, i)'
BY DEF Idle, IsTick, IsUrgent, Urgent

(* A handler moves between points where it runs no task.                   *)
LEMMA QuietMove ==
    ASSUME LineInv, NestInv, QuietHandle
    PROVE  NestInv'
<1>1. UNCHANGED <<pc, cur_thread, cur_prio>>
  BY DEF QuietHandle, AddTask, AddTaskFails, PopNothing, Leave, LoadAll, ReadDone, PutsMessage,
         threads, queue
<1>2. PICK from \in Idle \ {"eret"}, at \in Idle \ {"read", "add"} :
          Here(from) /\ LastMoves(at, Last.orin_prio)
  BY QuietMoves
<1>3. /\ pc = "run" /\ cur_thread \in Threads /\ Top(cur_thread) \in Nat \ {0}
      /\ At(cur_thread, Top(cur_thread)) = from
  BY <1>2, LastAt
<1>4. \A t \in Threads : Top(t)' = Top(t) /\ Top(t) \in Nat
  BY <1>2, TopType DEF LineInv, LastMoves
<1>5. \A t \in Threads : \A i \in 1 .. Top(t) :
          /\ IsTick(t, i)' <=> IsTick(t, i)
          /\ IsUrgent(t, i)' <=> IsUrgent(t, i)
          /\ IsTick(t, i) \/ IsUrgent(t, i) => SameFrame(t, i)
  <2>1. ASSUME NEW t \in Threads, NEW i \in 1 .. Top(t), t = cur_thread /\ i = Top(t)
        PROVE  At(t, i) \in Idle /\ At(t, i)' \in Idle
    BY <1>2, <1>3, <2>1 DEF LastMoves
  <2>2. ASSUME NEW t \in Threads, NEW i \in 1 .. Top(t), ~(t = cur_thread /\ i = Top(t))
        PROVE  SameFrame(t, i)
    BY <1>2, <2>2 DEF LastMoves
  <2> QED
    BY <2>1, <2>2, IdleFrames, IdleFramesNext DEF SameFrame, IsTick, IsUrgent
<1>6. (SomeUrgent' <=> SomeUrgent) /\ (SomeTick' <=> SomeTick)
  BY <1>4, <1>5 DEF SomeUrgent, SomeTick
<1>7. Away' /\ Nested'
  BY <1>1, <1>4, <1>5 DEF NestInv, Away, Nested, SameFrame
<1>8. Restores'
  BY <1>1, <1>4, <1>5, <1>6 DEF NestInv, Restores, SameFrame
<1>9. Sorted'
  <2>1. CASE AddTask
    <3>1. tasks' = InsertTask(Added) /\ Added \in Kinds
      <4>1. Last.irq \in {"timer", "uart", "test"}
        BY <2>1, LastFrame DEF AddTask, Here, IsFrame, Suits
      <4> QED
        BY <2>1, <4>1 DEF AddTask, Added, Kinds
    <3> QED
      BY <3>1, TaskInserted DEF NestInv
  <2>2. CASE ~AddTask
    BY <2>2 DEF QuietHandle, AddTaskFails, PopNothing, Leave, LoadAll, ReadDone, PutsMessage,
       queue, NestInv, Sorted
  <2> QED
    BY <2>1, <2>2
<1> QED
  BY <1>7, <1>8, <1>9 DEF NestInv

(* pop_task starts a task: its frame is the last to run one.               *)
LEMMA TaskStarts ==
    ASSUME LineInv, NestInv, PopTask
    PROVE  NestInv'
<1> DEFINE at == tasks[1]
<1>1. /\ UNCHANGED <<pc, cur_thread>>
      /\ cur_prio' = Prio[at] /\ Prio[at] < cur_prio
  BY DEF PopTask, threads, Due
<1>2. /\ pc = "run" /\ cur_thread \in Threads /\ Top(cur_thread) \in Nat \ {0}
      /\ At(cur_thread, Top(cur_thread)) = "pop"
      /\ ~IsTick(cur_thread, Top(cur_thread)) /\ ~IsUrgent(cur_thread, Top(cur_thread))
  BY LastAt DEF PopTask, IsTick, IsUrgent, Urgent
<1>3. Sorted' /\ at \in Kinds
  BY TaskRemoved DEF PopTask, Due, NestInv
<1>4. LastMoves(at, cur_prio)
  BY <1>2, <1>3, StartFrames DEF PopTask, Here
<1> HIDE DEF at
<1>5. \A t \in Threads : Top(t)' = Top(t) /\ Top(t) \in Nat
  BY <1>4, TopType DEF LineInv, LastMoves
<1>6. \A t \in Threads : \A i \in 1 .. Top(t) :
          IF t = cur_thread /\ i = Top(t)
          THEN At(t, i)' = at /\ PrioOf(t, i)' = cur_prio
          ELSE SameFrame(t, i)
  BY <1>4 DEF LastMoves, SameFrame
<1>7. Prio[at] = (IF Urgent(at) THEN 1 ELSE 16) /\ (Urgent(at) <=> at # "tick")
  BY <1>3, Prios
<1>9. Away'
  BY <1>1, <1>2, <1>5, <1>6 DEF NestInv, Away, SameFrame, IsTick, IsUrgent
<1>10. ~SomeUrgent /\ (at = "tick" => ~SomeTick)
  BY <1>1, <1>7 DEF NestInv, Restores, UART_PRIO, TIMER_PRIO, LOW_PRIO
<1>11. CASE at = "tick"
  <2>1. \A t \in Threads : \A i \in 1 .. Top(t) :
            /\ IsTick(t, i)' <=> t = cur_thread /\ i = Top(t)
            /\ ~IsUrgent(t, i)'
    BY <1>2, <1>5, <1>6, <1>10, <1>11 DEF SameFrame, IsTick, IsUrgent, Urgent, SomeTick, SomeUrgent
  <2>2. ~SomeUrgent' /\ SomeTick'
    BY <1>2, <1>5, <2>1 DEF SomeTick, SomeUrgent
  <2>3. cur_prio = LOW_PRIO
    BY <1>10, <1>11 DEF NestInv, Restores
  <2>4. Nested'
    BY <1>5, <2>1 DEF Nested
  <2>5. Restores'
    BY <1>1, <1>5, <1>6, <1>7, <1>11, <2>1, <2>2, <2>3 DEF Restores, TIMER_PRIO
  <2> QED
    BY <1>3, <1>9, <2>4, <2>5 DEF NestInv
<1>12. CASE Urgent(at)
  <2>1. \A t \in Threads : \A i \in 1 .. Top(t) :
            /\ IsUrgent(t, i)' <=> t = cur_thread /\ i = Top(t)
            /\ IsTick(t, i)' <=> IsTick(t, i)
            /\ IsTick(t, i) => SameFrame(t, i) /\ ~(t = cur_thread /\ i = Top(t))
    BY <1>2, <1>5, <1>6, <1>10, <1>12 DEF SameFrame, IsTick, IsUrgent, Urgent, SomeUrgent
  <2>2. SomeUrgent' /\ (SomeTick' <=> SomeTick)
    BY <1>2, <1>5, <2>1 DEF SomeTick, SomeUrgent
  <2>3. cur_prio = IF SomeTick THEN TIMER_PRIO ELSE LOW_PRIO
    BY <1>10 DEF NestInv, Restores
  <2>4. Nested'
    <3>1. \A t \in Threads : \A i \in 1 .. Top(t) : t = cur_thread /\ i # Top(t) => i < Top(t)
      BY <1>5
    <3> QED
      BY <1>5, <2>1, <3>1 DEF NestInv, Nested
  <2>5. Restores'
    BY <1>1, <1>5, <1>6, <1>7, <1>12, <2>1, <2>2, <2>3 DEF NestInv, Restores, SameFrame, UART_PRIO
  <2> QED
    BY <1>3, <1>9, <2>4, <2>5 DEF NestInv
<1> QED
  BY <1>7, <1>11, <1>12

(* An urgent task ends.                                                    *)
UrgentEnds == RunUart \/ RunPrint

LEMMA UrgentEnd ==
    ASSUME LineInv, NestInv, UrgentEnds
    PROVE  NestInv'
<1>1. /\ UNCHANGED <<pc, cur_thread, tasks>> /\ cur_prio' = Last.orin_prio
  BY DEF UrgentEnds, RunUart, RunPrint, threads
<1>2. PICK from \in {"uart", "print"} : Here(from) /\ Goto("leave")
  BY DEF UrgentEnds, RunUart, RunPrint
<1>3. /\ pc = "run" /\ cur_thread \in Threads /\ Top(cur_thread) \in Nat \ {0}
      /\ IsUrgent(cur_thread, Top(cur_thread))
      /\ Last.orin_prio = PrioOf(cur_thread, Top(cur_thread))
  BY <1>2, LastAt DEF IsUrgent, Urgent
<1>4. LastMoves("leave", Last.orin_prio)
  BY <1>2, <1>3, GotoFrames DEF Here
<1>5. \A t \in Threads : Top(t)' = Top(t) /\ Top(t) \in Nat
  BY <1>4, TopType DEF LineInv, LastMoves
<1>6. \A t \in Threads : \A i \in 1 .. Top(t) :
          IF t = cur_thread /\ i = Top(t) THEN At(t, i)' = "leave" ELSE SameFrame(t, i)
  BY <1>4 DEF LastMoves
<1>7. \A t \in Threads : \A i \in 1 .. Top(t) :
          /\ IsTick(t, i)' <=> IsTick(t, i)
          /\ IsTick(t, i) => SameFrame(t, i)
          /\ ~IsUrgent(t, i)'
  BY <1>3, <1>5, <1>6 DEF NestInv, Nested, SameFrame, IsTick, IsUrgent, Urgent
<1>8. SomeUrgent /\ ~SomeUrgent' /\ (SomeTick' <=> SomeTick)
  BY <1>3, <1>5, <1>7 DEF SomeTick, SomeUrgent
<1>9. Sorted'
  BY <1>1 DEF NestInv, Sorted
<1>10. Away' /\ Nested'
  BY <1>1, <1>3, <1>5, <1>7 DEF NestInv, Away, Nested, SameFrame
<1>11. Restores'
  BY <1>1, <1>3, <1>5, <1>7, <1>8 DEF NestInv, Restores, SameFrame
<1> QED
  BY <1>9, <1>10, <1>11 DEF NestInv

(* No urgent task runs where the last frame is a tick.                     *)
LEMMA TickAlone ==
    ASSUME LineInv, NestInv, NEW at \in {"tick", "ticked"}, Here(at)
    PROVE  /\ ~SomeUrgent /\ SomeTick
           /\ \A t \in Threads : \A i \in 1 .. Top(t) :
                 IsTick(t, i) => t = cur_thread /\ i = Top(t)
<1>1. /\ pc = "run" /\ cur_thread \in Threads /\ Top(cur_thread) \in Nat \ {0}
      /\ IsTick(cur_thread, Top(cur_thread)) /\ At(cur_thread, Top(cur_thread)) = at
  BY LastAt DEF IsTick
<1>2. \A t \in Threads : \A i \in 1 .. Top(t) :
          IsTick(t, i) => t = cur_thread /\ i = Top(t)
  BY <1>1 DEF NestInv, Nested
<1>3. ASSUME NEW t \in Threads, NEW i \in 1 .. Top(t), IsUrgent(t, i)
      PROVE  FALSE
  <2>1. t = cur_thread
    BY <1>3 DEF NestInv, Away, IsUrgent, Urgent
  <2>2. Top(cur_thread) < i /\ i <= Top(cur_thread)
    BY <1>1, <1>3, <2>1 DEF NestInv, Nested
  <2> QED
    BY <1>1, <1>3, <2>1, <2>2
<1> QED
  BY <1>1, <1>2, <1>3 DEF SomeTick, SomeUrgent

(* The tick calls schedule(), and ends when its thread goes on.            *)
LEMMA TickSteps ==
    ASSUME LineInv, NestInv, RunTick \/ EndTick
    PROVE  NestInv'
<1>1. PICK from \in {"tick", "ticked"}, at \in {"ticked", "leave"} :
          /\ Here(from) /\ LastMoves(at, Last.orin_prio)
          /\ at = "ticked" <=> RunTick
          /\ at = "leave" <=> EndTick
  <2>1. \A to : Goto(to) /\ to \in {"ticked", "leave"} /\ pc = "run" /\ Depth > 0
               => LastMoves(to, Last.orin_prio)
    BY GotoFrames
  <2>2. CASE RunTick
    <3>1. Here("tick") /\ LastMoves("ticked", Last.orin_prio) /\ ~EndTick
      BY <2>1, <2>2 DEF RunTick, EndTick, Here
    <3> QED
      BY <2>2, <3>1
  <2>3. CASE EndTick
    <3>1. Here("ticked") /\ LastMoves("leave", Last.orin_prio) /\ ~RunTick
      BY <2>1, <2>3 DEF RunTick, EndTick, Here
    <3> QED
      BY <2>3, <3>1
  <2> QED
    BY <2>2, <2>3
<1>2. /\ pc = "run" /\ cur_thread \in Threads /\ Top(cur_thread) \in Nat \ {0}
      /\ IsTick(cur_thread, Top(cur_thread))
      /\ Last.orin_prio = PrioOf(cur_thread, Top(cur_thread))
  BY <1>1, LastAt DEF IsTick
<1>3. /\ ~SomeUrgent /\ SomeTick
      /\ \A t \in Threads : \A i \in 1 .. Top(t) : IsTick(t, i) => t = cur_thread /\ i = Top(t)
  BY <1>1, TickAlone
<1>4. UNCHANGED <<cur_thread, tasks>>
  BY DEF RunTick, EndTick, threads, queue, RQ!Tick
<1>5. \A t \in Threads : Top(t)' = Top(t) /\ Top(t) \in Nat
  BY <1>1, TopType DEF LineInv, LastMoves
<1>6. \A t \in Threads : \A i \in 1 .. Top(t) :
          IF t = cur_thread /\ i = Top(t)
          THEN At(t, i)' = at /\ PrioOf(t, i)' = LOW_PRIO
          ELSE SameFrame(t, i)
  BY <1>1, <1>2 DEF LastMoves, NestInv, Restores
<1>7. \A t \in Threads : \A i \in 1 .. Top(t) :
          /\ ~IsUrgent(t, i)'
          /\ IsTick(t, i)' <=> t = cur_thread /\ i = Top(t) /\ at = "ticked"
  BY <1>2, <1>3, <1>5, <1>6 DEF SameFrame, IsTick, IsUrgent, Urgent, SomeUrgent
<1>8. ~SomeUrgent' /\ (SomeTick' <=> at = "ticked") /\ Sorted'
  BY <1>2, <1>3, <1>4, <1>5, <1>7 DEF SomeUrgent, SomeTick, NestInv, Sorted
<1>10. Away' /\ Nested'
  BY <1>4, <1>5, <1>6, <1>7 DEF Away, Nested
<1>11. Restores'
  <2>1. cur_prio' = IF at = "ticked" THEN TIMER_PRIO ELSE LOW_PRIO
    <3>1. CASE RunTick
      BY <1>1, <1>3, <3>1 DEF RunTick, queue, NestInv, Restores
    <3>2. CASE EndTick
      <4>1. PrioOf(cur_thread, Top(cur_thread)) = LOW_PRIO
        BY <1>2 DEF NestInv, Restores
      <4> QED
        BY <1>1, <1>2, <3>2, <4>1 DEF EndTick
    <3> QED
      BY <3>1, <3>2
  <2> QED
    BY <1>5, <1>6, <1>7, <1>8, <2>1 DEF Restores
<1> QED
  BY <1>8, <1>10, <1>11 DEF NestInv

(* Where the running thread has no frame, or none runs, no urgent task is  *)
(* under way.                                                              *)
LEMMA Nothing ==
    ASSUME LineInv, NestInv, pc = "run" => Top(cur_thread) = 0
    PROVE  /\ ~SomeUrgent
           /\ \A t \in Threads : \A i \in 1 .. Top(t) :
                 IsTick(t, i) => At(t, i) = "ticked" /\ i = Top(t)
<1>1. ~(pc = "run" /\ \E i \in 1 .. Top(cur_thread) : TRUE)
  OBVIOUS
<1>2. \A t \in Threads : \A i \in 1 .. Top(t) :
          /\ ~IsUrgent(t, i)
          /\ IsTick(t, i) => At(t, i) = "ticked" /\ i = Top(t)
  BY <1>1 DEF NestInv, Away, IsUrgent, Urgent
<1> QED
  BY <1>2 DEF SomeUrgent

(* An exception or test_preempt: a frame comes that runs nothing.          *)
FrameComes == TimerIrq \/ UartIrq \/ PlainCall \/ Exec \/ TestPreempt

LEMMA ComingFrames ==
    ASSUME LineInv, FrameComes
    PROVE  \E irq : \E at \in Idle : OneComes(irq, at)
<1>1. \A irq, at : pc = "run" /\ Suits(irq, at) /\ Push(irq, at) => OneComes(irq, at)
  BY PushFrames
<1>2. pc = "run"
  BY PlainCalls DEF FrameComes, TimerIrq, UartIrq, Exec, TestPreempt, Called, Below
<1>3. \/ Push("timer", "add") \/ Push("uart", "add") \/ Push("test", "add")
      \/ Push("sync", "return") \/ Push("sync", "read") \/ Push("sync", "eret")
  BY PlainCalls DEF FrameComes, TimerIrq, UartIrq, Exec, TestPreempt, Except, Called
<1>4. \E irq : \E at \in Idle : Suits(irq, at) /\ Push(irq, at)
  BY <1>3 DEF Suits, Idle
<1> QED
  BY <1>1, <1>2, <1>4

LEMMA ExceptionNest ==
    ASSUME LineInv, NestInv, FrameComes
    PROVE  NestInv'
<1>1. UNCHANGED <<pc, cur_thread, cur_prio, tasks>> /\ pc = "run" /\ cur_thread \in Threads
  BY PlainCalls DEF FrameComes, TimerIrq, UartIrq, Exec, TestPreempt, Called, Below,
     threads, queue, LineInv, Begun
<1>2. PICK irq : \E at \in Idle : OneComes(irq, at)
  BY ComingFrames
<1>3. \A t \in Threads :
          /\ Top(t) \in Nat /\ Top(t)' = IF t = cur_thread THEN Top(t) + 1 ELSE Top(t)
          /\ \A i \in 1 .. Top(t) : SameFrame(t, i) /\ i \in 1 .. Top(t)'
          /\ \A i \in 1 .. Top(t)' :
                \/ i \in 1 .. Top(t)
                \/ t = cur_thread /\ i = Top(t)' /\ At(t, i)' \in Idle
  <2>1. \A t \in Threads : Top(t) \in Nat
    BY TopType DEF LineInv
  <2> QED
    BY <1>2, <2>1 DEF OneComes
<1>4. \A t \in Threads : \A i \in 1 .. Top(t)' :
          /\ IsTick(t, i)' <=> i \in 1 .. Top(t) /\ IsTick(t, i)
          /\ IsUrgent(t, i)' <=> i \in 1 .. Top(t) /\ IsUrgent(t, i)
  <2>1. \A t \in Threads : \A i \in 1 .. Top(t)' :
            At(t, i)' \in Idle => ~IsTick(t, i)' /\ ~IsUrgent(t, i)'
    BY IdleFramesNext
  <2>2. \A t \in Threads : Top(t) + 1 \notin 1 .. Top(t)
    BY <1>3
  <2>3. \A t \in Threads : \A i \in 1 .. Top(t) :
            (IsTick(t, i)' <=> IsTick(t, i)) /\ (IsUrgent(t, i)' <=> IsUrgent(t, i))
    BY <1>3 DEF SameFrame, IsTick, IsUrgent
  <2> QED
    BY <1>3, <2>1, <2>2, <2>3
<1>5. (SomeTick' <=> SomeTick) /\ (SomeUrgent' <=> SomeUrgent)
  BY <1>3, <1>4 DEF SomeTick, SomeUrgent
<1>6. Sorted'
  BY <1>1 DEF NestInv, Sorted
<1>10. Away'
  <2>1. ASSUME NEW t \in Threads, NEW i \in 1 .. Top(t)', (IsTick(t, i) \/ IsUrgent(t, i))',
               t # cur_thread
        PROVE  (At(t, i) = "ticked" /\ i = Top(t))'
    BY <1>3, <1>4, <2>1 DEF NestInv, Away, SameFrame
  <2> QED
    BY <1>1, <2>1 DEF Away
<1>11. Nested'
  BY <1>3, <1>4 DEF NestInv, Nested
<1>12. Restores'
  BY <1>1, <1>3, <1>4, <1>5 DEF NestInv, Restores, SameFrame
<1> QED
  BY <1>6, <1>10, <1>11, <1>12 DEF NestInv

(* The same frames, for a step that leaves them and the tasks alone.       *)
LEMMA NestStays ==
    ASSUME LineInv, NestInv, AllStay, UNCHANGED <<tasks, cur_prio>>,
           \/ UNCHANGED <<pc, cur_thread>>
           \/ pc = "run" => Top(cur_thread) = 0
    PROVE  NestInv'
<1>1. \A t \in Threads : /\ Top(t)' = Top(t) /\ Top(t) \in Nat
                         /\ \A i \in 1 .. Top(t) : SameFrame(t, i)
  BY TopType DEF LineInv, AllStay
<1>2. \A t \in Threads : \A i \in 1 .. Top(t) :
          (IsTick(t, i)' <=> IsTick(t, i)) /\ (IsUrgent(t, i)' <=> IsUrgent(t, i))
  BY <1>1 DEF SameFrame, IsTick, IsUrgent
<1>3. (SomeTick' <=> SomeTick) /\ (SomeUrgent' <=> SomeUrgent) /\ Sorted'
  BY <1>1, <1>2 DEF SomeTick, SomeUrgent, Sorted, NestInv
<1>4. Nested'
  BY <1>1, <1>2 DEF NestInv, Nested
<1>5. Restores'
  BY <1>1, <1>2, <1>3 DEF NestInv, Restores, SameFrame
<1>6. Away'
  <2>1. CASE UNCHANGED <<pc, cur_thread>>
    BY <1>1, <1>2, <2>1 DEF NestInv, Away, SameFrame
  <2>2. CASE pc = "run" => Top(cur_thread) = 0
    <3>1. /\ ~SomeUrgent
          /\ \A t \in Threads : \A i \in 1 .. Top(t) :
                IsTick(t, i) => At(t, i) = "ticked" /\ i = Top(t)
      BY <2>2, Nothing
    <3> QED
      BY <1>1, <1>2, <3>1 DEF Away, SameFrame, SomeUrgent
  <2> QED
    BY <2>1, <2>2
<1> QED
  BY <1>3, <1>4, <1>5, <1>6 DEF NestInv

(* A frame goes that runs nothing.                                         *)
LEMMA EretNest ==
    ASSUME LineInv, NestInv, Eret \/ TestDone
    PROVE  NestInv'
<1>1. UNCHANGED <<pc, cur_thread, tasks, cur_prio>>
  BY DEF Eret, TestDone, threads, queue
<1>2. /\ pc = "run" /\ cur_thread \in Threads /\ Top(cur_thread) \in Nat \ {0}
      /\ ~IsTick(cur_thread, Top(cur_thread)) /\ ~IsUrgent(cur_thread, Top(cur_thread))
  BY LastAt DEF Eret, TestDone, IsTick, IsUrgent, Urgent
<1>3. CASE AllStay
  BY <1>1, <1>3, NestStays
<1>4. CASE LastGoes
  <2>1. \A t \in Threads :
            /\ Top(t) \in Nat /\ Top(t)' \in Nat
            /\ Top(t)' = IF t = cur_thread THEN Top(t) - 1 ELSE Top(t)
            /\ \A i \in 1 .. Top(t)' : SameFrame(t, i) /\ i \in 1 .. Top(t)
            /\ \A i \in 1 .. Top(t) : i \in 1 .. Top(t)' \/ (t = cur_thread /\ i = Top(t))
    BY <1>2, <1>4, TopType DEF LineInv, LastGoes
  <2>2. \A t \in Threads : \A i \in 1 .. Top(t) :
            IsTick(t, i) \/ IsUrgent(t, i) => i \in 1 .. Top(t)'
    BY <1>2, <2>1
  <2>3. \A t \in Threads : \A i \in 1 .. Top(t)' :
            (IsTick(t, i)' <=> IsTick(t, i)) /\ (IsUrgent(t, i)' <=> IsUrgent(t, i))
    BY <2>1 DEF SameFrame, IsTick, IsUrgent
  <2>4. /\ SomeTick' <=> SomeTick
        /\ SomeUrgent' <=> SomeUrgent
    BY <2>1, <2>2, <2>3 DEF SomeTick, SomeUrgent
  <2>5. Sorted'
    BY <1>1 DEF NestInv, Sorted
  <2>7. Away'
    BY <1>1, <1>2, <2>1, <2>3 DEF NestInv, Away, SameFrame
  <2>8. Nested'
    BY <2>1, <2>3 DEF NestInv, Nested
  <2>9. Restores'
    BY <1>1, <2>1, <2>3, <2>4 DEF NestInv, Restores, SameFrame
  <2> QED
    BY <2>5, <2>7, <2>8, <2>9 DEF NestInv
<1> QED
  BY <1>3, <1>4, EretFrames

(* A switch, and the first frame of a child.                               *)
LEMMA ChildFrames ==
    ASSUME LineInv, RP!IndInv, PickChild
    PROVE  \A t \in Threads :
              /\ Top(t)' = IF t = rq.head THEN 1 ELSE Top(t)
              /\ t = rq.head => Top(t) = 0
              /\ t # rq.head => \A i \in 1 .. Top(t) : SameFrame(t, i)
              /\ t = rq.head => At(t, 1)' = "return" /\ IrqOf(t, 1)' = "sync"
<1> DEFINE new == [irq |-> "sync", at |-> "return", orin_prio |-> LOW_PRIO]
<1>1. stack' = [stack EXCEPT ![rq.head] = <<new>>] /\ begin[rq.head] = "child"
  BY DEF PickChild
<1>2. Len(<<new>>) = 1 /\ <<new>>[1] = new /\ Len(<<>>) = 0
  OBVIOUS
<1>3. new.at = "return" /\ new.irq = "sync"
  OBVIOUS
<1> HIDE DEF new
<1> QED
  BY <1>1, <1>2, <1>3 DEF LineInv, Stacks, Begun, SameFrame, Top, At, IrqOf, PrioOf

LEMMA SwitchNest ==
    ASSUME LineInv, NestInv, RP!IndInv, Pick
    PROVE  NestInv'
<1>1. pc = "pick" /\ UNCHANGED <<tasks, cur_prio>>
  BY DEF Pick, PickDead, PickStarted, PickShell, PickChild, RQ!PickDead, RQ!PickLive, queue
<1>2. /\ ~SomeUrgent
      /\ \A t \in Threads : \A i \in 1 .. Top(t) :
            IsTick(t, i) => At(t, i) = "ticked" /\ i = Top(t)
  BY <1>1, Nothing
<1>3. CASE ~PickChild
  <2>1. UNCHANGED stack
    BY <1>3 DEF Pick, PickDead, PickStarted, PickShell
  <2>2. AllStay
    BY <2>1 DEF AllStay, SameFrame, Top, At, IrqOf, PrioOf
  <2> QED
    BY <1>1, <2>2, NestStays
<1>4. CASE PickChild
  <2>1. \A t \in Threads :
            /\ Top(t)' = IF t = rq.head THEN 1 ELSE Top(t)
            /\ t = rq.head => Top(t) = 0
            /\ t # rq.head => \A i \in 1 .. Top(t) : SameFrame(t, i)
            /\ t = rq.head => At(t, 1)' = "return" /\ IrqOf(t, 1)' = "sync"
    BY <1>4, ChildFrames
  <2>2. \A t \in Threads : \A i \in 1 .. Top(t)' :
            /\ ~IsUrgent(t, i)'
            /\ IsTick(t, i)' => i \in 1 .. Top(t) /\ SameFrame(t, i) /\ IsTick(t, i) /\ Top(t)' = Top(t)
    BY <1>2, <2>1 DEF SameFrame, IsTick, IsUrgent, Urgent, SomeUrgent
  <2>3. \A t \in Threads : \A i \in 1 .. Top(t) : IsTick(t, i) => i \in 1 .. Top(t)' /\ IsTick(t, i)'
    BY <2>1 DEF SameFrame, IsTick
  <2>4. ~SomeUrgent' /\ (SomeTick' <=> SomeTick)
    BY <2>2, <2>3 DEF SomeTick, SomeUrgent
  <2>5. Sorted'
    BY <1>1 DEF NestInv, Sorted
  <2>7. Away'
    BY <1>2, <2>2 DEF Away, SameFrame
  <2>8. Nested'
    BY <2>2 DEF NestInv, Nested
  <2>9. Restores'
    BY <1>1, <1>2, <2>2, <2>4 DEF NestInv, Restores, SameFrame
  <2> QED
    BY <2>5, <2>7, <2>8, <2>9 DEF NestInv
<1> QED
  BY <1>3, <1>4

LEMMA QuietNest ==
    ASSUME LineInv, NestInv,
           \/ InitScheduler \/ UartIrqInUser \/ ExitCall \/ Compute
           \/ EnterSection \/ LeaveSection \/ UNCHANGED vars
    PROVE  NestInv'
<1>1. UNCHANGED <<stack, tasks, cur_prio>>
  BY DEF InitScheduler, UartIrqInUser, ExitCall, Compute, EnterSection, LeaveSection, vars,
         below, queue
<1>2. AllStay
  BY <1>1 DEF AllStay, SameFrame, Top, At, IrqOf, PrioOf
<1>3. CASE UartIrqInUser \/ Compute \/ EnterSection \/ LeaveSection \/ UNCHANGED vars
  <2>1. UNCHANGED <<pc, cur_thread>>
    BY <1>3 DEF UartIrqInUser, Compute, EnterSection, LeaveSection, vars, threads
  <2> QED
    BY <1>1, <1>2, <2>1, NestStays
<1>4. CASE InitScheduler \/ ExitCall
  <2>1. pc = "run" => Top(cur_thread) = 0
    BY <1>4 DEF InitScheduler, RQ!InitScheduler, ExitCall, Below, Depth, Stack, Top
  <2> QED
    BY <1>1, <1>2, <2>1, NestStays
<1> QED
  BY <1>3, <1>4

LEMMA NestStep ==
    ASSUME LineInv, NestInv, RP!IndInv, [Next]_vars
    PROVE  NestInv'
BY QuietMove, TaskStarts, UrgentEnd, TickSteps, ExceptionNest, EretNest, SwitchNest, QuietNest
   DEF Next, Irq, Handle, QuietHandle, UrgentEnds, FrameComes, Return, Call, PlainCall, Below0, Test

-----------------------------------------------------------------------------
(* What a thread is to count down.                                         *)
Marked(t, i) == IsTick(t, i) \/ IsUrgent(t, i)
HeldBy(t) == Cardinality(Running(t)) + (IF section[t] THEN 1 ELSE 0)

(* The running thread has a frame on top of a section or of a task.        *)
Covered ==
    /\ Top(cur_thread) > 0
    /\ \/ section[cur_thread]
       \/ \E i \in 1 .. Top(cur_thread) - 1 : Marked(cur_thread, i)

SectionTypes ==
    /\ section \in [Threads -> BOOLEAN]
    /\ mode \in [Threads -> {"kernel", "user"}]
    /\ count \in Nat /\ masked \in BOOLEAN

(* A thread is left in a section only in a tick, and user code is in none. *)
Sections ==
    \A t \in Threads : section[t] =>
        /\ mode[t] = "kernel"
        /\ \/ pc = "run" /\ t = cur_thread
           \/ \E i \in 1 .. Top(t) : IsTick(t, i)

(* What the count covers: with the sections of a thread that was left      *)
(* there is always one more than it will need, so that a child's count     *)
(* down leaves enough.                                                     *)
RunCounted ==
    pc = "run" =>
        /\ count >= HeldBy(cur_thread)
        /\ \A t \in Threads : section[t] /\ t # cur_thread => count >= HeldBy(cur_thread) + 2
        /\ Covered => count > HeldBy(cur_thread)
        /\ HeldBy(cur_thread) > 0 => masked \/ count > HeldBy(cur_thread)
PickCounted ==
    pc = "pick" =>
        /\ count >= 1 /\ (masked \/ count >= 2)
        /\ \A t \in Threads : section[t] => count >= 3
BootCounted == pc = "boot" => \A t \in Threads : ~section[t] /\ Top(t) = 0

CountInv == SectionTypes /\ Sections /\ RunCounted /\ PickCounted /\ BootCounted

LEMMA RunningSet ==
    ASSUME LineInv, NEW t \in Threads
    PROVE  /\ Running(t) = {i \in 1 .. Top(t) : Marked(t, i)}
           /\ IsFiniteSet(Running(t)) /\ Cardinality(Running(t)) \in Nat
<1>1. Top(t) \in Nat /\ DOMAIN stack[t] = 1 .. Top(t)
  BY TopType DEF LineInv
<1>2. Running(t) = {i \in 1 .. Top(t) : Marked(t, i)}
  BY <1>1 DEF Running, Marked, IsTick, IsUrgent, Urgent, At
<1>3. IsFiniteSet(1 .. Top(t))
  BY <1>1, FS_Interval
<1> QED
  BY <1>2, <1>3, FS_Subset, FS_CardinalityType

LEMMA RunningSetNext ==
    ASSUME LineInv', NEW t \in Threads
    PROVE  /\ Top(t)' \in Nat
           /\ Running(t)' = {i \in 1 .. Top(t)' : Marked(t, i)'}
<1>1. Top(t)' \in Nat /\ DOMAIN stack'[t] = 1 .. Top(t)'
  BY Domains DEF LineInv, Stacks, Top
<1> QED
  BY <1>1 DEF Running, Marked, IsTick, IsUrgent, Urgent, At

LEMMA HeldType ==
    ASSUME LineInv, CountInv, NEW t \in Threads
    PROVE  /\ HeldBy(t) \in Nat
           /\ (\E i \in 1 .. Top(t) : Marked(t, i)) => HeldBy(t) > 0
           /\ section[t] => HeldBy(t) > 0
           /\ section[t] /\ (\E i \in 1 .. Top(t) : Marked(t, i)) => HeldBy(t) > 1
           /\ HeldBy(t) > 0 => section[t] \/ \E i \in 1 .. Top(t) : Marked(t, i)
<1>1. /\ Running(t) = {i \in 1 .. Top(t) : Marked(t, i)}
      /\ IsFiniteSet(Running(t)) /\ Cardinality(Running(t)) \in Nat
  BY RunningSet
<1>2. Cardinality(Running(t)) = 0 <=> Running(t) = {}
  BY <1>1, FS_EmptySet
<1>3. section[t] \in BOOLEAN
  BY DEF CountInv, SectionTypes
<1> QED
  BY <1>1, <1>2, <1>3 DEF HeldBy

(* The frames that run tasks stay, or the last one begins or ends one.     *)
LEMMA HeldKept ==
    ASSUME LineInv, LineInv', NEW t \in Threads, section'[t] = section[t],
           \A i : i \in 1 .. Top(t)' /\ Marked(t, i)' <=> i \in 1 .. Top(t) /\ Marked(t, i)
    PROVE  HeldBy(t)' = HeldBy(t)
<1>1. Running(t)' = Running(t)
  BY RunningSet, RunningSetNext
<1> QED
  BY <1>1 DEF HeldBy

LEMMA HeldMore ==
    ASSUME LineInv, LineInv', NEW t \in Threads, section'[t] = section[t], NEW n,
           n \notin 1 .. Top(t) \/ ~Marked(t, n),
           \A i : i \in 1 .. Top(t)' /\ Marked(t, i)' <=> (i \in 1 .. Top(t) /\ Marked(t, i)) \/ i = n
    PROVE  HeldBy(t)' = HeldBy(t) + 1
<1>1. /\ Running(t)' = Running(t) \cup {n} /\ n \notin Running(t)
      /\ IsFiniteSet(Running(t)) /\ Cardinality(Running(t)) \in Nat
  BY RunningSet, RunningSetNext
<1>2. Cardinality(Running(t) \cup {n}) = Cardinality(Running(t)) + 1
  BY <1>1, FS_AddElement
<1> QED
  BY <1>1, <1>2 DEF HeldBy

LEMMA HeldLess ==
    ASSUME LineInv, LineInv', NEW t \in Threads, section'[t] = section[t],
           NEW n \in 1 .. Top(t), Marked(t, n),
           \A i : i \in 1 .. Top(t)' /\ Marked(t, i)' <=> (i \in 1 .. Top(t) /\ Marked(t, i)) /\ i # n
    PROVE  HeldBy(t)' = HeldBy(t) - 1
<1>1. /\ Running(t)' = Running(t) \ {n} /\ n \in Running(t)
      /\ IsFiniteSet(Running(t)) /\ Cardinality(Running(t)) \in Nat
  BY RunningSet, RunningSetNext
<1>2. Cardinality(Running(t) \ {n}) = Cardinality(Running(t)) - 1
  BY <1>1, FS_RemoveElement
<1> QED
  BY <1>1, <1>2 DEF HeldBy

(* A thread whose only task is a tick, or that has none.                   *)
LEMMA HeldInTick ==
    ASSUME LineInv, CountInv, NEW t \in Threads,
           \A i \in 1 .. Top(t) : Marked(t, i) => i = Top(t)
    PROVE  HeldBy(t) <= 1 + (IF section[t] THEN 1 ELSE 0)
<1>1. /\ Running(t) = {i \in 1 .. Top(t) : Marked(t, i)}
      /\ IsFiniteSet(Running(t)) /\ Cardinality(Running(t)) \in Nat
  BY RunningSet
<1>2. IsFiniteSet({Top(t)}) /\ Cardinality({Top(t)}) = 1
  BY FS_Singleton
<1>3. Running(t) \subseteq {Top(t)}
  BY <1>1
<1>4. Cardinality(Running(t)) <= 1
  BY <1>2, <1>3, FS_Subset
<1> QED
  BY <1>1, <1>4 DEF HeldBy

(* Handlers that move between points where they run no task.               *)
LEMMA QuietCount ==
    ASSUME LineInv, LineInv', NestInv, CountInv, QuietHandle
    PROVE  CountInv'
<1>1. UNCHANGED <<pc, cur_thread, section, mode>>
  BY DEF QuietHandle, AddTask, AddTaskFails, PopNothing, Leave, LoadAll, ReadDone, PutsMessage,
         threads, below
<1>2. PICK from \in Idle \ {"eret"}, at \in Idle \ {"read", "add"} :
          Here(from) /\ LastMoves(at, Last.orin_prio)
  BY QuietMoves
<1>3. /\ pc = "run" /\ cur_thread \in Threads /\ Top(cur_thread) \in Nat \ {0}
      /\ At(cur_thread, Top(cur_thread)) = from
  BY <1>2, LastAt
<1>4. \A t \in Threads : Top(t)' = Top(t) /\ Top(t) \in Nat
  BY <1>2, TopType DEF LineInv, LastMoves
<1>5. \A t \in Threads : \A i \in 1 .. Top(t) :
          (IsTick(t, i)' <=> IsTick(t, i)) /\ (Marked(t, i)' <=> Marked(t, i))
  <2>1. ASSUME NEW t \in Threads, NEW i \in 1 .. Top(t), t = cur_thread /\ i = Top(t)
        PROVE  At(t, i) \in Idle /\ At(t, i)' \in Idle
    BY <1>2, <1>3, <2>1 DEF LastMoves
  <2>2. ASSUME NEW t \in Threads, NEW i \in 1 .. Top(t), ~(t = cur_thread /\ i = Top(t))
        PROVE  SameFrame(t, i)
    BY <1>2, <2>2 DEF LastMoves
  <2> QED
    BY <2>1, <2>2, IdleFrames, IdleFramesNext DEF SameFrame, IsTick, IsUrgent, Marked
<1>6. HeldBy(cur_thread)' = HeldBy(cur_thread)
  <2>1. \A t \in Threads : HeldBy(t)' = HeldBy(t)
    BY <1>1, <1>4, <1>5, HeldKept
  <2> QED
    BY <1>1, <1>3, <2>1
<1>7. Covered' <=> Covered
  BY <1>1, <1>3, <1>4, <1>5 DEF Covered
<1>8. Sections'
  BY <1>1, <1>4, <1>5 DEF CountInv, Sections
<1>9. PickCounted' /\ BootCounted'
  BY <1>1, <1>3 DEF PickCounted, BootCounted
<1>10. HeldBy(cur_thread) \in Nat /\ count \in Nat /\ masked \in BOOLEAN
  BY <1>3, HeldType DEF CountInv, SectionTypes
<1>11. /\ count' \in Nat /\ masked' \in BOOLEAN
       /\ \/ count' = count /\ (masked' = masked \/ count = 0)
          \/ count' = count + 1 /\ (masked' <=> masked \/ count = 0)
  <2>1. CASE DisableEnable
    <3>1. count' = count /\ masked' = (masked /\ count # 0)
      BY <2>1 DEF DisableEnable
    <3>2. masked' \in BOOLEAN /\ (masked' = masked \/ count = 0)
      BY <1>10, <3>1, Zenon
    <3> QED
      BY <1>10, <3>1, <3>2
  <2>2. CASE Disable
    <3>1. count' = count + 1 /\ masked' = (masked \/ count = 0)
      BY <2>2 DEF Disable
    <3>2. masked' \in BOOLEAN /\ (masked' <=> masked \/ count = 0)
      BY <1>10, <3>1, Zenon
    <3> QED
      BY <1>10, <3>1, <3>2
  <2>3. CASE UNCHANGED <<count, masked>>
    BY <1>10, <2>3
  <2> QED
    BY <2>1, <2>2, <2>3 DEF QuietHandle, AddTask, AddTaskFails, PopNothing, Leave, LoadAll,
       ReadDone, PutsMessage
<1>12. SectionTypes'
  BY <1>1, <1>11 DEF CountInv, SectionTypes
<1>13. RunCounted'
  BY <1>1, <1>3, <1>6, <1>7, <1>10, <1>11 DEF CountInv, RunCounted
<1> QED
  BY <1>8, <1>9, <1>12, <1>13 DEF CountInv

(* A task begins.                                                          *)
LEMMA StartCount ==
    ASSUME LineInv, LineInv', NestInv, CountInv, PopTask
    PROVE  CountInv'
<1>1. UNCHANGED <<pc, cur_thread, section, mode>> /\ Here("pop") /\ Disable
  BY DEF PopTask, threads, below
<1>2. /\ pc = "run" /\ cur_thread \in Threads /\ Top(cur_thread) \in Nat \ {0}
      /\ At(cur_thread, Top(cur_thread)) = "pop"
  BY <1>1, LastAt
<1>3. PICK at \in Kinds : LastMoves(at, cur_prio)
  <2>1. tasks[1] \in Kinds
    BY TaskRemoved DEF PopTask, Due, NestInv
  <2> QED
    BY <1>1, <2>1, StartFrames DEF PopTask, Here
<1>4. \A t \in Threads : Top(t)' = Top(t) /\ Top(t) \in Nat
  BY <1>3, TopType DEF LineInv, LastMoves
<1>5. \A t \in Threads : \A i \in 1 .. Top(t) :
          /\ IsTick(t, i) => IsTick(t, i)'
          /\ Marked(t, i)' <=> Marked(t, i) \/ (t = cur_thread /\ i = Top(t))
          /\ t = cur_thread /\ i = Top(t) => ~Marked(t, i)
  BY <1>2, <1>3, <1>4 DEF LastMoves, SameFrame, Kinds, IsTick, IsUrgent, Urgent, Marked
<1>6. HeldBy(cur_thread)' = HeldBy(cur_thread) + 1
  <2>1. ASSUME NEW t \in Threads, t = cur_thread
        PROVE  HeldBy(t)' = HeldBy(t) + 1
    <3>1. ~Marked(t, Top(t)) /\ Top(t) \in 1 .. Top(t)
      BY <1>2, <1>5, <2>1
    <3> DEFINE n == Top(t)
    <3>2. \A i : i \in 1 .. Top(t)' /\ Marked(t, i)' <=> (i \in 1 .. Top(t) /\ Marked(t, i)) \/ i = n
      BY <1>4, <1>5, <2>1, <3>1
    <3> HIDE DEF n
    <3> QED
      BY <1>1, <3>1, <3>2, HeldMore DEF n
  <2> QED
    BY <1>1, <1>2, <2>1
<1>7. Covered' <=> Covered
  <2>1. \A i \in 1 .. Top(cur_thread) - 1 : i \in 1 .. Top(cur_thread) /\ i # Top(cur_thread)
    BY <1>2
  <2> QED
    BY <1>1, <1>2, <1>4, <1>5, <2>1 DEF Covered
<1>8. Sections'
  BY <1>1, <1>4, <1>5 DEF CountInv, Sections
<1>9. PickCounted' /\ BootCounted'
  BY <1>1, <1>2 DEF PickCounted, BootCounted
<1>10. HeldBy(cur_thread) \in Nat /\ count \in Nat /\ masked \in BOOLEAN
  BY <1>2, HeldType DEF CountInv, SectionTypes
<1>11. count' = count + 1 /\ masked' \in BOOLEAN /\ (masked' <=> masked \/ count = 0)
  BY <1>1, <1>10 DEF Disable
<1>12. SectionTypes'
  BY <1>1, <1>10, <1>11 DEF CountInv, SectionTypes
<1>13. RunCounted'
  BY <1>1, <1>2, <1>6, <1>7, <1>10, <1>11 DEF CountInv, RunCounted
<1> QED
  BY <1>8, <1>9, <1>12, <1>13 DEF CountInv

(* A task ends.                                                            *)
LEMMA EndCount ==
    ASSUME LineInv, LineInv', NestInv, CountInv, UrgentEnds \/ EndTick
    PROVE  CountInv'
<1>1. UNCHANGED <<pc, cur_thread, section, mode>> /\ Enable
  BY DEF UrgentEnds, RunUart, RunPrint, EndTick, threads, below
<1>2. PICK from \in {"uart", "print", "ticked"} :
          Here(from) /\ LastMoves("leave", Last.orin_prio)
  <2>1. \A from : Here(from) /\ Goto("leave") => LastMoves("leave", Last.orin_prio)
    BY LastAt, GotoFrames
  <2> QED
    BY <2>1 DEF UrgentEnds, RunUart, RunPrint, EndTick
<1>3. /\ pc = "run" /\ cur_thread \in Threads /\ Top(cur_thread) \in Nat \ {0}
      /\ At(cur_thread, Top(cur_thread)) = from
  BY <1>2, LastAt
<1>4. \A t \in Threads : Top(t)' = Top(t) /\ Top(t) \in Nat
  BY <1>2, TopType DEF LineInv, LastMoves
<1>5. \A t \in Threads : \A i \in 1 .. Top(t) :
          /\ t # cur_thread => (IsTick(t, i)' <=> IsTick(t, i))
          /\ Marked(t, i)' <=> Marked(t, i) /\ ~(t = cur_thread /\ i = Top(t))
          /\ t = cur_thread /\ i = Top(t) => Marked(t, i)
  BY <1>2, <1>3, <1>4 DEF LastMoves, SameFrame, IsTick, IsUrgent, Urgent, Marked
<1>6. HeldBy(cur_thread)' = HeldBy(cur_thread) - 1
  <2>1. ASSUME NEW t \in Threads, t = cur_thread
        PROVE  HeldBy(t)' = HeldBy(t) - 1
    <3> DEFINE n == Top(t)
    <3>1. Marked(t, n) /\ n \in 1 .. Top(t)
      BY <1>3, <1>5, <2>1
    <3>2. \A i : i \in 1 .. Top(t)' /\ Marked(t, i)' <=> (i \in 1 .. Top(t) /\ Marked(t, i)) /\ i # n
      BY <1>4, <1>5, <2>1, <3>1
    <3> HIDE DEF n
    <3> QED
      BY <1>1, <3>1, <3>2, HeldLess
  <2> QED
    BY <1>1, <1>3, <2>1
<1>7. Covered' => Covered
  <2>1. \A i \in 1 .. Top(cur_thread) - 1 : i \in 1 .. Top(cur_thread)
    BY <1>3
  <2> QED
    BY <1>1, <1>3, <1>4, <1>5, <2>1 DEF Covered
<1>8. Sections'
  <2>1. \A t \in Threads : t # cur_thread /\ section[t] => \E i \in 1 .. Top(t) : IsTick(t, i)
    BY DEF CountInv, Sections
  <2> QED
    BY <1>1, <1>3, <1>4, <1>5, <2>1 DEF CountInv, Sections
<1>9. PickCounted' /\ BootCounted'
  BY <1>1, <1>3 DEF PickCounted, BootCounted
<1>10. HeldBy(cur_thread) \in Nat \ {0} /\ count \in Nat /\ masked \in BOOLEAN
  BY <1>3, <1>5, HeldType DEF CountInv, SectionTypes
<1>11. count' = count - 1 /\ masked' \in BOOLEAN /\ (masked' <=> masked /\ count # 1)
  <2>1. count > 0
    BY <1>3, <1>10 DEF CountInv, RunCounted
  <2>2. count' = Down(count) /\ masked' = (masked /\ Down(count) # 0)
    BY <1>1 DEF Enable
  <2>3. masked' \in BOOLEAN /\ (masked' <=> masked /\ Down(count) # 0)
    BY <1>10, <2>2, Zenon
  <2> QED
    BY <1>10, <2>1, <2>2, <2>3 DEF Down
<1>12. SectionTypes'
  <2>1. count > 0
    BY <1>3, <1>10 DEF CountInv, RunCounted
  <2> QED
    BY <1>1, <1>10, <1>11, <2>1 DEF CountInv, SectionTypes
<1>13. RunCounted'
  BY <1>1, <1>3, <1>6, <1>7, <1>10, <1>11 DEF CountInv, RunCounted
<1> QED
  BY <1>8, <1>9, <1>12, <1>13 DEF CountInv

(* The tick calls schedule().                                              *)
LEMMA TickCount ==
    ASSUME LineInv, LineInv', NestInv, CountInv, RunTick
    PROVE  CountInv'
<1>1. UNCHANGED <<cur_thread, section, mode, count, masked>> /\ pc' \in {"run", "pick"}
  BY DEF RunTick, RQ!Tick, RQ!Schedule, below
<1>2. Here("tick") /\ LastMoves("ticked", Last.orin_prio)
  BY GotoFrames DEF RunTick, Here
<1>3. /\ pc = "run" /\ cur_thread \in Threads /\ Top(cur_thread) \in Nat \ {0}
      /\ At(cur_thread, Top(cur_thread)) = "tick"
  BY <1>2, LastAt
<1>4. \A t \in Threads : Top(t)' = Top(t) /\ Top(t) \in Nat
  BY <1>2, TopType DEF LineInv, LastMoves
<1>5. \A t \in Threads : \A i \in 1 .. Top(t) :
          (IsTick(t, i)' <=> IsTick(t, i)) /\ (Marked(t, i)' <=> Marked(t, i))
  BY <1>2, <1>3, <1>4 DEF LastMoves, SameFrame, IsTick, IsUrgent, Urgent, Marked
<1>6. \A t \in Threads : \A i \in 1 .. Top(t) : IsTick(t, i) => t = cur_thread /\ i = Top(t)
  BY <1>2, TickAlone
<1>7. \A t \in Threads : section[t] => t = cur_thread
  BY <1>6 DEF CountInv, Sections
<1>8. HeldBy(cur_thread)' = HeldBy(cur_thread)
  <2>1. \A t \in Threads : HeldBy(t)' = HeldBy(t)
    BY <1>1, <1>4, <1>5, HeldKept
  <2> QED
    BY <1>1, <1>3, <2>1
<1>9. Covered' <=> Covered
  BY <1>1, <1>3, <1>4, <1>5 DEF Covered
<1>10. IsTick(cur_thread, Top(cur_thread)) /\ Top(cur_thread) \in 1 .. Top(cur_thread)
  BY <1>3 DEF IsTick
<1>11. Sections'
  BY <1>1, <1>3, <1>4, <1>5, <1>7, <1>10 DEF CountInv, Sections
<1>12. /\ count \in Nat /\ HeldBy(cur_thread) \in Nat \ {0}
       /\ section[cur_thread] => HeldBy(cur_thread) > 1
  BY <1>3, <1>10, HeldType DEF CountInv, SectionTypes, Marked
<1>13. RunCounted'
  BY <1>1, <1>3, <1>8, <1>9 DEF CountInv, RunCounted
<1>14. PickCounted'
  <2>1. count >= 1 /\ (masked \/ count >= 2)
    BY <1>3, <1>12 DEF CountInv, RunCounted
  <2>2. section[cur_thread] => count >= 3
    BY <1>3, <1>12 DEF CountInv, RunCounted, Covered
  <2> QED
    BY <1>1, <1>7, <2>1, <2>2 DEF PickCounted
<1>15. BootCounted' /\ SectionTypes'
  BY <1>1 DEF BootCounted, CountInv, SectionTypes
<1> QED
  BY <1>11, <1>13, <1>14, <1>15 DEF CountInv

(* An exception: an interrupt comes only where they are not masked, a call *)
(* only from user code, which is in no section.                            *)
LEMMA ExceptionCount ==
    ASSUME LineInv, LineInv', NestInv, CountInv,
           FrameComes
    PROVE  CountInv'
<1>1. /\ UNCHANGED <<pc, cur_thread, section, count>> /\ pc = "run" /\ cur_thread \in Threads
  BY PlainCalls DEF FrameComes, TimerIrq, UartIrq, Exec, TestPreempt, Called, Below, CallMasks,
     threads, below, LineInv, Begun
<1>2. \A t \in Threads : Top(t) \in Nat
  BY TopType DEF LineInv
<1>3. PICK irq : \E at \in Idle : OneComes(irq, at)
  BY ComingFrames
<1>4. \A t \in Threads :
          /\ Top(t)' = IF t = cur_thread THEN Top(t) + 1 ELSE Top(t)
          /\ \A i \in 1 .. Top(t) :
                /\ IsTick(t, i)' <=> IsTick(t, i)
                /\ Marked(t, i)' <=> Marked(t, i)
          /\ \A i \in 1 .. Top(t)' : i \in 1 .. Top(t) \/ ~Marked(t, i)'
  <2>1. \A t \in Threads :
            /\ Top(t)' = IF t = cur_thread THEN Top(t) + 1 ELSE Top(t)
            /\ \A i \in 1 .. Top(t) : SameFrame(t, i)
            /\ \A i \in 1 .. Top(t)' : i \in 1 .. Top(t) \/ At(t, i)' \in Idle
    BY <1>2, <1>3 DEF OneComes
  <2> QED
    BY <2>1, IdleFramesNext DEF SameFrame, IsTick, IsUrgent, Marked
<1>5. HeldBy(cur_thread)' = HeldBy(cur_thread)
  <2>1. ASSUME NEW t \in Threads
        PROVE  HeldBy(t)' = HeldBy(t)
    <3>1. \A i : i \in 1 .. Top(t)' /\ Marked(t, i)' <=> i \in 1 .. Top(t) /\ Marked(t, i)
      BY <1>2, <1>4
    <3> QED
      BY <1>1, <3>1, HeldKept
  <2> QED
    BY <1>1, <2>1
<1>6. /\ HeldBy(cur_thread) \in Nat /\ count \in Nat /\ masked \in BOOLEAN
      /\ section[cur_thread] => HeldBy(cur_thread) > 0
      /\ (\E i \in 1 .. Top(cur_thread) : Marked(cur_thread, i)) => HeldBy(cur_thread) > 0
      /\ HeldBy(cur_thread) > 0 =>
            section[cur_thread] \/ \E i \in 1 .. Top(cur_thread) : Marked(cur_thread, i)
  BY <1>1, HeldType DEF CountInv, SectionTypes
<1>7. Covered' => HeldBy(cur_thread) > 0
  BY <1>1, <1>2, <1>4, <1>6 DEF Covered
<1>8. CASE TimerIrq \/ UartIrq
  <2>1. ~masked /\ masked' = TRUE /\ UNCHANGED mode
    BY <1>8 DEF TimerIrq, UartIrq, Except, below
  <2>2. RunCounted'
    BY <1>1, <1>5, <1>6, <1>7, <2>1 DEF CountInv, RunCounted
  <2>3. Sections' /\ SectionTypes' /\ PickCounted' /\ BootCounted'
    BY <1>1, <1>2, <1>4, <2>1 DEF CountInv, Sections, SectionTypes, PickCounted, BootCounted
  <2> QED
    BY <2>2, <2>3 DEF CountInv
<1>9. CASE PlainCall \/ Exec \/ TestPreempt
  <2>1. Top(cur_thread) = 0
    BY <1>9, PlainCalls DEF Exec, TestPreempt, Called, Below, Depth, Stack, Top
  <2>2. ~section[cur_thread]
    BY <1>1, <1>9, PlainCalls DEF Exec, TestPreempt, Called, Below, CountInv, Sections
  <2>3. HeldBy(cur_thread) = 0
    BY <1>6, <2>1, <2>2
  <2>4. RunCounted'
    BY <1>1, <1>5, <1>6, <1>7, <2>3 DEF CountInv, RunCounted
  <2>5. masked' \in BOOLEAN
    <3>1. masked' = masked \/ masked' = (count # 0)
      BY <1>9, PlainCalls DEF Exec, TestPreempt, CallMasks
    <3> QED
      BY <1>6, <3>1
  <2>6. /\ \A t \in Threads : section[t] => mode'[t] = mode[t]
        /\ mode' \in [Threads -> {"kernel", "user"}]
    <3>1. UNCHANGED mode \/ mode' = [mode EXCEPT ![cur_thread] = "user"]
      BY <1>9, PlainCalls DEF Exec, TestPreempt, below
    <3> QED
      BY <1>1, <2>2, <3>1 DEF CountInv, SectionTypes
  <2>7. Sections'
    BY <1>1, <1>2, <1>4, <2>6 DEF CountInv, Sections
  <2>8. SectionTypes' /\ PickCounted' /\ BootCounted'
    BY <1>1, <2>5, <2>6 DEF CountInv, SectionTypes, PickCounted, BootCounted
  <2> QED
    BY <2>4, <2>7, <2>8 DEF CountInv
<1> QED
  BY <1>8, <1>9 DEF FrameComes

(* eret turns interrupts on, which only a thread does that has interrupts  *)
(* on below this frame, or a count too high.                               *)
LEMMA EretCount ==
    ASSUME LineInv, LineInv', NestInv, CountInv, Eret \/ TestDone
    PROVE  CountInv'
<1>1. UNCHANGED <<pc, cur_thread, section, mode, count>> /\ masked' \in {FALSE, masked}
  BY DEF Eret, TestDone, threads, below
<1>2. /\ pc = "run" /\ cur_thread \in Threads /\ Top(cur_thread) \in Nat \ {0}
      /\ At(cur_thread, Top(cur_thread)) \in {"eret", "leave"}
  BY LastAt DEF Eret, TestDone
<1>3. ~Marked(cur_thread, Top(cur_thread))
  BY <1>2 DEF Marked, IsTick, IsUrgent, Urgent
<1>4. \A t \in Threads :
          /\ Top(t) \in Nat /\ Top(t)' \in Nat /\ Top(t)' <= Top(t)
          /\ \A i \in 1 .. Top(t)' :
                /\ IsTick(t, i)' <=> IsTick(t, i)
                /\ Marked(t, i)' <=> Marked(t, i)
          /\ \A i \in 1 .. Top(t) : Marked(t, i) => i \in 1 .. Top(t)'
  <2>1. \A t \in Threads : Top(t) \in Nat
    BY TopType DEF LineInv
  <2>2. CASE AllStay
    BY <2>1, <2>2 DEF AllStay, SameFrame, IsTick, IsUrgent, Urgent, Marked
  <2>3. CASE LastGoes
    BY <1>2, <1>3, <2>1, <2>3 DEF LastGoes, SameFrame, IsTick, IsUrgent, Urgent, Marked
  <2> QED
    BY <2>2, <2>3, EretFrames
<1>5. HeldBy(cur_thread)' = HeldBy(cur_thread)
  <2>1. ASSUME NEW t \in Threads
        PROVE  HeldBy(t)' = HeldBy(t)
    <3>1. \A i : i \in 1 .. Top(t)' /\ Marked(t, i)' <=> i \in 1 .. Top(t) /\ Marked(t, i)
      BY <1>4
    <3> QED
      BY <1>1, <3>1, HeldKept
  <2> QED
    BY <1>1, <1>2, <2>1
<1>6. /\ HeldBy(cur_thread) \in Nat /\ count \in Nat /\ masked \in BOOLEAN
      /\ HeldBy(cur_thread) > 0 =>
            section[cur_thread] \/ \E i \in 1 .. Top(cur_thread) : Marked(cur_thread, i)
  BY <1>2, HeldType DEF CountInv, SectionTypes
<1>7. HeldBy(cur_thread) > 0 => Covered
  <2>1. \A i \in 1 .. Top(cur_thread) :
            Marked(cur_thread, i) => i \in 1 .. Top(cur_thread) - 1
    BY <1>2, <1>3
  <2> QED
    BY <1>2, <1>6, <2>1 DEF Covered
<1>8. Covered' => Covered
  BY <1>1, <1>2, <1>4 DEF Covered
<1>9. RunCounted'
  BY <1>1, <1>2, <1>5, <1>6, <1>7, <1>8 DEF CountInv, RunCounted
<1>10. Sections'
  <2>1. \A t \in Threads : \A i \in 1 .. Top(t) : IsTick(t, i) => i \in 1 .. Top(t)' /\ IsTick(t, i)'
    BY <1>4 DEF Marked
  <2> QED
    BY <1>1, <2>1 DEF CountInv, Sections
<1>11. SectionTypes' /\ PickCounted' /\ BootCounted'
  BY <1>1, <1>2, <1>6 DEF CountInv, SectionTypes, PickCounted, BootCounted
<1> QED
  BY <1>9, <1>10, <1>11 DEF CountInv

(* A switch; a child counts down once.                                     *)
LEMMA SwitchCount ==
    ASSUME LineInv, LineInv', NestInv, CountInv, RP!IndInv, Pick
    PROVE  CountInv'
<1>1. UNCHANGED <<section, mode>> /\ pc = "pick"
  BY DEF Pick, PickDead, PickStarted, PickShell, PickChild, RQ!PickDead, RQ!PickLive, below
<1>2. \A t \in Threads : \A i \in 1 .. Top(t) : Marked(t, i) => i = Top(t)
  BY <1>1, Nothing DEF Marked, SomeUrgent
<1>3. rq.head \in Threads
  BY <1>1 DEF RP!IndInv, RP!TypeOK, RP!HeadAndTail, RP!Pointers, RP!Threads, Threads
<1>4. count \in Nat /\ count >= 1 /\ masked \in BOOLEAN
  BY <1>1 DEF CountInv, SectionTypes, PickCounted
<1>5. CASE PickDead
  <2>1. UNCHANGED <<cur_thread, pc, stack, count, masked>>
    BY <1>5 DEF PickDead, RQ!PickDead
  <2> QED
    BY <1>1, <2>1 DEF CountInv, SectionTypes, Sections, RunCounted, PickCounted, BootCounted,
       Top, At, IsTick
<1> DEFINE h == rq.head
<1>6. \A t, u \in Threads : section[t] /\ section[u] => t = u
  BY <1>1 DEF CountInv, Sections, NestInv, Nested
<1>7. section \in [Threads -> BOOLEAN] /\ \A t \in Threads : section[t] => count >= 3
  BY <1>1 DEF CountInv, SectionTypes, PickCounted
<1>8. CASE PickStarted \/ PickShell
  <2>1. cur_thread' = h /\ pc' = "run" /\ UNCHANGED <<stack, count, masked>>
    BY <1>8 DEF PickStarted, PickShell, RQ!PickLive
  <2>2. \A t \in Threads : /\ Top(t)' = Top(t) /\ Top(t) \in Nat
                           /\ \A i : /\ Marked(t, i)' <=> Marked(t, i)
                                     /\ IsTick(t, i)' <=> IsTick(t, i)
    BY <2>1, TopType DEF LineInv, Top, Marked, IsTick, IsUrgent, Urgent, At
  <2>3. PICK t \in Threads : t = h
    BY <1>3
  <2>4. HeldBy(cur_thread)' = HeldBy(t)
    <3>1. HeldBy(t)' = HeldBy(t)
      BY <1>1, <2>2, HeldKept
    <3>2. HeldBy(t)' = HeldBy(cur_thread)'
      BY <2>1, <2>3 DEF HeldBy, Running
    <3> QED
      BY <3>1, <3>2
  <2>5. HeldBy(t) \in Nat /\ HeldBy(t) <= 1 + (IF section[t] THEN 1 ELSE 0)
    BY <1>2, HeldInTick, HeldType
  <2>6. Covered' => section[t]
    <3>1. ASSUME NEW i \in 1 .. Top(t) - 1, Marked(t, i)
          PROVE  FALSE
      BY <1>2, <2>2, <3>1
    <3> QED
      BY <1>1, <2>1, <2>2, <2>3, <3>1 DEF Covered
  <2>7. RunCounted'
    <3>1. masked \/ count >= 2
      BY <1>1 DEF CountInv, PickCounted
    <3>2. count >= HeldBy(t) /\ (section[t] => count > HeldBy(t))
      BY <1>4, <1>7, <2>5
    <3>3. \A u \in Threads : section[u] /\ u # t => count >= HeldBy(t) + 2
      BY <1>4, <1>6, <1>7, <2>5
    <3>4. HeldBy(t) > 0 => masked \/ count > HeldBy(t)
      BY <1>4, <2>5, <3>1, <3>2
    <3> QED
      BY <1>1, <2>1, <2>3, <2>4, <2>6, <3>2, <3>3, <3>4 DEF RunCounted
  <2>8. Sections'
    BY <1>1, <2>2 DEF CountInv, Sections
  <2>9. SectionTypes' /\ PickCounted' /\ BootCounted'
    BY <1>1, <2>1 DEF CountInv, SectionTypes, PickCounted, BootCounted
  <2> QED
    BY <2>7, <2>8, <2>9 DEF CountInv
<1>9. CASE PickChild
  <2>1. cur_thread' = h /\ pc' = "run" /\ Enable
    BY <1>9 DEF PickChild, RQ!PickLive
  <2>2. \A t \in Threads :
            /\ Top(t) \in Nat /\ Top(t)' = IF t = h THEN 1 ELSE Top(t)
            /\ t = h => Top(t) = 0
            /\ t # h => \A i \in 1 .. Top(t) : SameFrame(t, i)
            /\ t = h => ~Marked(t, 1)'
    BY <1>9, ChildFrames, TopType DEF LineInv, Marked, IsTick, IsUrgent, Urgent
  <2>3. PICK t \in Threads : t = h
    BY <1>3
  <2>4. ~section[t]
    BY <1>1, <2>2, <2>3 DEF CountInv, Sections
  <2>5. HeldBy(cur_thread)' = 0
    <3>1. HeldBy(t)' = HeldBy(t)
      <4>1. \A i : i \in 1 .. Top(t)' /\ Marked(t, i)' <=> i \in 1 .. Top(t) /\ Marked(t, i)
        BY <2>2, <2>3
      <4> QED
        BY <1>1, <4>1, HeldKept
    <3>2. HeldBy(t) = 0
      <4>1. HeldBy(t) \in Nat /\ (HeldBy(t) > 0 => \E i \in 1 .. Top(t) : TRUE)
        BY <2>4, HeldType
      <4> QED
        BY <2>2, <2>3, <4>1
    <3>3. HeldBy(t)' = HeldBy(cur_thread)'
      BY <2>1, <2>3 DEF HeldBy, Running
    <3> QED
      BY <3>1, <3>2, <3>3
  <2>6. ~Covered'
    BY <1>1, <2>1, <2>2, <2>3, <2>4 DEF Covered
  <2>7. count' = count - 1 /\ count' \in Nat /\ masked' \in BOOLEAN
    <3>1. count' = Down(count) /\ masked' = (masked /\ Down(count) # 0)
      BY <2>1 DEF Enable
    <3>2. masked' \in BOOLEAN
      BY <1>4, <3>1, Zenon
    <3> QED
      BY <1>4, <3>1, <3>2 DEF Down
  <2>8. RunCounted'
    BY <1>1, <1>4, <1>7, <2>5, <2>6, <2>7 DEF RunCounted
  <2>9. Sections'
    <3>1. \A u \in Threads : \A i \in 1 .. Top(u) : IsTick(u, i) => i \in 1 .. Top(u)' /\ IsTick(u, i)'
      BY <2>2 DEF SameFrame, IsTick
    <3> QED
      BY <1>1, <3>1 DEF CountInv, Sections
  <2>10. SectionTypes' /\ PickCounted' /\ BootCounted'
    BY <1>1, <2>1, <2>7 DEF CountInv, SectionTypes, PickCounted, BootCounted
  <2> QED
    BY <2>8, <2>9, <2>10 DEF CountInv
<1> QED
  BY <1>5, <1>8, <1>9 DEF Pick

(* The exit call counts up and leaves it so.                               *)
LEMMA ExitCount ==
    ASSUME LineInv, LineInv', NestInv, CountInv, ExitCall
    PROVE  CountInv'
<1>1. /\ UNCHANGED <<cur_thread, section, mode, stack>> /\ count' = count + 1 /\ masked' = TRUE
      /\ pc' \in {"run", "pick"}
  BY DEF ExitCall, below, RQ!Exit, RQ!Schedule
<1>2. /\ pc = "run" /\ cur_thread \in Threads /\ Top(cur_thread) = 0 /\ ~section[cur_thread]
  BY DEF ExitCall, Below, LineInv, Begun, Top, Depth, Stack, CountInv, Sections
<1>3. \A t \in Threads : /\ Top(t)' = Top(t)
                         /\ \A i : Marked(t, i)' <=> Marked(t, i)
                         /\ \A i : IsTick(t, i)' <=> IsTick(t, i)
  BY <1>1 DEF Top, Marked, IsTick, IsUrgent, Urgent, At
<1>4. HeldBy(cur_thread)' = HeldBy(cur_thread) /\ HeldBy(cur_thread) = 0 /\ count \in Nat
  <2>1. \A t \in Threads : HeldBy(t)' = HeldBy(t)
    BY <1>1, <1>3, HeldKept
  <2>2. /\ HeldBy(cur_thread) \in Nat /\ count \in Nat
        /\ HeldBy(cur_thread) > 0 => \E i \in 1 .. Top(cur_thread) : TRUE
    BY <1>2, HeldType DEF CountInv, SectionTypes
  <2> QED
    BY <1>1, <1>2, <2>1, <2>2
<1>5. ~Covered'
  BY <1>1, <1>2, <1>3 DEF Covered
<1>6. \A t \in Threads : section[t] => count >= 2 /\ t # cur_thread
  BY <1>2, <1>4 DEF CountInv, RunCounted
<1>7. RunCounted' /\ PickCounted'
  BY <1>1, <1>4, <1>5, <1>6 DEF RunCounted, PickCounted
<1>8. Sections'
  BY <1>1, <1>2, <1>3 DEF CountInv, Sections
<1>9. SectionTypes' /\ BootCounted'
  BY <1>1, <1>4 DEF CountInv, SectionTypes, BootCounted
<1> QED
  BY <1>7, <1>8, <1>9 DEF CountInv

(* Sections of the kernel code below all frames.                           *)
LEMMA BelowFrames ==
    ASSUME LineInv, LineInv', CountInv, UNCHANGED <<pc, cur_thread, mode, stack>>,
           Below("kernel"),
           \A t \in Threads : t # cur_thread => section'[t] = section[t]
    PROVE  /\ pc = "run" /\ cur_thread \in Threads /\ mode[cur_thread] = "kernel"
           /\ \A t \in Threads \ {cur_thread} : HeldBy(t)' = HeldBy(t)
           /\ HeldBy(cur_thread)  = IF section[cur_thread] THEN 1 ELSE 0
           /\ HeldBy(cur_thread)' = IF section'[cur_thread] THEN 1 ELSE 0
           /\ ~Covered'
           /\ section' \in [Threads -> BOOLEAN] => Sections' /\ PickCounted' /\ BootCounted'
<1>1. /\ pc = "run" /\ cur_thread \in Threads /\ Top(cur_thread) = 0
      /\ mode[cur_thread] = "kernel"
  BY DEF Below, LineInv, Begun, Top, Depth, Stack
<1>2. \A t : /\ Top(t)' = Top(t) /\ Running(t)' = Running(t)
             /\ \A i : /\ Marked(t, i)' <=> Marked(t, i)
                       /\ IsTick(t, i)' <=> IsTick(t, i)
  BY DEF Top, Marked, IsTick, IsUrgent, Urgent, At, Running
<1>3. \A t \in Threads \ {cur_thread} : HeldBy(t)' = HeldBy(t)
  BY <1>2 DEF HeldBy
<1>4. Running(cur_thread) = {} /\ Cardinality({}) = 0
  BY <1>1, RunningSet, FS_EmptySet
<1>5. /\ HeldBy(cur_thread)  = IF section[cur_thread] THEN 1 ELSE 0
      /\ HeldBy(cur_thread)' = IF section'[cur_thread] THEN 1 ELSE 0
  BY <1>2, <1>4 DEF HeldBy
<1>6. ~Covered'
  BY <1>1, <1>2 DEF Covered
<1>7. ASSUME section' \in [Threads -> BOOLEAN]
      PROVE  Sections' /\ PickCounted' /\ BootCounted'
  BY <1>1, <1>2, <1>7 DEF CountInv, Sections, PickCounted, BootCounted
<1> QED
  BY <1>1, <1>3, <1>5, <1>6, <1>7

LEMMA EnterCount ==
    ASSUME LineInv, LineInv', CountInv, EnterSection
    PROVE  CountInv'
<1>1. /\ UNCHANGED <<pc, cur_thread, mode, stack>>
      /\ Below("kernel") /\ section[cur_thread] = FALSE
      /\ section' = [section EXCEPT ![cur_thread] = TRUE]
      /\ count' = count + 1 /\ masked' = (masked \/ count = 0)
  <2>1. ~section[cur_thread] /\ cur_thread \in Threads /\ section \in [Threads -> BOOLEAN]
    BY DEF EnterSection, LineInv, Begun, Below, CountInv, SectionTypes
  <2>2. section[cur_thread] = FALSE
    BY <2>1
  <2> QED
    BY <2>2 DEF EnterSection, Disable, threads
<1>2. section \in [Threads -> BOOLEAN] /\ count \in Nat /\ masked \in BOOLEAN
  BY DEF CountInv, SectionTypes
<1>3. \A t \in Threads : t # cur_thread => section'[t] = section[t]
  BY <1>1, <1>2
<1>4. /\ pc = "run" /\ cur_thread \in Threads
      /\ HeldBy(cur_thread)  = IF section[cur_thread] THEN 1 ELSE 0
      /\ HeldBy(cur_thread)' = IF section'[cur_thread] THEN 1 ELSE 0
      /\ ~Covered'
      /\ section' \in [Threads -> BOOLEAN] => Sections' /\ PickCounted' /\ BootCounted'
  BY <1>1, <1>3, BelowFrames
<1>5. section' \in [Threads -> BOOLEAN] /\ section'[cur_thread] = TRUE
  BY <1>1, <1>2, <1>4
<1>6. HeldBy(cur_thread) = 0 /\ HeldBy(cur_thread)' = 1
  BY <1>1, <1>4, <1>5
<1>7. masked' \in BOOLEAN /\ (masked' \/ count > 0)
  <2>1. masked' \in BOOLEAN /\ (masked' \/ count # 0)
    BY <1>1, Zenon
  <2> QED
    BY <1>2, <2>1
<1>8. \A t \in Threads : section'[t] /\ t # cur_thread => count >= 2
  BY <1>3, <1>4, <1>6 DEF CountInv, RunCounted
<1>9. RunCounted'
  BY <1>1, <1>2, <1>4, <1>6, <1>7, <1>8 DEF RunCounted
<1>10. SectionTypes'
  BY <1>1, <1>2, <1>5, <1>7 DEF CountInv, SectionTypes
<1> QED
  BY <1>4, <1>5, <1>9, <1>10 DEF CountInv

LEMMA LeaveCount ==
    ASSUME LineInv, LineInv', CountInv, LeaveSection
    PROVE  CountInv'
<1>1. /\ UNCHANGED <<pc, cur_thread, mode, stack>>
      /\ Below("kernel") /\ section[cur_thread]
      /\ section' = [section EXCEPT ![cur_thread] = FALSE]
      /\ count' = Down(count) /\ masked' = (masked /\ Down(count) # 0)
  BY DEF LeaveSection, Enable, threads
<1>2. section \in [Threads -> BOOLEAN] /\ count \in Nat /\ masked \in BOOLEAN
  BY DEF CountInv, SectionTypes
<1>3. \A t \in Threads : t # cur_thread => section'[t] = section[t]
  BY <1>1, <1>2
<1>4. /\ pc = "run" /\ cur_thread \in Threads
      /\ HeldBy(cur_thread)  = IF section[cur_thread] THEN 1 ELSE 0
      /\ HeldBy(cur_thread)' = IF section'[cur_thread] THEN 1 ELSE 0
      /\ ~Covered'
      /\ section' \in [Threads -> BOOLEAN] => Sections' /\ PickCounted' /\ BootCounted'
  BY <1>1, <1>3, BelowFrames
<1>5. section' \in [Threads -> BOOLEAN] /\ section'[cur_thread] = FALSE
  BY <1>1, <1>2, <1>4
<1>6. HeldBy(cur_thread) = 1 /\ HeldBy(cur_thread)' = 0
  BY <1>1, <1>4, <1>5
<1>7. count >= 1 /\ count' = count - 1
  BY <1>1, <1>2, <1>4, <1>6 DEF CountInv, RunCounted, Down
<1>8. masked' \in BOOLEAN
  BY <1>1, <1>2
<1>9. \A t \in Threads : section'[t] /\ t # cur_thread => count >= 3
  BY <1>2, <1>3, <1>4, <1>6 DEF CountInv, RunCounted
<1>10. RunCounted'
  BY <1>1, <1>2, <1>4, <1>6, <1>7, <1>9 DEF RunCounted
<1>11. SectionTypes'
  BY <1>1, <1>2, <1>5, <1>7, <1>8 DEF CountInv, SectionTypes
<1> QED
  BY <1>4, <1>5, <1>10, <1>11 DEF CountInv

LEMMA IdleCount ==
    ASSUME LineInv, LineInv', CountInv, InitScheduler \/ UNCHANGED vars
    PROVE  CountInv'
<1>1. CASE UNCHANGED vars
  BY <1>1 DEF vars, CountInv, SectionTypes, Sections, RunCounted, PickCounted, BootCounted,
     HeldBy, Running, Covered, Marked, IsTick, IsUrgent, Urgent, At, Top
<1>2. CASE InitScheduler
  <2>1. /\ UNCHANGED <<section, mode, stack, count, masked>>
        /\ pc = "boot" /\ pc' = "run" /\ cur_thread' = 0 /\ cur_thread' \in Threads
    BY <1>2, PreemptAssumption DEF InitScheduler, RQ!InitScheduler, below, Threads
  <2>2. \A t \in Threads : ~section[t] /\ Top(t) = 0
    BY <2>1 DEF CountInv, BootCounted
  <2>3. \A t \in Threads : ~section'[t] /\ Top(t)' = 0
    BY <2>1, <2>2 DEF Top
  <2>4. HeldBy(0)' = 0
    <3>1. Running(0)' = {} /\ Cardinality({}) = 0
      BY <2>1, <2>3, RunningSetNext, FS_EmptySet
    <3> QED
      BY <2>1, <2>3, <3>1 DEF HeldBy
  <2>5. HeldBy(cur_thread)' = HeldBy(0)'
    BY <2>1 DEF HeldBy, Running
  <2>6. ~Covered'
    BY <2>1, <2>3 DEF Covered
  <2>7. SectionTypes' /\ count' \in Nat
    BY <2>1 DEF CountInv, SectionTypes
  <2>8. Sections' /\ PickCounted' /\ BootCounted'
    BY <2>1, <2>3 DEF Sections, PickCounted, BootCounted
  <2>9. RunCounted'
    BY <2>1, <2>3, <2>4, <2>5, <2>6, <2>7 DEF RunCounted
  <2> QED
    BY <2>7, <2>8, <2>9 DEF CountInv
<1> QED
  BY <1>1, <1>2

LEMMA CountStep ==
    ASSUME LineInv, LineInv', NestInv, CountInv, RP!IndInv, [Next]_vars
    PROVE  CountInv'
<1>1. CASE InitScheduler \/ UartIrqInUser \/ Compute \/ UNCHANGED vars
  BY <1>1, IdleCount DEF UartIrqInUser, Compute
<1>2. CASE FrameComes
  BY <1>2, ExceptionCount
<1>3. CASE QuietHandle
  BY <1>3, QuietCount
<1>4. CASE PopTask
  BY <1>4, StartCount
<1>5. CASE UrgentEnds \/ EndTick
  BY <1>5, EndCount
<1>6. CASE RunTick
  BY <1>6, TickCount
<1>7. CASE Eret \/ TestDone
  BY <1>7, EretCount
<1>8. CASE Pick
  BY <1>8, SwitchCount
<1>9. CASE ExitCall
  BY <1>9, ExitCount
<1>10. CASE EnterSection \/ LeaveSection
  BY <1>10, EnterCount, LeaveCount
<1> QED
  BY <1>1, <1>2, <1>3, <1>4, <1>5, <1>6, <1>7, <1>8, <1>9, <1>10
     DEF Next, Irq, Handle, QuietHandle, UrgentEnds, FrameComes, Return, Call, PlainCall, Below0, Test

-----------------------------------------------------------------------------
(* What a tick that has not yet called schedule() has on top of it.        *)
OnTop(k) ==
    /\ Top(cur_thread) = k + 1 /\ masked
    /\ IF At(cur_thread, k + 1) \in {"puts", "pop"}
       THEN \A i \in 2 .. Len(tasks) : tasks[i] = "tick"
       ELSE ~UrgentWaits
    /\ At(cur_thread, k + 1) = "eret" => elr = k
TickAt(k) == IF k = Top(cur_thread) THEN ~UrgentWaits ELSE OnTop(k)
TickInv == pc = "run" => \A k \in 1 .. Top(cur_thread) : At(cur_thread, k) = "tick" => TickAt(k)

LEMMA AllTicks ==
    ASSUME Sorted, ~UrgentWaits, NEW i \in 1 .. Len(tasks)
    PROVE  tasks[i] = "tick"
<1>1. /\ Len(tasks) \in Nat
      /\ \A j \in 1 .. Len(tasks) :
            /\ Prio[tasks[j]] = IF Urgent(tasks[j]) THEN 1 ELSE 16
            /\ Urgent(tasks[j]) <=> tasks[j] # "tick"
  BY LenProperties, ElementOfSeq, Prios DEF Sorted
<1>2. 1 \in 1 .. Len(tasks) /\ (1 < i \/ i = 1) /\ Len(tasks) > 0
  BY <1>1
<1>3. Prio[tasks[1]] = 16
  BY <1>1, <1>2 DEF UrgentWaits
<1>4. Prio[tasks[1]] <= Prio[tasks[i]]
  BY <1>2, <1>3 DEF Sorted
<1> QED
  BY <1>1, <1>3, <1>4

LEMMA OverTick ==
    ASSUME LineInv, NestInv, CountInv, TickInv, pc = "run",
           NEW k \in 1 .. Top(cur_thread) - 1, At(cur_thread, k) = "tick"
    PROVE  /\ OnTop(k) /\ count \in Nat /\ count > 1
           /\ ~IsUrgent(cur_thread, k + 1) => cur_prio = TIMER_PRIO
<1>1. cur_thread \in Threads /\ Top(cur_thread) \in Nat
  BY TopType DEF LineInv, Begun
<1>2. k \in 1 .. Top(cur_thread) /\ k # Top(cur_thread) /\ IsTick(cur_thread, k) /\ Marked(cur_thread, k)
  BY <1>1 DEF IsTick, Marked
<1>3. OnTop(k)
  BY <1>2 DEF TickInv, TickAt
<1>4. count \in Nat /\ count > 1
  <2>1. HeldBy(cur_thread) \in Nat /\ HeldBy(cur_thread) > 0 /\ count \in Nat
    BY <1>1, <1>2, HeldType DEF CountInv, SectionTypes
  <2>2. Covered
    BY <1>1, <1>2 DEF Covered
  <2> QED
    BY <2>1, <2>2 DEF CountInv, RunCounted
<1>5. ASSUME ~IsUrgent(cur_thread, k + 1)
      PROVE  cur_prio = TIMER_PRIO
  <2>1. ASSUME NEW t \in Threads, NEW i \in 1 .. Top(t), IsUrgent(t, i)
        PROVE  FALSE
    <3>1. t = cur_thread
      BY <2>1 DEF NestInv, Away, IsUrgent, Urgent
    <3>2. k < i
      BY <1>1, <1>2, <2>1, <3>1 DEF NestInv, Nested
    <3>3. i = k + 1
      BY <1>1, <1>3, <2>1, <3>1, <3>2 DEF OnTop
    <3> QED
      BY <1>5, <2>1, <3>1, <3>3
  <2>2. SomeTick /\ ~SomeUrgent
    BY <1>1, <1>2, <2>1 DEF SomeTick, SomeUrgent
  <2> QED
    BY <2>2 DEF NestInv, Restores
<1> QED
  BY <1>3, <1>4, <1>5

(* A handler goes on, above a tick or to begin one.                        *)
MayTop(k, at) ==
    /\ Top(cur_thread) = k + 1 /\ masked'
    /\ IF at \in {"puts", "pop"}
       THEN \A i \in 2 .. Len(tasks') : tasks'[i] = "tick"
       ELSE ~UrgentWaits'
    /\ at = "eret" => elr' = k

LEMMA MovesTick ==
    ASSUME LineInv, pc = "run", cur_thread \in Threads, UNCHANGED <<pc, cur_thread>>,
           NEW at, NEW prio, LastMoves(at, prio),
           at = "tick" => ~UrgentWaits',
           \A k \in 1 .. Top(cur_thread) - 1 : At(cur_thread, k) = "tick" => MayTop(k, at)
    PROVE  TickInv'
<1>1. Top(cur_thread) \in Nat
  BY TopType DEF LineInv
<1>2. /\ Top(cur_thread)' = Top(cur_thread)
      /\ \A i \in 1 .. Top(cur_thread) :
            At(cur_thread, i)' = IF i = Top(cur_thread) THEN at ELSE At(cur_thread, i)
  <2>1. ASSUME NEW t \in Threads, t = cur_thread
        PROVE  /\ Top(t)' = Top(t)
               /\ \A i \in 1 .. Top(t) : At(t, i)' = IF i = Top(t) THEN at ELSE At(t, i)
    BY <2>1 DEF LastMoves, SameFrame
  <2>2. Top(cur_thread)' = Len(stack'[cur_thread]) /\ \A i : At(cur_thread, i)' = stack'[cur_thread][i].at
    BY DEF Top, At
  <2>3. \A t : Top(t)' = Len(stack'[t]) /\ \A i : At(t, i)' = stack'[t][i].at
    BY DEF Top, At
  <2> QED
    BY <2>1, <2>2, <2>3
<1>3. ASSUME NEW k \in 1 .. Top(cur_thread), At(cur_thread, k)' = "tick"
      PROVE  TickAt(k)'
  <2>1. CASE k = Top(cur_thread)
    BY <1>2, <1>3, <2>1 DEF TickAt
  <2>2. CASE k # Top(cur_thread)
    <3>1. k \in 1 .. Top(cur_thread) - 1 /\ At(cur_thread, k) = "tick"
      BY <1>1, <1>2, <1>3, <2>2
    <3>2. MayTop(k, at) /\ k + 1 \in 1 .. Top(cur_thread)
      BY <1>1, <3>1
    <3>3. At(cur_thread, k + 1)' = at
      BY <1>2, <3>2 DEF MayTop
    <3> QED
      BY <1>2, <2>2, <3>2, <3>3 DEF TickAt, OnTop, MayTop
  <2> QED
    BY <2>1, <2>2
<1> QED
  BY <1>2, <1>3 DEF TickInv

LEMMA QuietTick ==
    ASSUME LineInv, NestInv, CountInv, TickInv, QuietHandle
    PROVE  TickInv'
<1>1. UNCHANGED <<pc, cur_thread>>
  BY DEF QuietHandle, AddTask, AddTaskFails, PopNothing, Leave, LoadAll, ReadDone, PutsMessage,
         threads
<1>2. PICK from \in Idle \ {"eret"}, at \in Idle \ {"read", "add"} :
          /\ Here(from) /\ Goto(at)
          /\ from = "add" => at \in {"puts", "pop"}
          /\ from = "puts" => at = "pop"
          /\ from = "pop" => at = "leave"
          /\ from = "leave" => at = "return"
          /\ from = "return" => at = "eret"
          /\ from = "read" => at = "return"
  BY DEF QuietHandle, AddTask, AddTaskFails, AfterAdd, PopNothing, Leave, LoadAll, ReadDone,
         PutsMessage, Idle
<1>3. /\ pc = "run" /\ cur_thread \in Threads /\ Depth = Top(cur_thread) /\ Depth > 0
      /\ Top(cur_thread) \in Nat \ {0} /\ At(cur_thread, Top(cur_thread)) = from
  BY <1>2, LastAt
<1>4. LastMoves(at, Last.orin_prio)
  BY <1>2, <1>3, GotoFrames
<1>5. /\ from = "add" => AddTask \/ AddTaskFails
      /\ from = "pop" => PopNothing
      /\ from = "return" => LoadAll
  BY <1>2 DEF QuietHandle, AddTask, AddTaskFails, PopNothing, Leave, LoadAll, ReadDone,
     PutsMessage, Here, Idle
<1>6. ASSUME NEW k \in 1 .. Top(cur_thread) - 1, At(cur_thread, k) = "tick"
      PROVE  MayTop(k, at)
  <2>1. /\ OnTop(k) /\ count \in Nat /\ count > 1
        /\ ~IsUrgent(cur_thread, k + 1) => cur_prio = TIMER_PRIO
    BY <1>3, <1>6, OverTick
  <2>2. Top(cur_thread) = k + 1 /\ At(cur_thread, k + 1) = from /\ masked
    BY <1>3, <2>1 DEF OnTop
  <2>3. cur_prio = TIMER_PRIO
    <3>1. ~IsUrgent(cur_thread, k + 1)
      BY <2>2 DEF IsUrgent, Urgent, Idle
    <3> QED
      BY <2>1, <3>1
  <2>4. masked'
    <3>1. \/ DisableEnable \/ Disable \/ UNCHANGED masked
      BY DEF QuietHandle, AddTask, AddTaskFails, PopNothing, Leave, LoadAll, ReadDone, PutsMessage
    <3>2. count # 0 /\ masked
      BY <2>1, <2>2
    <3> QED
      BY <3>1, <3>2, Zenon DEF Disable, DisableEnable
  <2>5. CASE from = "add"
    <3>1. ~UrgentWaits
      BY <2>1, <2>2, <2>5 DEF OnTop
    <3>2. CASE AddTask
      <4>1. tasks' = InsertTask(Added) /\ Added \in Kinds
        <5>1. Last.irq \in {"timer", "uart", "test"}
          BY <3>2, LastFrame DEF AddTask, Here, IsFrame, Suits
        <5> QED
          BY <3>2, <5>1 DEF AddTask, Added, Kinds
      <4>2. \A i \in 2 .. Len(tasks') : tasks'[i] = "tick"
        BY <3>1, <4>1, TaskInserted DEF NestInv
      <4> QED
        BY <1>2, <2>2, <2>4, <2>5, <4>2 DEF MayTop
    <3>3. CASE AddTaskFails
      <4>1. UNCHANGED tasks
        BY <3>3 DEF AddTaskFails, queue
      <4>2. \A i \in 2 .. Len(tasks) : i \in 1 .. Len(tasks)
        OBVIOUS
      <4>3. \A i \in 2 .. Len(tasks) : tasks[i] = "tick"
        BY <3>1, <4>2, AllTicks DEF NestInv
      <4> QED
        BY <1>2, <2>2, <2>4, <2>5, <4>1, <4>3 DEF MayTop
    <3> QED
      BY <1>5, <2>5, <3>2, <3>3
  <2>6. CASE from # "add"
    <3>1. UNCHANGED tasks
      BY <1>3, <2>6, LastAt DEF QuietHandle, AddTask, AddTaskFails, PopNothing, Leave, LoadAll,
         ReadDone, PutsMessage, queue
    <3>2. CASE from = "puts"
      BY <1>2, <2>1, <2>2, <2>4, <3>1, <3>2 DEF MayTop, OnTop
    <3>3. CASE from = "pop"
      <4>1. ~UrgentWaits
        <5>1. Len(tasks) > 0 => tasks # <<>> /\ tasks[1] \in Kinds
          <6>1. Len(tasks) \in Nat /\ Len(<<>>) = 0
            BY LenProperties DEF NestInv, Sorted
          <6> QED
            BY <6>1, ElementOfSeq DEF NestInv, Sorted
        <5>2. ~Due
          BY <1>5, <3>3 DEF PopNothing
        <5> QED
          BY <2>3, <5>1, <5>2, Prios DEF UrgentWaits, Due, TIMER_PRIO
      <4> QED
        BY <1>2, <2>2, <2>4, <3>1, <3>3, <4>1 DEF MayTop, UrgentWaits
    <3>4. CASE from \in {"leave", "return", "read"}
      <4>1. ~UrgentWaits
        BY <2>1, <2>2, <3>4 DEF OnTop
      <4>2. at = "eret" => elr' = k
        <5>1. at = "eret" => LoadAll
          BY <1>2, <1>5, <3>4
        <5> QED
          BY <1>3, <2>2, <5>1 DEF LoadAll
      <4> QED
        BY <1>2, <2>2, <2>4, <3>1, <3>4, <4>1, <4>2 DEF MayTop, UrgentWaits
    <3> QED
      BY <2>6, <3>2, <3>3, <3>4 DEF Idle
  <2> QED
    BY <2>5, <2>6
<1>7. at # "tick"
  BY DEF Idle
<1> QED
  BY <1>1, <1>3, <1>4, <1>6, <1>7, MovesTick

LEMMA StartTick ==
    ASSUME LineInv, NestInv, CountInv, TickInv, PopTask
    PROVE  TickInv'
<1>1. UNCHANGED <<pc, cur_thread>> /\ Here("pop") /\ StartTask /\ Disable
  BY DEF PopTask, threads
<1>2. /\ pc = "run" /\ cur_thread \in Threads /\ Depth > 0
      /\ Top(cur_thread) \in Nat \ {0} /\ At(cur_thread, Top(cur_thread)) = "pop"
  BY <1>1, LastAt
<1>3. /\ tasks[1] \in Kinds
      /\ tasks[1] = "tick" => ~UrgentWaits'
      /\ (\A i \in 2 .. Len(tasks) : tasks[i] = "tick") => ~UrgentWaits'
  BY TaskRemoved DEF PopTask, Due, NestInv
<1>4. LastMoves(tasks[1], cur_prio)
  BY <1>1, <1>2, <1>3, StartFrames
<1>5. ASSUME NEW k \in 1 .. Top(cur_thread) - 1, At(cur_thread, k) = "tick"
      PROVE  MayTop(k, tasks[1])
  <2>1. OnTop(k) /\ Top(cur_thread) = k + 1
    BY <1>2, <1>5, OverTick DEF OnTop
  <2>2. masked'
    BY <1>1, <2>1 DEF Disable, OnTop
  <2>3. ~UrgentWaits'
    BY <1>2, <1>3, <2>1 DEF OnTop
  <2> QED
    BY <1>3, <2>1, <2>2, <2>3 DEF MayTop, Kinds
<1> DEFINE at == tasks[1]
<1>6. LastMoves(at, cur_prio) /\ (at = "tick" => ~UrgentWaits')
  BY <1>3, <1>4
<1>7. \A k \in 1 .. Top(cur_thread) - 1 : At(cur_thread, k) = "tick" => MayTop(k, at)
  BY <1>5
<1> HIDE DEF at
<1> QED
  BY <1>1, <1>2, <1>6, <1>7, MovesTick

LEMMA UrgentTick ==
    ASSUME LineInv, NestInv, CountInv, TickInv, UrgentEnds
    PROVE  TickInv'
<1>1. UNCHANGED <<pc, cur_thread, tasks>> /\ Enable
  BY DEF UrgentEnds, RunUart, RunPrint, threads
<1>2. PICK from \in {"uart", "print"} : Here(from) /\ Goto("leave")
  BY DEF UrgentEnds, RunUart, RunPrint
<1>3. /\ pc = "run" /\ cur_thread \in Threads /\ Depth > 0
      /\ Top(cur_thread) \in Nat \ {0} /\ At(cur_thread, Top(cur_thread)) = from
  BY <1>2, LastAt
<1>4. LastMoves("leave", Last.orin_prio)
  BY <1>2, <1>3, GotoFrames
<1>5. ASSUME NEW k \in 1 .. Top(cur_thread) - 1, At(cur_thread, k) = "tick"
      PROVE  MayTop(k, "leave")
  <2>1. OnTop(k) /\ count \in Nat /\ count > 1 /\ Top(cur_thread) = k + 1
    BY <1>3, <1>5, OverTick DEF OnTop
  <2>2. masked'
    <3>1. Down(count) # 0
      BY <2>1 DEF Down
    <3> QED
      BY <1>1, <2>1, <3>1 DEF Enable, OnTop
  <2>3. ~UrgentWaits'
    BY <1>1, <1>3, <2>1 DEF OnTop, UrgentWaits
  <2> QED
    BY <2>1, <2>2, <2>3 DEF MayTop
<1> QED
  BY <1>1, <1>3, <1>4, <1>5, MovesTick

(* The tick itself: no other frame is at one.                              *)
LEMMA TickTick ==
    ASSUME LineInv, NestInv, RunTick \/ EndTick
    PROVE  TickInv'
<1>1. PICK from \in {"tick", "ticked"}, at \in {"ticked", "leave"} : Here(from) /\ Goto(at)
  BY DEF RunTick, EndTick
<1>2. UNCHANGED cur_thread
  BY DEF RunTick, EndTick, threads, RQ!Tick, RQ!Schedule
<1>3. /\ cur_thread \in Threads /\ Top(cur_thread) \in Nat \ {0}
      /\ LastMoves(at, Last.orin_prio)
  BY <1>1, LastAt, GotoFrames
<1>4. \A i \in 1 .. Top(cur_thread) : At(cur_thread, i) = "tick" => i = Top(cur_thread)
  BY <1>1, <1>3, TickAlone DEF IsTick
<1>5. \A t \in Threads : t = cur_thread =>
          /\ Top(t)' = Top(t)
          /\ \A i \in 1 .. Top(t) : At(t, i)' # "tick"
  BY <1>3, <1>4 DEF LastMoves, SameFrame
<1>6. \A t : Top(t)' = Len(stack'[t]) /\ \A i : At(t, i)' = stack'[t][i].at
  BY DEF Top, At
<1> QED
  BY <1>2, <1>3, <1>5, <1>6 DEF TickInv, Top, At

(* An interrupt: it comes only where they are not masked, so there is      *)
(* nothing on top of the tick.                                             *)
LEMMA ExceptionTick ==
    ASSUME LineInv, NestInv, CountInv, TickInv, FrameComes
    PROVE  TickInv'
<1>1. UNCHANGED <<pc, cur_thread, tasks>> /\ pc = "run" /\ cur_thread \in Threads
  BY PlainCalls DEF FrameComes, TimerIrq, UartIrq, Exec, TestPreempt, Called, Below,
     threads, queue, LineInv, Begun
<1>2. PICK n \in Nat : n = Top(cur_thread)
  BY <1>1, TopType DEF LineInv
<1>3. PICK irq : \E at \in Idle : OneComes(irq, at)
  BY ComingFrames
<1>4. /\ \A t : Top(t)' = Len(stack'[t]) /\ \A i : At(t, i)' = stack'[t][i].at
      /\ Top(cur_thread)' = Len(stack'[cur_thread])
      /\ \A i : At(cur_thread, i)' = stack'[cur_thread][i].at
  BY <1>1 DEF Top, At
<1>5. /\ Top(cur_thread)' = n + 1
      /\ \A i \in 1 .. n : At(cur_thread, i)' = At(cur_thread, i)
      /\ At(cur_thread, n + 1)' \in Idle
  <2>1. \A t \in Threads : t = cur_thread =>
            /\ Top(t)' = Top(t) + 1
            /\ \A i \in 1 .. Top(t) : At(t, i)' = At(t, i)
            /\ \A i \in 1 .. Top(t) + 1 : i = Top(t) + 1 => At(t, i)' \in Idle
    BY <1>3 DEF OneComes, SameFrame
  <2>2. n + 1 \in 1 .. n + 1
    BY <1>2
  <2> QED
    BY <1>1, <1>2, <1>4, <2>1, <2>2
<1>6. CASE PlainCall \/ Exec \/ TestPreempt
  <2>1. n = 0
    BY <1>2, <1>6, PlainCalls DEF Exec, TestPreempt, Called, Below, Depth, Stack, Top
  <2>2. ASSUME NEW k \in 1 .. n + 1
        PROVE  At(cur_thread, k)' # "tick"
    <3>1. k = n + 1
      BY <2>1
    <3>2. At(cur_thread, k)' \in Idle
      BY <1>4, <1>5, <3>1
    <3> QED
      BY <3>2 DEF Idle
  <2> QED
    BY <1>5, <2>2 DEF TickInv
<1>7. CASE TimerIrq \/ UartIrq
  <2>1. ~masked /\ masked' = TRUE
    BY <1>7 DEF TimerIrq, UartIrq, Except
  <2>2. At(cur_thread, n + 1)' = "add"
    <3>1. \E other \in {"timer", "uart"} : Push(other, "add")
      BY <1>7 DEF TimerIrq, UartIrq, Except
    <3>2. \E other : OneComes(other, "add")
      BY <1>1, <3>1, PushFrames DEF Suits
    <3>3. \A t \in Threads : t = cur_thread =>
              \A i \in 1 .. Top(t) + 1 : i = Top(t) + 1 => At(t, i)' = "add"
      BY <3>2 DEF OneComes
    <3>4. n + 1 \in 1 .. n + 1
      BY <1>2
    <3> QED
      BY <1>1, <1>2, <1>4, <3>3, <3>4
  <2>3. ASSUME NEW k \in 1 .. n + 1, At(cur_thread, k)' = "tick"
        PROVE  k = n /\ ~UrgentWaits
    <3>1. k \in 1 .. n /\ At(cur_thread, k) = "tick"
      BY <1>2, <1>5, <2>2, <2>3
    <3>2. k = n
      BY <1>1, <1>2, <2>1, <3>1 DEF TickInv, TickAt, OnTop
    <3> QED
      BY <1>1, <1>2, <3>1, <3>2 DEF TickInv, TickAt
  <2>4. ASSUME NEW k \in 1 .. n + 1, At(cur_thread, k)' = "tick"
        PROVE  TickAt(k)'
    BY <1>1, <1>2, <1>5, <2>1, <2>2, <2>3, <2>4 DEF TickAt, OnTop, UrgentWaits
  <2> QED
    BY <1>5, <2>4 DEF TickInv
<1> QED
  BY <1>6, <1>7 DEF FrameComes

(* Its return takes it off, for nothing came between LoadAll and Eret.     *)
LEMMA EretTick ==
    ASSUME LineInv, NestInv, CountInv, TickInv, Eret \/ TestDone
    PROVE  TickInv'
<1>1. UNCHANGED <<pc, cur_thread, tasks, elr>>
  BY DEF Eret, TestDone, threads, queue
<1>2. /\ pc = "run" /\ cur_thread \in Threads /\ Top(cur_thread) \in Nat \ {0}
      /\ Depth = Top(cur_thread)
      /\ At(cur_thread, Top(cur_thread)) \in {"eret", "leave"}
  BY LastAt DEF Eret, TestDone
<1>3. \A t : Top(t)' = Len(stack'[t]) /\ \A i : At(t, i)' = stack'[t][i].at
  BY DEF Top, At
<1>4. ASSUME NEW k \in 1 .. Top(cur_thread), At(cur_thread, k) = "tick"
      PROVE  LastGoes /\ k = Top(cur_thread) - 1 /\ ~UrgentWaits
  <2>1. k \in 1 .. Top(cur_thread) - 1
    BY <1>2, <1>4
  <2>2. OnTop(k) /\ Top(cur_thread) = k + 1
    BY <1>2, <1>4, <2>1, OverTick DEF OnTop
  <2>3. ~UrgentWaits
    BY <1>2, <2>2 DEF OnTop
  <2>4. LastGoes
    <3>1. CASE Eret
      <4>1. At(cur_thread, k + 1) = "eret"
        BY <1>2, <2>2, <3>1, LastAt DEF Eret
      <4>2. elr # Depth
        BY <1>2, <2>2, <4>1 DEF OnTop
      <4> QED
        BY <4>2, EretFrames
    <3>2. CASE TestDone
      BY <3>2, GoneFrames DEF TestDone, Here, Stack
    <3> QED
      BY <3>1, <3>2
  <2> QED
    BY <1>2, <2>2, <2>3, <2>4
<1>5. CASE AllStay /\ ~LastGoes
  <2>1. \A k \in 1 .. Top(cur_thread) : At(cur_thread, k) # "tick"
    BY <1>4, <1>5
  <2>2. \A t \in Threads : Top(t)' = Top(t) /\ \A i \in 1 .. Top(t) : At(t, i)' = At(t, i)
    BY <1>5 DEF AllStay, SameFrame
  <2> QED
    BY <1>1, <1>2, <1>3, <2>1, <2>2 DEF TickInv
<1>6. CASE LastGoes
  <2>1. \A t \in Threads : t = cur_thread =>
            /\ Top(t)' = Top(t) - 1
            /\ \A i \in 1 .. Top(t) - 1 : At(t, i)' = At(t, i)
    BY <1>6 DEF LastGoes, SameFrame
  <2>2. /\ Top(cur_thread)' = Top(cur_thread) - 1
        /\ \A i \in 1 .. Top(cur_thread) - 1 : At(cur_thread, i)' = At(cur_thread, i)
    BY <1>1, <1>2, <1>3, <2>1
  <2>3. ASSUME NEW k \in 1 .. Top(cur_thread)', At(cur_thread, k)' = "tick"
        PROVE  TickAt(k)'
    <3>1. k \in 1 .. Top(cur_thread) /\ At(cur_thread, k) = "tick"
      BY <1>2, <2>2, <2>3
    <3> QED
      BY <1>1, <1>4, <2>2, <3>1 DEF TickAt, UrgentWaits
  <2> QED
    BY <2>3 DEF TickInv
<1> QED
  BY <1>5, <1>6, EretFrames

(* A thread that is switched to is in no tick that has yet to call         *)
(* schedule().                                                             *)
LEMMA SwitchTick ==
    ASSUME LineInv, LineInv', NestInv, NestInv', RP!IndInv, Pick
    PROVE  TickInv'
<1>1. pc = "pick"
  BY DEF Pick, PickDead, PickStarted, PickShell, PickChild, RQ!PickDead, RQ!PickLive
<1>2. CASE PickDead
  BY <1>1, <1>2 DEF PickDead, RQ!PickDead, TickInv
<1>3. \A t \in Threads : \A i \in 1 .. Top(t) : At(t, i) # "tick"
  BY <1>1, Nothing DEF IsTick
<1>4. \A t : Top(t)' = Len(stack'[t]) /\ \A i : At(t, i)' = stack'[t][i].at
  BY DEF Top, At
<1>5. CASE PickStarted \/ PickShell \/ PickChild
  <2>1. cur_thread' = rq.head /\ rq.head \in Threads
    BY <1>1, <1>5 DEF PickStarted, PickShell, PickChild, RQ!PickLive, RP!IndInv, RP!TypeOK,
       RP!HeadAndTail, RP!Pointers, RP!Threads, Threads
  <2>2. \A t \in Threads : \A i \in 1 .. Top(t)' : At(t, i)' # "tick"
    <3>1. CASE UNCHANGED stack
      BY <1>3, <3>1 DEF Top, At
    <3>2. CASE PickChild
      <4>1. \A t \in Threads :
                /\ Top(t)' = IF t = rq.head THEN 1 ELSE Top(t)
                /\ t # rq.head => \A i \in 1 .. Top(t) : SameFrame(t, i)
                /\ t = rq.head => At(t, 1)' = "return"
        BY <3>2, ChildFrames
      <4> QED
        BY <1>3, <4>1 DEF SameFrame
    <3> QED
      BY <1>5, <3>1, <3>2 DEF PickStarted, PickShell
  <2> QED
    BY <1>4, <2>1, <2>2 DEF TickInv
<1> QED
  BY <1>2, <1>5 DEF Pick

(* Steps that touch no frame.                                              *)
LEMMA QuietStepTick ==
    ASSUME LineInv, CountInv, TickInv,
           \/ InitScheduler \/ UartIrqInUser \/ ExitCall \/ Compute
           \/ EnterSection \/ LeaveSection \/ UNCHANGED vars
    PROVE  TickInv'
<1>1. CASE UartIrqInUser \/ Compute \/ UNCHANGED vars
  BY <1>1 DEF UartIrqInUser, Compute, vars, TickInv, TickAt, OnTop, UrgentWaits, Top, At
<1>2. CASE ExitCall \/ EnterSection \/ LeaveSection
  <2>1. UNCHANGED <<cur_thread, stack>> /\ Top(cur_thread) = 0
    BY <1>2 DEF ExitCall, EnterSection, LeaveSection, Below, RQ!Exit, RQ!Schedule, threads,
       Depth, Stack, Top
  <2> QED
    BY <2>1 DEF TickInv, Top
<1>3. CASE InitScheduler
  <2>1. UNCHANGED stack /\ cur_thread' = 0 /\ 0 \in Threads /\ pc = "boot"
    BY <1>3, PreemptAssumption DEF InitScheduler, RQ!InitScheduler, Threads
  <2>2. Top(0) = 0
    BY <2>1 DEF CountInv, BootCounted
  <2> QED
    BY <2>1, <2>2 DEF TickInv, Top
<1> QED
  BY <1>1, <1>2, <1>3

LEMMA TickStep ==
    ASSUME LineInv, LineInv', NestInv, NestInv', CountInv, TickInv, RP!IndInv, [Next]_vars
    PROVE  TickInv'
BY QuietTick, StartTick, UrgentTick, TickTick, ExceptionTick, EretTick, SwitchTick, QuietStepTick
   DEF Next, Irq, Handle, QuietHandle, UrgentEnds, FrameComes, Return, Call, PlainCall, Below0, Test

-----------------------------------------------------------------------------
LEMMA NestInit == Init => NestInv /\ CountInv /\ TickInv
<1> SUFFICES ASSUME Init PROVE NestInv /\ CountInv /\ TickInv
  OBVIOUS
<1>1. /\ \A t \in Threads : Top(t) = 0
      /\ tasks = <<>> /\ cur_prio = LOW_PRIO
  BY DEF Init, Top
<1>2. ~SomeTick /\ ~SomeUrgent
  BY <1>1 DEF SomeTick, SomeUrgent
<1>3. Sorted
  BY <1>1 DEF Sorted
<1>4. NestInv
  BY <1>1, <1>2, <1>3 DEF NestInv, Away, Nested, Restores
<1>5. pc = "boot" /\ \A t \in Threads : ~section[t]
  BY DEF Init, RQ!Init
<1>6. SectionTypes
  BY DEF Init, SectionTypes
<1>7. CountInv /\ TickInv
  BY <1>1, <1>5, <1>6 DEF CountInv, Sections, RunCounted, PickCounted, BootCounted, TickInv
<1> QED
  BY <1>4, <1>7

LEMMA NestAlways == Spec => [](LineInv /\ NestInv /\ CountInv /\ TickInv)
<1>1. Init => LineInv
  BY LineInit
<1>2. LineInv /\ NestInv /\ RP!IndInv /\ [Next]_vars => LineInv'
  BY LineStep DEF NestInv, Sorted
<1>3. LineInv /\ LineInv' /\ NestInv /\ CountInv /\ TickInv /\ RP!IndInv /\ [Next]_vars
         => NestInv' /\ CountInv' /\ TickInv'
  BY NestStep, CountStep, TickStep
<1>4. RP!Spec => []RP!IndInv
  BY RP!Invariance, PreemptAssumption DEF RP!Threads
<1> QED
  BY <1>1, <1>2, <1>3, <1>4, NestInit, ImplementsRunQueue, PTL DEF Spec

(* An interrupt line is off only while some thread is still to turn it on: *)
(* through failed allocations, early returns, switches in the middle of a  *)
(* handler and returns that repeat themselves, for any number of threads   *)
(* and any depth of nesting.                                               *)
THEOREM LinesReturn == Spec => []LinesComeBack
<1>1. LineInv => LinesComeBack
  BY DEF LineInv
<1> QED
  BY <1>1, NestAlways, PTL

LEMMA TickThreads ==
    ASSUME LineInv
    PROVE  /\ RunningAt({"tick", "ticked"}) =
                 {t \in Threads : \E i \in 1 .. Top(t) : IsTick(t, i)}
           /\ RunningAt({"uart", "print"}) =
                 {t \in Threads : \E i \in 1 .. Top(t) : IsUrgent(t, i)}
BY TopType DEF LineInv, RunningAt, IsTick, IsUrgent, Urgent, At

(* Ticks do not nest: while a thread is switched out in its tick no other  *)
(* thread's tick runs, so a tick never enters schedule() again before the  *)
(* one that left through it has come back.                                 *)
THEOREM TicksDontNest == Spec => []OneTick
<1>1. LineInv /\ NestInv => OneTick
  <2> SUFFICES ASSUME LineInv, NestInv
               PROVE  OneTick
    OBVIOUS
  <2> DEFINE Ticks == RunningAt({"tick", "ticked"})
  <2>1. \A t, u \in Ticks : t = u
    BY TickThreads DEF NestInv, Nested
  <2>2. CASE Ticks = {}
    BY <2>2, FS_EmptySet DEF OneTick
  <2>3. CASE Ticks # {}
    <3>1. PICK t : t \in Ticks
      BY <2>3
    <3>2. Ticks = {t}
      BY <2>1, <3>1
    <3>3. Cardinality({t}) = 1
      BY FS_Singleton
    <3> QED
      BY <3>2, <3>3 DEF OneTick
  <2> QED
    BY <2>2, <2>3
<1> QED
  BY <1>1, NestAlways, PTL

(* cur_prio is always the priority of the most urgent task that runs or    *)
(* was switched out in any thread, though each thread saves and restores   *)
(* the one variable in a frame of its own.                                 *)
THEOREM PriorityExact == Spec => []PrioExact
<1>1. LineInv /\ NestInv => PrioExact
  <2> SUFFICES ASSUME LineInv, NestInv
               PROVE  PrioExact
    OBVIOUS
  <2> DEFINE uarts == IF RunningAt({"uart", "print"}) # {} THEN {UART_PRIO} ELSE {}
             ticks == IF RunningAt({"tick", "ticked"}) # {} THEN {TIMER_PRIO} ELSE {}
             prios == uarts \cup ticks \cup {LOW_PRIO}
  <2>1. /\ RunningAt({"uart", "print"}) # {} <=> SomeUrgent
        /\ RunningAt({"tick", "ticked"}) # {} <=> SomeTick
    BY TickThreads DEF SomeUrgent, SomeTick
  <2>2. cur_prio = IF SomeUrgent THEN UART_PRIO ELSE IF SomeTick THEN TIMER_PRIO ELSE LOW_PRIO
    BY DEF NestInv, Restores
  <2>3. cur_prio \in prios /\ \A p \in prios : cur_prio <= p
    BY <2>1, <2>2 DEF UART_PRIO, TIMER_PRIO, LOW_PRIO
  <2>4. \A p \in prios : (\A q \in prios : p <= q) => p = cur_prio
    <3>1. \A p \in prios : p \in Nat
      BY DEF UART_PRIO, TIMER_PRIO, LOW_PRIO
    <3> QED
      BY <2>3, <3>1
  <2>5. Min(prios) = cur_prio
    BY <2>3, <2>4 DEF Min
  <2> QED
    BY <2>5 DEF PrioExact
<1> QED
  BY <1>1, NestAlways, PTL

(* A tick never begins, to switch to another thread for long, while a more *)
(* urgent task waits or is half done: whoever pops a tick has popped all   *)
(* that is before it, and an interrupt that comes before schedule() is     *)
(* called keeps others out and takes the urgent task that it adds.         *)
THEOREM UrgentGoesFirst == Spec => []UrgentFirst
<1>1. LineInv /\ NestInv /\ TickInv => UrgentFirst
  <2> SUFFICES ASSUME LineInv, NestInv, TickInv, Here("tick")
               PROVE  /\ \A i \in DOMAIN tasks : Prio[tasks[i]] >= TIMER_PRIO
                      /\ RunningAt({"uart", "print"}) = {}
    BY DEF UrgentFirst
  <2>1. ~SomeUrgent
    BY TickAlone
  <2>2. RunningAt({"uart", "print"}) = {}
    BY <2>1, TickThreads DEF SomeUrgent
  <2>3. ~UrgentWaits
    <3>1. /\ pc = "run" /\ Top(cur_thread) \in 1 .. Top(cur_thread)
          /\ At(cur_thread, Top(cur_thread)) = "tick"
      BY LastAt
    <3> QED
      BY <3>1 DEF TickInv, TickAt
  <2>4. DOMAIN tasks = 1 .. Len(tasks)
    BY LenProperties DEF NestInv, Sorted
  <2>5. \A i \in 1 .. Len(tasks) : Prio[tasks[i]] = TIMER_PRIO
    <3>1. Prio["tick"] = TIMER_PRIO
      BY DEF Prio
    <3> QED
      BY <2>3, <3>1, AllTicks DEF NestInv
  <2> QED
    BY <2>2, <2>4, <2>5 DEF TIMER_PRIO
<1> QED
  BY <1>1, NestAlways, PTL

(* The nesting count is never below what the running thread will count     *)
(* down: enable_interrupt turns interrupts on inside no section and no     *)
(* task, whatever other threads did in between, and although a child       *)
(* counts down once for nothing when it begins.                            *)
THEOREM CountAlwaysCovers == Spec => []CountCovers
<1>1. CountInv => CountCovers
  BY DEF CountInv, RunCounted, CountCovers, Held, HeldBy
<1> QED
  BY <1>1, NestAlways, PTL

(* In a section or a task interrupts are on only with a count that an      *)
(* earlier exception or exit raised and left.                              *)
THEOREM SurplusNeeded == Spec => []UnmaskedNeedsSurplus
<1>1. CountInv => UnmaskedNeedsSurplus
  BY DEF CountInv, RunCounted, UnmaskedNeedsSurplus, Held, HeldBy
<1> QED
  BY <1>1, NestAlways, PTL
=============================================================================
