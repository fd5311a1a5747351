------------------------------ MODULE RunQueue -------------------------------
(***************************************************************************)
(* The run queue of kernel/sched.c and the thread states it works on:      *)
(* init_scheduler, push_rq, pop_rq, schedule, and the callers that change  *)
(* a thread's state (thread_create, thread_exit, the exit, kill and fork   *)
(* system calls).  The queue is the linked list the code keeps, so a       *)
(* thread that is pushed while it is on the list damages the list here as  *)
(* it does there.                                                          *)
(*                                                                         *)
(* Every caller masks interrupts first (Preempt shows where that fails),   *)
(* so an operation is one action, except that each turn of schedule()'s    *)
(* search for a thread that is not dead is an action of its own: the       *)
(* search need not end.  Tick may happen whenever a thread runs, which is  *)
(* more often than the interrupt state of the kernel lets it.              *)
(*                                                                         *)
(* Definitions named X_Something, before the X they vary, are mutations of *)
(* the code for checking that the properties can fail; Spec uses none.     *)
(***************************************************************************)
EXTENDS Integers

CONSTANTS
    MAX_THREAD_COUNT,  \* number of thread descriptors
    THREAD_NULL        \* the null thread pointer

Threads == 0 .. MAX_THREAD_COUNT - 1

ASSUME RunQueueAssumption ==
    /\ MAX_THREAD_COUNT \in Nat /\ MAX_THREAD_COUNT >= 2
    /\ THREAD_NULL \notin Threads

FREE == 0
READY == 1
RUN == 2
DEAD == 3

VARIABLES
    rq,         \* RQ_head, RQ_tail and the next and prev pointers of the threads
    status,     \* thread_descriptors[t].status
    cur_thread, \* the running thread
    pc          \* "boot", "run" (a thread runs), "pick" (schedule searches)

vars == <<rq, status, cur_thread, pc>>

Empty == [head |-> THREAD_NULL, tail |-> THREAD_NULL,
          next |-> [t \in Threads |-> THREAD_NULL],
          prev |-> [t \in Threads |-> THREAD_NULL]]

-----------------------------------------------------------------------------
(* push_rq: th.next is cleared first, then the old tail, which may be th   *)
(* itself, is made to point to th.                                         *)
PushRq_AtHead(q, th) ==
    [q EXCEPT !.next[th] = q.head, !.prev[th] = THREAD_NULL, !.head = th,
              !.tail = IF @ = THREAD_NULL THEN th ELSE @]
PushRq(q, th) ==
    IF q.tail = THREAD_NULL
    THEN [q EXCEPT !.next[th] = THREAD_NULL, !.prev[th] = THREAD_NULL,
                   !.head = th, !.tail = th]
    ELSE [q EXCEPT !.next = [@ EXCEPT ![th] = THREAD_NULL, ![q.tail] = th],
                   !.prev[th] = q.tail, !.tail = th]

(* pop_rq of a queue that is not empty; the thread it returns is q.head. *)
PopRq_TailKept(q) ==
    LET head == q.next[q.head]
    IN  [q EXCEPT !.head = head,
                  !.prev = [t \in Threads |-> IF t = head THEN THREAD_NULL ELSE @[t]],
                  !.next[q.head] = THREAD_NULL]
PopRq(q) ==
    LET head == q.next[q.head]
    IN  [q EXCEPT !.head = head,
                  !.tail = IF head = THREAD_NULL THEN THREAD_NULL ELSE @,
                  !.prev = [t \in Threads |-> IF t = head THEN THREAD_NULL ELSE @[t]],
                  !.next[q.head] = THREAD_NULL]

(* thread_create: the first free descriptor, its pointers cleared, queued. *)
FirstFree(t) == status[t] = FREE /\ \A u \in 0 .. t - 1 : status[u] # FREE
ThreadCreate(q, t) ==
    PushRq([q EXCEPT !.next[t] = THREAD_NULL, !.prev[t] = THREAD_NULL], t)

-----------------------------------------------------------------------------
(* What init_threads leaves. *)
Init ==
    /\ rq = Empty
    /\ status = [t \in Threads |-> FREE]
    /\ cur_thread = THREAD_NULL
    /\ pc = "boot"

(* Thread 0 becomes the running one and is also on the queue; the shell    *)
(* thread is queued by thread_create and once more.                        *)
InitScheduler_CurrentNotSet ==
    /\ pc = "boot"
    /\ rq' = PushRq(ThreadCreate(ThreadCreate(Empty, 0), 1), 1)
    /\ status' = [status EXCEPT ![0] = RUN, ![1] = READY]
    /\ pc' = "run"
    /\ UNCHANGED cur_thread
InitScheduler ==
    /\ pc = "boot"
    /\ rq' = PushRq(ThreadCreate(ThreadCreate(Empty, 0), 1), 1)
    /\ status' = [status EXCEPT ![0] = RUN, ![1] = READY]
    /\ cur_thread' = 0
    /\ pc' = "run"

(* schedule() returns at once if the queue is empty. *)
Schedule == pc' = IF rq.head = THREAD_NULL THEN "run" ELSE "pick"

(* The timer interrupt. *)
Tick ==
    /\ pc = "run"
    /\ Schedule
    /\ UNCHANGED <<rq, status, cur_thread>>

(* thread_exit and the exit system call. *)
Exit ==
    /\ pc = "run"
    /\ status' = [status EXCEPT ![cur_thread] = DEAD]
    /\ Schedule
    /\ UNCHANGED <<rq, cur_thread>>

(* A dead thread goes back to the tail, and the search goes on. *)
PickDead_NotQueued ==
    /\ pc = "pick"
    /\ status[rq.head] = DEAD
    /\ rq' = PopRq(rq)
    /\ UNCHANGED <<status, cur_thread, pc>>
PickDead ==
    /\ pc = "pick"
    /\ status[rq.head] = DEAD
    /\ rq' = PushRq(PopRq(rq), rq.head)
    /\ UNCHANGED <<status, cur_thread, pc>>

(* Any other thread becomes the running one, and the old one is queued.    *)
(* They may be the same thread, which is then marked READY.                *)
OffStatus_AlwaysReady(s, off) == [s EXCEPT ![off] = READY]
OffStatus_DeadOnly(s, off) == IF s[off] = DEAD THEN [s EXCEPT ![off] = READY] ELSE s
OffStatus(s, off) == [s EXCEPT ![off] = IF @ # DEAD THEN READY ELSE DEAD]

PickLive ==
    /\ pc = "pick"
    /\ status[rq.head] # DEAD
    /\ cur_thread' = rq.head
    /\ status' = OffStatus([status EXCEPT ![rq.head] = RUN], cur_thread)
    /\ rq' = PushRq(PopRq(rq), cur_thread)
    /\ pc' = "run"

-----------------------------------------------------------------------------
(* The kill system call: no descriptor but a free one is spared, not even  *)
(* the caller's own.                                                       *)
Kill(t) ==
    /\ pc = "run"
    /\ status[t] # FREE
    /\ status' = [status EXCEPT ![t] = DEAD]
    /\ UNCHANGED <<rq, cur_thread, pc>>

KillIgnored(t) ==
    /\ pc = "run"
    /\ status[t] = FREE
    /\ UNCHANGED vars

(* The fork system call: the child is queued by thread_create and again.   *)
Fork ==
    /\ pc = "run"
    /\ \E t \in Threads :
        /\ FirstFree(t)
        /\ rq' = PushRq(ThreadCreate(rq, t), t)
        /\ status' = [status EXCEPT ![t] = READY]
    /\ UNCHANGED <<cur_thread, pc>>

(* No memory for a copy of the program: the descriptor is marked free, but *)
(* it stays on the queue.                                                  *)
ForkNoProgram ==
    /\ pc = "run"
    /\ \E t \in Threads : FirstFree(t) /\ rq' = ThreadCreate(rq, t)
    /\ UNCHANGED <<status, cur_thread, pc>>

(* No free descriptor, or no memory for the stacks. *)
ForkFails ==
    /\ pc = "run"
    /\ UNCHANGED vars

-----------------------------------------------------------------------------
Pick == PickDead \/ PickLive

Syscall ==
    \/ Exit
    \/ \E t \in Threads : Kill(t) \/ KillIgnored(t)
    \/ Fork
    \/ ForkNoProgram
    \/ ForkFails

Next == InitScheduler \/ Tick \/ Syscall \/ Pick

Spec == Init /\ [][Next]_vars

(* schedule() is not left before it has found a thread. *)
FairSpec == Spec /\ WF_vars(Pick)

-----------------------------------------------------------------------------
(***************************************************************************)
(* Properties                                                              *)
(***************************************************************************)

(* The types of the queue's pointers and of the thread states; from boot   *)
(* on some thread runs.                                                    *)
Pointers == Threads \cup {THREAD_NULL}
TypeOK ==
    /\ rq \in [head : Pointers, tail : Pointers,
               next : [Threads -> Pointers], prev : [Threads -> Pointers]]
    /\ status \in [Threads -> {FREE, READY, RUN, DEAD}]
    /\ pc \in {"boot", "run", "pick"}
    /\ IF pc = "boot" THEN cur_thread = THREAD_NULL ELSE cur_thread \in Threads

(* The threads met from the head on. *)
Queued ==
    LET w[n \in Threads] ==
            IF n = 0 THEN rq.head
            ELSE IF w[n - 1] = THREAD_NULL THEN THREAD_NULL ELSE rq.next[w[n - 1]]
    IN  {w[n] : n \in Threads} \ {THREAD_NULL}

(* Once the kernel has booted the queue is never empty, and however often  *)
(* a thread has been queued twice, the walk from the head meets the tail   *)
(* and goes nowhere else from there: pop_rq in the search of schedule()    *)
(* never returns THREAD_NULL, and what push_rq appends can be reached.     *)
QueueUsable ==
    pc # "boot" =>
        /\ rq.tail \in Queued
        /\ rq.next[rq.tail] \in {THREAD_NULL, rq.tail}

(* A thread marked as running is the running one: two threads never are,   *)
(* and a switch never forgets to hand the mark over.                       *)
OnlyCurrentRuns == \A t \in Threads : status[t] = RUN => t = cur_thread

(* Nobody collects zombies in the kernel as it is built, so a thread that  *)
(* exits or is killed, even by itself or while it waits, stays dead: no    *)
(* later switch makes it ready again, and it is never switched to.         *)
DeadStaysDead ==
    [][\A t \in Threads : status[t] = DEAD =>
          /\ status'[t] = DEAD
          /\ cur_thread' = t => cur_thread = t]_vars

(* A step drops a thread from the queue only if the running thread, or a   *)
(* descriptor marked free, was on the queue before it: every lost thread   *)
(* comes from init_scheduler or copy_thread queueing a thread twice.       *)
LossNeedsDoubleQueueing ==
    [][(/\ cur_thread \notin Queued
        /\ \A t \in Queued : status[t] # FREE)
          => Queued \subseteq Queued' \cup {cur_thread'}]_vars

(* The search ends if a thread on the queue is not dead. *)
PickEnds == (pc = "pick" /\ \E t \in Queued : status[t] # DEAD) ~> pc = "run"

(* A thread that is ready to run is on the queue (sched.c:57: push_rq      *)
(* "adds the thread to the tail of the ready queue").                      *)
ReadyIsQueued ==
    pc = "run" =>
        \A t \in Threads \ {cur_thread} : status[t] = READY => t \in Queued

-----------------------------------------------------------------------------
(***************************************************************************)
(* The inductive invariant the proofs in RunQueueProofs use                *)
(***************************************************************************)

(* From boot on the queue has a head and a tail.                           *)
HeadAndTail == pc # "boot" => rq.head # THREAD_NULL /\ rq.tail # THREAD_NULL

(* Before it no descriptor is in use.                                      *)
NoneBeforeBoot == pc = "boot" => \A t \in Threads : status[t] = FREE

IndInv == TypeOK /\ OnlyCurrentRuns /\ HeadAndTail /\ NoneBeforeBoot
=============================================================================
