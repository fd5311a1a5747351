------------------------------- MODULE Mailbox --------------------------------
(***************************************************************************)
(* Requests to the GPU: mailbox_call of kernel/mailbox.c, which the shell  *)
(* makes with interrupts on, and syscall_mailbox_call of syscall.c, which  *)
(* masks them first.  A request is a message, the address of its buffer;   *)
(* the reply is the same message, and whoever reads another one's throws   *)
(* it away.                                                                *)
(*                                                                         *)
(* A thread that masked interrupts is not switched away from (until an     *)
(* exit call leaves the nesting count too high: Preempt).  There are two   *)
(* shells: main calls shell() too, and is the one that ticks switch away   *)
(* from.                                                                   *)
(*                                                                         *)
(* The GPU is external: it answers requests in their order, a message      *)
(* written to a full mailbox is lost, and one read from an empty mailbox   *)
(* is the last one again or no message.                                    *)
(***************************************************************************)
EXTENDS Integers, Sequences, FiniteSets

CONSTANTS
    Shells,      \* the threads that run shell()
    Users,       \* the threads that run user programs
    Depth,       \* messages a mailbox holds: 8
    NONE         \* no message

Callers == Shells \cup Users

ASSUME MailboxAssumption ==
    /\ Shells \cap Users = {} /\ NONE \notin Callers
    /\ Depth \in Nat \ {0}

(* A caller stands for its message too: the buffers of two threads differ. *)
VARIABLES
    cur_thread,  \* the running thread
    pc,          \* pc[t]: where t is in its call, "idle" outside of one
    requests,    \* messages written to MAILBOX_WRITE_REG
    replies,     \* messages to be read from MAILBOX_READ_REG
    last,        \* the last message that was read there
    answered,    \* answered[t]: the GPU has written its answer into t's buffer
    disturbed    \* history: t was switched away from during its call

mailbox == <<requests, replies, last>>
vars == <<cur_thread, pc, requests, replies, last, answered, disturbed>>

-----------------------------------------------------------------------------
Init ==
    /\ cur_thread \in Shells
    /\ pc = [t \in Callers |-> "idle"]
    /\ requests = <<>> /\ replies = <<>> /\ last = NONE
    /\ answered = [t \in Callers |-> FALSE]
    /\ disturbed = [t \in Callers |-> FALSE]

At(t, where) == cur_thread = t /\ pc[t] = where
Goto(t, where) == pc' = [pc EXCEPT ![t] = where]

(* The request is set up in the buffer: get_board_revision,                *)
(* get_arm_memory_info, or a user program.                                 *)
Call(t) ==
    /\ At(t, "idle")
    /\ answered' = [answered EXCEPT ![t] = FALSE]
    /\ disturbed' = [disturbed EXCEPT ![t] = FALSE]
    /\ Goto(t, "full")
    /\ UNCHANGED <<cur_thread, mailbox>>

(* While MAILBOX_FULL is set in the status register. *)
NotFull_NotTested == TRUE
NotFull == Len(requests) < Depth

WaitFull(t) ==
    /\ At(t, "full") /\ ~NotFull
    /\ UNCHANGED vars

TestFull(t) ==
    /\ At(t, "full") /\ NotFull
    /\ Goto(t, "write")
    /\ UNCHANGED <<cur_thread, mailbox, answered, disturbed>>

Write(t) ==
    /\ At(t, "write")
    /\ requests' = IF Len(requests) < Depth THEN Append(requests, t) ELSE requests
    /\ Goto(t, "empty")
    /\ UNCHANGED <<cur_thread, replies, last, answered, disturbed>>

(* While MAILBOX_EMPTY is set there. *)
WaitEmpty(t) ==
    /\ At(t, "empty") /\ replies = <<>>
    /\ UNCHANGED vars

TestEmpty(t) ==
    /\ At(t, "empty") /\ replies # <<>>
    /\ Goto(t, "read")
    /\ UNCHANGED <<cur_thread, mailbox, answered, disturbed>>

Reads(m) ==
    \/ replies # <<>> /\ m = Head(replies) /\ replies' = Tail(replies) /\ last' = m
    \/ replies = <<>> /\ m \in {last, NONE} /\ UNCHANGED <<replies, last>>

(* Its own message ends the call, and any other is dropped.                *)
Read_AnyReply(t) ==
    /\ At(t, "read")
    /\ \E m \in Callers \cup {NONE} : Reads(m)
    /\ Goto(t, "idle")
    /\ UNCHANGED <<cur_thread, requests, answered, disturbed>>
Read_TestedAgain(t) ==
    /\ At(t, "read")
    /\ \E m \in Callers \cup {NONE} :
        /\ Reads(m)
        /\ Goto(t, IF m = t THEN "idle" ELSE "full")
    /\ UNCHANGED <<cur_thread, requests, answered, disturbed>>
Read(t) ==
    /\ At(t, "read")
    /\ \E m \in Callers \cup {NONE} :
        /\ Reads(m)
        /\ Goto(t, IF m = t THEN "idle" ELSE "empty")
    /\ UNCHANGED <<cur_thread, requests, answered, disturbed>>

Step(t) == TestFull(t) \/ Write(t) \/ TestEmpty(t) \/ Read(t)
Wait(t) == WaitFull(t) \/ WaitEmpty(t)

-----------------------------------------------------------------------------
(* A tick, unless a system call masks it. *)
Masked == cur_thread \in Users /\ pc[cur_thread] # "idle"

Switch ==
    /\ ~Masked
    /\ \E t \in Callers \ {cur_thread} : cur_thread' = t
    /\ disturbed' = [disturbed EXCEPT ![cur_thread] = pc[cur_thread] # "idle"]
    /\ UNCHANGED <<pc, mailbox, answered>>

(* The GPU answers the next request, once there is room for the reply.     *)
Answer ==
    /\ requests # <<>> /\ Len(replies) < Depth
    /\ requests' = Tail(requests)
    /\ replies' = Append(replies, Head(requests))
    /\ answered' = [answered EXCEPT ![Head(requests)] = TRUE]
    /\ UNCHANGED <<cur_thread, pc, last, disturbed>>

-----------------------------------------------------------------------------
Next ==
    \/ \E t \in Callers : Call(t) \/ Step(t) \/ Wait(t)
    \/ Switch
    \/ Answer

Spec == Init /\ [][Next]_vars

(* The processor and the GPU go on.  Nothing is said of when a thread that *)
(* was switched away from comes back.                                      *)
FairSpec == Spec /\ WF_vars(Answer) /\ \A t \in Callers : WF_vars(Step(t))

-----------------------------------------------------------------------------
(***************************************************************************)
(* Properties                                                              *)
(***************************************************************************)

TypeOK ==
    /\ cur_thread \in Callers
    /\ pc \in [Callers -> {"idle", "full", "write", "empty", "read"}]
    /\ requests \in Seq(Callers) /\ Len(requests) <= Depth
    /\ replies \in Seq(Callers) /\ Len(replies) <= Depth
    /\ last \in Callers \cup {NONE}
    /\ {answered, disturbed} \subseteq [Callers -> BOOLEAN]

(* The message a call is waiting for.                                      *)
Outstanding(t) ==
    {i \in DOMAIN requests : requests[i] = t} \cup {-i : i \in {j \in DOMAIN replies : replies[j] = t}}

(* No message is in the mailboxes twice, and none is left there when its   *)
(* call has ended: a later call from the same buffer never takes an old    *)
(* reply for its own, however many others have read and written between    *)
(* two of its steps (mailbox.c:47).                                        *)
OneReplyPerCall ==
    \A t \in Callers :
        /\ Cardinality(Outstanding(t)) <= 1
        /\ pc[t] \notin {"empty", "read"} => Outstanding(t) = {}

(* A call that ends has been answered.                                     *)
EndsAnswered ==
    [][\A t \in Callers : pc[t] # "idle" /\ pc'[t] = "idle" => answered[t]]_vars

(* A call that is not switched away from returns, whatever others have     *)
(* left in the mailboxes; so a system call always does, and the only way   *)
(* to wait for ever is a switch inside mailbox_call.                       *)
CallReturns == \A t \in Callers : pc[t] # "idle" ~> (pc[t] = "idle" \/ disturbed[t])
=============================================================================
