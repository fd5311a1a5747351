---------------------------- MODULE MailboxProofs ----------------------------
(***************************************************************************)
(* Proofs about Mailbox for every number of threads and every depth of the *)
(* mailboxes, with switches between any two steps of mailbox_call.         *)
(***************************************************************************)
EXTENDS Mailbox, TLAPS, FiniteSetTheorems

(* No message is twice in a mailbox, or in both.                           *)
Unique ==
    /\ \A i, j \in DOMAIN requests : requests[i] = requests[j] => i = j
    /\ \A i, j \in DOMAIN replies : replies[i] = replies[j] => i = j
    /\ \A i \in DOMAIN requests, j \in DOMAIN replies : requests[i] # replies[j]

(* Each belongs to a caller that waits, and what can be read is answered.  *)
Awaited ==
    /\ \A i \in DOMAIN requests :
          pc[requests[i]] \in {"empty", "read"} /\ ~answered[requests[i]]
    /\ \A i \in DOMAIN replies :
          pc[replies[i]] \in {"empty", "read"} /\ answered[replies[i]]

(* A caller that has not written yet is not answered; and one that finds   *)
(* the mailbox empty, because another one has read what it saw there, may  *)
(* read the last message again: if that is its own, it is the answer.      *)
NoOldAnswer ==
    \A t \in Callers :
        /\ pc[t] \in {"full", "write"} => ~answered[t]
        /\ pc[t] = "read" /\ replies = <<>> /\ last = t => answered[t]

IndInv == TypeOK /\ Unique /\ Awaited /\ NoOldAnswer

-----------------------------------------------------------------------------
LEMMA InitInd == Init => IndInv
  BY MailboxAssumption DEF Init, IndInv, TypeOK, Unique, Awaited, NoOldAnswer, Callers

(* Steps that leave the mailboxes alone.                                   *)
LEMMA QuietSteps ==
    ASSUME IndInv, NEW t \in Callers, Call(t) \/ TestFull(t) \/ TestEmpty(t) \/ Wait(t)
    PROVE  IndInv'
<1>1. CASE Call(t)
  BY <1>1 DEF IndInv, TypeOK, Unique, Awaited, NoOldAnswer, Call, At, Goto, mailbox
<1>2. CASE TestFull(t)
  BY <1>2 DEF IndInv, TypeOK, Unique, Awaited, NoOldAnswer, TestFull, At, Goto, mailbox
<1>3. CASE TestEmpty(t)
  BY <1>3 DEF IndInv, TypeOK, Unique, Awaited, NoOldAnswer, TestEmpty, At, Goto, mailbox
<1>4. CASE Wait(t)
  BY <1>4 DEF IndInv, TypeOK, Unique, Awaited, NoOldAnswer, Wait, WaitFull, WaitEmpty, vars,
              mailbox
<1> QED
  BY <1>1, <1>2, <1>3, <1>4

(* A message that is written was in neither mailbox.                       *)
LEMMA WriteStep ==
    ASSUME IndInv, NEW t \in Callers, Write(t)
    PROVE  IndInv'
<1> USE DEF IndInv, TypeOK, Write, At, Goto
<1>1. TypeOK'
  BY MailboxAssumption
<1>2. CASE Len(requests) < Depth
  <2>1. /\ requests' = Append(requests, t)
        /\ DOMAIN requests' = 1 .. Len(requests) + 1
        /\ requests'[Len(requests) + 1] = t
        /\ \A i \in 1 .. Len(requests) : requests'[i] = requests[i]
        /\ DOMAIN requests = 1 .. Len(requests)
    BY <1>2
  <2>2. /\ \A i \in DOMAIN requests : requests[i] # t
        /\ \A i \in DOMAIN replies : replies[i] # t
        /\ ~answered[t]
    BY DEF Awaited, NoOldAnswer
  <2>3. Unique'
    BY <2>1, <2>2 DEF Unique
  <2>4. Awaited' /\ NoOldAnswer'
    BY <2>1, <2>2 DEF Awaited, NoOldAnswer
  <2> QED
    BY <1>1, <2>3, <2>4
<1>3. CASE ~(Len(requests) < Depth)
  <2>1. requests' = requests
    BY <1>3
  <2>2. Unique'
    BY <2>1 DEF Unique
  <2>3. Awaited' /\ NoOldAnswer'
    BY <2>1 DEF Awaited, NoOldAnswer
  <2> QED
    BY <1>1, <2>2, <2>3
<1> QED
  BY <1>2, <1>3

(* The tail of a mailbox.                                                  *)
LEMMA TailOf ==
    ASSUME NEW s \in Seq(Callers), s # <<>>
    PROVE  /\ Head(s) = s[1] /\ 1 \in DOMAIN s /\ Head(s) \in Callers
           /\ Tail(s) \in Seq(Callers) /\ Len(Tail(s)) = Len(s) - 1 /\ Len(s) \in Nat
           /\ \A i \in DOMAIN Tail(s) : i + 1 \in DOMAIN s /\ Tail(s)[i] = s[i + 1]
                                        /\ i \in Nat \ {0}
           /\ DOMAIN s = 1 .. Len(s)
  OBVIOUS

(* A caller's own message ends its call, and then it is in neither mailbox *)
(* any more: what was read is gone, and a message that is read again had   *)
(* been answered.                                                          *)
LEMMA ReadStep ==
    ASSUME IndInv, NEW t \in Callers, Read(t)
    PROVE  IndInv' /\ (pc'[t] = "idle" => answered[t])
<1> USE DEF IndInv, TypeOK, Read, At, Goto
<1>1. PICK m \in Callers \cup {NONE} :
        Reads(m) /\ pc' = [pc EXCEPT ![t] = IF m = t THEN "idle" ELSE "empty"]
  OBVIOUS
<1>2. CASE replies # <<>>
  <2>1. m = Head(replies) /\ replies' = Tail(replies) /\ last' = m
    BY <1>1, <1>2 DEF Reads
  <2>2. /\ m = replies[1] /\ 1 \in DOMAIN replies /\ m \in Callers
        /\ replies' \in Seq(Callers) /\ Len(replies') = Len(replies) - 1
        /\ Len(replies) \in Nat
        /\ \A i \in DOMAIN replies' : i + 1 \in DOMAIN replies
                                      /\ replies'[i] = replies[i + 1] /\ i \in Nat \ {0}
    BY <1>2, <2>1, TailOf
  <2>3. TypeOK'
    BY <1>1, <2>1, <2>2, MailboxAssumption
  <2>4. Unique'
    BY <2>2 DEF Unique
  <2>5. /\ \A i \in DOMAIN replies' : replies'[i] # m
        /\ \A i \in DOMAIN requests : requests[i] # m
        /\ answered[m]
    BY <2>2 DEF Unique, Awaited
  <2>6. Awaited'
    BY <1>1, <2>2, <2>5 DEF Awaited
  <2>7. NoOldAnswer'
    BY <1>1, <2>1, <2>5 DEF NoOldAnswer
  <2> QED
    BY <1>1, <2>3, <2>4, <2>5, <2>6, <2>7, MailboxAssumption
<1>3. CASE replies = <<>>
  <2>1. m \in {last, NONE} /\ replies' = replies /\ last' = last
    BY <1>1, <1>3 DEF Reads
  <2>2. m = t => answered[t]
    BY <1>3, <2>1, MailboxAssumption DEF NoOldAnswer, Callers
  <2>3. TypeOK'
    BY <1>1, <2>1, MailboxAssumption
  <2>4. Unique'
    BY <2>1 DEF Unique
  <2>5. Awaited'
    BY <1>1, <1>3, <2>1, <2>2 DEF Awaited
  <2>6. NoOldAnswer'
    BY <1>1, <2>1 DEF NoOldAnswer
  <2> QED
    BY <1>1, <2>2, <2>3, <2>4, <2>5, <2>6
<1> QED
  BY <1>2, <1>3

(* The GPU moves a message from one mailbox to the other.                  *)
LEMMA AnswerStep ==
    ASSUME IndInv, Answer
    PROVE  IndInv'
<1> USE DEF IndInv, TypeOK, Answer
<1> DEFINE m == Head(requests)
<1>0. requests # <<>> /\ requests' = Tail(requests)
  OBVIOUS
<1>1. /\ m = requests[1] /\ 1 \in DOMAIN requests /\ m \in Callers
      /\ requests' \in Seq(Callers) /\ Len(requests') = Len(requests) - 1
      /\ Len(requests) \in Nat
      /\ \A i \in DOMAIN requests' : i + 1 \in DOMAIN requests
                                     /\ requests'[i] = requests[i + 1] /\ i \in Nat \ {0}
  BY <1>0, TailOf
<1>2. /\ replies' \in Seq(Callers) /\ Len(replies') = Len(replies) + 1 /\ Len(replies) \in Nat
      /\ DOMAIN replies' = 1 .. Len(replies) + 1 /\ DOMAIN replies = 1 .. Len(replies)
      /\ replies'[Len(replies) + 1] = m
      /\ \A i \in 1 .. Len(replies) : replies'[i] = replies[i]
  BY <1>1
<1>3. TypeOK'
  BY <1>1, <1>2, MailboxAssumption
<1>4. /\ \A i \in DOMAIN requests' : requests'[i] # m
      /\ \A i \in DOMAIN replies : replies[i] # m
  <2> HIDE DEF m
  <2> QED
    BY <1>1 DEF Unique
<1>5. Unique'
  BY <1>1, <1>2, <1>4 DEF Unique
<1>6. answered' = [answered EXCEPT ![m] = TRUE] /\ pc' = pc
  OBVIOUS
<1>7. Awaited'
  BY <1>1, <1>2, <1>4, <1>6 DEF Awaited
<1>8. NoOldAnswer'
  BY <1>1, <1>2, <1>6 DEF NoOldAnswer, Awaited
<1> QED
  BY <1>3, <1>5, <1>7, <1>8

LEMMA SwitchStep ==
    ASSUME IndInv, Switch
    PROVE  IndInv'
  BY DEF IndInv, TypeOK, Unique, Awaited, NoOldAnswer, Switch, mailbox

LEMMA NextInd ==
    ASSUME IndInv, [Next]_vars
    PROVE  IndInv'
<1>1. CASE UNCHANGED vars
  BY <1>1 DEF IndInv, TypeOK, Unique, Awaited, NoOldAnswer, vars, mailbox
<1> QED
  BY <1>1, QuietSteps, WriteStep, ReadStep, AnswerStep, SwitchStep DEF Next, Step

(* The inductive invariant.                                                *)
THEOREM Invariance == Spec => []IndInv
  BY InitInd, NextInd, PTL DEF Spec

(* Types, and no mailbox holds more messages than it can.                  *)
THEOREM TypeCorrect == Spec => []TypeOK
  BY Invariance, PTL DEF IndInv

-----------------------------------------------------------------------------
(* A set has at most one element if any two are the same.                  *)
LEMMA AtMostOne ==
    ASSUME NEW S, \A x, y \in S : x = y
    PROVE  Cardinality(S) <= 1
<1>1. CASE S = {}
  BY <1>1, FS_EmptySet
<1>2. CASE S # {}
  <2>1. PICK x \in S : S = {x}
    BY <1>2
  <2> QED
    BY <2>1, FS_Singleton
<1> QED
  BY <1>1, <1>2

LEMMA OneEach ==
    ASSUME IndInv
    PROVE  OneReplyPerCall
<1> SUFFICES ASSUME NEW t \in Callers
             PROVE  /\ Cardinality(Outstanding(t)) <= 1
                    /\ pc[t] \notin {"empty", "read"} => Outstanding(t) = {}
  BY DEF OneReplyPerCall
<1>1. DOMAIN requests \subseteq Nat \ {0} /\ DOMAIN replies \subseteq Nat \ {0}
  BY DEF IndInv, TypeOK
<1>2. ASSUME NEW x \in Outstanding(t), NEW y \in Outstanding(t)
      PROVE  x = y
  <2>1. \/ x \in DOMAIN requests /\ requests[x] = t
        \/ \E j \in DOMAIN replies : x = -j /\ replies[j] = t
    BY DEF Outstanding
  <2>2. \/ y \in DOMAIN requests /\ requests[y] = t
        \/ \E j \in DOMAIN replies : y = -j /\ replies[j] = t
    BY DEF Outstanding
  <2> QED
    BY <2>1, <2>2 DEF IndInv, Unique
<1>3. pc[t] \notin {"empty", "read"} => Outstanding(t) = {}
  BY DEF IndInv, Awaited, Outstanding
<1> HIDE DEF Outstanding
<1> QED
  BY <1>2, <1>3, AtMostOne

(* However many callers there are and however they interrupt each other,   *)
(* the mailboxes hold at most one message of each, and none of a caller    *)
(* that is not waiting for one.                                            *)
THEOREM OneEachAlways == Spec => []OneReplyPerCall
  BY Invariance, OneEach, PTL

(* A call ends when the GPU has written its answer, and not before.        *)
THEOREM AnsweredAtEnd == Spec => EndsAnswered
<1> DEFINE Ends == \A t \in Callers : pc[t] # "idle" /\ pc'[t] = "idle" => answered[t]
<1>1. ASSUME IndInv, Next
      PROVE  Ends
  <2> SUFFICES ASSUME NEW t \in Callers, pc[t] # "idle", pc'[t] = "idle"
               PROVE  answered[t]
    OBVIOUS
  <2>1. pc \in [Callers -> {"idle", "full", "write", "empty", "read"}]
    BY <1>1 DEF IndInv, TypeOK
  <2>2. PICK u \in Callers : Call(u) \/ Step(u) \/ Wait(u) \/ Switch \/ Answer
    BY <1>1 DEF Next
  <2>3. CASE Read(u)
    <3>1. u = t
      BY <2>1, <2>3 DEF Read, Goto
    <3> QED
      BY <1>1, <2>3, <3>1, ReadStep
  <2>4. CASE ~Read(u)
    BY <2>1, <2>2, <2>4 DEF Call, Step, Wait, TestFull, Write, TestEmpty, WaitFull, WaitEmpty,
                            Switch, Answer, Goto, vars
  <2> QED
    BY <2>3, <2>4
<1>2. IndInv /\ [Next]_vars => [Ends]_vars
  BY <1>1
<1> QED
  BY <1>2, Invariance, PTL DEF EndsAnswered, Spec
=============================================================================
