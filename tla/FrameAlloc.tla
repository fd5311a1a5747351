----------------------------- MODULE FrameAlloc -----------------------------
(***************************************************************************)
(* What the page-frame allocator of kernel/buddy.c promises its callers,   *)
(* with no free lists, no splitting and no merging: a block that is handed *)
(* out lies in usable memory, is disjoint from every block somebody still  *)
(* owns, has exactly the order that was asked for, and stays owned until   *)
(* it is given back.  The state of Buddy is mapped onto this one.          *)
(***************************************************************************)
EXTENDS Integers

CONSTANTS
    TotalFrame,  \* TOTAL_FRAME: number of page frames
    MaxOrder,    \* MAX_ORDER: largest block order
    Size,        \* Size[k] = 1 << k, the frames of a block of order k
    Unusable     \* frames the boot code reserved

VARIABLES
    owned,       \* blocks <<first frame, order>> owned by callers
    pending,     \* order of the request being served, NoRequest if none
    ret          \* what the last buddy_allocate returned

vars == <<owned, pending, ret>>

Frames == 0 .. TotalFrame - 1
NoRequest == -1
Failed == -1
Extent(block) == block[1] .. block[1] + Size[block[2]] - 1

Init == owned = {} /\ pending = NoRequest /\ ret = Failed

(* buddy_allocate accepts a request it can serve. *)
Request(order) ==
    /\ pending = NoRequest
    /\ pending' = order
    /\ UNCHANGED <<owned, ret>>

(* The caller gets a block nobody owns. *)
Grant(b) ==
    /\ pending # NoRequest
    /\ Extent(<<b, pending>>) \subseteq Frames \ Unusable
    /\ \A o \in owned : Extent(o) \cap Extent(<<b, pending>>) = {}
    /\ owned' = owned \cup {<<b, pending>>}
    /\ ret' = b
    /\ pending' = NoRequest

(* buddy_allocate returns -1 and changes nothing.  When it may do so is    *)
(* not said here, where the order of a refused request is not recorded:    *)
(* Buddy says it of single frames (RefusedWhenFull).                       *)
Refuse ==
    /\ pending = NoRequest
    /\ ret' = Failed
    /\ UNCHANGED <<owned, pending>>

(* The owner gives one block back. *)
Release(block) ==
    /\ pending = NoRequest
    /\ owned' = owned \ {block}
    /\ UNCHANGED <<pending, ret>>

Next ==
    \/ \E order \in 0 .. MaxOrder : Request(order)
    \/ \E b \in Frames : Grant(b)
    \/ Refuse
    \/ \E block \in owned : Release(block)

Spec == Init /\ [][Next]_vars
=============================================================================
