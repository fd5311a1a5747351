----------------------------- MODULE SlabCalls ------------------------------
(***************************************************************************)
(* Slab with a record of the call that just ended, so that the promise of  *)
(* Heap can be checked: a chunk is as large as was asked for, and the      *)
(* chunk that goes is the one that was freed.  The record influences       *)
(* nothing.                                                                *)
(***************************************************************************)
EXTENDS Slab

VARIABLE call   \* <<"malloc", size>> or <<"free", address>>

InitCalls == Init /\ call = <<"free", NULL>>

NextCalls ==
    \/ \E request \in Requests : Malloc(request) /\ call' = <<"malloc", request>>
    \/ \E a \in Pointers : Free(a) /\ call' = <<"free", a>>

SpecCalls == InitCalls /\ [][NextCalls]_<<vars, call>>

-----------------------------------------------------------------------------
(* malloc and free as Heap promises: a live chunk is a slot in use, or a   *)
(* block that is neither a slab page nor a frame malloc has leaked.        *)
Slots == UNION {{<<start[p] * FrameSize + i * slab_sizes[slab_type[p]], slab_sizes[slab_type[p]]>> :
                     i \in bitmap[p]} : p \in {q \in Pages : slab_type[q] # Unused}}
Handed == {o \in owned : /\ \A p \in Pages : slab_type[p] # Unused => start[p] # o[1]
                         /\ o[1] \notin leaked}
Blocks == {<<o[1] * FrameSize, Size[o[2]] * FrameSize>> : o \in Handed}

Lengths == {slab_sizes[t] : t \in Types} \cup {Size[size2order(r)] * FrameSize : r \in Requests}

TheHeap == INSTANCE Heap WITH chunks <- Slots \cup Blocks, Bytes <- TotalFrame * FrameSize

ImplementsHeap == TheHeap!Spec
=============================================================================
