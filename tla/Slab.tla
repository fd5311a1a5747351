-------------------------------- MODULE Slab --------------------------------
(***************************************************************************)
(* malloc() and free() of kernel/buddy.c and the slab layer below them:    *)
(* small requests are slots of a one-frame slab page, large ones are       *)
(* blocks of the page-frame allocator.  The page frames come from          *)
(* FrameAlloc's promise: "owned" is its variable of that name, and a call  *)
(* of buddy_allocate or buddy_free is its Grant or Release.                *)
(*                                                                         *)
(* Both functions run with interrupts disabled, so a call is one action,   *)
(* with one action for each way through the code.  Addresses are bytes,    *)
(* and free() is called with any address at all.                           *)
(*                                                                         *)
(* Definitions named X_Something, before the X they vary, are mutations of *)
(* the code for checking that the properties can fail; Spec uses none.     *)
(***************************************************************************)
EXTENDS Integers, FiniteSets, Sequences

CONSTANTS
    TotalFrame,     \* frames the page-frame allocator manages
    FrameSize,      \* FRAME_SIZE
    LastOrder,      \* the largest order size2order returns: 20
    Size,           \* Size[k] = 1 << k, the frames of a block of order k
    slab_sizes,     \* slab_sizes[1 .. SLAB_TYPE], increasing, the last is FrameSize
    Descriptors,    \* MAX_SLAB_FRAME_COUNT: number of slab page descriptors
    WordSize,       \* 2^32: an unsigned int wraps there
    Requests,       \* the sizes callers ask for
    SLAB_NULL       \* the null descriptor pointer

Types == 1 .. Len(slab_sizes)
Pages == 0 .. Descriptors - 1
Frames == 0 .. TotalFrame - 1
NULL == -1
Addresses == 0 .. TotalFrame * FrameSize - 1
Pointers == Addresses \cup {NULL}

(* A size is an unsigned int, so that the orders reach it.                 *)
ASSUME OrderAssumption ==
    /\ LastOrder \in Nat /\ Size \in [0 .. LastOrder -> Nat \ {0}]
    /\ Size[0] = 1
    /\ \A k \in 0 .. LastOrder - 1 : Size[k + 1] = 2 * Size[k]
    /\ Size[LastOrder] * FrameSize >= WordSize

ASSUME SlabAssumption ==
    /\ TotalFrame \in Nat /\ Descriptors \in Nat
    /\ FrameSize \in Nat \ {0} /\ WordSize \in Nat \ {0}
    /\ slab_sizes \in Seq(1 .. FrameSize)
    /\ \E t \in Types : slab_sizes[t] = FrameSize
    /\ \A t, u \in Types : t < u => slab_sizes[t] < slab_sizes[u]
    /\ Requests \subseteq 0 .. WordSize - 1
    /\ SLAB_NULL \notin Pages

Unused == 0   \* the type of a descriptor with available = 1 and slab_size = -1

VARIABLES
    owned,           \* blocks <<first frame, order>> taken from the frame allocator
    slab_type,       \* type of each page descriptor, Unused if it is available
    start,           \* the frame each page descriptor stands for (start_address)
    free_slabs,      \* its count of free slots
    bitmap,          \* its slots in use
    next, prev,      \* its list pointers
    leaked,          \* frames taken for a page that then got no descriptor: no code
                     \* knows them (a variable of the model, not of the code)
    slab_start_list, \* head of the page list of each type
    ret              \* what the call that just ended returned, NULL for a free

page == <<slab_type, start, free_slabs, bitmap, next, prev, slab_start_list>>
vars == <<owned, slab_type, start, free_slabs, bitmap, next, prev, slab_start_list,
          leaked, ret>>

-----------------------------------------------------------------------------
(* The interface of the page-frame allocator. *)
Extent(b, order) == b .. b + Size[order] - 1
Taken == UNION {Extent(o[1], o[2]) : o \in owned}
CanGrant(b, order) == Extent(b, order) \subseteq Frames \ Taken

(* A single frame is refused only when none is left (RefusedWhenFull in    *)
(* Buddy); a larger block also when the free frames are fragmented.        *)
CanRefuse(order) == order = 0 => Frames \subseteq Taken

(* size2order: the smallest order with enough frames; the sum in it is an  *)
(* unsigned int and wraps.                                                 *)
size2order(request) ==
    LET adjusted == ((request + FrameSize - 1) % WordSize) \div FrameSize
    IN  CHOOSE k \in 0 .. LastOrder :
            Size[k] >= adjusted /\ \A j \in 0 .. k - 1 : Size[j] < adjusted

(* The first slab size that is large enough. *)
TypeFor_Rounded(request) ==
    CHOOSE t \in Types : slab_sizes[t] >= request - 1
                         /\ \A u \in 1 .. t - 1 : slab_sizes[u] < request - 1
TypeFor(request) ==
    CHOOSE t \in Types : slab_sizes[t] >= request
                         /\ \A u \in 1 .. t - 1 : slab_sizes[u] < request
TotalSlabs(t) == FrameSize \div slab_sizes[t]

(* The pages of a type, in list order; SLAB_NULL from the end on. *)
Walk(t) ==
    LET w[n \in 0 .. Descriptors] ==
            IF n = 0 THEN slab_start_list[t]
            ELSE IF w[n - 1] = SLAB_NULL THEN SLAB_NULL ELSE next[w[n - 1]]
    IN  w
Listed(t) == {Walk(t)[n] : n \in 0 .. Descriptors} \ {SLAB_NULL}

HasRoom(p) == free_slabs[p] > 0

(* The first page in the list with a free slot. *)
FirstWithRoom(t, p) ==
    \E n \in 0 .. Descriptors :
        /\ Walk(t)[n] = p /\ p # SLAB_NULL /\ HasRoom(p)
        /\ \A m \in 0 .. n - 1 : ~HasRoom(Walk(t)[m])

FirstClear(p) ==
    CHOOSE i \in 0 .. FrameSize - 1 : i \notin bitmap[p] /\ \A j \in 0 .. i - 1 : j \in bitmap[p]

Small(request) == request # 0 /\ request < FrameSize

-----------------------------------------------------------------------------
(* slab_init *)
Init ==
    /\ owned = {}
    /\ slab_type = [p \in Pages |-> Unused]
    /\ start = [p \in Pages |-> -1]
    /\ free_slabs = [p \in Pages |-> -1]
    /\ bitmap = [p \in Pages |-> {}]
    /\ next = [p \in Pages |-> SLAB_NULL]
    /\ prev = [p \in Pages |-> SLAB_NULL]
    /\ slab_start_list = [t \in Types |-> SLAB_NULL]
    /\ leaked = {}
    /\ ret = NULL

(* A slot of a page that is already there. *)
MallocSlot(request) ==
    /\ Small(request)
    /\ \E p \in Pages :
        /\ FirstWithRoom(TypeFor(request), p)
        /\ bitmap' = [bitmap EXCEPT ![p] = @ \cup {FirstClear(p)}]
        /\ free_slabs' = [free_slabs EXCEPT ![p] = @ - 1]
        /\ ret' = start[p] * FrameSize + FirstClear(p) * slab_sizes[TypeFor(request)]
    /\ UNCHANGED <<owned, leaked, slab_type, start, next, prev, slab_start_list>>

NoRoom(t) == \A p \in Listed(t) : ~HasRoom(p)

FirstUnused(p) == slab_type[p] = Unused /\ \A q \in 0 .. p - 1 : slab_type[q] # Unused

(* A new page: a frame, the first unused descriptor, the head of the list. *)
MallocPage(request) ==
    LET t == TypeFor(request)
        head == slab_start_list[t]
    IN  /\ Small(request) /\ NoRoom(t)
        /\ \E b \in Frames, p \in Pages :
            /\ CanGrant(b, 0) /\ FirstUnused(p)
            /\ owned' = owned \cup {<<b, 0>>}
            /\ slab_type' = [slab_type EXCEPT ![p] = t]
            /\ start' = [start EXCEPT ![p] = b]
            /\ free_slabs' = [free_slabs EXCEPT ![p] = TotalSlabs(t) - 1]
            /\ bitmap' = [bitmap EXCEPT ![p] = {0}]
            /\ next' = [next EXCEPT ![p] = head]
            /\ prev' = [q \in Pages |-> IF q = head THEN p
                                        ELSE IF q = p THEN SLAB_NULL ELSE prev[q]]
            /\ slab_start_list' = [slab_start_list EXCEPT ![t] = p]
            /\ ret' = b * FrameSize
        /\ UNCHANGED leaked

MallocNoFrame(request) ==
    /\ Small(request) /\ NoRoom(TypeFor(request))
    /\ CanRefuse(0)
    /\ ret' = NULL
    /\ UNCHANGED <<owned, leaked, page>>

(* No unused descriptor: the frame is already taken, and stays taken. *)
MallocNoDescriptor(request) ==
    /\ Small(request) /\ NoRoom(TypeFor(request))
    /\ \A p \in Pages : slab_type[p] # Unused
    /\ \E b \in Frames :
        /\ CanGrant(b, 0)
        /\ owned' = owned \cup {<<b, 0>>}
        /\ leaked' = leaked \cup {b}
    /\ ret' = NULL
    /\ UNCHANGED page

MallocBlock(request) ==
    /\ request >= FrameSize
    /\ \E b \in Frames :
        /\ CanGrant(b, size2order(request))
        /\ owned' = owned \cup {<<b, size2order(request)>>}
        /\ ret' = b * FrameSize
    /\ UNCHANGED <<leaked, page>>

MallocBlockFails(request) ==
    /\ request = 0 \/ (request >= FrameSize /\ CanRefuse(size2order(request)))
    /\ ret' = NULL
    /\ UNCHANGED <<owned, leaked, page>>

-----------------------------------------------------------------------------
(* The page free() finds: one on the list of a type whose frame holds the  *)
(* address.  The type of that list is the page's own, as ListsExact says.  *)
PagesOf(a) == {p \in Pages : /\ start[p] * FrameSize <= a /\ a < start[p] * FrameSize + FrameSize
                             /\ \E t \in Types : p \in Listed(t)}
SlotOf(p, a) == (a - start[p] * FrameSize) \div slab_sizes[slab_type[p]]

(* slab_free of a slot that is not the last one in use. *)
FreeSlot_BitNotTested(p, a) ==
    /\ free_slabs[p] + 1 # TotalSlabs(slab_type[p])
    /\ bitmap' = [bitmap EXCEPT ![p] = @ \ {SlotOf(p, a)}]
    /\ free_slabs' = [free_slabs EXCEPT ![p] = @ + 1]
    /\ UNCHANGED <<owned, leaked, slab_type, start, next, prev, slab_start_list>>
FreeSlot(p, a) ==
    /\ SlotOf(p, a) \in bitmap[p]
    /\ free_slabs[p] + 1 # TotalSlabs(slab_type[p])
    /\ bitmap' = [bitmap EXCEPT ![p] = @ \ {SlotOf(p, a)}]
    /\ free_slabs' = [free_slabs EXCEPT ![p] = @ + 1]
    /\ UNCHANGED <<owned, leaked, slab_type, start, next, prev, slab_start_list>>

(* Take p off its list. *)
UnlinkHead(p) ==
    [slab_start_list EXCEPT ![slab_type[p]] = IF @ = p THEN next[p] ELSE @]
UnlinkNext(p) ==
    [q \in Pages |-> IF q = p THEN SLAB_NULL ELSE IF q = prev[p] THEN next[p] ELSE next[q]]
UnlinkPrev_Forgotten(p) == [prev EXCEPT ![p] = SLAB_NULL]
UnlinkPrev(p) ==
    [q \in Pages |-> IF q = p THEN SLAB_NULL ELSE IF q = next[p] THEN prev[p] ELSE prev[q]]

(* slab_free of the last slot in use: the page goes back. *)
FreeLastSlot(p, a) ==
    /\ SlotOf(p, a) \in bitmap[p]
    /\ free_slabs[p] + 1 = TotalSlabs(slab_type[p])
    /\ owned' = {o \in owned : o[1] # start[p]}
    /\ slab_type' = [slab_type EXCEPT ![p] = Unused]
    /\ start' = [start EXCEPT ![p] = -1]
    /\ free_slabs' = [free_slabs EXCEPT ![p] = -1]
    /\ bitmap' = [bitmap EXCEPT ![p] = {}]
    /\ slab_start_list' = UnlinkHead(p)
    /\ next' = UnlinkNext(p)
    /\ prev' = UnlinkPrev(p)
    /\ UNCHANGED leaked

(* The slot is not in use. *)
FreeUnusedSlot(p, a) ==
    /\ SlotOf(p, a) \notin bitmap[p]
    /\ UNCHANGED <<owned, leaked, page>>

(* No page holds the address: the block that starts in its frame, if any.  *)
FreeBlock(a) ==
    /\ \E o \in owned : o[1] = a \div FrameSize /\ owned' = owned \ {o}
    /\ leaked' = leaked \ {a \div FrameSize}
    /\ UNCHANGED page

(* NULL, or an address the code prints "Unable to free memory" for. *)
FreeUnknown(a) ==
    /\ \A o \in owned : o[1] # a \div FrameSize
    /\ UNCHANGED <<owned, leaked, page>>

-----------------------------------------------------------------------------
Malloc(request) ==
    \/ MallocSlot(request)
    \/ MallocPage(request)
    \/ MallocNoFrame(request)
    \/ MallocNoDescriptor(request)
    \/ MallocBlock(request)
    \/ MallocBlockFails(request)

NotInSlab_NotChecked(found) == TRUE
NotInSlab(found) == found = {}

Free(a) ==
    /\ ret' = NULL
    /\ LET found == PagesOf(a)
       IN  \/ \E p \in found : FreeSlot(p, a) \/ FreeLastSlot(p, a) \/ FreeUnusedSlot(p, a)
           \/ NotInSlab(found) /\ (FreeBlock(a) \/ FreeUnknown(a))

Next ==
    \/ \E request \in Requests : Malloc(request)
    \/ \E a \in Pointers : Free(a)

Spec == Init /\ [][Next]_vars

-----------------------------------------------------------------------------
(***************************************************************************)
(* Properties                                                              *)
(***************************************************************************)

(* The count of a page and its bitmap never drift apart, whatever is freed *)
(* or freed twice, and a page with nothing in use is not kept: so the last *)
(* free of a page is the one that returns its frame.                       *)
CountsExact ==
    \A p \in Pages : slab_type[p] # Unused =>
        /\ bitmap[p] # {} /\ bitmap[p] \subseteq 0 .. TotalSlabs(slab_type[p]) - 1
        /\ free_slabs[p] = TotalSlabs(slab_type[p]) - Cardinality(bitmap[p])

(* A page stands for one frame the allocator has granted it, and no two    *)
(* pages for the same one: no frame serves two slab sizes, and none is     *)
(* both a slab page and somebody's block.                                  *)
PagesOwnFrames ==
    \A p \in Pages : slab_type[p] # Unused =>
        /\ <<start[p], 0>> \in owned
        /\ \A q \in Pages \ {p} : slab_type[q] # Unused => start[q] # start[p]
        /\ \A o \in owned : start[p] \in Extent(o[1], o[2]) => o = <<start[p], 0>>

(* Walking the list of a size ends and meets exactly the pages of that     *)
(* size, and the prev pointers are the inverse of the next pointers:       *)
(* unlinking an emptied page loses no other page.                          *)
ListsExact ==
    \A t \in Types :
        /\ Walk(t)[Descriptors] = SLAB_NULL
        /\ Listed(t) = {p \in Pages : slab_type[p] = t}
        /\ \A p \in Listed(t) :
            /\ prev[p] = SLAB_NULL <=> slab_start_list[t] = p
            /\ next[p] # SLAB_NULL => prev[next[p]] = p
=============================================================================
