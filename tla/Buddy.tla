------------------------------- MODULE Buddy --------------------------------
(***************************************************************************)
(* The page-frame allocator of kernel/buddy.c: memory_reserve, buddy_init, *)
(* buddy_allocate and buddy_free, at the level of the frame descriptors    *)
(* and of their next/prev pointers.                                        *)
(* Definitions named X_Something, before the X they vary, are mutations of *)
(* the code for checking that the properties can fail; Spec uses none.     *)
(*                                                                         *)
(* malloc() and free() call it with interrupts disabled, so calls do not   *)
(* interleave; what makes the code delicate is inside one call, where a    *)
(* block is off every list while its halves are pushed (the split loop) or *)
(* its buddies are unlinked (the merge loop).  Each iteration of a loop is *)
(* an action, and the local variables of the call are state.               *)
(***************************************************************************)
EXTENDS Integers, Sequences

CONSTANTS
    TotalFrame,  \* TOTAL_FRAME: number of page frames
    MaxOrder,    \* MAX_ORDER: largest block order
    Size,        \* Size[k] = 1 << k, the frames of a block of order k
    FrameSize,   \* FRAME_SIZE: bytes of a frame
    Regions,     \* the <<begin, end>> byte ranges mem_init reserves, in order
    Orders,      \* the orders callers ask for, too large ones included
    BUDDY_NULL   \* the null descriptor pointer

Frames == 0 .. TotalFrame - 1
AllOrders == 0 .. MaxOrder

ASSUME SizeAssumption ==
    /\ MaxOrder \in Nat
    /\ Size \in [AllOrders -> Nat \ {0}]
    /\ Size[0] = 1
    /\ \A k \in 0 .. MaxOrder - 1 : Size[k + 1] = 2 * Size[k]

ASSUME MemoryAssumption ==
    /\ TotalFrame \in Nat
    /\ FrameSize \in Nat \ {0}
    /\ Regions \in Seq(Nat \X Nat)
    /\ Orders \subseteq Nat
    /\ BUDDY_NULL \notin Frames

BELONGED_FRAME  == -1   \* inside a block, not its first frame
ALLOCATED_FRAME == -2   \* first frame of a block that is handed out
RESERVED_FRAME  == -3   \* never managed by the allocator
Failed == -1            \* what buddy_allocate returns when it finds no block

VARIABLES
    status,          \* buddy_frame_array[f].status: one of the above, or the
                     \* order of the free block that starts at f
    allocated_order, \* buddy_frame_array[f].allocated_order
    next, prev,      \* buddy_frame_array[f].next and .prev
    free_lists,      \* free_frame_lists: head of the list of each order
    pc,              \* where the kernel is: "reserve", "init", "idle", "split", "merge"
    region,          \* boot: how many regions are reserved
    scan,            \* boot: the i of buddy_init's loop
    blk, ord, want,  \* locals of a call: the block in hand, its order, the order asked for
    ret              \* what the last buddy_allocate returned

frames == <<status, allocated_order, next, prev, free_lists>>
boot == <<region, scan>>
call == <<blk, ord, want>>
vars == <<status, allocated_order, next, prev, free_lists, pc, region, scan,
          blk, ord, want, ret>>

Links == Frames \cup {BUDDY_NULL}
Statuses == {RESERVED_FRAME, ALLOCATED_FRAME, BELONGED_FRAME} \cup AllOrders

-----------------------------------------------------------------------------
(* block_index ^ (1 << order): flip the bit of weight Size[order]. *)
BuddyOf(b, order) ==
    IF b % Size[order + 1] < Size[order] THEN b + Size[order] ELSE b - Size[order]

(* Push b on the list of an order, and clear its prev. *)
PushNext_ListDropped(b, order) == [next EXCEPT ![b] = BUDDY_NULL]
PushNext(b, order) == [next EXCEPT ![b] = free_lists[order]]
PushPrev(b, order) ==
    [f \in Frames |-> IF f = free_lists[order] THEN b
                      ELSE IF f = b THEN BUDDY_NULL ELSE prev[f]]
PushHead(b, order) == [free_lists EXCEPT ![order] = b]

(* Unlink b from its list: the head moves on, an inner block is bypassed,  *)
(* and a block that is neither is left where it is (the code prints        *)
(* "Corrupted free list structure").                                       *)
IsHead(b, order) == free_lists[order] = b
UnlinkHead_Forgotten(b, order) == free_lists
UnlinkHead(b, order) ==
    IF IsHead(b, order) THEN [free_lists EXCEPT ![order] = next[b]] ELSE free_lists
UnlinkNext_Forgotten(b, order) == next
UnlinkNext(b, order) ==
    [f \in Frames |-> IF ~IsHead(b, order) /\ f = prev[b] THEN next[b] ELSE next[f]]
UnlinkPrev_Forgotten(b, order) == prev
UnlinkPrev(b, order) ==
    [f \in Frames |->
        IF f # next[b] \/ (~IsHead(b, order) /\ prev[b] = BUDDY_NULL) THEN prev[f]
        ELSE IF IsHead(b, order) THEN BUDDY_NULL ELSE prev[b]]

-----------------------------------------------------------------------------
(* mem_init fills status, next and prev before the first memory_reserve;   *)
(* what it leaves unset, buddy_init sets before anything reads it.         *)
Init ==
    /\ status = [f \in Frames |-> BELONGED_FRAME]
    /\ allocated_order = [f \in Frames |-> -1]
    /\ next = [f \in Frames |-> BUDDY_NULL]
    /\ prev = [f \in Frames |-> BUDDY_NULL]
    /\ free_lists = [k \in AllOrders |-> BUDDY_NULL]
    /\ pc = "reserve"
    /\ region = 0 /\ scan = 0
    /\ blk = 0 /\ ord = 0 /\ want = 0
    /\ ret = Failed

(* The frames memory_reserve(begin, end) marks: from the one that holds    *)
(* begin to the one that holds the last byte, clipped to the array.        *)
ReservedBy_RoundedDown(r) ==
    {f \in Frames : r[1] \div FrameSize <= f /\ f < r[2] \div FrameSize}
ReservedBy(r) ==
    {f \in Frames : /\ r[1] \div FrameSize <= f
                    /\ f < (r[2] + FrameSize - 1) \div FrameSize}

MemoryReserve ==
    /\ pc = "reserve"
    /\ region < Len(Regions)
    /\ status' = [f \in Frames |-> IF f \in ReservedBy(Regions[region + 1])
                                   THEN RESERVED_FRAME ELSE status[f]]
    /\ region' = region + 1
    /\ UNCHANGED <<allocated_order, next, prev, free_lists, pc, scan, blk, ord, want, ret>>

(* buddy_init: empty the lists, then walk the array. *)
BuddyInitStart ==
    /\ pc = "reserve"
    /\ region = Len(Regions)
    /\ free_lists' = [k \in AllOrders |-> BUDDY_NULL]
    /\ status' = [f \in Frames |-> IF status[f] = RESERVED_FRAME
                                   THEN RESERVED_FRAME ELSE BELONGED_FRAME]
    /\ next' = [f \in Frames |-> BUDDY_NULL]
    /\ prev' = [f \in Frames |-> BUDDY_NULL]
    /\ allocated_order' = [f \in Frames |-> -1]
    /\ pc' = "init" /\ scan' = 0
    /\ UNCHANGED <<region, blk, ord, want, ret>>

InitSkip_NoIncrement ==
    /\ pc = "init" /\ scan < TotalFrame
    /\ status[scan] \in {ALLOCATED_FRAME, RESERVED_FRAME}
    /\ UNCHANGED vars
InitSkip ==
    /\ pc = "init" /\ scan < TotalFrame
    /\ status[scan] \in {ALLOCATED_FRAME, RESERVED_FRAME}
    /\ scan' = scan + 1
    /\ UNCHANGED <<frames, pc, region, call, ret>>

(* is_block_free, and the block ends inside the array. *)
Fits_LengthOnly(b, order) == b + Size[order] <= TotalFrame
Fits(b, order) ==
    /\ b + Size[order] <= TotalFrame
    /\ \A f \in b .. b + Size[order] - 1 :
          status[f] \notin {ALLOCATED_FRAME, RESERVED_FRAME}

(* The largest block that fits is formed at scan; alignment is not asked. *)
InitBlock(order) ==
    /\ pc = "init" /\ scan < TotalFrame
    /\ status[scan] \notin {ALLOCATED_FRAME, RESERVED_FRAME}
    /\ Fits(scan, order)
    /\ \A k \in order + 1 .. MaxOrder : ~Fits(scan, k)
    /\ status' = [status EXCEPT ![scan] = order]
    /\ next' = PushNext(scan, order)
    /\ prev' = PushPrev(scan, order)
    /\ free_lists' = PushHead(scan, order)
    /\ scan' = scan + Size[order]
    /\ UNCHANGED <<allocated_order, pc, region, call, ret>>

InitDone ==
    /\ pc = "init" /\ scan = TotalFrame
    /\ pc' = "idle"
    /\ UNCHANGED <<frames, boot, call, ret>>

-----------------------------------------------------------------------------
(* buddy_allocate: pop the first block of the smallest order that has one. *)
AllocTake(order, i) ==
    /\ pc = "idle"
    /\ i >= order /\ free_lists[i] # BUDDY_NULL
    /\ \A k \in order .. i - 1 : free_lists[k] = BUDDY_NULL
    /\ blk' = free_lists[i]
    /\ ord' = i /\ want' = order
    /\ free_lists' = [free_lists EXCEPT ![i] = next[free_lists[i]]]
    /\ prev' = [f \in Frames |-> IF f = next[free_lists[i]] THEN BUDDY_NULL ELSE prev[f]]
    /\ pc' = "split"
    /\ UNCHANGED <<status, allocated_order, next, boot, ret>>

NoBlock(order) == \A k \in order .. MaxOrder : free_lists[k] = BUDDY_NULL
AllocFail(order) ==
    /\ pc = "idle"
    /\ NoBlock(order)
    /\ ret' = Failed
    /\ UNCHANGED <<frames, pc, boot, call>>

(* One iteration of the split loop: the upper half becomes a free block. *)
UpperHalf_OrderNotLowered == blk + Size[ord]
UpperHalf == blk + Size[ord - 1]

Split ==
    /\ pc = "split" /\ ord > want
    /\ status' = [status EXCEPT ![UpperHalf] = ord - 1]
    /\ next' = PushNext(UpperHalf, ord - 1)
    /\ prev' = PushPrev(UpperHalf, ord - 1)
    /\ free_lists' = PushHead(UpperHalf, ord - 1)
    /\ ord' = ord - 1
    /\ UNCHANGED <<allocated_order, pc, boot, blk, want, ret>>

Idle == pc' = "idle" /\ blk' = 0 /\ ord' = 0 /\ want' = 0

AllocDone ==
    /\ pc = "split" /\ ord = want
    /\ status' = [status EXCEPT ![blk] = ALLOCATED_FRAME]
    /\ next' = [next EXCEPT ![blk] = BUDDY_NULL]
    /\ prev' = [prev EXCEPT ![blk] = BUDDY_NULL]
    /\ allocated_order' = [allocated_order EXCEPT ![blk] = want]
    /\ ret' = blk
    /\ Idle
    /\ UNCHANGED <<free_lists, boot>>

-----------------------------------------------------------------------------
(* buddy_free of an index that is not the head of an allocated block. *)
FreeIgnored(b) ==
    /\ pc = "idle"
    /\ status[b] # ALLOCATED_FRAME
    /\ UNCHANGED vars

FreeStart(b) ==
    /\ pc = "idle"
    /\ status[b] = ALLOCATED_FRAME
    /\ status' = [status EXCEPT ![b] = allocated_order[b]]
    /\ blk' = b /\ ord' = allocated_order[b]
    /\ pc' = "merge"
    /\ UNCHANGED <<allocated_order, next, prev, free_lists, boot, want, ret>>

(* The condition of the merge loop. *)
Bud == BuddyOf(blk, ord)
CanMerge_AnyFreeBuddy ==
    /\ ord < MaxOrder
    /\ Bud < TotalFrame
    /\ status[Bud] \in AllOrders
CanMerge_OneOrderShort ==
    /\ ord < MaxOrder - 1
    /\ Bud < TotalFrame
    /\ status[Bud] = ord
CanMerge ==
    /\ ord < MaxOrder
    /\ Bud < TotalFrame
    /\ status[Bud] = ord

(* One iteration: unlink the buddy, dissolve the upper of the two blocks. *)
Lower_BlockKept == blk
Lower == IF Bud < blk THEN Bud ELSE blk
Upper == IF Bud < blk THEN blk ELSE Bud

Merge ==
    /\ pc = "merge" /\ CanMerge
    /\ free_lists' = UnlinkHead(Bud, ord)
    /\ next' = [UnlinkNext(Bud, ord) EXCEPT ![Upper] = BUDDY_NULL]
    /\ prev' = [UnlinkPrev(Bud, ord) EXCEPT ![Upper] = BUDDY_NULL]
    /\ status' = [status EXCEPT ![Upper] = BELONGED_FRAME]
    /\ allocated_order' = [allocated_order EXCEPT ![Upper] = -1]
    /\ blk' = Lower
    /\ ord' = ord + 1
    /\ UNCHANGED <<pc, boot, want, ret>>

FreeDone ==
    /\ pc = "merge" /\ ~CanMerge
    /\ status' = [status EXCEPT ![blk] = ord]
    /\ allocated_order' = [allocated_order EXCEPT ![blk] = -1]
    /\ next' = PushNext(blk, ord)
    /\ prev' = PushPrev(blk, ord)
    /\ free_lists' = PushHead(blk, ord)
    /\ Idle
    /\ UNCHANGED <<boot, ret>>

-----------------------------------------------------------------------------
Call ==
    \/ \E order \in Orders, i \in AllOrders : AllocTake(order, i)
    \/ \E order \in Orders : AllocFail(order)
    \/ \E b \in Frames : FreeIgnored(b)
    \/ \E b \in Frames : FreeStart(b)

Proceed ==
    \/ MemoryReserve
    \/ BuddyInitStart
    \/ InitSkip
    \/ \E order \in AllOrders : InitBlock(order)
    \/ InitDone
    \/ Split
    \/ AllocDone
    \/ Merge
    \/ FreeDone

Next == Call \/ Proceed

Spec == Init /\ [][Next]_vars

(* The processor runs a call to its end: nothing preempts it. *)
FairSpec == Spec /\ WF_vars(Proceed)

-----------------------------------------------------------------------------
(***************************************************************************)
(* Properties                                                              *)
(***************************************************************************)

(* The types of the descriptors and of the locals of a call. *)
TypeOK ==
    /\ status \in [Frames -> Statuses]
    /\ allocated_order \in [Frames -> AllOrders \cup {-1}]
    /\ next \in [Frames -> Links]
    /\ prev \in [Frames -> Links]
    /\ free_lists \in [AllOrders -> Links]
    /\ pc \in {"reserve", "init", "idle", "split", "merge"}
    /\ region \in 0 .. Len(Regions)
    /\ scan \in 0 .. TotalFrame
    /\ blk \in Frames \cup {0}
    /\ ord \in AllOrders /\ want \in AllOrders
    /\ ret \in Frames \cup {Failed}

(* A block starts at b; the block in hand of a call is on no list, and its *)
(* order is the local variable's, not what its descriptor still says.      *)
Starts(b) == status[b] \notin {RESERVED_FRAME, BELONGED_FRAME}
InHand(b) == pc \in {"split", "merge"} /\ b = blk
Free(b) == Starts(b) /\ status[b] # ALLOCATED_FRAME /\ ~InHand(b)
OrderOf(b) ==
    IF InHand(b) THEN ord
    ELSE IF status[b] = ALLOCATED_FRAME THEN allocated_order[b] ELSE status[b]
Block(b) == b .. b + Size[OrderOf(b)] - 1

(* No two blocks, free, handed out or in the hand of a running call, share *)
(* a frame, and none reaches outside memory or over a reserved frame:      *)
(* splitting and merging never hand the same page to two owners.           *)
BlocksDisjoint ==
    \A b \in Frames : Starts(b) =>
        /\ Block(b) \subseteq Frames
        /\ \A f \in Block(b) : status[f] # RESERVED_FRAME
        /\ \A c \in Frames : Starts(c) /\ c # b => Block(b) \cap Block(c) = {}

(* Every frame the boot walk has passed is reserved or inside some block:  *)
(* no sequence of splits and merges loses a page.                          *)
Passed == IF pc = "reserve" THEN {} ELSE IF pc = "init" THEN 0 .. scan - 1 ELSE Frames
NoFrameLost ==
    \A f \in Passed : status[f] # RESERVED_FRAME =>
        \E b \in Frames : Starts(b) /\ f \in Block(b)

(* The next and prev pointers of free blocks agree with each other, with   *)
(* the orders and with the list heads, so the branch of buddy_free that    *)
(* prints "Corrupted free list structure" is never taken, and unlinking a  *)
(* buddy from the middle of a list never touches another list.             *)
LinksAgree ==
    /\ \A k \in AllOrders : free_lists[k] # BUDDY_NULL =>
          /\ Free(free_lists[k]) /\ status[free_lists[k]] = k
          /\ prev[free_lists[k]] = BUDDY_NULL
    /\ \A b \in Frames : Free(b) =>
          /\ prev[b] = BUDDY_NULL => IsHead(b, status[b])
          /\ prev[b] # BUDDY_NULL =>
                Free(prev[b]) /\ status[prev[b]] = status[b] /\ next[prev[b]] = b
          /\ next[b] # BUDDY_NULL =>
                Free(next[b]) /\ status[next[b]] = status[b] /\ prev[next[b]] = b

(* Walking the list of each order from its head ends, and visits exactly   *)
(* the free blocks of that order: none is unreachable, so an allocation    *)
(* that finds the lists empty really has no block.                         *)
Walk(k) ==
    LET w[n \in 0 .. TotalFrame] ==
            IF n = 0 THEN free_lists[k]
            ELSE IF w[n - 1] = BUDDY_NULL THEN BUDDY_NULL ELSE next[w[n - 1]]
    IN  w
FreeListsExact ==
    \A k \in AllOrders :
        /\ Walk(k)[TotalFrame] = BUDDY_NULL
        /\ {Walk(k)[n] : n \in 0 .. TotalFrame} \ {BUDDY_NULL}
              = {b \in Frames : Free(b) /\ status[b] = k}

(* Once memory_reserve has taken a byte range, no block contains a byte of *)
(* it: the kernel image, the initramfs, the device tree and the heap are   *)
(* never handed out.                                                       *)
ReservedBytesKept ==
    \A i \in 1 .. region : \A b \in Frames : Starts(b) =>
        \/ Regions[i][1] >= Regions[i][2]
        \/ (b + Size[OrderOf(b)]) * FrameSize <= Regions[i][1]
        \/ b * FrameSize >= Regions[i][2]

(* Between calls no two free blocks are buddies that could be merged.      *)
NoBuddies ==
    \A b \in Frames : Free(b) /\ status[b] < MaxOrder =>
        LET c == BuddyOf(b, status[b])
        IN  ~(c \in Frames /\ Free(c) /\ status[c] = status[b])
Coalesced == pc = "idle" => NoBuddies

(* A single frame is refused only when every usable one is handed out: no  *)
(* split or merge hides a block from the search of the lists.  malloc's    *)
(* slabs rely on it (a larger block may be refused for fragmentation).     *)
HandedOut(f) == \E b \in Frames : status[b] = ALLOCATED_FRAME /\ f \in Block(b)
RefusedWhenFull ==
    pc = "idle" /\ NoBlock(0)
        => \A f \in Frames : status[f] = RESERVED_FRAME \/ HandedOut(f)

(* Boot ends, and every split and merge loop ends. *)
CallReturns == pc # "idle" ~> pc = "idle"

(* Blocks are granted, refused and released as FrameAlloc promises.        *)
Unusable == UNION {ReservedBy(Regions[i]) : i \in 1 .. Len(Regions)}
Owned == {<<b, allocated_order[b]>> : b \in {f \in Frames : status[f] = ALLOCATED_FRAME}}
Pending == IF pc = "split" THEN want ELSE -1

FA == INSTANCE FrameAlloc WITH owned <- Owned, pending <- Pending

ImplementsFrameAlloc == FA!Spec

-----------------------------------------------------------------------------
(***************************************************************************)
(* The inductive invariant the proofs in BuddyProofs use                   *)
(***************************************************************************)

(* Inside a block only the first frame has a status of its own.            *)
Shape ==
    /\ \A b \in Frames : status[b] = ALLOCATED_FRAME => allocated_order[b] \in AllOrders
    /\ \A b \in Frames : Starts(b) => b + Size[OrderOf(b)] <= TotalFrame
    /\ \A b, f \in Frames :
          Starts(b) /\ b < f /\ f < b + Size[OrderOf(b)] => status[f] = BELONGED_FRAME

(* What is known at each value of pc.                                      *)
Stage ==
    /\ pc = "reserve" => \A b \in Frames : ~Starts(b)
    /\ pc # "reserve" => region = Len(Regions)
    /\ pc = "init" =>
          /\ \A b \in Frames : b >= scan => ~Starts(b)
          /\ \A b \in Frames : Starts(b) =>
                status[b] \in AllOrders /\ b + Size[status[b]] <= scan
    /\ pc \in {"split", "merge"} => blk \in Frames /\ status[blk] \in AllOrders
    /\ pc = "split" => want <= ord

(* A frame memory_reserve has marked stays marked.                         *)
StillReserved ==
    \A i \in 1 .. region : \A f \in ReservedBy(Regions[i]) : status[f] = RESERVED_FRAME

IndInv ==
    /\ TypeOK /\ Stage /\ Shape /\ LinksAgree /\ NoFrameLost /\ StillReserved

(* Why no buddies are left: the boot walk forms no block that could be     *)
(* larger, and while a block is split it alone gives halves of the orders  *)
(* below its own, of which there was no free block.                        *)
MergeInv ==
    /\ pc = "init" =>
          \A b \in Frames : Free(b) /\ status[b] < MaxOrder => ~Fits(b, status[b] + 1)
    /\ pc = "split" => \A b \in Frames : Free(b) => status[b] < want \/ ord <= status[b]
    /\ pc \notin {"reserve", "init"} => NoBuddies
=============================================================================
