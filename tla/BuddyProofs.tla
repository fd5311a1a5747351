---------------------------- MODULE BuddyProofs -----------------------------
(***************************************************************************)
(* Proofs about Buddy for every memory size, every MaxOrder and every list *)
(* of reserved ranges.  The invariant to prove (no two blocks overlap) is  *)
(* not inductive: the block in hand of a running call is on no list and    *)
(* its descriptor still holds the old order, so IndInv also says which     *)
(* frames are inside a block (Shape), what each stage of a call knows      *)
(* (Stage), and that the lists' pointers agree (LinksAgree), which is what *)
(* tells the merge loop that the buddy it unlinks is a free block of the   *)
(* same order.  One lemma per action shows that IndInv is preserved.       *)
(*                                                                         *)
(* That the lists hold all free blocks is proved from IndInv and Chains:   *)
(* each list is a numbering of its blocks that next follows.  It is what   *)
(* tells that no free block has an order between the one asked for and the *)
(* one that is split, and so that no buddies are left unmerged (MergeInv). *)
(***************************************************************************)
EXTENDS Buddy, TLAPS, FiniteSetTheorems, WellFoundedInduction

(* A block of any order has at least one frame.                            *)
LEMMA SizePositive == \A k \in AllOrders : Size[k] \in Nat /\ Size[k] >= 1
  BY SizeAssumption DEF AllOrders

(* The two bounds alone: leaves that need arithmetic cite this instead of  *)
(* the assumptions, which hold sets the solver does not need.              *)
LEMMA Naturals == TotalFrame \in Nat /\ MaxOrder \in Nat
  BY SizeAssumption, MemoryAssumption

(* The buddy of a block (block_index ^ (1 << order)) is the block of the   *)
(* same order just before it or just after it, and never below frame 0.    *)
LEMMA BuddyRange ==
  ASSUME NEW b \in Frames, NEW k \in AllOrders, k < MaxOrder
  PROVE  /\ BuddyOf(b, k) \in Nat
         /\ BuddyOf(b, k) = b + Size[k] \/ BuddyOf(b, k) = b - Size[k]
<1>1. k + 1 \in AllOrders /\ Size[k] \in Nat /\ Size[k + 1] = 2 * Size[k] /\ Size[k] >= 1
  BY SizeAssumption DEF AllOrders
<1>2. b \in Nat
  BY Naturals DEF Frames
<1>3. b % Size[k + 1] <= b
  BY <1>1, <1>2
<1>4. b % Size[k + 1] \in Nat
  BY <1>1, <1>2
<1>. QED
  BY <1>1, <1>2, <1>3, <1>4 DEF BuddyOf

USE DEF Frames, AllOrders, Links, Statuses, BELONGED_FRAME, ALLOCATED_FRAME,
        RESERVED_FRAME, Failed

(* The order of every block, in whichever of the three places the code     *)
(* keeps it at the moment, is one that exists.                             *)
LEMMA OrderRange ==
  ASSUME TypeOK, Shape, Stage, NEW b \in Frames, Starts(b)
  PROVE  OrderOf(b) \in AllOrders /\ Size[OrderOf(b)] \in Nat /\ Size[OrderOf(b)] >= 1
<1>1. OrderOf(b) \in AllOrders
  BY DEF TypeOK, Shape, Starts, OrderOf
<1>. QED
  BY <1>1, SizePositive

(* Of two blocks the first ends before the second starts: only the first   *)
(* frame of a block has a status of its own.                               *)
LEMMA Apart ==
  ASSUME TypeOK, Shape, Stage,
         NEW b \in Frames, NEW c \in Frames, Starts(b), Starts(c), b < c
  PROVE  b + Size[OrderOf(b)] <= c
<1>1. Size[OrderOf(b)] \in Nat /\ b \in Int /\ c \in Int
  BY OrderRange, Naturals
<1>2. ~(c < b + Size[OrderOf(b)])
  BY DEF Shape, Starts
<1>. QED
  BY <1>1, <1>2

(* The state mem_init leaves before the first memory_reserve.              *)
LEMMA InitInv == Init => IndInv
<1>. SUFFICES ASSUME Init PROVE IndInv
  OBVIOUS
<1>1. TypeOK
  BY SizeAssumption, MemoryAssumption DEF Init, TypeOK
<1>2. \A b \in Frames : ~Starts(b)
  BY DEF Init, Starts
<1>3. Stage
  BY <1>2 DEF Init, Stage
<1>4. Shape
  BY <1>2 DEF Init, Shape
<1>5. LinksAgree
  BY <1>2 DEF Init, LinksAgree, Free
<1>6. NoFrameLost
  BY DEF Init, NoFrameLost, Passed
<1>7. StillReserved
  BY DEF Init, StillReserved
<1>. QED
  BY <1>1, <1>3, <1>4, <1>5, <1>6, <1>7 DEF IndInv

(* Pushing a block that is on no list (the tail of buddy_init's loop, of a *)
(* split and of buddy_free) keeps the pointers of every list in agreement. *)
LEMMA PushLinks ==
  ASSUME TypeOK, LinksAgree, NEW u \in Frames, NEW k \in AllOrders, ~Free(u),
         next' = PushNext(u, k), prev' = PushPrev(u, k), free_lists' = PushHead(u, k),
         \A b \in Frames : Free(b)' <=> b = u \/ Free(b),
         status'[u] = k, \A b \in Frames : b # u => status'[b] = status[b]
  PROVE  LinksAgree'
<1>1. /\ next \in [Frames -> Links] /\ prev \in [Frames -> Links]
      /\ free_lists \in [AllOrders -> Links]
  BY DEF TypeOK
<1>2. BUDDY_NULL \notin Frames
  BY MemoryAssumption
<1>3. free_lists[k] # BUDDY_NULL =>
        /\ free_lists[k] \in Frames /\ Free(free_lists[k]) /\ free_lists[k] # u
        /\ status[free_lists[k]] = k /\ prev[free_lists[k]] = BUDDY_NULL
  BY <1>1 DEF LinksAgree
<1>4. /\ next'[u] = free_lists[k] /\ prev'[u] = BUDDY_NULL
      /\ free_lists'[k] = u /\ \A j \in AllOrders : j # k => free_lists'[j] = free_lists[j]
      /\ \A b \in Frames : b # u => next'[b] = next[b]
      /\ \A b \in Frames : b # u /\ b # free_lists[k] => prev'[b] = prev[b]
      /\ free_lists[k] # BUDDY_NULL => prev'[free_lists[k]] = u
  BY <1>1, <1>3 DEF PushNext, PushPrev, PushHead
<1>5. ASSUME NEW j \in AllOrders, free_lists'[j] # BUDDY_NULL
      PROVE  (Free(free_lists[j]) /\ status[free_lists[j]] = j /\ prev[free_lists[j]] = BUDDY_NULL)'
  BY <1>1, <1>2, <1>3, <1>4, <1>5 DEF LinksAgree
<1>6. ASSUME NEW b \in Frames, Free(b)'
      PROVE  /\ prev'[b] = BUDDY_NULL => free_lists'[status'[b]] = b
             /\ prev'[b] # BUDDY_NULL =>
                  (Free(prev[b]) /\ status[prev[b]] = status[b] /\ next[prev[b]] = b)'
             /\ next'[b] # BUDDY_NULL =>
                  (Free(next[b]) /\ status[next[b]] = status[b] /\ prev[next[b]] = b)'
  <2>1. CASE b = u
    BY <1>1, <1>2, <1>3, <1>4, <2>1
  <2>2. CASE b # u /\ b = free_lists[k]
    BY <1>1, <1>2, <1>3, <1>4, <1>6, <2>2 DEF LinksAgree
  <2>3. CASE b # u /\ b # free_lists[k]
    <3>1. Free(b) /\ status'[b] = status[b] /\ prev'[b] = prev[b] /\ next'[b] = next[b]
      BY <1>4, <1>6, <2>3
    <3>2. status[b] \in AllOrders
      BY <3>1 DEF TypeOK, Free, Starts
    <3>3. prev[b] = BUDDY_NULL => free_lists'[status'[b]] = b
      BY <1>4, <2>3, <3>1, <3>2 DEF LinksAgree, IsHead
    <3>4. ASSUME prev[b] # BUDDY_NULL
          PROVE  (Free(prev[b]) /\ status[prev[b]] = status[b] /\ next[prev[b]] = b)'
      BY <1>1, <1>4, <3>1, <3>4 DEF LinksAgree
    <3>5. ASSUME next[b] # BUDDY_NULL
          PROVE  (Free(next[b]) /\ status[next[b]] = status[b] /\ prev[next[b]] = b)'
      BY <1>1, <1>2, <1>3, <1>4, <3>1, <3>5 DEF LinksAgree
    <3>. QED
      BY <3>1, <3>3, <3>4, <3>5
  <2>. QED
    BY <2>1, <2>2, <2>3
<1>. QED
  BY <1>5, <1>6 DEF LinksAgree, IsHead

(* A step that changes no status, no order and not the block in hand       *)
(* leaves every block where it was.                                        *)
LEMMA SameBlocks ==
  ASSUME Shape, \A b \in Frames : Starts(b)' <=> Starts(b),
         \A b \in Frames : status[b] = BELONGED_FRAME => status'[b] = BELONGED_FRAME,
         \A b \in Frames : Starts(b) => OrderOf(b)' = OrderOf(b),
         \A b \in Frames : status'[b] = ALLOCATED_FRAME => allocated_order'[b] \in AllOrders
  PROVE  Shape'
<1>1. ASSUME NEW b \in Frames, Starts(b)'
      PROVE  /\ b + Size[OrderOf(b)'] <= TotalFrame
             /\ \A f \in Frames : b < f /\ f < b + Size[OrderOf(b)'] => status'[f] = BELONGED_FRAME
  <2>1. Starts(b) /\ OrderOf(b)' = OrderOf(b)
    BY <1>1
  <2>2. b + Size[OrderOf(b)] <= TotalFrame
    BY <2>1 DEF Shape
  <2>3. \A f \in Frames : b < f /\ f < b + Size[OrderOf(b)] => status[f] = BELONGED_FRAME
    BY <2>1 DEF Shape
  <2>. QED
    BY <2>1, <2>2, <2>3
<1>. QED
  BY <1>1 DEF Shape

(* Such a step loses no frame.                                             *)
LEMMA SameCover ==
  ASSUME NoFrameLost, pc # "reserve", pc # "init", pc' # "init",
         \A b \in Frames : Starts(b) => Starts(b)',
         \A b \in Frames : Starts(b) => OrderOf(b)' = OrderOf(b),
         \A b \in Frames : status[b] = RESERVED_FRAME => status'[b] = RESERVED_FRAME
  PROVE  NoFrameLost'
<1>. SUFFICES ASSUME NEW f \in Frames, status'[f] # RESERVED_FRAME
              PROVE  \E b \in Frames : Starts(b)' /\ f \in b .. b + Size[OrderOf(b)'] - 1
  BY DEF NoFrameLost, Passed, Block
<1>1. PICK b \in Frames : Starts(b) /\ f \in b .. b + Size[OrderOf(b)] - 1
  BY DEF NoFrameLost, Passed, Block
<1>. QED
  BY <1>1

(* Such a step keeps every reserved frame reserved.                        *)
LEMMA SameReserved ==
  ASSUME StillReserved, region' = region,
         \A f \in Frames : status[f] = RESERVED_FRAME => status'[f] = RESERVED_FRAME
  PROVE  StillReserved'
  BY DEF StillReserved, ReservedBy

(* Such a step that leaves the lists alone keeps their pointers in         *)
(* agreement.                                                              *)
LEMMA SameLinks ==
  ASSUME TypeOK, LinksAgree, free_lists' = free_lists,
         \A b \in Frames : Free(b)' <=> Free(b),
         \A b \in Frames : Free(b) =>
             next'[b] = next[b] /\ prev'[b] = prev[b] /\ status'[b] = status[b]
  PROVE  LinksAgree'
<1>1. /\ next \in [Frames -> Links] /\ prev \in [Frames -> Links]
      /\ free_lists \in [AllOrders -> Links]
  BY DEF TypeOK
<1>2. ASSUME NEW j \in AllOrders, free_lists'[j] # BUDDY_NULL
      PROVE  (Free(free_lists[j]) /\ status[free_lists[j]] = j /\ prev[free_lists[j]] = BUDDY_NULL)'
  BY <1>1, <1>2 DEF LinksAgree
<1>3. ASSUME NEW b \in Frames, Free(b)'
      PROVE  /\ prev'[b] = BUDDY_NULL => free_lists'[status'[b]] = b
             /\ prev'[b] # BUDDY_NULL =>
                  (Free(prev[b]) /\ status[prev[b]] = status[b] /\ next[prev[b]] = b)'
             /\ next'[b] # BUDDY_NULL =>
                  (Free(next[b]) /\ status[next[b]] = status[b] /\ prev[next[b]] = b)'
  BY <1>1, <1>3 DEF LinksAgree, IsHead
<1>. QED
  BY <1>2, <1>3 DEF LinksAgree, IsHead

(* Unlinking a free buddy, whether it is the head of its list or inside it *)
(* (the two branches of buddy_free), keeps the pointers of the other       *)
(* blocks in agreement.                                                    *)
LEMMA UnlinkLinks ==
  ASSUME TypeOK, LinksAgree, NEW u \in Frames, NEW k \in AllOrders, Free(u), status[u] = k,
         free_lists' = UnlinkHead(u, k),
         \A b \in Frames : Free(b)' <=> b # u /\ Free(b),
         \A b \in Frames : b # u /\ Free(b) =>
             /\ next'[b] = UnlinkNext(u, k)[b] /\ prev'[b] = UnlinkPrev(u, k)[b]
             /\ status'[b] = status[b]
  PROVE  LinksAgree'
<1>1. /\ next \in [Frames -> Links] /\ prev \in [Frames -> Links]
      /\ free_lists \in [AllOrders -> Links]
  BY DEF TypeOK
<1>2. BUDDY_NULL \notin Frames
  BY MemoryAssumption
<1>3. prev[u] = BUDDY_NULL <=> free_lists[k] = u
  BY <1>1, <1>2 DEF LinksAgree, IsHead
<1>4. ASSUME NEW j \in AllOrders, free_lists'[j] # BUDDY_NULL
      PROVE  (Free(free_lists[j]) /\ status[free_lists[j]] = j /\ prev[free_lists[j]] = BUDDY_NULL)'
  <2>1. CASE j = k /\ free_lists[k] = u
    <3>1. free_lists'[j] = next[u]
      BY <1>1, <2>1 DEF UnlinkHead, IsHead
    <3>2. next[u] \in Frames /\ Free(next[u]) /\ status[next[u]] = k /\ prev[next[u]] = u
      BY <1>1, <1>4, <3>1 DEF LinksAgree
    <3>3. next[u] # u
      BY <1>2, <1>3, <2>1, <3>2
    <3>4. UnlinkPrev(u, k)[next[u]] = BUDDY_NULL
      BY <2>1, <3>2 DEF UnlinkPrev, IsHead
    <3>. QED
      BY <2>1, <3>1, <3>2, <3>3, <3>4
  <2>2. CASE ~(j = k /\ free_lists[k] = u)
    <3>1. free_lists'[j] = free_lists[j]
      BY <1>1, <2>2 DEF UnlinkHead, IsHead
    <3>2. /\ free_lists[j] \in Frames /\ Free(free_lists[j]) /\ status[free_lists[j]] = j
          /\ prev[free_lists[j]] = BUDDY_NULL
      BY <1>1, <1>4, <3>1 DEF LinksAgree
    <3>3. free_lists[j] # u
      BY <2>2, <3>2
    <3>4. free_lists[j] # next[u]
      BY <1>2, <3>2 DEF LinksAgree
    <3>5. UnlinkPrev(u, k)[free_lists[j]] = BUDDY_NULL
      BY <3>2, <3>4 DEF UnlinkPrev
    <3>. QED
      BY <3>1, <3>2, <3>3, <3>5
  <2>. QED
    BY <2>1, <2>2
<1>5. ASSUME NEW b \in Frames, Free(b)'
      PROVE  /\ prev'[b] = BUDDY_NULL => free_lists'[status'[b]] = b
             /\ prev'[b] # BUDDY_NULL =>
                  (Free(prev[b]) /\ status[prev[b]] = status[b] /\ next[prev[b]] = b)'
             /\ next'[b] # BUDDY_NULL =>
                  (Free(next[b]) /\ status[next[b]] = status[b] /\ prev[next[b]] = b)'
  <2>. DEFINE pu == prev[u]  nu == next[u]
  <2>1. /\ b # u /\ Free(b) /\ status'[b] = status[b] /\ status[b] \in AllOrders
        /\ next'[b] = UnlinkNext(u, k)[b] /\ prev'[b] = UnlinkPrev(u, k)[b]
    BY <1>5 DEF TypeOK, Free, Starts
  <2>2. /\ pu # BUDDY_NULL => pu \in Frames /\ Free(pu) /\ status[pu] = k /\ next[pu] = u
        /\ nu # BUDDY_NULL => nu \in Frames /\ Free(nu) /\ status[nu] = k /\ prev[nu] = u
    BY <1>1 DEF LinksAgree
  <2>3. /\ next'[b] = IF b = pu THEN nu ELSE next[b]
        /\ prev'[b] = IF b = nu THEN pu ELSE prev[b]
    BY <1>2, <1>3, <2>1, <2>2 DEF UnlinkNext, UnlinkPrev, IsHead
  <2>4. b = nu \/ b = pu => pu # u /\ nu # u
    BY <1>1, <1>2, <2>1, <2>2
  <2>5. prev'[b] = BUDDY_NULL => free_lists'[status'[b]] = b
    <3>1. CASE b = nu
      BY <1>1, <1>2, <1>3, <2>1, <2>2, <2>3, <3>1 DEF UnlinkHead, IsHead
    <3>2. CASE b # nu
      BY <1>1, <2>1, <2>3, <3>2 DEF LinksAgree, IsHead, UnlinkHead
    <3>. QED
      BY <3>1, <3>2
  <2>6. ASSUME prev'[b] # BUDDY_NULL
        PROVE  (Free(prev[b]) /\ status[prev[b]] = status[b] /\ next[prev[b]] = b)'
    <3>1. CASE b = nu
      <4>1. /\ prev'[b] = pu /\ pu \in Frames /\ Free(pu) /\ pu # u
            /\ status'[pu] = status[pu] /\ next'[pu] = nu /\ status[pu] = k /\ status[b] = k
        BY <1>2, <1>3, <2>2, <2>3, <2>4, <2>6, <3>1 DEF UnlinkNext, IsHead
      <4>. QED
        BY <2>1, <3>1, <4>1
    <3>2. CASE b # nu
      <4>1. /\ prev'[b] = prev[b] /\ prev[b] \in Frames /\ Free(prev[b]) /\ next[prev[b]] = b
            /\ status[prev[b]] = status[b]
        BY <1>1, <2>1, <2>3, <2>6, <3>2 DEF LinksAgree
      <4>2. prev[b] # u /\ prev[b] # pu
        BY <2>1, <2>2, <2>6, <3>2, <4>1
      <4>3. next'[prev[b]] = b /\ status'[prev[b]] = status[prev[b]]
        BY <4>1, <4>2 DEF UnlinkNext
      <4>. QED
        BY <2>1, <4>1, <4>2, <4>3
    <3>. QED
      BY <3>1, <3>2
  <2>7. ASSUME next'[b] # BUDDY_NULL
        PROVE  (Free(next[b]) /\ status[next[b]] = status[b] /\ prev[next[b]] = b)'
    <3>1. CASE b = pu
      <4>1. /\ next'[b] = nu /\ nu \in Frames /\ Free(nu) /\ nu # u
            /\ status'[nu] = status[nu] /\ prev'[nu] = pu /\ status[nu] = k /\ status[b] = k
        BY <1>2, <1>3, <2>2, <2>3, <2>4, <2>7, <3>1 DEF UnlinkPrev, IsHead
      <4>. QED
        BY <2>1, <3>1, <4>1
    <3>2. CASE b # pu
      <4>1. /\ next'[b] = next[b] /\ next[b] \in Frames /\ Free(next[b]) /\ prev[next[b]] = b
            /\ status[next[b]] = status[b]
        BY <1>1, <2>1, <2>3, <2>7, <3>2 DEF LinksAgree
      <4>2. next[b] # u /\ next[b] # nu
        BY <2>1, <2>2, <2>7, <3>2, <4>1
      <4>3. prev'[next[b]] = b /\ status'[next[b]] = status[next[b]]
        BY <4>1, <4>2 DEF UnlinkPrev
      <4>. QED
        BY <2>1, <4>1, <4>2, <4>3
    <3>. QED
      BY <3>1, <3>2
  <2>. QED
    BY <2>5, <2>6, <2>7
<1>. QED
  BY <1>4, <1>5 DEF LinksAgree, IsHead

(* A turn of buddy_allocate's split loop: the upper half becomes a free    *)
(* block, the lower half stays in hand.                                    *)
LEMMA SplitStep == IndInv /\ Split => IndInv'
<1>. SUFFICES ASSUME IndInv, Split, NEW k, k = ord - 1, NEW u, u = UpperHalf, NEW h, h = blk
              PROVE  IndInv'
  OBVIOUS
<1>. USE DEF frames, boot, call
<1>1. /\ k \in AllOrders /\ ord \in AllOrders /\ ord = k + 1
      /\ Size[ord] = Size[k] + Size[k] /\ Size[k] \in Nat /\ Size[k] >= 1
  BY SizeAssumption DEF IndInv, TypeOK, Split
<1>2. h \in Frames /\ pc = "split" /\ InHand(h) /\ Starts(h) /\ OrderOf(h) = ord
  BY DEF IndInv, Stage, Split, InHand, Starts, OrderOf
<1>3. u \in Frames /\ h < u /\ u = h + Size[k] /\ status[u] = BELONGED_FRAME
  <2>1. u = h + Size[k]
    BY DEF UpperHalf
  <2>2. h + Size[ord] <= TotalFrame
    BY <1>2 DEF IndInv, Shape
  <2>3. u \in Frames /\ h < u /\ u < h + Size[ord]
    BY <1>1, <1>2, <2>1, <2>2, Naturals
  <2>4. status[u] = BELONGED_FRAME
    BY <1>2, <2>3 DEF IndInv, Shape
  <2>. QED
    BY <2>1, <2>3, <2>4
<1>4. TypeOK'
  BY <1>1, <1>2, <1>3 DEF IndInv, TypeOK, Split, PushNext, PushPrev, PushHead
<1>5. Stage'
  BY <1>1, <1>2, <1>3 DEF IndInv, TypeOK, Stage, Split
<1>6. status' = [status EXCEPT ![u] = k] /\ pc' = pc /\ blk' = h /\ blk = h /\ ord' = k
      /\ allocated_order' = allocated_order /\ status \in [Frames -> Statuses]
  BY <1>1 DEF IndInv, TypeOK, Split
<1>7. /\ \A b \in Frames : b # u => Starts(b)' = Starts(b)
      /\ Starts(u)' /\ ~Starts(u)
      /\ \A b \in Frames : b # u /\ b # h => OrderOf(b)' = OrderOf(b)
      /\ OrderOf(u)' = k /\ OrderOf(h)' = k
  <2>1. \A b \in Frames : b # u => status'[b] = status[b]
    BY <1>6
  <2>2. status'[u] = k /\ pc' = "split" /\ u # h
    BY <1>2, <1>3, <1>6, Naturals
  <2>3. \A b \in Frames : b # u => Starts(b)' = Starts(b)
    BY <2>1 DEF Starts
  <2>4. Starts(u)' /\ ~Starts(u)
    BY <1>1, <1>3, <2>2, Naturals DEF Starts
  <2>5. \A b \in Frames : b # u /\ b # h => OrderOf(b)' = OrderOf(b)
    BY <1>6, <2>1 DEF OrderOf, InHand
  <2>6. OrderOf(u)' = k
    BY <1>1, <1>6, <2>2, Naturals DEF OrderOf, InHand
  <2>7. OrderOf(h)' = k
    BY <1>6, <2>2 DEF OrderOf, InHand
  <2>. QED
    BY <2>3, <2>4, <2>5, <2>6, <2>7
<1>8. TypeOK /\ Shape /\ Stage /\ LinksAgree /\ NoFrameLost
  BY DEF IndInv
<1>9. ASSUME NEW b \in Frames, Starts(b), b # h
      PROVE  b # u /\ (u < b \/ b + Size[OrderOf(b)] <= u)
  <2>1. b < h => b + Size[OrderOf(b)] <= h
    BY <1>2, <1>8, <1>9, Apart
  <2>2. h < b => h + Size[ord] <= b
    BY <1>2, <1>8, <1>9, Apart
  <2>3. Size[OrderOf(b)] \in Nat /\ Size[OrderOf(b)] >= 1
    BY <1>8, <1>9, OrderRange
  <2>. QED
    BY <1>1, <1>2, <1>3, <1>9, <2>1, <2>2, <2>3, Naturals
<1>10. Shape'
  <2>1. \A b \in Frames : (status[b] = ALLOCATED_FRAME)' => (allocated_order[b] \in AllOrders)'
    BY <1>1, <1>6, <1>8 DEF Shape
  <2>2. ASSUME NEW b \in Frames, Starts(b)'
        PROVE  /\ b + Size[OrderOf(b)'] <= TotalFrame
               /\ \A f \in Frames : b < f /\ f < b + Size[OrderOf(b)'] => status'[f] = BELONGED_FRAME
    <3>1. CASE b = u
      <4>1. u + Size[k] = h + Size[ord] /\ h + Size[ord] <= TotalFrame
        BY <1>1, <1>2, <1>3, <1>8, Naturals DEF Shape
      <4>2. ASSUME NEW f \in Frames, u < f, f < u + Size[k] PROVE status'[f] = BELONGED_FRAME
        <5>1. h < f /\ f < h + Size[ord] /\ f # u
          BY <1>1, <1>2, <1>3, <4>1, <4>2, Naturals
        <5>. QED
          BY <1>2, <1>6, <1>8, <5>1 DEF Shape
      <4>. QED
        BY <1>7, <3>1, <4>1, <4>2
    <3>2. CASE b = h
      <4>1. h + Size[k] <= TotalFrame
        BY <1>3, Naturals
      <4>2. ASSUME NEW f \in Frames, h < f, f < h + Size[k] PROVE status'[f] = BELONGED_FRAME
        <5>1. h < f /\ f < h + Size[ord] /\ f # u
          BY <1>1, <1>2, <1>3, <4>2, Naturals
        <5>. QED
          BY <1>2, <1>6, <1>8, <5>1 DEF Shape
      <4>. QED
        BY <1>7, <3>2, <4>1, <4>2
    <3>3. CASE b # u /\ b # h
      <4>1. Starts(b) /\ OrderOf(b)' = OrderOf(b)
        BY <1>7, <2>2, <3>3
      <4>2. ASSUME NEW f \in Frames, b < f, f < b + Size[OrderOf(b)] PROVE status'[f] = BELONGED_FRAME
        <5>1. f # u
          BY <1>9, <3>3, <4>1, <4>2, <1>3, Naturals, <1>8, OrderRange
        <5>. QED
          BY <1>6, <1>8, <4>1, <4>2, <5>1 DEF Shape
      <4>. QED
        BY <1>8, <4>1, <4>2 DEF Shape
    <3>. QED
      BY <3>1, <3>2, <3>3
  <2>. QED
    BY <2>1, <2>2 DEF Shape
<1>11. LinksAgree'
  <2>1. \A b \in Frames : Free(b)' <=> b = u \/ Free(b)
    BY <1>1, <1>2, <1>3, <1>6, <1>7 DEF Free, InHand
  <2>. QED
    BY <1>1, <1>3, <1>6, <1>7, <1>8, <2>1, PushLinks DEF Split, Free
<1>12. NoFrameLost'
  <2>. SUFFICES ASSUME NEW f \in Frames, status'[f] # RESERVED_FRAME
                PROVE  \E b \in Frames : Starts(b)' /\ f \in b .. b + Size[OrderOf(b)'] - 1
    BY <1>2, <1>6 DEF NoFrameLost, Passed, Block
  <2>1. status[f] # RESERVED_FRAME
    BY <1>3, <1>6
  <2>2. PICK b \in Frames : Starts(b) /\ f \in b .. b + Size[OrderOf(b)] - 1
    BY <1>2, <1>8, <2>1 DEF NoFrameLost, Passed, Block
  <2>3. CASE b # h
    BY <1>7, <1>9, <2>2, <2>3
  <2>4. CASE b = h /\ f < u
    BY <1>1, <1>2, <1>3, <1>7, <2>2, <2>4, Naturals
  <2>5. CASE b = h /\ u <= f
    BY <1>1, <1>2, <1>3, <1>7, <2>2, <2>5, Naturals
  <2>. QED
    BY <1>3, <2>3, <2>4, <2>5, Naturals
<1>13. StillReserved'
  BY <1>1, <1>2, <1>3 DEF IndInv, TypeOK, Split, StillReserved, ReservedBy
<1>. QED
  BY <1>4, <1>5, <1>10, <1>11, <1>12, <1>13 DEF IndInv

(* memory_reserve, before any block exists.                                *)
LEMMA MemoryReserveStep == IndInv /\ MemoryReserve => IndInv'
<1>. SUFFICES ASSUME IndInv, MemoryReserve PROVE IndInv'
  OBVIOUS
<1>1. /\ pc = "reserve" /\ pc' = "reserve" /\ free_lists' = free_lists
      /\ region' = region + 1 /\ region \in Nat
      /\ status' = [f \in Frames |-> IF f \in ReservedBy(Regions[region + 1])
                                     THEN RESERVED_FRAME ELSE status[f]]
      /\ TypeOK /\ Stage /\ LinksAgree /\ StillReserved
  BY DEF MemoryReserve, IndInv, TypeOK
<1>2. TypeOK'
  BY <1>1, MemoryAssumption DEF MemoryReserve, TypeOK
<1>3. \A b \in Frames : ~Starts(b) /\ ~Starts(b)'
  BY <1>1 DEF Stage, Starts
<1>4. Stage'
  BY <1>1, <1>3 DEF Stage
<1>5. \A b \in Frames : (status[b] # ALLOCATED_FRAME)'
  BY <1>3 DEF Starts
<1>6. Shape'
  BY <1>3, <1>5 DEF Shape
<1>7. LinksAgree'
  BY <1>1, <1>3 DEF LinksAgree, Free, TypeOK
<1>8. NoFrameLost'
  BY <1>1 DEF NoFrameLost, Passed
<1>9. StillReserved'
  <2>1. \A i \in 1 .. region + 1 : i \in 1 .. region \/ i = region + 1
    BY <1>1
  <2>. QED
    BY <1>1, <2>1 DEF StillReserved, ReservedBy
<1>. QED
  BY <1>2, <1>4, <1>6, <1>7, <1>8, <1>9 DEF IndInv

(* buddy_init empties the lists and starts its walk.                       *)
LEMMA BuddyInitStartStep == IndInv /\ BuddyInitStart => IndInv'
<1>. SUFFICES ASSUME IndInv, BuddyInitStart PROVE IndInv'
  OBVIOUS
<1>. USE DEF boot, call
<1>1. /\ pc = "reserve" /\ pc' = "init" /\ scan' = 0
      /\ free_lists' = [k \in AllOrders |-> BUDDY_NULL]
      /\ region' = region /\ region = Len(Regions)
      /\ TypeOK /\ Stage /\ StillReserved
  BY DEF BuddyInitStart, IndInv, Stage
<1>2. TypeOK'
  BY <1>1, Naturals DEF BuddyInitStart, TypeOK
<1>3. \A b \in Frames : status'[b] = status[b]
  BY <1>1 DEF BuddyInitStart, Stage, Starts, TypeOK
<1>4. \A b \in Frames : ~Starts(b)'
  BY <1>1, <1>3 DEF Stage, Starts
<1>5. Stage'
  BY <1>1, <1>4 DEF Stage
<1>6. Shape'
  BY <1>4 DEF Shape, Starts
<1>7. LinksAgree'
  BY <1>1, <1>4 DEF LinksAgree, Free
<1>8. NoFrameLost'
  BY <1>1 DEF NoFrameLost, Passed
<1>9. StillReserved'
  BY <1>1, <1>3 DEF StillReserved, ReservedBy
<1>. QED
  BY <1>2, <1>5, <1>6, <1>7, <1>8, <1>9 DEF IndInv

(* buddy_init's walk steps over a reserved frame.                          *)
LEMMA InitSkipStep == IndInv /\ InitSkip => IndInv'
<1>. SUFFICES ASSUME IndInv, InitSkip PROVE IndInv'
  OBVIOUS
<1>. USE DEF frames, call
<1>1. /\ pc = "init" /\ pc' = pc /\ scan < TotalFrame /\ scan' = scan + 1
      /\ scan \in Frames /\ status[scan] \in {ALLOCATED_FRAME, RESERVED_FRAME}
      /\ status' = status /\ allocated_order' = allocated_order /\ free_lists' = free_lists
      /\ next' = next /\ prev' = prev /\ region' = region /\ blk' = blk /\ ord' = ord
      /\ TypeOK /\ Stage /\ Shape /\ LinksAgree /\ NoFrameLost /\ StillReserved
  BY Naturals DEF InitSkip, IndInv, TypeOK
<1>2. TypeOK'
  BY <1>1, Naturals DEF InitSkip, TypeOK
<1>3. \A b \in Frames : Starts(b)' = Starts(b) /\ OrderOf(b)' = OrderOf(b) /\ Free(b)' = Free(b)
  BY <1>1 DEF Starts, OrderOf, InHand, Free
<1>4. status[scan] = RESERVED_FRAME
  BY <1>1, Naturals DEF Stage, Starts
<1>5. Stage'
  <2>1. \A b \in Frames : Starts(b) => status[b] \in AllOrders /\ b + Size[status[b]] <= scan
    BY <1>1 DEF Stage
  <2>2. ASSUME NEW b \in Frames, Starts(b)
        PROVE  status[b] \in AllOrders /\ b + Size[status[b]] <= scan + 1
    BY <1>1, <2>1, <2>2, SizePositive, Naturals
  <2>. QED
    BY <1>1, <1>3, <2>2, Naturals DEF Stage
<1>6. Shape'
  BY <1>1, <1>3 DEF Shape
<1>7. LinksAgree'
  BY <1>1, <1>3, SameLinks
<1>8. NoFrameLost'
  <2>1. \A f \in 0 .. scan : f \in 0 .. scan - 1 \/ f = scan
    BY <1>1, Naturals
  <2>. SUFFICES ASSUME NEW f \in 0 .. scan, status[f] # RESERVED_FRAME
                PROVE  \E b \in Frames : Starts(b) /\ f \in b .. b + Size[OrderOf(b)] - 1
    BY <1>1, <1>3, Naturals DEF NoFrameLost, Passed, Block
  <2>. QED
    BY <1>1, <1>4, <2>1 DEF NoFrameLost, Passed, Block
<1>9. StillReserved'
  BY <1>1, SameReserved
<1>. QED
  BY <1>2, <1>5, <1>6, <1>7, <1>8, <1>9 DEF IndInv

(* buddy_init's walk forms the largest block that fits at its position and *)
(* pushes it.                                                              *)
LEMMA InitBlockStep == ASSUME NEW o \in AllOrders PROVE IndInv /\ InitBlock(o) => IndInv'
<1>. SUFFICES ASSUME IndInv, InitBlock(o), NEW u, u = scan PROVE IndInv'
  OBVIOUS
<1>. USE DEF call
<1>1. /\ pc = "init" /\ pc' = pc /\ u \in Frames /\ scan = u /\ scan' = u + Size[o]
      /\ status' = [status EXCEPT ![u] = o] /\ allocated_order' = allocated_order
      /\ next' = PushNext(u, o) /\ prev' = PushPrev(u, o) /\ free_lists' = PushHead(u, o)
      /\ region' = region /\ blk' = blk /\ ord' = ord /\ Fits(u, o)
      /\ TypeOK /\ Stage /\ Shape /\ LinksAgree /\ NoFrameLost /\ StillReserved
  BY Naturals DEF InitBlock, IndInv, TypeOK
<1>2. Size[o] \in Nat /\ Size[o] >= 1 /\ u + Size[o] <= TotalFrame
  BY <1>1, SizePositive DEF Fits
<1>3. \A f \in Frames : u <= f /\ f < u + Size[o] => status[f] = BELONGED_FRAME /\ ~Starts(f)
  <2>1. \A f \in Frames : u <= f => ~Starts(f)
    BY <1>1 DEF Stage
  <2>2. \A f \in u .. u + Size[o] - 1 : status[f] # RESERVED_FRAME
    BY <1>1 DEF Fits
  <2>. QED
    BY <1>1, <1>2, <2>1, <2>2, Naturals DEF Starts
<1>4. status[u] = BELONGED_FRAME /\ ~Starts(u)
  BY <1>1, <1>2, <1>3, Naturals
<1>5. TypeOK'
  <2>1. scan' \in 0 .. TotalFrame
    BY <1>1, <1>2, Naturals
  <2>2. free_lists \in [AllOrders -> Links] /\ next \in [Frames -> Links] /\ prev \in [Frames -> Links]
    BY <1>1 DEF TypeOK
  <2>3. PushNext(u, o) \in [Frames -> Links] /\ PushHead(u, o) \in [AllOrders -> Links]
    BY <1>1, <2>2 DEF PushNext, PushHead
  <2>4. PushPrev(u, o) \in [Frames -> Links]
    BY <1>1, <2>2 DEF PushPrev
  <2>5. status' \in [Frames -> Statuses]
    BY <1>1 DEF TypeOK
  <2>. QED
    BY <1>1, <2>1, <2>3, <2>4, <2>5 DEF InitBlock, TypeOK
<1>6. /\ \A b \in Frames : b # u => status'[b] = status[b]
      /\ status'[u] = o
  BY <1>1 DEF TypeOK
<1>7. \A b \in Frames : Starts(b)' <=> b = u \/ Starts(b)
  BY <1>6, Naturals DEF Starts
<1>8. \A b \in Frames : Starts(b) => b # u /\ OrderOf(b)' = OrderOf(b)
  BY <1>1, <1>4, <1>6 DEF OrderOf, InHand
<1>9. OrderOf(u)' = o
  BY <1>1, <1>6, Naturals DEF OrderOf, InHand
<1>10. \A b \in Frames : Starts(b) =>
          status[b] \in AllOrders /\ OrderOf(b) = status[b] /\ b + Size[OrderOf(b)] <= u
  BY <1>1, Naturals DEF Stage, OrderOf, InHand
<1>11. Stage'
  <2>1. ASSUME NEW b \in Frames, b >= u + Size[o] PROVE ~Starts(b)'
    BY <1>1, <1>2, <1>7, <2>1, Naturals DEF Stage
  <2>2. ASSUME NEW b \in Frames, Starts(b)'
        PROVE  status'[b] \in AllOrders /\ b + Size[status'[b]] <= u + Size[o]
    <3>1. CASE b = u
      BY <1>2, <1>6, <3>1, Naturals
    <3>2. CASE b # u
      <4>1. status[b] \in AllOrders /\ b + Size[status[b]] <= u /\ status'[b] = status[b]
        BY <1>6, <1>7, <1>10, <2>2, <3>2
      <4>2. Size[status[b]] \in Nat
        BY <4>1, SizePositive
      <4>. QED
        BY <1>1, <1>2, <4>1, <4>2, Naturals
    <3>. QED
      BY <3>1, <3>2
  <2>. QED
    BY <1>1, <2>1, <2>2 DEF Stage
<1>12. Shape'
  <2>1. \A b \in Frames : (status[b] = ALLOCATED_FRAME)' => (allocated_order[b] \in AllOrders)'
    BY <1>1, <1>6, Naturals DEF Shape
  <2>2. ASSUME NEW b \in Frames, Starts(b)'
        PROVE  /\ b + Size[OrderOf(b)'] <= TotalFrame
               /\ \A f \in Frames : b < f /\ f < b + Size[OrderOf(b)'] => status'[f] = BELONGED_FRAME
    <3>1. CASE b = u
      BY <1>1, <1>2, <1>3, <1>6, <1>9, <3>1, Naturals
    <3>2. CASE b # u
      <4>1. Starts(b) /\ OrderOf(b)' = OrderOf(b) /\ b + Size[OrderOf(b)] <= u
        BY <1>7, <1>8, <1>10, <2>2, <3>2
      <4>2. Size[OrderOf(b)] \in Nat
        BY <1>1, <4>1, OrderRange
      <4>3. ASSUME NEW f \in Frames, b < f, f < b + Size[OrderOf(b)] PROVE status'[f] = BELONGED_FRAME
        <5>1. f # u
          BY <1>1, <4>1, <4>2, <4>3, Naturals
        <5>2. status[f] = BELONGED_FRAME
          BY <1>1, <4>1, <4>3 DEF Shape
        <5>. QED
          BY <1>6, <5>1, <5>2
      <4>. QED
        BY <1>1, <4>1, <4>3 DEF Shape
    <3>. QED
      BY <3>1, <3>2
  <2>. QED
    BY <2>1, <2>2 DEF Shape
<1>13. LinksAgree'
  <2>1. \A b \in Frames : Free(b)' <=> b = u \/ Free(b)
    BY <1>1, <1>6, <1>7, Naturals DEF Free, InHand
  <2>2. ~Free(u)
    BY <1>4 DEF Free
  <2>. QED
    BY <1>1, <1>6, <2>1, <2>2, PushLinks
<1>14. NoFrameLost'
  <2>. SUFFICES ASSUME NEW f \in 0 .. u + Size[o] - 1, status'[f] # RESERVED_FRAME
                PROVE  \E b \in Frames : Starts(b)' /\ f \in b .. b + Size[OrderOf(b)'] - 1
    <3>1. pc' = "init" /\ scan' - 1 = u + Size[o] - 1
      BY <1>1, <1>2, Naturals
    <3>2. Passed' = 0 .. u + Size[o] - 1
      BY <3>1 DEF Passed
    <3>. QED
      BY <3>2 DEF NoFrameLost, Block
  <2>1. CASE f < u
    <3>1. f \in Frames /\ f # u
      BY <1>1, <1>2, <2>1, Naturals
    <3>2. f \in 0 .. u - 1 /\ status[f] # RESERVED_FRAME
      BY <1>1, <1>2, <1>6, <2>1, <3>1, Naturals
    <3>3. PICK b \in Frames : Starts(b) /\ f \in b .. b + Size[OrderOf(b)] - 1
      BY <1>1, <3>2 DEF NoFrameLost, Passed, Block
    <3>. QED
      BY <1>7, <1>8, <3>3
  <2>2. CASE u <= f
    BY <1>1, <1>2, <1>7, <1>9, <2>2, Naturals
  <2>. QED
    BY <1>1, <1>2, <2>1, <2>2, Naturals
<1>15. StillReserved'
  BY <1>1, <1>4, <1>6, SameReserved
<1>. QED
  BY <1>5, <1>11, <1>12, <1>13, <1>14, <1>15 DEF IndInv

(* buddy_init's walk reaches the end of memory.                            *)
LEMMA InitDoneStep == IndInv /\ InitDone => IndInv'
<1>. SUFFICES ASSUME IndInv, InitDone PROVE IndInv'
  OBVIOUS
<1>. USE DEF frames, boot, call
<1>1. /\ pc = "init" /\ pc' = "idle" /\ scan = TotalFrame
      /\ status' = status /\ allocated_order' = allocated_order /\ free_lists' = free_lists
      /\ next' = next /\ prev' = prev /\ region' = region
      /\ TypeOK /\ Stage /\ Shape /\ LinksAgree /\ NoFrameLost /\ StillReserved
  BY DEF InitDone, IndInv
<1>2. TypeOK'
  BY <1>1 DEF InitDone, TypeOK
<1>3. \A b \in Frames : Starts(b)' = Starts(b) /\ OrderOf(b)' = OrderOf(b) /\ Free(b)' = Free(b)
  BY <1>1 DEF Starts, OrderOf, InHand, Free
<1>4. Stage'
  BY <1>1 DEF Stage
<1>5. Shape'
  BY <1>1, <1>3 DEF Shape
<1>6. LinksAgree'
  BY <1>1, <1>3, SameLinks
<1>7. NoFrameLost'
  BY <1>1, <1>3 DEF NoFrameLost, Passed, Block
<1>8. StillReserved'
  BY <1>1, SameReserved
<1>. QED
  BY <1>2, <1>4, <1>5, <1>6, <1>7, <1>8 DEF IndInv

(* buddy_allocate pops the head of a list: the block goes from the list    *)
(* into the hand of the call.                                              *)
LEMMA AllocTakeStep ==
  ASSUME NEW o \in Orders, NEW i \in AllOrders PROVE IndInv /\ AllocTake(o, i) => IndInv'
<1>. SUFFICES ASSUME IndInv, AllocTake(o, i), NEW h, h = free_lists[i] PROVE IndInv'
  OBVIOUS
<1>. USE DEF boot
<1>1. /\ pc = "idle" /\ pc' = "split" /\ blk' = h /\ ord' = i /\ want' = o /\ o <= i
      /\ status' = status /\ allocated_order' = allocated_order /\ next' = next
      /\ free_lists' = [free_lists EXCEPT ![i] = next[h]]
      /\ prev' = [f \in Frames |-> IF f = next[h] THEN BUDDY_NULL ELSE prev[f]]
      /\ region' = region /\ scan' = scan /\ ret' = ret
      /\ TypeOK /\ Stage /\ Shape /\ LinksAgree /\ NoFrameLost /\ StillReserved
  BY MemoryAssumption DEF AllocTake, IndInv
<1>2. h \in Frames /\ Free(h) /\ status[h] = i /\ prev[h] = BUDDY_NULL
  BY <1>1 DEF AllocTake, TypeOK, LinksAgree
<1>3. o \in AllOrders
  BY <1>1, Naturals, MemoryAssumption
<1>4. TypeOK'
  BY <1>1, <1>2, <1>3 DEF TypeOK
<1>5. Stage'
  BY <1>1, <1>2 DEF Stage
<1>6. \A b \in Frames : Starts(b)' = Starts(b)
  BY <1>1 DEF Starts
<1>7. \A b \in Frames : Starts(b) => OrderOf(b)' = OrderOf(b)
  <2>1. \A b \in Frames : b # h => OrderOf(b)' = OrderOf(b)
    BY <1>1 DEF OrderOf, InHand
  <2>2. OrderOf(h)' = i
    BY <1>1 DEF OrderOf, InHand
  <2>3. OrderOf(h) = i
    BY <1>1, <1>2 DEF OrderOf, InHand, Free
  <2>. QED
    BY <2>1, <2>2, <2>3
<1>8. Shape'
  <2>1. \A b \in Frames : status'[b] = ALLOCATED_FRAME => allocated_order'[b] \in AllOrders
    BY <1>1 DEF Shape
  <2>. QED
    BY <1>1, <1>6, <1>7, <2>1, SameBlocks
<1>9. LinksAgree'
  <2>1. \A b \in Frames : Free(b)' <=> b # h /\ Free(b)
    BY <1>1, <1>6 DEF Free, InHand
  <2>2. IsHead(h, i) /\ UnlinkHead(h, i) = free_lists'
    BY <1>1 DEF IsHead, UnlinkHead
  <2>3. \A b \in Frames : UnlinkNext(h, i)[b] = next'[b] /\ UnlinkPrev(h, i)[b] = prev'[b]
    BY <1>1, <2>2 DEF UnlinkNext, UnlinkPrev
  <2>. QED
    BY <1>1, <1>2, <2>1, <2>2, <2>3, UnlinkLinks
<1>10. NoFrameLost'
  BY <1>1, <1>6, <1>7, SameCover
<1>11. StillReserved'
  BY <1>1, SameReserved
<1>. QED
  BY <1>4, <1>5, <1>8, <1>9, <1>10, <1>11 DEF IndInv

(* A step that changes neither the descriptors nor the locals of the call. *)
LEMMA QuietStep ==
  ASSUME IndInv, UNCHANGED <<frames, pc, boot, call>>, ret' \in Frames \cup {Failed}
  PROVE  IndInv'
<1>. USE DEF frames, boot, call
<1>1. TypeOK'
  BY DEF IndInv, TypeOK
<1>2. \A b \in Frames : Starts(b)' = Starts(b) /\ OrderOf(b)' = OrderOf(b) /\ Free(b)' = Free(b)
  BY DEF Starts, OrderOf, InHand, Free
<1>3. Stage'
  BY DEF IndInv, Stage, Starts
<1>4. Shape'
  BY <1>2 DEF IndInv, Shape
<1>5. LinksAgree'
  BY <1>2, SameLinks DEF IndInv
<1>6. NoFrameLost'
  BY <1>2 DEF IndInv, NoFrameLost, Passed, Block
<1>7. StillReserved'
  BY SameReserved DEF IndInv
<1>. QED
  BY <1>1, <1>3, <1>4, <1>5, <1>6, <1>7 DEF IndInv

(* buddy_allocate marks the block in hand as allocated and returns it.     *)
LEMMA AllocDoneStep == IndInv /\ AllocDone => IndInv'
<1>. SUFFICES ASSUME IndInv, AllocDone, NEW h, h = blk PROVE IndInv'
  OBVIOUS
<1>. USE DEF boot
<1>1. /\ pc = "split" /\ pc' = "idle" /\ blk = h /\ blk' = 0 /\ ord' = 0 /\ want' = 0 /\ ord = want
      /\ status' = [status EXCEPT ![h] = ALLOCATED_FRAME]
      /\ allocated_order' = [allocated_order EXCEPT ![h] = want]
      /\ next' = [next EXCEPT ![h] = BUDDY_NULL] /\ prev' = [prev EXCEPT ![h] = BUDDY_NULL]
      /\ free_lists' = free_lists /\ region' = region /\ scan' = scan /\ ret' = h
      /\ TypeOK /\ Stage /\ Shape /\ LinksAgree /\ NoFrameLost /\ StillReserved
  BY DEF AllocDone, Idle, IndInv
<1>2. h \in Frames /\ status[h] \in AllOrders /\ ord \in AllOrders
  BY <1>1 DEF Stage, TypeOK
<1>3. TypeOK'
  BY <1>1, <1>2, Naturals DEF TypeOK
<1>4. Stage'
  BY <1>1 DEF Stage
<1>5. /\ \A b \in Frames : b # h => status'[b] = status[b] /\ allocated_order'[b] = allocated_order[b]
                                   /\ next'[b] = next[b] /\ prev'[b] = prev[b]
      /\ status'[h] = ALLOCATED_FRAME /\ allocated_order'[h] = ord
  BY <1>1, <1>2 DEF TypeOK
<1>6. \A b \in Frames : Starts(b)' = Starts(b)
  BY <1>2, <1>5, Naturals DEF Starts
<1>7. \A b \in Frames : Starts(b) => OrderOf(b)' = OrderOf(b)
  <2>1. \A b \in Frames : b # h => OrderOf(b)' = OrderOf(b)
    BY <1>1, <1>5 DEF OrderOf, InHand
  <2>2. OrderOf(h)' = ord
    BY <1>1, <1>5 DEF OrderOf, InHand
  <2>3. OrderOf(h) = ord
    BY <1>1 DEF OrderOf, InHand
  <2>. QED
    BY <2>1, <2>2, <2>3
<1>8. Shape'
  <2>1. \A b \in Frames : status'[b] = ALLOCATED_FRAME => allocated_order'[b] \in AllOrders
    BY <1>1, <1>2, <1>5 DEF Shape
  <2>2. \A b \in Frames : status[b] = BELONGED_FRAME => status'[b] = BELONGED_FRAME
    BY <1>2, <1>5, Naturals
  <2>. QED
    BY <1>1, <1>6, <1>7, <2>1, <2>2, SameBlocks
<1>9. LinksAgree'
  <2>1. \A b \in Frames : Free(b)' <=> Free(b)
    BY <1>1, <1>5, <1>6 DEF Free, InHand
  <2>2. ~Free(h)
    BY <1>1 DEF Free, InHand
  <2>. QED
    BY <1>1, <1>5, <2>1, <2>2, SameLinks
<1>10. \A b \in Frames : status[b] = RESERVED_FRAME => status'[b] = RESERVED_FRAME
  BY <1>2, <1>5, Naturals
<1>11. NoFrameLost'
  BY <1>1, <1>6, <1>7, <1>10, SameCover
<1>12. StillReserved'
  BY <1>1, <1>10, SameReserved
<1>. QED
  BY <1>3, <1>4, <1>8, <1>9, <1>11, <1>12 DEF IndInv

(* buddy_free takes an allocated block into its hand.                      *)
LEMMA FreeStartStep == ASSUME NEW h \in Frames PROVE IndInv /\ FreeStart(h) => IndInv'
<1>. SUFFICES ASSUME IndInv, FreeStart(h) PROVE IndInv'
  OBVIOUS
<1>. USE DEF boot
<1>1. /\ pc = "idle" /\ pc' = "merge" /\ blk' = h /\ ord' = allocated_order[h]
      /\ status[h] = ALLOCATED_FRAME
      /\ status' = [status EXCEPT ![h] = allocated_order[h]]
      /\ allocated_order' = allocated_order /\ next' = next /\ prev' = prev
      /\ free_lists' = free_lists /\ region' = region /\ scan' = scan
      /\ TypeOK /\ Stage /\ Shape /\ LinksAgree /\ NoFrameLost /\ StillReserved
  BY DEF FreeStart, IndInv
<1>2. allocated_order[h] \in AllOrders
  BY <1>1 DEF Shape
<1>3. TypeOK'
  BY <1>1, <1>2 DEF FreeStart, TypeOK
<1>4. /\ \A b \in Frames : b # h => status'[b] = status[b]
      /\ status'[h] = allocated_order[h]
  BY <1>1 DEF TypeOK
<1>5. Stage'
  BY <1>1, <1>2, <1>4 DEF Stage
<1>6. \A b \in Frames : Starts(b)' = Starts(b)
  BY <1>1, <1>2, <1>4, Naturals DEF Starts
<1>7. \A b \in Frames : Starts(b) => OrderOf(b)' = OrderOf(b)
  <2>1. \A b \in Frames : b # h => OrderOf(b)' = OrderOf(b)
    BY <1>1, <1>4 DEF OrderOf, InHand
  <2>2. OrderOf(h)' = allocated_order[h]
    BY <1>1 DEF OrderOf, InHand
  <2>3. OrderOf(h) = allocated_order[h]
    BY <1>1 DEF OrderOf, InHand
  <2>. QED
    BY <2>1, <2>2, <2>3
<1>8. Shape'
  <2>1. \A b \in Frames : status'[b] = ALLOCATED_FRAME => allocated_order'[b] \in AllOrders
    BY <1>1, <1>2, <1>4 DEF Shape
  <2>2. \A b \in Frames : status[b] = BELONGED_FRAME => status'[b] = BELONGED_FRAME
    BY <1>1, <1>4
  <2>. QED
    BY <1>1, <1>6, <1>7, <2>1, <2>2, SameBlocks
<1>9. LinksAgree'
  <2>1. \A b \in Frames : Free(b)' <=> Free(b)
    BY <1>1, <1>4, <1>6 DEF Free, InHand
  <2>2. ~Free(h)
    BY <1>1 DEF Free
  <2>. QED
    BY <1>1, <1>4, <2>1, <2>2, SameLinks
<1>10. \A b \in Frames : status[b] = RESERVED_FRAME => status'[b] = RESERVED_FRAME
  BY <1>1, <1>4
<1>11. NoFrameLost'
  BY <1>1, <1>6, <1>7, <1>10, SameCover
<1>12. StillReserved'
  BY <1>1, <1>10, SameReserved
<1>. QED
  BY <1>3, <1>5, <1>8, <1>9, <1>11, <1>12 DEF IndInv

(* buddy_free pushes the merged block on the list of its order.            *)
LEMMA FreeDoneStep == IndInv /\ FreeDone => IndInv'
<1>. SUFFICES ASSUME IndInv, FreeDone, NEW h, h = blk, NEW k, k = ord PROVE IndInv'
  OBVIOUS
<1>. USE DEF boot
<1>1. /\ pc = "merge" /\ pc' = "idle" /\ blk = h /\ ord = k /\ blk' = 0 /\ ord' = 0 /\ want' = 0
      /\ status' = [status EXCEPT ![h] = k]
      /\ allocated_order' = [allocated_order EXCEPT ![h] = -1]
      /\ next' = PushNext(h, k) /\ prev' = PushPrev(h, k) /\ free_lists' = PushHead(h, k)
      /\ region' = region /\ scan' = scan /\ ret' = ret
      /\ TypeOK /\ Stage /\ Shape /\ LinksAgree /\ NoFrameLost /\ StillReserved
  BY DEF FreeDone, Idle, IndInv
<1>2. h \in Frames /\ status[h] \in AllOrders /\ k \in AllOrders
  BY <1>1 DEF Stage, TypeOK
<1>3. TypeOK'
  <2>1. free_lists \in [AllOrders -> Links] /\ next \in [Frames -> Links] /\ prev \in [Frames -> Links]
    BY <1>1 DEF TypeOK
  <2>2. PushNext(h, k) \in [Frames -> Links] /\ PushHead(h, k) \in [AllOrders -> Links]
    BY <1>2, <2>1 DEF PushNext, PushHead
  <2>3. PushPrev(h, k) \in [Frames -> Links]
    BY <1>2, <2>1 DEF PushPrev
  <2>. QED
    BY <1>1, <1>2, <2>2, <2>3, Naturals DEF TypeOK
<1>4. Stage'
  BY <1>1 DEF Stage
<1>5. /\ \A b \in Frames : b # h => status'[b] = status[b] /\ allocated_order'[b] = allocated_order[b]
      /\ status'[h] = k
  BY <1>1, <1>2 DEF TypeOK
<1>6. \A b \in Frames : Starts(b)' = Starts(b)
  BY <1>2, <1>5, Naturals DEF Starts
<1>7. \A b \in Frames : Starts(b) => OrderOf(b)' = OrderOf(b)
  <2>1. \A b \in Frames : b # h => OrderOf(b)' = OrderOf(b)
    BY <1>1, <1>5 DEF OrderOf, InHand
  <2>2. OrderOf(h)' = k
    BY <1>1, <1>2, <1>5, Naturals DEF OrderOf, InHand
  <2>3. OrderOf(h) = k
    BY <1>1 DEF OrderOf, InHand
  <2>. QED
    BY <2>1, <2>2, <2>3
<1>8. Shape'
  <2>1. \A b \in Frames : status'[b] = ALLOCATED_FRAME => allocated_order'[b] \in AllOrders
    BY <1>1, <1>2, <1>5, Naturals DEF Shape
  <2>2. \A b \in Frames : status[b] = BELONGED_FRAME => status'[b] = BELONGED_FRAME
    BY <1>2, <1>5, Naturals
  <2>. QED
    BY <1>1, <1>6, <1>7, <2>1, <2>2, SameBlocks
<1>9. LinksAgree'
  <2>1. \A b \in Frames : Free(b)' <=> b = h \/ Free(b)
    BY <1>1, <1>2, <1>5, <1>6, Naturals DEF Free, InHand, Starts
  <2>2. ~Free(h)
    BY <1>1 DEF Free, InHand
  <2>. QED
    BY <1>1, <1>2, <1>5, <2>1, <2>2, PushLinks
<1>10. \A b \in Frames : status[b] = RESERVED_FRAME => status'[b] = RESERVED_FRAME
  BY <1>2, <1>5, Naturals
<1>11. NoFrameLost'
  BY <1>1, <1>6, <1>7, <1>10, SameCover
<1>12. StillReserved'
  BY <1>1, <1>10, SameReserved
<1>. QED
  BY <1>3, <1>4, <1>8, <1>9, <1>11, <1>12 DEF IndInv

(* The two blocks a merge joins: the one in hand and a free one next to it. *)
LEMMA MergeUpper ==
  ASSUME IndInv, Merge
  PROVE  /\ blk \in Frames /\ status[blk] \in AllOrders
         /\ ord \in AllOrders /\ ord < MaxOrder /\ ord + 1 \in AllOrders
         /\ Size[ord] \in Nat /\ Size[ord] >= 1 /\ Size[ord + 1] = Size[ord] + Size[ord]
         /\ Bud \in Frames /\ status[Bud] = ord /\ Bud # blk
         /\ Lower \in Frames /\ Upper \in Frames /\ Upper = Lower + Size[ord]
         /\ (Lower = Bud /\ Upper = blk) \/ (Lower = blk /\ Upper = Bud)
         /\ status[Upper] # ALLOCATED_FRAME
<1>. SUFFICES ASSUME NEW h, h = blk, NEW k, k = ord, NEW b, b = Bud, NEW lo, lo = Lower, NEW up, up = Upper
              PROVE  /\ h \in Frames /\ status[h] \in AllOrders
                     /\ k \in AllOrders /\ k < MaxOrder /\ k + 1 \in AllOrders
                     /\ Size[k] \in Nat /\ Size[k] >= 1 /\ Size[k + 1] = Size[k] + Size[k]
                     /\ b \in Frames /\ status[b] = k /\ b # h
                     /\ lo \in Frames /\ up \in Frames /\ up = lo + Size[k]
                     /\ (lo = b /\ up = h) \/ (lo = h /\ up = b)
                     /\ status[up] # ALLOCATED_FRAME
  OBVIOUS
<1>1. h \in Frames /\ status[h] \in AllOrders /\ k \in AllOrders /\ k < MaxOrder /\ k + 1 \in AllOrders
  BY Naturals DEF IndInv, Stage, TypeOK, Merge, CanMerge
<1>2. Size[k] \in Nat /\ Size[k] >= 1 /\ Size[k + 1] = Size[k] + Size[k]
  BY <1>1, SizeAssumption
<1>3. /\ b \in Frames /\ status[b] = k
      /\ b = h + Size[k] \/ b = h - Size[k]
  <2>1. b = BuddyOf(h, k)
    BY DEF Bud
  <2>2. b \in Nat /\ (b = h + Size[k] \/ b = h - Size[k])
    BY <1>1, <2>1, BuddyRange
  <2>3. b < TotalFrame /\ status[b] = k
    BY DEF Merge, CanMerge
  <2>. QED
    BY <2>2, <2>3, Naturals
<1>4. b # h
  BY <1>1, <1>2, <1>3, Naturals
<1>5. /\ lo \in Frames /\ up \in Frames /\ up = lo + Size[k]
      /\ (lo = b /\ up = h) \/ (lo = h /\ up = b)
  <2>1. lo = (IF b < h THEN b ELSE h) /\ up = (IF b < h THEN h ELSE b)
    BY DEF Lower, Upper
  <2>. QED
    BY <1>1, <1>2, <1>3, <2>1, Naturals
<1>6. status[up] # ALLOCATED_FRAME
  BY <1>1, <1>3, <1>5, Naturals
<1>. QED
  BY <1>1, <1>2, <1>3, <1>4, <1>5, <1>6

(* A turn of buddy_free's merge loop: the buddy leaves its list, the upper *)
(* of the two blocks is dissolved, the lower one is in hand with the next  *)
(* order.                                                                  *)
LEMMA MergeStep == IndInv /\ Merge => IndInv'
<1>. SUFFICES ASSUME IndInv, Merge, NEW h, h = blk, NEW k, k = ord, NEW b, b = Bud,
                     NEW lo, lo = Lower, NEW up, up = Upper
              PROVE  IndInv'
  OBVIOUS
<1>. USE DEF boot
<1>1. /\ pc = "merge" /\ pc' = "merge" /\ blk = h /\ ord = k /\ blk' = lo /\ ord' = k + 1
      /\ status' = [status EXCEPT ![up] = BELONGED_FRAME]
      /\ allocated_order' = [allocated_order EXCEPT ![up] = -1]
      /\ next' = [UnlinkNext(b, k) EXCEPT ![up] = BUDDY_NULL]
      /\ prev' = [UnlinkPrev(b, k) EXCEPT ![up] = BUDDY_NULL]
      /\ free_lists' = UnlinkHead(b, k) /\ region' = region /\ scan' = scan
      /\ want' = want /\ ret' = ret
      /\ TypeOK /\ Stage /\ Shape /\ LinksAgree /\ NoFrameLost /\ StillReserved
  BY DEF Merge, IndInv
<1>2. /\ h \in Frames /\ status[h] \in AllOrders /\ k \in AllOrders /\ k + 1 \in AllOrders
      /\ Size[k] \in Nat /\ Size[k] >= 1 /\ Size[k + 1] = Size[k] + Size[k]
      /\ b \in Frames /\ status[b] = k /\ b # h
      /\ lo \in Frames /\ up \in Frames /\ up = lo + Size[k]
      /\ (lo = b /\ up = h) \/ (lo = h /\ up = b)
  BY MergeUpper
<1>3. Size[k] \in Nat /\ Size[k] >= 1 /\ Size[k + 1] = Size[k] + Size[k]
  BY <1>2
<1>4. b \in Frames /\ status[b] = k
  BY <1>2
<1>5. b # h /\ Free(b) /\ Starts(b) /\ Starts(h)
  BY <1>1, <1>2, Naturals DEF Free, Starts, InHand
<1>6. /\ lo \in Frames /\ up \in Frames /\ up = lo + Size[k] /\ lo < up
      /\ (lo = b /\ up = h) \/ (lo = h /\ up = b)
  BY <1>2, Naturals
<1>7. Starts(lo) /\ Starts(up) /\ OrderOf(lo) = k /\ OrderOf(up) = k
  <2>1. OrderOf(h) = k
    BY <1>1 DEF OrderOf, InHand
  <2>2. OrderOf(b) = k
    BY <1>1, <1>2, <1>4, <1>5, Naturals DEF OrderOf, InHand
  <2>. QED
    BY <1>5, <1>6, <2>1, <2>2
<1>8. /\ \A c \in Frames : c # up => status'[c] = status[c] /\ allocated_order'[c] = allocated_order[c]
      /\ status'[up] = BELONGED_FRAME
  BY <1>1, <1>6 DEF TypeOK
<1>9. TypeOK'
  <2>1. free_lists \in [AllOrders -> Links] /\ next \in [Frames -> Links] /\ prev \in [Frames -> Links]
    BY <1>1 DEF TypeOK
  <2>2. UnlinkNext(b, k) \in [Frames -> Links]
    BY <1>4, <2>1 DEF UnlinkNext
  <2>3. UnlinkPrev(b, k) \in [Frames -> Links]
    BY <1>4, <2>1 DEF UnlinkPrev
  <2>4. UnlinkHead(b, k) \in [AllOrders -> Links]
    BY <1>2, <1>4, <2>1 DEF UnlinkHead
  <2>. QED
    BY <1>1, <1>2, <1>6, <2>2, <2>3, <2>4 DEF TypeOK
<1>10. Stage'
  BY <1>1, <1>2, <1>4, <1>6, <1>8 DEF Stage
<1>11. \A c \in Frames : Starts(c)' <=> c # up /\ Starts(c)
  BY <1>8 DEF Starts
<1>12. \A c \in Frames : Starts(c) /\ c # lo /\ c # up => OrderOf(c)' = OrderOf(c)
  BY <1>1, <1>6, <1>8 DEF OrderOf, InHand
<1>13. OrderOf(lo)' = k + 1
  BY <1>1 DEF OrderOf, InHand
<1>14. up + Size[k] <= TotalFrame /\ lo + Size[k + 1] = up + Size[k]
  <2>1. up + Size[k] <= TotalFrame
    BY <1>1, <1>6, <1>7 DEF Shape
  <2>. QED
    BY <1>3, <1>6, <2>1, Naturals
<1>15. Shape'
  <2>1. \A c \in Frames : (status[c] = ALLOCATED_FRAME)' => (allocated_order[c] \in AllOrders)'
    BY <1>1, <1>8 DEF Shape
  <2>2. ASSUME NEW c \in Frames, Starts(c)'
        PROVE  /\ c + Size[OrderOf(c)'] <= TotalFrame
               /\ \A f \in Frames : c < f /\ f < c + Size[OrderOf(c)'] => status'[f] = BELONGED_FRAME
    <3>1. CASE c = lo
      <4>1. ASSUME NEW f \in Frames, lo < f, f < lo + Size[k + 1] PROVE status'[f] = BELONGED_FRAME
        <5>1. CASE f < up
          <6>1. status[f] = BELONGED_FRAME
            BY <1>1, <1>6, <1>7, <4>1, <5>1 DEF Shape
          <6>. QED
            BY <1>8, <6>1
        <5>2. CASE f = up
          BY <1>8, <5>2
        <5>3. CASE up < f
          <6>1. f < up + Size[k]
            BY <1>14, <4>1
          <6>2. status[f] = BELONGED_FRAME
            BY <1>1, <1>6, <1>7, <6>1, <5>3 DEF Shape
          <6>. QED
            BY <1>8, <6>2
        <5>. QED
          BY <1>6, <5>1, <5>2, <5>3, Naturals
      <4>. QED
        BY <1>13, <1>14, <3>1, <4>1
    <3>2. CASE c # lo
      <4>1. Starts(c) /\ OrderOf(c)' = OrderOf(c)
        BY <1>11, <1>12, <2>2, <3>2
      <4>2. ASSUME NEW f \in Frames, c < f, f < c + Size[OrderOf(c)] PROVE status'[f] = BELONGED_FRAME
        <5>1. status[f] = BELONGED_FRAME
          BY <1>1, <4>1, <4>2 DEF Shape
        <5>. QED
          BY <1>8, <5>1
      <4>. QED
        BY <1>1, <4>1, <4>2 DEF Shape
    <3>. QED
      BY <3>1, <3>2
  <2>. QED
    BY <2>1, <2>2 DEF Shape
<1>16. LinksAgree'
  <2>1. \A c \in Frames : Free(c)' <=> c # b /\ Free(c)
    BY <1>1, <1>6, <1>8, <1>11 DEF Free, InHand
  <2>2. ~Free(h)
    BY <1>1 DEF Free, InHand
  <2>3. ASSUME NEW c \in Frames, c # b, Free(c)
        PROVE  /\ next'[c] = UnlinkNext(b, k)[c] /\ prev'[c] = UnlinkPrev(b, k)[c]
               /\ status'[c] = status[c]
    <3>1. c # up
      BY <1>6, <2>2, <2>3
    <3>2. next'[c] = UnlinkNext(b, k)[c]
      BY <1>1, <3>1 DEF UnlinkNext
    <3>3. prev'[c] = UnlinkPrev(b, k)[c]
      BY <1>1, <3>1 DEF UnlinkPrev
    <3>. QED
      BY <1>8, <3>1, <3>2, <3>3
  <2>. QED
    BY <1>1, <1>2, <1>4, <1>5, <2>1, <2>3, UnlinkLinks
<1>17. NoFrameLost'
  <2>. SUFFICES ASSUME NEW f \in Frames, status'[f] # RESERVED_FRAME
                PROVE  \E c \in Frames : Starts(c)' /\ f \in c .. c + Size[OrderOf(c)'] - 1
    BY <1>1 DEF NoFrameLost, Passed, Block
  <2>1. status[f] # RESERVED_FRAME
    BY <1>6, <1>7, <1>8 DEF Starts
  <2>2. PICK c \in Frames : Starts(c) /\ f \in c .. c + Size[OrderOf(c)] - 1
    BY <1>1, <2>1 DEF NoFrameLost, Passed, Block
  <2>3. CASE c = lo \/ c = up
    <3>1. f \in lo .. lo + Size[k + 1] - 1
      BY <1>3, <1>6, <1>7, <1>14, <2>2, <2>3, Naturals
    <3>. QED
      BY <1>6, <1>7, <1>11, <1>13, <3>1, Naturals
  <2>4. CASE c # lo /\ c # up
    BY <1>11, <1>12, <2>2, <2>4
  <2>. QED
    BY <2>3, <2>4
<1>18. StillReserved'
  <2>1. \A c \in Frames : status[c] = RESERVED_FRAME => status'[c] = RESERVED_FRAME
    BY <1>6, <1>7, <1>8 DEF Starts
  <2>. QED
    BY <1>1, <2>1, SameReserved
<1>. QED
  BY <1>9, <1>10, <1>15, <1>16, <1>17, <1>18 DEF IndInv

-----------------------------------------------------------------------------

(* Every step of the allocator preserves the inductive invariant.          *)
LEMMA NextInv == IndInv /\ [Next]_vars => IndInv'
<1>. SUFFICES ASSUME IndInv, [Next]_vars PROVE IndInv'
  OBVIOUS
<1>. USE DEF frames, boot, call
<1>0. ret \in Frames \cup {Failed}
  BY DEF IndInv, TypeOK
<1>1. ASSUME NEW o \in Orders, NEW i \in AllOrders, AllocTake(o, i) PROVE IndInv'
  BY <1>1, AllocTakeStep
<1>2. ASSUME NEW o \in Orders, AllocFail(o) PROVE IndInv'
  BY <1>2, QuietStep DEF AllocFail
<1>3. ASSUME NEW b \in Frames, FreeIgnored(b) PROVE IndInv'
  BY <1>0, <1>3, QuietStep DEF FreeIgnored, vars
<1>4. ASSUME NEW b \in Frames, FreeStart(b) PROVE IndInv'
  BY <1>4, FreeStartStep
<1>5. CASE MemoryReserve
  BY <1>5, MemoryReserveStep
<1>6. CASE BuddyInitStart
  BY <1>6, BuddyInitStartStep
<1>7. CASE InitSkip
  BY <1>7, InitSkipStep
<1>8. ASSUME NEW o \in AllOrders, InitBlock(o) PROVE IndInv'
  BY <1>8, InitBlockStep
<1>9. CASE InitDone
  BY <1>9, InitDoneStep
<1>10. CASE Split
  BY <1>10, SplitStep
<1>11. CASE AllocDone
  BY <1>11, AllocDoneStep
<1>12. CASE Merge
  BY <1>12, MergeStep
<1>13. CASE FreeDone
  BY <1>13, FreeDoneStep
<1>14. CASE UNCHANGED vars
  BY <1>0, <1>14, QuietStep DEF vars
<1>. QED
  BY <1>1, <1>2, <1>3, <1>4, <1>5, <1>6, <1>7, <1>8, <1>9, <1>10, <1>11, <1>12, <1>13, <1>14
     DEF Next, Call, Proceed

(* The inductive invariant holds in every behaviour: for every number of   *)
(* frames, every MaxOrder and every list of reserved ranges.               *)
THEOREM Invariance == Spec => []IndInv
<1>1. Init => IndInv
  BY InitInv
<1>2. IndInv /\ [Next]_vars => IndInv'
  BY NextInv
<1>. QED
  BY <1>1, <1>2, PTL DEF Spec

(* Type correctness, for every memory size and every reservation. *)
THEOREM TypeCorrect == Spec => []TypeOK
<1>1. IndInv => TypeOK
  BY DEF IndInv
<1>. QED
  BY <1>1, Invariance, PTL

(* Blocks that are apart in pairs and hold no reserved frame: the          *)
(* invariant gives what a caller of buddy_allocate relies on.              *)
LEMMA DisjointFromInv == IndInv => BlocksDisjoint
<1>. SUFFICES ASSUME IndInv, NEW b \in Frames, Starts(b)
              PROVE  /\ Block(b) \subseteq Frames
                     /\ \A f \in Block(b) : status[f] # RESERVED_FRAME
                     /\ \A c \in Frames : Starts(c) /\ c # b => Block(b) \cap Block(c) = {}
  BY DEF BlocksDisjoint
<1>1. TypeOK /\ Shape /\ Stage
  BY DEF IndInv
<1>2. Size[OrderOf(b)] \in Nat /\ Size[OrderOf(b)] >= 1 /\ b + Size[OrderOf(b)] <= TotalFrame
  BY <1>1, OrderRange DEF Shape
<1>3. Block(b) \subseteq Frames
  BY <1>2, Naturals DEF Block
<1>4. ASSUME NEW f \in Block(b) PROVE status[f] # RESERVED_FRAME
  <2>1. f \in Frames /\ (f = b \/ (b < f /\ f < b + Size[OrderOf(b)]))
    BY <1>2, <1>3, <1>4, Naturals DEF Block
  <2>2. CASE f = b
    BY <2>2 DEF Starts
  <2>3. CASE b < f /\ f < b + Size[OrderOf(b)]
    BY <1>1, <2>1, <2>3, Naturals DEF Shape
  <2>. QED
    BY <2>1, <2>2, <2>3
<1>5. ASSUME NEW c \in Frames, Starts(c), c # b PROVE Block(b) \cap Block(c) = {}
  <2>1. Size[OrderOf(c)] \in Nat
    BY <1>1, <1>5, OrderRange
  <2>2. b < c => b + Size[OrderOf(b)] <= c
    BY <1>1, <1>5, Apart
  <2>3. c < b => c + Size[OrderOf(c)] <= b
    BY <1>1, <1>5, Apart
  <2>. QED
    BY <1>2, <1>5, <2>1, <2>2, <2>3, Naturals DEF Block
<1>. QED
  BY <1>3, <1>4, <1>5

(* buddy_allocate never hands out a frame twice, and never a reserved one: *)
(* no two blocks share a frame, however calls, splits and merges follow    *)
(* each other.                                                             *)
THEOREM NoOverlap == Spec => []BlocksDisjoint
  BY DisjointFromInv, Invariance, PTL

(* No frame is lost by buddy_init, a split or a merge: each belongs to a   *)
(* block or is reserved.                                                   *)
THEOREM NothingLost == Spec => []NoFrameLost
<1>1. IndInv => NoFrameLost
  BY DEF IndInv
<1>. QED
  BY <1>1, Invariance, PTL

(* The free lists' next and prev pointers always agree, so the "Corrupted  *)
(* free list structure" branch of buddy_free is never taken.               *)
THEOREM ListsNeverCorrupted == Spec => []LinksAgree
<1>1. IndInv => LinksAgree
  BY DEF IndInv
<1>. QED
  BY <1>1, Invariance, PTL

(* Rounding a byte address down to its frame. *)
LEMMA FrameOfByte ==
  ASSUME NEW n \in Nat \ {0}, NEW a \in Nat
  PROVE  a \div n \in Nat /\ n * (a \div n) <= a /\ a < n * (a \div n) + n
  OBVIOUS

(* Byte addresses of frame starts are ordered as the frames are.           *)
LEMMA CancelFactor ==
  ASSUME NEW n \in Nat \ {0}, NEW x \in Int, NEW y \in Int, n * x < n * y
  PROVE  x < y
  OBVIOUS

(* The bytes mem_init reserves never lie in a block, for every list of     *)
(* ranges, aligned to frames or not.                                       *)
THEOREM ReservedStaysReserved == Spec => []ReservedBytesKept
<1>1. IndInv => ReservedBytesKept
  <2>. SUFFICES ASSUME IndInv, NEW i \in 1 .. region, NEW b \in Frames, Starts(b),
                       NEW x, x = Regions[i][1], NEW y, y = Regions[i][2],
                       NEW e, e = b + Size[OrderOf(b)]
                PROVE  x >= y \/ e * FrameSize <= x \/ b * FrameSize >= y
    BY DEF ReservedBytesKept
  <2>. SUFFICES ASSUME ~(x >= y), ~(e * FrameSize <= x), ~(b * FrameSize >= y)
                PROVE  FALSE
    OBVIOUS
  <2>. DEFINE n == FrameSize  top == (y + n - 1) \div n  low == x \div n
  <2>1. n \in Nat \ {0}
    BY MemoryAssumption
  <2>2. x \in Nat /\ y \in Nat
    <3>1. Len(Regions) \in Nat /\ i \in 1 .. Len(Regions)
      <4>1. Len(Regions) \in Nat
        BY MemoryAssumption
      <4>2. region \in 0 .. Len(Regions)
        BY DEF IndInv, TypeOK
      <4>. QED
        BY <4>1, <4>2
    <3>2. Regions[i] \in Nat \X Nat
      BY <3>1, MemoryAssumption
    <3>. QED
      BY <3>2
  <2>3. b \in Nat /\ e \in Nat /\ b < e
    BY OrderRange, Naturals DEF IndInv
  <2>4. x < y /\ x < n * e /\ n * b < y
    BY <2>1, <2>2, <2>3
  <2>5. low \in Nat /\ n * low <= x /\ x < n * low + n
    BY <2>1, <2>2, FrameOfByte
  <2>6. top \in Nat /\ y + n - 1 < n * top + n
    <3>1. y + n - 1 \in Nat
      BY <2>1, <2>2
    <3>. HIDE DEF n
    <3>. QED
      BY <2>1, <3>1, FrameOfByte
  (* A frame of the block that holds a byte of the range. *)
  <2>7. PICK f \in Nat : low <= f /\ b <= f /\ f < e /\ n * f < y
    <3>. HIDE DEF low, n
    <3>1. low < e
      <4>1. n * low < n * e
        BY <2>1, <2>2, <2>3, <2>4, <2>5
      <4>. QED
        BY <2>1, <2>3, <2>5, <4>1, CancelFactor
    <3>2. CASE low <= b
      BY <2>3, <2>4, <3>2
    <3>3. CASE b < low
      BY <2>1, <2>2, <2>3, <2>4, <2>5, <3>1, <3>3
    <3>. QED
      BY <2>3, <2>5, <3>2, <3>3
  <2>8. f < top
    <3>. HIDE DEF top, n
    <3>1. n * f < n * top
      BY <2>1, <2>2, <2>6, <2>7
    <3>. QED
      BY <2>1, <2>6, <2>7, <3>1, CancelFactor
  <2>9. f \in Frames /\ f \in Block(b)
    <3>1. Size[OrderOf(b)] \in Nat
      BY OrderRange DEF IndInv
    <3>2. f \in b .. b + Size[OrderOf(b)] - 1
      BY <2>3, <2>7, <3>1
    <3>. QED
      BY DisjointFromInv, <3>2 DEF BlocksDisjoint, Block
  <2>10. f \in ReservedBy(Regions[i])
    BY <2>7, <2>8, <2>9 DEF ReservedBy
  <2>. QED
    BY DisjointFromInv, <2>9, <2>10 DEF BlocksDisjoint, IndInv, StillReserved
<1>. QED
  BY <1>1, Invariance, PTL

(* The blocks callers own depend on the statuses and orders only.          *)
LEMMA OwnedSame ==
  ASSUME \A b \in Frames : status'[b] = ALLOCATED_FRAME <=> status[b] = ALLOCATED_FRAME,
         \A b \in Frames : status[b] = ALLOCATED_FRAME => allocated_order'[b] = allocated_order[b]
  PROVE  Owned' = Owned
  BY DEF Owned

(* Before boot nobody owns a block, as in FrameAlloc.                      *)
LEMMA RefineInit == Init => FA!Init
  BY DEF Init, FA!Init, Owned, Pending, FA!NoRequest, FA!Failed

(* Every step of buddy_init, buddy_allocate and buddy_free is a step of    *)
(* FrameAlloc under the mapping of Owned and Pending, or changes nothing   *)
(* there.                                                                  *)
LEMMA RefineStep == IndInv /\ [Next]_vars => [FA!Next]_FA!vars
<1>. SUFFICES ASSUME IndInv, [Next]_vars PROVE [FA!Next]_FA!vars
  OBVIOUS
<1>. USE DEF frames, boot, call, FA!vars, FA!NoRequest, FA!Failed
<1>0. TypeOK /\ Shape /\ Stage /\ StillReserved
  BY DEF IndInv
<1>1. ASSUME NEW o \in Orders, NEW i \in AllOrders, AllocTake(o, i) PROVE FA!Request(o) /\ o \in 0 .. MaxOrder
  <2>1. Owned' = Owned /\ ret' = ret
    BY <1>1, OwnedSame DEF AllocTake
  <2>2. Pending = -1 /\ Pending' = o
    BY <1>1 DEF AllocTake, Pending
  <2>3. o \in 0 .. MaxOrder
    BY <1>1, Naturals, MemoryAssumption DEF AllocTake
  <2>. QED
    BY <2>1, <2>2, <2>3 DEF FA!Request
<1>2. ASSUME NEW o \in Orders, AllocFail(o) PROVE FA!Refuse
  BY <1>2 DEF AllocFail, FA!Refuse, Owned, Pending
<1>3. ASSUME NEW b \in Frames, FreeIgnored(b) PROVE UNCHANGED <<Owned, Pending, ret>>
  BY <1>3 DEF FreeIgnored, vars, Owned, Pending
<1>4. ASSUME NEW b \in Frames, FreeStart(b)
      PROVE FA!Release(<<b, allocated_order[b]>>) /\ <<b, allocated_order[b]>> \in Owned
  <2>1. /\ status[b] = ALLOCATED_FRAME /\ allocated_order' = allocated_order /\ ret' = ret
        /\ pc = "idle" /\ pc' = "merge"
        /\ \A c \in Frames : c # b => status'[c] = status[c]
        /\ status'[b] \in AllOrders
    BY <1>0, <1>4 DEF FreeStart, TypeOK, Shape
  <2>2. Owned' = Owned \ {<<b, allocated_order[b]>>}
    BY <2>1, Naturals DEF Owned
  <2>3. <<b, allocated_order[b]>> \in Owned
    BY <2>1 DEF Owned
  <2>4. Pending = -1 /\ Pending' = -1
    BY <2>1 DEF Pending
  <2>. QED
    BY <2>1, <2>2, <2>3, <2>4 DEF FA!Release
<1>5. CASE MemoryReserve
  <2>1. \A b \in Frames : status[b] # ALLOCATED_FRAME /\ status'[b] # ALLOCATED_FRAME
    BY <1>0, <1>5 DEF MemoryReserve, Stage, Starts, TypeOK
  <2>. QED
    BY <1>5, <2>1, OwnedSame DEF MemoryReserve, Pending
<1>6. CASE BuddyInitStart
  <2>1. \A b \in Frames : status[b] # ALLOCATED_FRAME /\ status'[b] # ALLOCATED_FRAME
    BY <1>0, <1>6 DEF BuddyInitStart, Stage, Starts, TypeOK
  <2>. QED
    BY <1>6, <2>1, OwnedSame DEF BuddyInitStart, Pending
<1>7. CASE InitSkip
  BY <1>7 DEF InitSkip, Owned, Pending
<1>8. ASSUME NEW o \in AllOrders, InitBlock(o) PROVE UNCHANGED <<Owned, Pending, ret>>
  <2>1. \A b \in Frames : status[b] # ALLOCATED_FRAME
    BY <1>0, <1>8, Naturals DEF InitBlock, Stage, Starts
  <2>2. \A b \in Frames : status'[b] # ALLOCATED_FRAME
    BY <1>0, <1>8, <2>1, Naturals DEF InitBlock, TypeOK
  <2>. QED
    BY <1>8, <2>1, <2>2, OwnedSame DEF InitBlock, Pending
<1>9. CASE InitDone
  BY <1>9 DEF InitDone, Owned, Pending
<1>10. CASE Split
  <2>1. ord - 1 \in AllOrders
    BY <1>0, <1>10, Naturals DEF Split, TypeOK
  <2>2. UpperHalf \in Frames => status[UpperHalf] # ALLOCATED_FRAME
    <3>. SUFFICES ASSUME UpperHalf \in Frames PROVE status[UpperHalf] # ALLOCATED_FRAME
      OBVIOUS
    <3>1. blk \in Frames /\ Starts(blk) /\ OrderOf(blk) = ord /\ ord \in AllOrders /\ ord # 0
      BY <1>0, <1>10, Naturals DEF Split, Stage, Starts, OrderOf, InHand, TypeOK
    <3>2. Size[ord - 1] \in Nat /\ Size[ord - 1] >= 1 /\ Size[ord] = Size[ord - 1] + Size[ord - 1]
      BY <3>1, <2>1, SizeAssumption
    <3>3. blk < UpperHalf /\ UpperHalf < blk + Size[ord]
      BY <3>1, <3>2, Naturals DEF UpperHalf
    <3>. QED
      BY <1>0, <3>1, <3>3 DEF Shape
  <2>3. \A b \in Frames : status'[b] = ALLOCATED_FRAME <=> status[b] = ALLOCATED_FRAME
    BY <1>0, <1>10, <2>1, <2>2, Naturals DEF Split, TypeOK
  <2>. QED
    BY <1>10, <2>3, OwnedSame DEF Split, Pending
<1>11. ASSUME AllocDone PROVE FA!Grant(blk) /\ blk \in Frames
  <2>. SUFFICES ASSUME NEW h, h = blk, NEW k, k = want PROVE FA!Grant(h) /\ h \in Frames
    OBVIOUS
  <2>1. /\ h \in Frames /\ Starts(h) /\ OrderOf(h) = k /\ pc = "split" /\ pc' = "idle" /\ ret' = h
        /\ k \in AllOrders /\ status[h] # ALLOCATED_FRAME /\ want = k
    BY <1>0, <1>11, Naturals DEF AllocDone, Idle, Stage, Starts, OrderOf, InHand, TypeOK
  <2>2. /\ \A c \in Frames : c # h => status'[c] = status[c] /\ allocated_order'[c] = allocated_order[c]
        /\ status'[h] = ALLOCATED_FRAME /\ allocated_order'[h] = k
    BY <1>0, <1>11, <2>1 DEF AllocDone, TypeOK
  <2>3. Owned' = Owned \cup {<<h, k>>}
    BY <2>1, <2>2 DEF Owned
  <2>4. Pending = k /\ Pending' = -1 /\ k # -1
    BY <2>1, Naturals DEF Pending
  <2>5. BlocksDisjoint
    BY DisjointFromInv
  <2>6. Block(h) = FA!Extent(<<h, k>>)
    BY <2>1 DEF Block, FA!Extent
  <2>7. FA!Extent(<<h, k>>) \subseteq FA!Frames \ Unusable
    <3>1. \A f \in Unusable : status[f] = RESERVED_FRAME
      BY <1>0, <2>1 DEF Unusable, StillReserved, Stage
    <3>2. Block(h) \subseteq Frames /\ \A f \in Block(h) : status[f] # RESERVED_FRAME
      BY <2>1, <2>5 DEF BlocksDisjoint
    <3>. QED
      BY <2>6, <3>1, <3>2 DEF FA!Frames
  <2>8. ASSUME NEW e \in Owned PROVE FA!Extent(e) \cap FA!Extent(<<h, k>>) = {}
    <3>1. PICK c \in Frames : status[c] = ALLOCATED_FRAME /\ e = <<c, allocated_order[c]>>
      BY DEF Owned
    <3>2. c # h /\ Starts(c) /\ OrderOf(c) = allocated_order[c]
      BY <1>11, <2>1, <3>1 DEF AllocDone, Starts, OrderOf, InHand
    <3>3. Block(c) = FA!Extent(e)
      BY <3>1, <3>2 DEF Block, FA!Extent
    <3>4. Block(h) \cap Block(c) = {}
      BY <2>1, <2>5, <3>2 DEF BlocksDisjoint
    <3>. QED
      BY <2>6, <3>3, <3>4
  <2>. QED
    BY <2>1, <2>3, <2>4, <2>7, <2>8 DEF FA!Grant
<1>12. CASE Merge
  <2>1. /\ Upper \in Frames /\ status[Upper] # ALLOCATED_FRAME
        /\ status' = [status EXCEPT ![Upper] = BELONGED_FRAME]
        /\ allocated_order' = [allocated_order EXCEPT ![Upper] = -1]
    BY <1>12, MergeUpper DEF Merge
  <2>2. \A b \in Frames : status'[b] = ALLOCATED_FRAME <=> status[b] = ALLOCATED_FRAME
    BY <1>0, <2>1 DEF TypeOK
  <2>3. \A b \in Frames : status[b] = ALLOCATED_FRAME => allocated_order'[b] = allocated_order[b]
    BY <1>0, <2>1 DEF TypeOK
  <2>. QED
    BY <1>12, <2>2, <2>3, OwnedSame DEF Merge, Pending
<1>13. CASE FreeDone
  <2>1. /\ blk \in Frames /\ status[blk] \in AllOrders /\ ord \in AllOrders
        /\ status' = [status EXCEPT ![blk] = ord]
        /\ allocated_order' = [allocated_order EXCEPT ![blk] = -1]
    BY <1>0, <1>13 DEF FreeDone, Stage, TypeOK
  <2>2. \A b \in Frames : status'[b] = ALLOCATED_FRAME <=> status[b] = ALLOCATED_FRAME
    BY <1>0, <2>1, Naturals DEF TypeOK
  <2>3. \A b \in Frames : status[b] = ALLOCATED_FRAME => allocated_order'[b] = allocated_order[b]
    BY <1>0, <2>1, Naturals DEF TypeOK
  <2>. QED
    BY <1>13, <2>2, <2>3, OwnedSame DEF FreeDone, Idle, Pending
<1>14. CASE UNCHANGED vars
  BY <1>14 DEF vars, Owned, Pending
<1>. QED
  BY <1>1, <1>2, <1>3, <1>4, <1>5, <1>6, <1>7, <1>8, <1>9, <1>10, <1>11, <1>12, <1>13, <1>14
     DEF Next, Call, Proceed, FA!Next, FA!Frames

(* The split and merge loops implement FrameAlloc: a caller sees a block   *)
(* granted that nobody owns, refused or released, and nothing else.        *)
THEOREM Refinement == Spec => ImplementsFrameAlloc
<1>1. Init => FA!Init
  BY RefineInit
<1>2. IndInv /\ [Next]_vars => [FA!Next]_FA!vars
  BY RefineStep
<1>. QED
  BY <1>1, <1>2, Invariance, PTL DEF Spec, FA!Spec, ImplementsFrameAlloc

-----------------------------------------------------------------------------
(* The free lists as a whole.  Following next any number of times is an    *)
(* induction, which is made once, in WalkInOrder; the steps of the         *)
(* allocator keep a numbering of the blocks of each list.                  *)
HIDE DEF Frames, AllOrders, Links, Statuses, BELONGED_FRAME, ALLOCATED_FRAME,
         RESERVED_FRAME, Failed

(* The free blocks of order k are c[1], ..., c[n] in the order of their    *)
(* list.                                                                   *)
OnList(b, k) == Free(b) /\ status[b] = k
InOrder(k, n, c) ==
    /\ \A i, j \in 1 .. n : c[i] = c[j] => i = j
    /\ \A b \in Frames : OnList(b, k) <=> \E i \in 1 .. n : c[i] = b
    /\ free_lists[k] = IF n = 0 THEN BUDDY_NULL ELSE c[1]
    /\ \A i \in 1 .. n : next[c[i]] = IF i = n THEN BUDDY_NULL ELSE c[i + 1]

Chains == \A k \in AllOrders : \E n \in Nat : \E c \in [1 .. n -> Frames] : InOrder(k, n, c)

(* The least element of a set of numbers, and induction.                   *)
LEMMA Least ==
    ASSUME NEW S \in SUBSET Nat, S # {}
    PROVE  \E m \in S : \A k \in S : m <= k
<1> DEFINE R == OpToRel(<, Nat)
<1>1. IsWellFoundedOn(R, Nat)
  BY NatLessThanWellFounded
<1>2. \A x, y \in Nat : <<y, x>> \in R <=> y < x
  BY DEF OpToRel
<1> HIDE DEF R
<1>3. PICK m \in S : \A k \in S : ~(<<k, m>> \in R)
  BY <1>1, WFMin
<1>4. \A k \in S : ~(k < m)
  BY <1>2, <1>3
<1>5. m \in Nat /\ \A k \in S : k \in Nat
  OBVIOUS
<1> QED
  BY <1>4, <1>5

LEMMA Induction ==
    ASSUME NEW S, 0 \in S, \A n \in Nat : n \in S => n + 1 \in S
    PROVE  Nat \subseteq S
<1> SUFFICES ASSUME Nat \ S # {}
             PROVE  FALSE
  OBVIOUS
<1>1. PICK m \in Nat \ S : \A k \in Nat \ S : m <= k
  BY Least
<1>2. m # 0 /\ m - 1 \in Nat /\ m - 1 \in S
  BY <1>1
<1> QED
  BY <1>1, <1>2

(* A list in order has no more blocks than there are frames.               *)
LEMMA ChainShort ==
    ASSUME NEW k \in AllOrders, NEW n \in Nat, NEW c \in [1 .. n -> Frames], InOrder(k, n, c)
    PROVE  n <= TotalFrame
<1> SUFFICES ASSUME n > TotalFrame
             PROVE  FALSE
  BY MemoryAssumption
<1>1. IsFiniteSet(1 .. n) /\ Cardinality(1 .. n) = n
  BY FS_Interval
<1>2. IsFiniteSet(Frames) /\ Cardinality(Frames) = TotalFrame
  <2>. DEFINE last == TotalFrame - 1
  <2>1. last \in Int /\ TotalFrame \in Nat /\ last + 1 = TotalFrame /\ (0 > last => TotalFrame = 0)
    BY Naturals
  <2>2. Frames = 0 .. last
    BY DEF Frames
  <2>. HIDE DEF last
  <2>3. /\ IsFiniteSet(0 .. last)
        /\ Cardinality(0 .. last) = IF 0 > last THEN 0 ELSE last - 0 + 1
    BY <2>1, FS_Interval
  <2>. QED
    BY <2>1, <2>2, <2>3
<1>3. \E x, y \in 1 .. n : x # y /\ c[x] = c[y]
  BY <1>1, <1>2, FS_PigeonHole
<1> QED
  BY <1>3 DEF InOrder

(* Walking it meets its blocks in their order and then BUDDY_NULL.         *)
LEMMA WalkInOrder ==
    ASSUME NEW k \in AllOrders, NEW n \in Nat, NEW c \in [1 .. n -> Frames], InOrder(k, n, c)
    PROVE  \A i \in 0 .. TotalFrame : Walk(k)[i] = IF i < n THEN c[i + 1] ELSE BUDDY_NULL
<1> DEFINE Step(w) == [i \in 0 .. TotalFrame |->
                          IF i = 0 THEN free_lists[k]
                          ELSE IF w[i - 1] = BUDDY_NULL THEN BUDDY_NULL ELSE next[w[i - 1]]]
           At(i) == IF i < n THEN c[i + 1] ELSE BUDDY_NULL
           order == [i \in 0 .. TotalFrame |-> At(i)]
           w == Walk(k)
           S == {i \in Nat : i \in 0 .. TotalFrame => w[i] = At(i)}
<1>1. order = Step(order)
  <2>1. ASSUME NEW i \in 0 .. TotalFrame
        PROVE  order[i] = Step(order)[i]
    <3>0. i \in Nat /\ (i # 0 => i - 1 \in 0 .. TotalFrame)
      BY MemoryAssumption
    <3>1. CASE i = 0
      BY <3>1 DEF InOrder
    <3>2. CASE i # 0 /\ i - 1 < n
      <4>1. i \in 1 .. n /\ i - 1 \in 0 .. TotalFrame /\ c[i] \in Frames /\ order[i - 1] = c[i]
        BY <3>0, <3>2
      <4> QED
        BY <3>2, <4>1, MemoryAssumption DEF InOrder
    <3>3. CASE i # 0 /\ ~(i - 1 < n)
      BY <3>0, <3>3
    <3> QED
      BY <3>1, <3>2, <3>3
  <2> QED
    BY <2>1
<1>2. w = Step(w)
  <2>1. w = CHOOSE f : f = Step(f)
    BY DEF Walk
  <2> HIDE DEF w, Step, order
  <2> QED
    BY <1>1, <2>1
<1>3. 0 \in S
  BY <1>2 DEF InOrder
<1>4. ASSUME NEW i \in Nat, i \in S
      PROVE  i + 1 \in S
  <2> SUFFICES ASSUME i + 1 \in 0 .. TotalFrame
               PROVE  w[i + 1] = At(i + 1)
    OBVIOUS
  <2>1. w[i] = At(i) /\ i \in 0 .. TotalFrame
    BY <1>4, MemoryAssumption
  <2>2. w[i + 1] = IF At(i) = BUDDY_NULL THEN BUDDY_NULL ELSE next[At(i)]
    <3> HIDE DEF w, At
    <3> QED
      BY <1>2, <2>1
  <2> HIDE DEF w
  <2> QED
    BY <2>2, MemoryAssumption DEF InOrder
<1>5. Nat \subseteq S
  <2> HIDE DEF S
  <2> QED
    BY <1>3, <1>4, Induction
<1> HIDE DEF w, At
<1>6. \A i \in 0 .. TotalFrame : w[i] = At(i)
  BY <1>5, MemoryAssumption
<1> QED
  BY <1>6 DEF w, At


(* So a list holds the free blocks of its order.                           *)
LEMMA ListedBlocks ==
    ASSUME Chains
    PROVE  FreeListsExact
<1>. SUFFICES ASSUME NEW k \in AllOrders
              PROVE  /\ Walk(k)[TotalFrame] = BUDDY_NULL
                     /\ {Walk(k)[i] : i \in 0 .. TotalFrame} \ {BUDDY_NULL}
                           = {b \in Frames : OnList(b, k)}
  BY DEF FreeListsExact, OnList
<1>0. PICK n \in Nat : \E c \in [1 .. n -> Frames] : InOrder(k, n, c)
  BY DEF Chains
<1>1. PICK c \in [1 .. n -> Frames] : InOrder(k, n, c)
  BY <1>0
<1>2. n <= TotalFrame
  BY <1>1, ChainShort
<1>3. \A i \in 0 .. TotalFrame : Walk(k)[i] = IF i < n THEN c[i + 1] ELSE BUDDY_NULL
  BY <1>1, WalkInOrder
<1>4. ASSUME NEW i \in 0 .. TotalFrame, Walk(k)[i] # BUDDY_NULL
      PROVE  Walk(k)[i] \in {b \in Frames : OnList(b, k)}
  <2>1. i < n /\ Walk(k)[i] = c[i + 1] /\ i + 1 \in 1 .. n
    BY <1>3, <1>4
  <2>. QED
    BY <1>1, <2>1 DEF InOrder
<1>5. ASSUME NEW b \in Frames, OnList(b, k)
      PROVE  b # BUDDY_NULL /\ \E i \in 0 .. TotalFrame : Walk(k)[i] = b
  <2>1. PICK i \in 1 .. n : c[i] = b
    BY <1>1, <1>5 DEF InOrder
  <2>2. i - 1 \in 0 .. TotalFrame /\ i - 1 < n /\ (i - 1) + 1 = i
    BY <1>2, Naturals
  <2>3. Walk(k)[i - 1] = b
    BY <1>3, <2>1, <2>2
  <2>. QED
    BY <2>2, <2>3, MemoryAssumption
<1>6. Walk(k)[TotalFrame] = BUDDY_NULL
  BY <1>2, <1>3, Naturals
<1>. HIDE DEF OnList
<1>. QED
  BY <1>4, <1>5, <1>6

-----------------------------------------------------------------------------
(* Steps that leave the lists alone.                                       *)
LEMMA SameChains ==
    ASSUME Chains, free_lists' = free_lists,
           \A b \in Frames : Free(b)' <=> Free(b),
           \A b \in Frames : Free(b) => next'[b] = next[b] /\ status'[b] = status[b]
    PROVE  Chains'
<1>1. \A b \in Frames, k \in AllOrders : OnList(b, k)' <=> OnList(b, k)
  BY DEF OnList
<1>2. ASSUME NEW k \in AllOrders, NEW n \in Nat, NEW c \in [1 .. n -> Frames], InOrder(k, n, c)
      PROVE  InOrder(k, n, c)'
  <2>1. \A i \in 1 .. n : next'[c[i]] = next[c[i]]
    BY <1>2 DEF InOrder, OnList
  <2>. QED
    BY <1>1, <1>2, <2>1 DEF InOrder
<1>. QED
  BY <1>2 DEF Chains

(* No block is free and the lists are empty.                               *)
Empty == (\A b \in Frames : ~Free(b)) /\ \A k \in AllOrders : free_lists[k] = BUDDY_NULL

LEMMA EmptyChains == Empty => Chains
<1>. SUFFICES ASSUME Empty, NEW k \in AllOrders
              PROVE  \E n \in Nat : \E c \in [1 .. n -> Frames] : InOrder(k, n, c)
  BY DEF Chains
<1>. DEFINE c == [i \in 1 .. 0 |-> 0]
<1>1. c \in [1 .. 0 -> Frames]
  OBVIOUS
<1>2. InOrder(k, 0, c)
  BY DEF Empty, InOrder, OnList
<1>. QED
  BY <1>1, <1>2

(* A block pushed on the list of its order.                                *)
LEMMA PushChain ==
    ASSUME TypeOK, Chains, NEW u \in Frames, NEW k \in AllOrders, ~Free(u),
           next' = PushNext(u, k), free_lists' = PushHead(u, k),
           \A b \in Frames : Free(b)' <=> b = u \/ Free(b),
           status'[u] = k, \A b \in Frames : b # u => status'[b] = status[b]
    PROVE  Chains'
<1>1. /\ next'[u] = free_lists[k] /\ free_lists'[k] = u
      /\ \A j \in AllOrders : j # k => free_lists'[j] = free_lists[j]
      /\ \A b \in Frames : b # u => next'[b] = next[b]
  BY DEF TypeOK, PushNext, PushHead
<1>2. \A b \in Frames, j \in AllOrders : OnList(b, j)' <=> (b = u /\ j = k) \/ (b # u /\ OnList(b, j))
  BY DEF OnList
<1>. SUFFICES ASSUME NEW j \in AllOrders
              PROVE  \E n \in Nat : \E c \in [1 .. n -> Frames] : InOrder(j, n, c)'
  BY DEF Chains
<1>3. PICK n \in Nat : \E c \in [1 .. n -> Frames] : InOrder(j, n, c)
  BY DEF Chains
<1>4. PICK c \in [1 .. n -> Frames] : InOrder(j, n, c)
  BY <1>3
<1>5. \A i \in 1 .. n : c[i] \in Frames /\ c[i] # u /\ next'[c[i]] = next[c[i]]
  BY <1>1, <1>4 DEF InOrder, OnList
<1>6. CASE j # k
  <2>1. InOrder(j, n, c)'
    BY <1>1, <1>2, <1>4, <1>5, <1>6 DEF InOrder
  <2>. QED
    BY <2>1
<1>7. CASE j = k
  <2>. DEFINE m == n + 1
             d == [i \in 1 .. m |-> IF i = 1 THEN u ELSE c[i - 1]]
  <2>0. /\ m \in Nat /\ m # 0 /\ 1 \in 1 .. m
        /\ \A i \in 1 .. m : i = 1 \/ (i - 1 \in 1 .. n /\ (i = m <=> i - 1 = n))
        /\ \A i \in 1 .. n : i + 1 \in 1 .. m /\ i + 1 # 1 /\ i + 1 - 1 = i
        /\ \A i \in 1 .. m : i # m => i + 1 \in 1 .. m /\ i + 1 # 1 /\ i + 1 - 1 = i
        /\ (1 = m <=> n = 0)
    OBVIOUS
  <2>1. d \in [1 .. m -> Frames] /\ d[1] = u /\ \A i \in 1 .. m : i # 1 => d[i] = c[i - 1]
    BY <2>0
  <2>. HIDE DEF d, m
  <2>2. \A i, l \in 1 .. m : d[i] = d[l] => i = l
    <3>. TAKE i, l \in 1 .. m
    <3>0. ASSUME NEW x \in 1 .. m, x # 1
          PROVE  d[x] # u
      <4>1. x - 1 \in 1 .. n /\ d[x] = c[x - 1]
        BY <2>0, <2>1, <3>0
      <4>. QED
        BY <1>5, <4>1
    <3>1. CASE i = 1 \/ l = 1
      BY <2>1, <3>0, <3>1
    <3>2. CASE i # 1 /\ l # 1
      <4>1. d[i] = c[i - 1] /\ d[l] = c[l - 1] /\ i - 1 \in 1 .. n /\ l - 1 \in 1 .. n
        BY <2>0, <2>1, <3>2
      <4>2. c[i - 1] = c[l - 1] => i - 1 = l - 1
        BY <1>4, <4>1 DEF InOrder
      <4>. QED
        BY <2>0, <4>1, <4>2
    <3>. QED
      BY <3>1, <3>2
  <2>3. \A b \in Frames : OnList(b, j)' <=> \E i \in 1 .. m : d[i] = b
    <3>. TAKE b \in Frames
    <3>1. CASE b = u
      BY <1>2, <1>7, <2>0, <2>1, <3>1
    <3>2. CASE b # u
      <4>1. \A i \in 1 .. n : d[i + 1] = c[i]
        BY <2>0, <2>1
      <4>2. ASSUME NEW i \in 1 .. m, d[i] = b
            PROVE  \E l \in 1 .. n : c[l] = b
        BY <2>0, <2>1, <3>2, <4>2
      <4>3. ASSUME NEW l \in 1 .. n, c[l] = b
            PROVE  \E i \in 1 .. m : d[i] = b
        BY <2>0, <4>1, <4>3
      <4>. QED
        BY <1>2, <1>4, <3>2, <4>2, <4>3 DEF InOrder
    <3>. QED
      BY <3>1, <3>2
  <2>4. free_lists'[j] = d[1] /\ m # 0
    BY <1>1, <1>7, <2>0, <2>1
  <2>5. \A i \in 1 .. m : next'[d[i]] = IF i = m THEN BUDDY_NULL ELSE d[i + 1]
    <3>. TAKE i \in 1 .. m
    <3>1. i # m => d[i + 1] = c[i]
      BY <2>0, <2>1
    <3>2. CASE i = 1
      BY <1>1, <1>4, <1>7, <2>0, <2>1, <3>1, <3>2 DEF InOrder
    <3>3. CASE i # 1
      <4>. DEFINE l == i - 1
      <4>1. l \in 1 .. n /\ d[i] = c[l] /\ (i = m <=> l = n) /\ l + 1 = i
        BY <2>0, <2>1, <3>3
      <4>. HIDE DEF l
      <4>2. next'[c[l]] = IF l = n THEN BUDDY_NULL ELSE c[i]
        BY <1>4, <1>5, <4>1 DEF InOrder
      <4>. QED
        BY <3>1, <4>1, <4>2
    <3>. QED
      BY <3>2, <3>3
  <2>6. InOrder(j, m, d)'
    BY <2>2, <2>3, <2>4, <2>5 DEF InOrder
  <2>. QED
    BY <2>0, <2>1, <2>6
<1>. QED
  BY <1>6, <1>7

(* A block taken off its list, from the head or from inside.               *)
LEMMA UnlinkChain ==
    ASSUME TypeOK, LinksAgree, Chains, NEW u \in Frames, NEW k \in AllOrders, OnList(u, k),
           free_lists' = UnlinkHead(u, k),
           \A b \in Frames : Free(b)' <=> b # u /\ Free(b),
           \A b \in Frames : b # u /\ Free(b) =>
               next'[b] = UnlinkNext(u, k)[b] /\ status'[b] = status[b]
    PROVE  Chains'
<1>0. BUDDY_NULL \notin Frames
  BY MemoryAssumption DEF Frames
<1>1. \A b \in Frames, j \in AllOrders : OnList(b, j)' <=> b # u /\ OnList(b, j)
  BY DEF OnList
<1>2. /\ free_lists'[k] = IF free_lists[k] = u THEN next[u] ELSE free_lists[k]
      /\ \A j \in AllOrders : j # k => free_lists'[j] = free_lists[j]
  BY DEF TypeOK, UnlinkHead, IsHead
<1>3. \A b \in Frames : b # u /\ Free(b) =>
        next'[b] = IF free_lists[k] # u /\ b = prev[u] THEN next[u] ELSE next[b]
  BY DEF UnlinkNext, IsHead
<1>4. prev[u] # BUDDY_NULL => OnList(prev[u], k) /\ next[prev[u]] = u
  BY DEF LinksAgree, OnList
<1>5. prev[u] = BUDDY_NULL => free_lists[k] = u
  BY DEF LinksAgree, OnList, IsHead
<1>. SUFFICES ASSUME NEW j \in AllOrders
              PROVE  \E n \in Nat : \E c \in [1 .. n -> Frames] : InOrder(j, n, c)'
  BY DEF Chains
<1>6. PICK n \in Nat : \E c \in [1 .. n -> Frames] : InOrder(j, n, c)
  BY DEF Chains
<1>7. PICK c \in [1 .. n -> Frames] : InOrder(j, n, c)
  BY <1>6
<1>8. \A i \in 1 .. n : c[i] \in Frames /\ OnList(c[i], j) /\ Free(c[i]) /\ status[c[i]] = j
  BY <1>7 DEF InOrder, OnList
<1>9. CASE j # k
  <2>1. \A i \in 1 .. n : c[i] # u /\ next'[c[i]] = next[c[i]]
    <3>. TAKE i \in 1 .. n
    <3>1. c[i] # u
      BY <1>8, <1>9 DEF OnList
    <3>2. ~(free_lists[k] # u /\ c[i] = prev[u])
      BY <1>0, <1>4, <1>5, <1>8, <1>9 DEF OnList
    <3>. QED
      BY <1>3, <1>8, <3>1, <3>2
  <2>2. InOrder(j, n, c)'
    <3>1. \A b \in Frames : OnList(b, j)' <=> OnList(b, j)
      BY <1>1, <1>9 DEF OnList
    <3>. QED
      BY <1>2, <1>7, <1>9, <2>1, <3>1 DEF InOrder
  <2>. QED
    BY <2>2
<1>10. CASE j = k
  <2>1. PICK p \in 1 .. n : c[p] = u
    BY <1>7, <1>10 DEF InOrder
  <2>2. next[u] = IF p = n THEN BUDDY_NULL ELSE c[p + 1]
    BY <1>7, <2>1 DEF InOrder
  <2>3. \A i \in 1 .. n : c[i] = u => i = p
    BY <1>7, <2>1 DEF InOrder
  <2>4. free_lists[k] = c[1] /\ 1 \in 1 .. n
    BY <1>7, <1>10, <2>1 DEF InOrder
  <2>5. free_lists[k] = u <=> p = 1
    BY <2>1, <2>3, <2>4
  <2>6. \A i \in 1 .. n : free_lists[k] # u /\ c[i] = prev[u] <=> i = p - 1
    <3>. TAKE i \in 1 .. n
    <3>1. ASSUME free_lists[k] # u, c[i] = prev[u]
          PROVE  i = p - 1
      <4>1. next[c[i]] = u
        BY <1>4, <1>5, <3>1
      <4>2. next[c[i]] = IF i = n THEN BUDDY_NULL ELSE c[i + 1]
        BY <1>7 DEF InOrder
      <4>3. i # n /\ c[i + 1] = u /\ i + 1 \in 1 .. n
        BY <1>0, <4>1, <4>2
      <4>. QED
        BY <2>3, <4>3
    <3>2. ASSUME i = p - 1
          PROVE  free_lists[k] # u /\ c[i] = prev[u]
      <4>1. p # 1 /\ i # n /\ i + 1 = p
        BY <2>1, <3>2
      <4>2. next[c[i]] = u
        BY <1>7, <2>1, <4>1 DEF InOrder
      <4>3. prev[u] = c[i]
        BY <1>0, <1>8, <4>2 DEF LinksAgree
      <4>. QED
        BY <2>5, <4>1, <4>3
    <3>. QED
      BY <3>1, <3>2
  <2>7. \A i \in 1 .. n : i # p => next'[c[i]] = IF i = p - 1 THEN next[u] ELSE next[c[i]]
    BY <1>3, <1>8, <2>3, <2>6
  <2>. DEFINE m == n - 1
             at(i) == IF i < p THEN i ELSE i + 1
             d == [i \in 1 .. m |-> c[at(i)]]
  <2>8. /\ m \in Nat /\ (m = 0 <=> n = 1)
        /\ \A i \in 1 .. m : at(i) \in 1 .. n /\ at(i) # p
        /\ \A i, l \in 1 .. m : at(i) = at(l) => i = l
    BY <2>1
  <2>9. \A l \in 1 .. n : l # p => \E i \in 1 .. m : at(i) = l
    <3>. TAKE l \in 1 .. n
    <3>1. CASE l < p
      <4>1. l \in 1 .. m /\ at(l) = l
        BY <2>1, <3>1
      <4>. QED
        BY <4>1
    <3>2. CASE l > p
      <4>1. l - 1 \in 1 .. m /\ at(l - 1) = l
        BY <2>1, <3>2
      <4>. QED
        BY <4>1
    <3>. QED
      BY <2>1, <3>1, <3>2
  <2>10. \A i \in 1 .. m :
            /\ i # m => i + 1 \in 1 .. m
            /\ at(i) = p - 1 => i # m <=> p # n
            /\ at(i) = p - 1 /\ i # m => at(i + 1) = p + 1
            /\ at(i) # p - 1 => (i # m <=> at(i) # n)
            /\ at(i) # p - 1 /\ i # m => at(i + 1) = at(i) + 1
    BY <2>1
  <2>11. m # 0 => 1 \in 1 .. m /\ at(1) = IF p = 1 THEN 2 ELSE 1
    BY <2>1
  <2>. HIDE DEF m, at
  <2>12. d \in [1 .. m -> Frames] /\ \A i \in 1 .. m : d[i] = c[at(i)]
    BY <2>8
  <2>. HIDE DEF d
  <2>13. \A i, l \in 1 .. m : d[i] = d[l] => i = l
    <3>. TAKE i, l \in 1 .. m
    <3>1. d[i] = d[l] => at(i) = at(l)
      BY <1>7, <2>8, <2>12 DEF InOrder
    <3>. QED
      BY <2>8, <3>1
  <2>14. \A b \in Frames : OnList(b, j)' <=> \E i \in 1 .. m : d[i] = b
    <3>. TAKE b \in Frames
    <3>1. ASSUME NEW i \in 1 .. m, d[i] = b
          PROVE  b # u /\ OnList(b, j)
      BY <1>8, <2>3, <2>8, <2>12, <3>1
    <3>2. ASSUME b # u, OnList(b, j)
          PROVE  \E i \in 1 .. m : d[i] = b
      <4>1. PICK l \in 1 .. n : c[l] = b
        BY <1>7, <3>2 DEF InOrder
      <4>2. l # p
        BY <2>1, <3>2, <4>1
      <4>. QED
        BY <2>9, <2>12, <4>1, <4>2
    <3>. QED
      BY <1>1, <3>1, <3>2
  <2>15. free_lists'[j] = IF m = 0 THEN BUDDY_NULL ELSE d[1]
    <3>1. CASE p = 1
      BY <1>2, <1>10, <2>1, <2>2, <2>5, <2>8, <2>11, <2>12, <3>1
    <3>2. CASE p # 1
      <4>1. n # 1
        BY <2>1, <3>2
      <4>. QED
        BY <1>2, <1>10, <2>4, <2>5, <2>8, <2>11, <2>12, <3>2, <4>1
    <3>. QED
      BY <3>1, <3>2
  <2>16. \A i \in 1 .. m : next'[d[i]] = IF i = m THEN BUDDY_NULL ELSE d[i + 1]
    <3>. TAKE i \in 1 .. m
    <3>1. d[i] = c[at(i)] /\ at(i) \in 1 .. n /\ at(i) # p /\ (i # m => d[i + 1] = c[at(i + 1)])
      BY <2>8, <2>10, <2>12
    <3>2. next[c[at(i)]] = IF at(i) = n THEN BUDDY_NULL ELSE c[at(i) + 1]
      BY <1>7, <3>1 DEF InOrder
    <3>3. next'[d[i]] = IF at(i) = p - 1 THEN next[u] ELSE next[c[at(i)]]
      BY <2>7, <3>1
    <3>4. CASE at(i) = p - 1
      BY <2>2, <2>10, <3>1, <3>3, <3>4
    <3>5. CASE at(i) # p - 1
      BY <2>10, <3>1, <3>2, <3>3, <3>5
    <3>. QED
      BY <3>4, <3>5
  <2>17. InOrder(j, m, d)'
    BY <2>13, <2>14, <2>15, <2>16 DEF InOrder
  <2>. QED
    BY <2>8, <2>12, <2>17
<1>. QED
  BY <1>9, <1>10

-----------------------------------------------------------------------------
(* The steps of the allocator, one lemma for each that changes a list.     *)
USE DEF Frames, AllOrders, Links, Statuses, BELONGED_FRAME, ALLOCATED_FRAME,
        RESERVED_FRAME, Failed

LEMMA InitChains == Init => Chains
<1>. SUFFICES ASSUME Init PROVE Chains
  OBVIOUS
<1>1. \A b \in Frames : ~Free(b)
  BY DEF Init, Free, Starts
<1>. QED
  BY <1>1, EmptyChains DEF Init, Empty

(* Until buddy_init starts no block exists.                                *)
LEMMA MemoryReserveChains == IndInv /\ Chains /\ MemoryReserve => Chains'
<1>. SUFFICES ASSUME IndInv, Chains, MemoryReserve PROVE Chains'
  OBVIOUS
<1>1. \A b \in Frames : ~Starts(b)
  BY DEF IndInv, Stage, MemoryReserve
<1>2. \A b \in Frames : ~Free(b) /\ ~Free(b)'
  BY <1>1 DEF MemoryReserve, Free, Starts
<1>. QED
  BY <1>2, SameChains DEF MemoryReserve

LEMMA BuddyInitStartChains == BuddyInitStart => Chains'
<1>. SUFFICES ASSUME BuddyInitStart PROVE Chains'
  OBVIOUS
<1>1. Empty'
  BY DEF BuddyInitStart, Empty, Free, Starts
<1>. QED
  BY <1>1, EmptyChains, PTL

LEMMA InitBlockChains ==
  ASSUME NEW o \in AllOrders PROVE IndInv /\ Chains /\ InitBlock(o) => Chains'
<1>. SUFFICES ASSUME IndInv, Chains, InitBlock(o), NEW u, u = scan PROVE Chains'
  OBVIOUS
<1>1. /\ pc = "init" /\ pc' = pc /\ u \in Frames
      /\ status' = [status EXCEPT ![u] = o] /\ next' = PushNext(u, o)
      /\ free_lists' = PushHead(u, o) /\ TypeOK /\ Stage
  BY Naturals DEF InitBlock, IndInv, TypeOK
<1>2. /\ \A b \in Frames : b # u => status'[b] = status[b]
      /\ status'[u] = o
  BY <1>1 DEF TypeOK
<1>3. ~Free(u)
  BY <1>1 DEF Stage, Free
<1>4. \A b \in Frames : Free(b)' <=> b = u \/ Free(b)
  BY <1>1, <1>2, Naturals DEF Free, Starts, InHand
<1>. QED
  BY <1>1, <1>2, <1>3, <1>4, PushChain

LEMMA AllocTakeChains ==
  ASSUME NEW o \in Orders, NEW i \in AllOrders
  PROVE  IndInv /\ Chains /\ AllocTake(o, i) => Chains'
<1>. SUFFICES ASSUME IndInv, Chains, AllocTake(o, i), NEW h, h = free_lists[i] PROVE Chains'
  OBVIOUS
<1>1. /\ pc = "idle" /\ pc' = "split" /\ blk' = h /\ status' = status /\ next' = next
      /\ free_lists' = [free_lists EXCEPT ![i] = next[h]] /\ TypeOK /\ LinksAgree
  BY DEF AllocTake, IndInv
<1>2. h \in Frames /\ Free(h) /\ status[h] = i
  BY <1>1 DEF AllocTake, TypeOK, LinksAgree
<1>3. \A b \in Frames : Free(b)' <=> b # h /\ Free(b)
  BY <1>1 DEF Free, InHand, Starts
<1>4. IsHead(h, i) /\ UnlinkHead(h, i) = free_lists'
  BY <1>1 DEF IsHead, UnlinkHead
<1>5. \A b \in Frames : UnlinkNext(h, i)[b] = next'[b]
  BY <1>1, <1>4 DEF UnlinkNext
<1>6. OnList(h, i)
  BY <1>2 DEF OnList
<1>. QED
  BY <1>1, <1>2, <1>3, <1>4, <1>5, <1>6, UnlinkChain

LEMMA SplitChains == IndInv /\ Chains /\ Split => Chains'
<1>. SUFFICES ASSUME IndInv, Chains, Split, NEW k, k = ord - 1, NEW u, u = UpperHalf, NEW h, h = blk
              PROVE  Chains'
  OBVIOUS
<1>1. /\ k \in AllOrders /\ Size[k + 1] = Size[k] + Size[k] /\ ord = k + 1
      /\ Size[k] \in Nat /\ Size[k] >= 1
  BY SizeAssumption DEF IndInv, TypeOK, Split
<1>2. /\ pc = "split" /\ pc' = pc /\ blk = h /\ blk' = h /\ u = h + Size[k]
      /\ status' = [status EXCEPT ![u] = k] /\ next' = PushNext(u, k)
      /\ free_lists' = PushHead(u, k) /\ TypeOK /\ Stage /\ Shape
  BY DEF Split, UpperHalf, IndInv
<1>3. h \in Frames /\ Starts(h) /\ OrderOf(h) = ord
  BY <1>2 DEF Stage, Starts, OrderOf, InHand
<1>4. u \in Frames /\ h < u /\ status[u] = BELONGED_FRAME
  <2>1. h + Size[ord] <= TotalFrame
    BY <1>2, <1>3 DEF Shape
  <2>2. u \in Frames /\ h < u /\ u < h + Size[ord]
    BY <1>1, <1>2, <1>3, <2>1, Naturals
  <2>. QED
    BY <1>2, <1>3, <2>2 DEF Shape
<1>5. /\ \A b \in Frames : b # u => status'[b] = status[b]
      /\ status'[u] = k
  BY <1>2, <1>4 DEF TypeOK
<1>6. ~Free(u)
  BY <1>4 DEF Free, Starts
<1>7. u # h
  BY <1>3, <1>4, Naturals
<1>8. \A b \in Frames : Free(b)' <=> b = u \/ Free(b)
  BY <1>1, <1>2, <1>5, <1>7, Naturals DEF Free, Starts, InHand
<1>. QED
  BY <1>1, <1>2, <1>4, <1>5, <1>6, <1>8, PushChain

LEMMA AllocDoneChains == IndInv /\ Chains /\ AllocDone => Chains'
<1>. SUFFICES ASSUME IndInv, Chains, AllocDone, NEW h, h = blk PROVE Chains'
  OBVIOUS
<1>1. /\ pc = "split" /\ pc' = "idle" /\ blk = h /\ free_lists' = free_lists
      /\ status' = [status EXCEPT ![h] = ALLOCATED_FRAME]
      /\ next' = [next EXCEPT ![h] = BUDDY_NULL] /\ TypeOK
  BY DEF AllocDone, Idle, IndInv
<1>2. /\ \A b \in Frames : b # h => status'[b] = status[b] /\ next'[b] = next[b]
      /\ h \in Frames => status'[h] = ALLOCATED_FRAME
  BY <1>1 DEF TypeOK
<1>3. ~Free(h)
  BY <1>1 DEF Free, InHand
<1>4. \A b \in Frames : Free(b)' <=> Free(b)
  BY <1>1, <1>2 DEF Free, InHand, Starts
<1>. QED
  BY <1>1, <1>2, <1>3, <1>4, SameChains

LEMMA FreeStartChains ==
  ASSUME NEW h \in Frames PROVE IndInv /\ Chains /\ FreeStart(h) => Chains'
<1>. SUFFICES ASSUME IndInv, Chains, FreeStart(h) PROVE Chains'
  OBVIOUS
<1>1. /\ pc = "idle" /\ pc' = "merge" /\ blk' = h /\ status[h] = ALLOCATED_FRAME
      /\ status' = [status EXCEPT ![h] = allocated_order[h]]
      /\ next' = next /\ free_lists' = free_lists /\ TypeOK
  BY DEF FreeStart, IndInv
<1>2. \A b \in Frames : b # h => status'[b] = status[b]
  BY <1>1 DEF TypeOK
<1>3. ~Free(h)
  BY <1>1 DEF Free
<1>4. \A b \in Frames : Free(b)' <=> Free(b)
  BY <1>1, <1>2, <1>3 DEF Free, InHand, Starts
<1>. QED
  BY <1>1, <1>2, <1>3, <1>4, SameChains

LEMMA MergeChains == IndInv /\ Chains /\ Merge => Chains'
<1>. SUFFICES ASSUME IndInv, Chains, Merge, NEW h, h = blk, NEW k, k = ord, NEW b, b = Bud,
                     NEW lo, lo = Lower, NEW up, up = Upper
              PROVE  Chains'
  OBVIOUS
<1>1. /\ pc = "merge" /\ pc' = "merge" /\ blk = h /\ blk' = lo
      /\ status' = [status EXCEPT ![up] = BELONGED_FRAME]
      /\ next' = [UnlinkNext(b, k) EXCEPT ![up] = BUDDY_NULL]
      /\ free_lists' = UnlinkHead(b, k) /\ TypeOK /\ LinksAgree
  BY DEF Merge, IndInv
<1>2. /\ h \in Frames /\ status[h] \in AllOrders /\ k \in AllOrders
      /\ b \in Frames /\ status[b] = k /\ b # h
      /\ lo \in Frames /\ up \in Frames
      /\ (lo = b /\ up = h) \/ (lo = h /\ up = b)
  BY MergeUpper
<1>3. /\ \A c \in Frames : c # up => status'[c] = status[c]
      /\ status'[up] = BELONGED_FRAME
  BY <1>1, <1>2 DEF TypeOK
<1>4. Free(b) /\ ~Free(h)
  BY <1>1, <1>2, Naturals DEF Free, Starts, InHand
<1>5. OnList(b, k)
  BY <1>2, <1>4 DEF OnList
<1>6. \A c \in Frames : Free(c)' <=> c # b /\ Free(c)
  BY <1>1, <1>2, <1>3 DEF Free, Starts, InHand
<1>7. \A c \in Frames : c # b /\ Free(c) => next'[c] = UnlinkNext(b, k)[c] /\ status'[c] = status[c]
  BY <1>1, <1>2, <1>3, <1>4 DEF UnlinkNext
<1>. QED
  BY <1>1, <1>2, <1>5, <1>6, <1>7, UnlinkChain

LEMMA FreeDoneChains == IndInv /\ Chains /\ FreeDone => Chains'
<1>. SUFFICES ASSUME IndInv, Chains, FreeDone, NEW h, h = blk, NEW k, k = ord PROVE Chains'
  OBVIOUS
<1>1. /\ pc = "merge" /\ pc' = "idle" /\ blk = h /\ ord = k
      /\ status' = [status EXCEPT ![h] = k] /\ next' = PushNext(h, k)
      /\ free_lists' = PushHead(h, k) /\ TypeOK /\ Stage
  BY DEF FreeDone, Idle, IndInv
<1>2. h \in Frames /\ status[h] \in AllOrders /\ k \in AllOrders
  BY <1>1 DEF Stage, TypeOK
<1>3. /\ \A b \in Frames : b # h => status'[b] = status[b]
      /\ status'[h] = k
  BY <1>1, <1>2 DEF TypeOK
<1>4. ~Free(h)
  BY <1>1 DEF Free, InHand
<1>5. \A b \in Frames : Free(b)' <=> b = h \/ Free(b)
  BY <1>1, <1>2, <1>3, Naturals DEF Free, Starts, InHand
<1>. QED
  BY <1>1, <1>2, <1>3, <1>4, <1>5, PushChain

(* A step that touches neither the descriptors nor pc and blk.             *)
LEMMA QuietChains ==
  ASSUME Chains, UNCHANGED frames, blk' = blk, \A b \in Frames : InHand(b)' <=> InHand(b)
  PROVE  Chains'
<1>1. \A b \in Frames : Free(b)' <=> Free(b)
  BY DEF frames, Free, Starts
<1>. QED
  BY <1>1, SameChains DEF frames

LEMMA NextChains == IndInv /\ Chains /\ [Next]_vars => Chains'
<1>. SUFFICES ASSUME IndInv, Chains, [Next]_vars PROVE Chains'
  OBVIOUS
<1>. USE DEF frames, boot, call
<1>1. ASSUME NEW o \in Orders, NEW i \in AllOrders, AllocTake(o, i) PROVE Chains'
  BY <1>1, AllocTakeChains
<1>2. ASSUME NEW o \in Orders, AllocFail(o) PROVE Chains'
  BY <1>2, QuietChains DEF AllocFail, InHand
<1>3. ASSUME NEW b \in Frames, FreeIgnored(b) PROVE Chains'
  BY <1>3, QuietChains DEF FreeIgnored, vars, InHand
<1>4. ASSUME NEW b \in Frames, FreeStart(b) PROVE Chains'
  BY <1>4, FreeStartChains
<1>5. CASE MemoryReserve
  BY <1>5, MemoryReserveChains
<1>6. CASE BuddyInitStart
  BY <1>6, BuddyInitStartChains
<1>7. CASE InitSkip
  BY <1>7, QuietChains DEF InitSkip, InHand
<1>8. ASSUME NEW o \in AllOrders, InitBlock(o) PROVE Chains'
  BY <1>8, InitBlockChains
<1>9. CASE InitDone
  BY <1>9, QuietChains DEF InitDone, InHand
<1>10. CASE Split
  BY <1>10, SplitChains
<1>11. CASE AllocDone
  BY <1>11, AllocDoneChains
<1>12. CASE Merge
  BY <1>12, MergeChains
<1>13. CASE FreeDone
  BY <1>13, FreeDoneChains
<1>14. CASE UNCHANGED vars
  BY <1>14, QuietChains DEF vars, InHand
<1>. QED
  BY <1>1, <1>2, <1>3, <1>4, <1>5, <1>6, <1>7, <1>8, <1>9, <1>10, <1>11, <1>12, <1>13, <1>14
     DEF Next, Call, Proceed

(* Walking the list of an order always ends and meets exactly the free     *)
(* blocks of that order: a call that finds the lists empty has no block.   *)
THEOREM ListsAlwaysExact == Spec => []FreeListsExact
<1>1. Init => Chains
  BY InitChains
<1>2. IndInv /\ Chains /\ [Next]_vars => Chains'
  BY NextChains
<1>3. Chains => FreeListsExact
  BY ListedBlocks
<1>. QED
  BY <1>1, <1>2, <1>3, Invariance, PTL DEF Spec

(* For every size of memory and all ranges reserved at boot: when a single *)
(* frame is refused, every usable one is handed out.  Each lies in some    *)
(* block, and a free block would be on a list.                             *)
THEOREM RefusedOnlyWhenFull == Spec => []RefusedWhenFull
<1>1. IndInv /\ Chains => RefusedWhenFull
  <2> SUFFICES ASSUME IndInv, Chains, pc = "idle", NoBlock(0),
                      NEW f \in Frames, status[f] # RESERVED_FRAME
               PROVE  HandedOut(f)
    BY DEF RefusedWhenFull
  <2>1. PICK b \in Frames : Starts(b) /\ f \in Block(b)
    BY DEF IndInv, NoFrameLost, Passed
  <2>2. ASSUME status[b] # ALLOCATED_FRAME
        PROVE  FALSE
    <3>1. status[b] \in AllOrders /\ OnList(b, status[b])
      BY <2>1, <2>2 DEF IndInv, TypeOK, Statuses, Starts, Free, InHand, OnList
    <3>2. free_lists[status[b]] = BUDDY_NULL
      BY <3>1 DEF NoBlock, AllOrders
    <3>3. PICK n \in Nat : \E c \in [1 .. n -> Frames] : InOrder(status[b], n, c)
      BY <3>1 DEF Chains
    <3>4. PICK c \in [1 .. n -> Frames] : InOrder(status[b], n, c)
      BY <3>3
    <3>5. PICK i \in 1 .. n : c[i] = b
      BY <3>1, <3>4 DEF InOrder
    <3>6. n # 0 /\ 1 \in 1 .. n
      BY <3>5
    <3>7. free_lists[status[b]] \in Frames
      BY <3>4, <3>6 DEF InOrder
    <3> QED
      BY <3>2, <3>7, MemoryAssumption
  <2> QED
    BY <2>1, <2>2 DEF HandedOut
<1>2. Init => Chains
  BY InitChains
<1>3. IndInv /\ Chains /\ [Next]_vars => Chains'
  BY NextChains
<1> QED
  BY <1>1, <1>2, <1>3, Invariance, PTL DEF Spec

-----------------------------------------------------------------------------
(* A number is a multiple and a remainder in one way.                      *)
LEMMA Divided ==
    ASSUME NEW m \in Nat \ {0}, NEW a \in Int
    PROVE  \E q \in Int : \E r \in 0 .. m - 1 : a = q * m + r /\ a % m = r
<1>1. a % m = a - m * (a \div m) /\ a % m \in 0 .. m - 1 /\ a \div m \in Int
  OBVIOUS
<1>2. PICK q \in Int, r \in 0 .. m - 1 : q = a \div m /\ r = a % m
  BY <1>1
<1>3. r = a - m * q
  BY <1>1, <1>2
<1>4. m * q \in Int /\ m * q = q * m
  OBVIOUS
<1>5. a = q * m + r
  BY <1>3, <1>4
<1> QED
  BY <1>2, <1>5

LEMMA Remainder ==
    ASSUME NEW m \in Nat \ {0}, NEW q \in Int, NEW r \in 0 .. m - 1
    PROVE  (q * m + r) % m = r
<1>1. PICK a \in Int : a = q * m + r
  <2>1. q * m + r \in Int
    OBVIOUS
  <2> QED
    BY <2>1
<1>2. PICK d \in Int : \E s \in 0 .. m - 1 : a = d * m + s /\ a % m = s
  BY Divided
<1>3. PICK s \in 0 .. m - 1 : a = d * m + s /\ a % m = s
  BY <1>2
<1>4. ASSUME NEW x \in Int, NEW y \in Int, x < y, NEW u \in 0 .. m - 1, NEW v \in 0 .. m - 1,
             x * m + u = y * m + v
      PROVE  FALSE
  <2>1. PICK k \in Nat : y = (x + 1) + k
    <3>1. y - (x + 1) \in Nat /\ y = (x + 1) + (y - (x + 1))
      BY <1>4
    <3> QED
      BY <3>1
  <2>2. y * m = x * m + m + k * m /\ k * m \in Nat /\ x * m \in Int
    BY <2>1
  <2> QED
    BY <1>4, <2>2
<1>5. d = q
  BY <1>1, <1>3, <1>4
<1>6. q * m \in Int
  OBVIOUS
<1> QED
  BY <1>1, <1>3, <1>5, <1>6

(* The buddy of the buddy is the block itself.                             *)
LEMMA BuddyTwice ==
    ASSUME NEW b \in Frames, NEW k \in AllOrders, k < MaxOrder
    PROVE  BuddyOf(BuddyOf(b, k), k) = b /\ BuddyOf(b, k) # b
<1>1. PICK n \in Nat \ {0} : n = Size[k]
  BY SizeAssumption
<1>2. Size[k + 1] = n + n /\ n + n \in Nat \ {0}
  BY <1>1, SizeAssumption DEF AllOrders
<1>3. PICK m \in Nat \ {0} : m = n + n
  BY <1>2
<1>4. b \in Int
  BY DEF Frames
<1>5. PICK q \in Int : \E r \in 0 .. m - 1 : b = q * m + r /\ b % m = r
  BY <1>4, Divided
<1>6. PICK r \in 0 .. m - 1 : b = q * m + r /\ b % m = r
  BY <1>5
<1>7. \A c : BuddyOf(c, k) = IF c % m < n THEN c + n ELSE c - n
  BY <1>1, <1>2, <1>3 DEF BuddyOf
<1>8. q * m \in Int
  OBVIOUS
<1>9. CASE r < n
  <2>1. BuddyOf(b, k) = b + n
    BY <1>6, <1>7, <1>9
  <2>2. b + n = q * m + (r + n) /\ r + n \in 0 .. m - 1
    BY <1>3, <1>6, <1>8, <1>9
  <2>3. (b + n) % m = r + n
    BY <2>2, Remainder
  <2>4. ~(r + n < n)
    BY <1>6
  <2>5. BuddyOf(b + n, k) = (b + n) - n
    BY <1>7, <2>3, <2>4
  <2> QED
    BY <1>4, <2>1, <2>5
<1>10. CASE ~(r < n)
  <2>1. BuddyOf(b, k) = b - n
    BY <1>6, <1>7, <1>10
  <2>2. b - n = q * m + (r - n) /\ r - n \in 0 .. m - 1 /\ r - n < n
    BY <1>3, <1>6, <1>8, <1>10
  <2>3. (b - n) % m = r - n
    BY <2>2, Remainder
  <2>4. BuddyOf(b - n, k) = (b - n) + n
    BY <1>7, <2>2, <2>3
  <2> QED
    BY <1>4, <2>1, <2>4
<1> QED
  BY <1>9, <1>10

-----------------------------------------------------------------------------
(* Two blocks of which the first would be merged with the second.          *)
Buddies(b, c) == status[b] < MaxOrder /\ c = BuddyOf(b, status[b]) /\ status[c] = status[b]

NoPair == \A b, c \in Frames : Free(b) /\ Free(c) => ~Buddies(b, c)

LEMMA NoBuddiesIs == NoBuddies <=> NoPair
  BY DEF NoBuddies, NoPair, Buddies

LEMMA NoBuddiesAfter == NoBuddies' <=> NoPair'
  BY NoBuddiesIs, PTL

LEMMA BuddiesAfter ==
    ASSUME NEW b, NEW c
    PROVE  Buddies(b, c)' <=>
               status'[b] < MaxOrder /\ c = BuddyOf(b, status'[b]) /\ status'[c] = status'[b]
  BY DEF Buddies, BuddyOf

(* One more free block, of which the buddy is not free.                    *)
LEMMA OneMoreFree ==
    ASSUME NoBuddies, NEW u \in Frames, NEW k \in AllOrders, status'[u] = k,
           \A b \in Frames : Free(b)' => b = u \/ (Free(b) /\ status'[b] = status[b]),
           \A c \in Frames : Free(c)' /\ k < MaxOrder /\ c = BuddyOf(u, k) => status'[c] # k
    PROVE  NoBuddies'
<1> SUFFICES ASSUME NEW b \in Frames, NEW c \in Frames, Free(b)', Free(c)', Buddies(b, c)'
             PROVE  FALSE
  BY NoBuddiesAfter DEF NoPair
<1>1. status'[b] < MaxOrder /\ c = BuddyOf(b, status'[b]) /\ status'[c] = status'[b]
  BY BuddiesAfter
<1>2. CASE b = u
  BY <1>1, <1>2
<1>3. CASE b # u /\ c = u
  <2>1. status'[b] = k /\ k < MaxOrder /\ u = BuddyOf(b, k)
    BY <1>1, <1>3
  <2>2. BuddyOf(u, k) = b
    BY <2>1, BuddyTwice
  <2> QED
    BY <2>1, <2>2
<1>4. CASE b # u /\ c # u
  <2>1. Free(b) /\ Free(c) /\ status'[b] = status[b] /\ status'[c] = status[c]
    BY <1>4
  <2>2. Buddies(b, c)
    BY <1>1, <2>1 DEF Buddies
  <2> QED
    BY <2>1, <2>2, NoBuddiesIs DEF NoPair
<1> QED
  BY <1>2, <1>3, <1>4

(* No more free blocks than before.                                        *)
LEMMA FewerFree ==
    ASSUME NoBuddies,
           \A b \in Frames : Free(b)' => Free(b) /\ status'[b] = status[b]
    PROVE  NoBuddies'
<1> SUFFICES ASSUME NEW b \in Frames, NEW c \in Frames, Free(b)', Free(c)', Buddies(b, c)'
             PROVE  FALSE
  BY NoBuddiesAfter DEF NoPair
<1>1. status'[b] < MaxOrder /\ c = BuddyOf(b, status'[b]) /\ status'[c] = status'[b]
  BY BuddiesAfter
<1>2. Free(b) /\ Free(c) /\ status'[b] = status[b] /\ status'[c] = status[c]
  OBVIOUS
<1>3. Buddies(b, c)
  BY <1>1, <1>2 DEF Buddies
<1> QED
  BY <1>2, <1>3, NoBuddiesIs DEF NoPair

-----------------------------------------------------------------------------
(* One lemma per action shows that it leaves no buddies to merge.          *)
LEMMA FreeStatus ==
    ASSUME TypeOK, NEW b \in Frames, Free(b)
    PROVE  status[b] \in AllOrders /\ status[b] \in Int /\ OrderOf(b) = status[b]
  BY DEF TypeOK, Free, Starts, OrderOf, Statuses, AllOrders

LEMMA BootNoBuddies ==
    ASSUME IndInv, MergeInv, pc = "init"
    PROVE  NoBuddies
<1>1. TypeOK /\ Shape
  BY DEF IndInv
<1>2. ASSUME NEW b \in Frames, NEW c \in Frames, Free(b), Free(c),
             status[b] < MaxOrder, status[c] = status[b], c = b + Size[status[b]]
      PROVE  FALSE
  <2>1. PICK k \in AllOrders : k = status[b] /\ k < MaxOrder
    BY <1>1, <1>2, FreeStatus
  <2>2. PICK n \in Nat : n = Size[k]
    BY SizeAssumption
  <2>3. Size[k + 1] = n + n
    BY <2>1, <2>2, SizeAssumption DEF AllOrders
  <2>4. Starts(b) /\ Starts(c) /\ OrderOf(b) = k /\ OrderOf(c) = k
        /\ status[b] \notin {ALLOCATED_FRAME, RESERVED_FRAME}
        /\ status[c] \notin {ALLOCATED_FRAME, RESERVED_FRAME}
    BY <1>1, <1>2, <2>1, FreeStatus DEF Free, Starts
  <2>5. b \in Int /\ c = b + n /\ c + n <= TotalFrame /\ TotalFrame \in Nat
    BY <1>1, <1>2, <2>1, <2>2, <2>4, Naturals DEF Shape, Frames
  <2>6. ASSUME NEW f \in b .. b + (n + n) - 1
        PROVE  status[f] \notin {ALLOCATED_FRAME, RESERVED_FRAME}
    <3>1. f \in Frames
      BY <2>5, <2>6 DEF Frames
    <3>2. f = b \/ (b < f /\ f < b + n) \/ f = c \/ (c < f /\ f < c + n)
      BY <2>5, <2>6
    <3>3. b < f /\ f < b + n => status[f] = BELONGED_FRAME
      BY <1>1, <2>2, <2>4, <3>1 DEF Shape
    <3>4. c < f /\ f < c + n => status[f] = BELONGED_FRAME
      BY <1>1, <2>2, <2>4, <3>1 DEF Shape
    <3>. QED
      BY <2>4, <3>2, <3>3, <3>4 DEF BELONGED_FRAME, ALLOCATED_FRAME, RESERVED_FRAME
  <2>7. Fits(b, k + 1)
    <3>1. b + (n + n) <= TotalFrame
      BY <2>5
    <3>. QED
      BY <2>3, <2>6, <3>1 DEF Fits
  <2>. QED
    BY <1>2, <2>1, <2>7 DEF MergeInv
<1>. SUFFICES ASSUME NEW b \in Frames, NEW c \in Frames, Free(b), Free(c), Buddies(b, c)
              PROVE  FALSE
  BY NoBuddiesIs DEF NoPair
<1>3. status[b] \in AllOrders /\ status[b] < MaxOrder /\ c = BuddyOf(b, status[b]) /\ status[c] = status[b]
  BY <1>1, FreeStatus DEF Buddies
<1>4. c = b + Size[status[b]] \/ c = b - Size[status[b]]
  BY <1>3, BuddyRange
<1>5. b \in Int /\ Size[status[b]] \in Nat
  BY <1>3, SizeAssumption DEF Frames
<1>6. c = b + Size[status[b]] \/ b = c + Size[status[c]]
  BY <1>3, <1>4, <1>5
<1>. QED
  BY <1>2, <1>3, <1>6

LEMMA SameMerge ==
    ASSUME MergeInv, UNCHANGED <<status, pc, blk, ord, want>>
    PROVE  MergeInv'
<1>1. \A b \in Frames : Free(b)' <=> Free(b)
  BY DEF Free, Starts, InHand
<1>2. pc \notin {"reserve", "init"} => NoBuddies'
  BY <1>1, FewerFree DEF MergeInv
<1>3. \A b, k : Fits(b, k)' <=> Fits(b, k)
  BY DEF Fits
<1>4. pc' = "init" => \A b \in Frames : Free(b)' /\ status'[b] < MaxOrder => ~Fits(b, status[b] + 1)'
  BY <1>1, <1>3 DEF MergeInv
<1>. QED
  BY <1>1, <1>2, <1>4 DEF MergeInv, Fits

LEMMA BootMerge ==
    ASSUME IndInv, MergeInv, MemoryReserve \/ BuddyInitStart \/ InitSkip \/ InitDone
    PROVE  MergeInv'
<1>. USE DEF frames, boot, call
<1>1. CASE MemoryReserve
  BY <1>1 DEF MemoryReserve, MergeInv
<1>2. CASE BuddyInitStart
  <2>1. pc' = "init" /\ \A b \in Frames : ~Free(b)'
    BY <1>2 DEF BuddyInitStart, Free, Starts
  <2>. QED
    BY <2>1 DEF MergeInv
<1>3. CASE InitSkip
  BY <1>3, SameMerge DEF InitSkip
<1>4. CASE InitDone
  <2>1. NoBuddies
    BY <1>4, BootNoBuddies DEF InitDone
  <2>2. \A b \in Frames : Free(b)' => Free(b) /\ status'[b] = status[b]
    BY <1>4 DEF InitDone, Free, Starts, InHand
  <2>3. NoBuddies' /\ pc' = "idle"
    BY <1>4, <2>1, <2>2, FewerFree DEF InitDone
  <2>. QED
    BY <2>3 DEF MergeInv
<1>. QED
  BY <1>1, <1>2, <1>3, <1>4

LEMMA InitBlockMerge ==
    ASSUME IndInv, MergeInv, NEW o \in AllOrders, InitBlock(o)
    PROVE  MergeInv'
<1>1. /\ pc = "init" /\ pc' = "init" /\ status' = [status EXCEPT ![scan] = o]
      /\ status[scan] \notin {ALLOCATED_FRAME, RESERVED_FRAME}
      /\ \A k \in o + 1 .. MaxOrder : ~Fits(scan, k)
  BY DEF InitBlock
<1>2. PICK u \in Frames : u = scan
  BY Naturals DEF InitBlock, IndInv, TypeOK, Frames
<1>3. \A f \in Frames : status'[f] \in {ALLOCATED_FRAME, RESERVED_FRAME}
                            <=> status[f] \in {ALLOCATED_FRAME, RESERVED_FRAME}
  BY <1>1, <1>2 DEF IndInv, TypeOK, AllOrders, ALLOCATED_FRAME, RESERVED_FRAME
<1>4. ASSUME NEW b \in Frames, NEW k \in AllOrders, ~Fits(b, k)
      PROVE  ~Fits(b, k)'
  <2>1. b + Size[k] <= TotalFrame => b .. b + Size[k] - 1 \subseteq Frames
    <3>1. b \in Nat /\ Size[k] \in Nat /\ TotalFrame \in Nat
      BY Naturals, SizeAssumption DEF Frames
    <3>. QED
      BY <3>1 DEF Frames
  <2>. QED
    BY <1>3, <1>4, <2>1 DEF Fits
<1>5. ASSUME NEW b \in Frames, Free(b)', status'[b] < MaxOrder
      PROVE  ~Fits(b, status[b] + 1)'
  <2>1. CASE b = u
    <3>1. status'[b] = o /\ o < MaxOrder
      BY <1>1, <1>2, <1>5, <2>1 DEF IndInv, TypeOK
    <3>2. o + 1 \in AllOrders /\ o + 1 \in o + 1 .. MaxOrder
      BY <3>1, Naturals DEF AllOrders
    <3>3. ~Fits(b, o + 1)
      BY <1>1, <1>2, <2>1, <3>2
    <3>4. ~Fits(b, o + 1)'
      BY <1>4, <3>2, <3>3
    <3>. QED
      BY <3>1, <3>4 DEF Fits
  <2>2. CASE b # u
    <3>1. status'[b] = status[b] /\ Free(b)
      BY <1>1, <1>2, <1>5, <2>2 DEF IndInv, TypeOK, Free, Starts, InHand
    <3>2. status[b] \in AllOrders
      BY <3>1, FreeStatus DEF IndInv
    <3>3. status[b] + 1 \in AllOrders
      BY <1>5, <3>1, <3>2, Naturals DEF AllOrders
    <3>4. ~Fits(b, status[b] + 1)
      BY <1>1, <1>5, <3>1 DEF MergeInv
    <3>5. PICK k \in AllOrders : k = status[b] + 1
      BY <3>3
    <3>6. ~Fits(b, k)'
      BY <1>4, <3>4, <3>5
    <3>. QED
      BY <3>1, <3>5, <3>6 DEF Fits
  <2>. QED
    BY <2>1, <2>2
<1>. QED
  BY <1>1, <1>5 DEF MergeInv, Fits

LEMMA AllocTakeMerge ==
    ASSUME IndInv, Chains, MergeInv, NEW o \in Orders, NEW i \in AllOrders, AllocTake(o, i)
    PROVE  MergeInv'
<1>1. /\ pc = "idle" /\ pc' = "split" /\ status' = status /\ want' = o /\ ord' = i
      /\ \A k \in o .. i - 1 : free_lists[k] = BUDDY_NULL
  BY DEF AllocTake
<1>2. \A b \in Frames : Free(b)' => Free(b) /\ status'[b] = status[b]
  BY <1>1 DEF Free, Starts, InHand
<1>3. NoBuddies'
  BY <1>1, <1>2, FewerFree DEF MergeInv
<1>4. ASSUME NEW b \in Frames, Free(b)', ~(status'[b] < o), ~(i <= status'[b])
      PROVE  FALSE
  <2>1. PICK k \in AllOrders : k = status[b] /\ k \in Int /\ OnList(b, k)
    BY <1>2, <1>4, FreeStatus DEF IndInv, OnList
  <2>2. k \in o .. i - 1
    BY <1>1, <1>4, <2>1, MemoryAssumption DEF AllOrders
  <2>3. PICK n \in Nat : \E c \in [1 .. n -> Frames] : InOrder(k, n, c)
    BY DEF Chains
  <2>4. PICK c \in [1 .. n -> Frames] : InOrder(k, n, c)
    BY <2>3
  <2>5. n # 0
    BY <2>1, <2>4 DEF InOrder
  <2>6. free_lists[k] \in Frames
    BY <2>4, <2>5 DEF InOrder
  <2>. QED
    BY <1>1, <2>2, <2>6, MemoryAssumption
<1>. QED
  BY <1>1, <1>3, <1>4 DEF MergeInv

LEMMA SplitMerge ==
    ASSUME IndInv, MergeInv, Split
    PROVE  MergeInv'
<1>1. /\ pc = "split" /\ pc' = "split" /\ ord > want /\ ord' = ord - 1 /\ want' = want /\ blk' = blk
      /\ status' = [status EXCEPT ![UpperHalf] = ord - 1]
  BY DEF Split
<1>2. PICK k \in AllOrders : /\ k = ord - 1 /\ ord = k + 1 /\ want <= k /\ k \in Int /\ want \in Int
                             /\ Size[ord] = Size[k] + Size[k] /\ Size[k] \in Nat /\ Size[k] >= 1
  BY <1>1, SizeAssumption DEF IndInv, TypeOK, AllOrders
<1>3. PICK u \in Frames : u = UpperHalf
  <2>1. blk \in Frames /\ Starts(blk) /\ OrderOf(blk) = ord
    BY <1>1 DEF IndInv, Stage, Starts, OrderOf, InHand, AllOrders, RESERVED_FRAME, BELONGED_FRAME
  <2>2. blk + Size[ord] <= TotalFrame
    BY <2>1 DEF IndInv, Shape
  <2>3. UpperHalf = blk + Size[k]
    BY <1>2 DEF UpperHalf
  <2>. QED
    BY <1>2, <2>1, <2>2, <2>3, Naturals DEF Frames
<1>4. status' = [status EXCEPT ![u] = k]
  BY <1>1, <1>2, <1>3
<1>5. status'[u] = k /\ \A b \in Frames \ {u} : status'[b] = status[b]
  BY <1>4 DEF IndInv, TypeOK
<1>6. \A b \in Frames : Free(b)' => b = u \/ (Free(b) /\ status'[b] = status[b])
  BY <1>1, <1>5 DEF Free, Starts, InHand
<1>7. \A b \in Frames : Free(b) => status[b] < want \/ ord <= status[b]
  BY <1>1 DEF MergeInv
<1>8. \A b \in Frames : Free(b) => status[b] \in Int /\ status[b] # k
  BY <1>2, <1>7, FreeStatus DEF IndInv
<1>9. NoBuddies'
  <2>1. ASSUME NEW c \in Frames, Free(c)', k < MaxOrder, c = BuddyOf(u, k), status'[c] = k
        PROVE  FALSE
    <3>1. c # u
      BY <2>1, BuddyTwice
    <3>. QED
      BY <1>6, <1>8, <2>1, <3>1
  <2>. QED
    BY <1>1, <1>5, <1>6, <2>1, OneMoreFree DEF MergeInv
<1>10. \A b \in Frames : Free(b)' => status'[b] < want \/ k <= status'[b]
  <2>1. \A b \in Frames : b # u /\ Free(b)' => status'[b] = status[b] /\ status[b] \in Int
                                                /\ (status[b] < want \/ ord <= status[b])
    BY <1>6, <1>7, <1>8
  <2>. QED
    BY <1>2, <1>5, <2>1
<1>. QED
  BY <1>1, <1>2, <1>9, <1>10 DEF MergeInv

LEMMA CallMerge ==
    ASSUME IndInv, MergeInv, AllocDone \/ Merge \/ \E b \in Frames : FreeStart(b)
    PROVE  MergeInv'
<1>1. /\ pc \notin {"reserve", "init"} /\ pc' \notin {"reserve", "init", "split"}
      /\ \A b \in Frames : Free(b)' => Free(b) /\ status'[b] = status[b]
  <2>1. CASE AllocDone
    BY <2>1 DEF AllocDone, Idle, Free, Starts, InHand, IndInv, TypeOK
  <2>2. CASE Merge
    <3>1. /\ pc = "merge" /\ pc' = "merge" /\ blk' = Lower
          /\ status' = [status EXCEPT ![Upper] = BELONGED_FRAME]
      BY <2>2 DEF Merge
    <3>2. blk = Lower \/ blk = Upper
      BY DEF Lower, Upper
    <3>. QED
      BY <3>1, <3>2 DEF Free, Starts, InHand, IndInv, TypeOK
  <2>3. ASSUME NEW b \in Frames, FreeStart(b)
        PROVE  /\ pc \notin {"reserve", "init"} /\ pc' \notin {"reserve", "init", "split"}
               /\ \A c \in Frames : Free(c)' => Free(c) /\ status'[c] = status[c]
    BY <2>3 DEF FreeStart, Free, Starts, InHand, IndInv, TypeOK
  <2>. QED
    BY <2>1, <2>2, <2>3
<1>2. NoBuddies'
  BY <1>1, FewerFree DEF MergeInv
<1>. QED
  BY <1>1, <1>2 DEF MergeInv

LEMMA FreeDoneMerge ==
    ASSUME IndInv, MergeInv, FreeDone
    PROVE  MergeInv'
<1>1. /\ pc = "merge" /\ pc' = "idle" /\ ~CanMerge
      /\ status' = [status EXCEPT ![blk] = ord]
  BY DEF FreeDone, Idle
<1>2. PICK u \in Frames, k \in AllOrders : u = blk /\ k = ord
  BY <1>1 DEF IndInv, TypeOK, Stage
<1>3. status'[u] = k /\ \A b \in Frames \ {u} : status'[b] = status[b]
  BY <1>1, <1>2 DEF IndInv, TypeOK
<1>4. \A b \in Frames : Free(b)' => b = u \/ (Free(b) /\ status'[b] = status[b])
  BY <1>1, <1>2, <1>3 DEF Free, Starts, InHand
<1>5. ASSUME NEW c \in Frames, k < MaxOrder, c = BuddyOf(u, k)
      PROVE  status'[c] # k
  <2>1. c # u
    BY <1>5, BuddyTwice
  <2>2. c = Bud /\ c < TotalFrame
    BY <1>2, <1>5, Naturals DEF Bud, Frames
  <2>3. status[c] # k
    BY <1>1, <1>2, <1>5, <2>2 DEF CanMerge
  <2>. QED
    BY <1>3, <2>1, <2>3
<1>6. NoBuddies'
  BY <1>1, <1>3, <1>4, <1>5, OneMoreFree DEF MergeInv
<1>. QED
  BY <1>1, <1>6 DEF MergeInv

LEMMA NextMerge == IndInv /\ Chains /\ MergeInv /\ [Next]_vars => MergeInv'
<1>. SUFFICES ASSUME IndInv, Chains, MergeInv, [Next]_vars PROVE MergeInv'
  OBVIOUS
<1>1. CASE UNCHANGED <<status, pc, blk, ord, want>>
  BY <1>1, SameMerge
<1>2. ASSUME NEW o \in Orders, AllocFail(o) PROVE MergeInv'
  BY <1>2, SameMerge DEF AllocFail, frames, call
<1>3. ASSUME NEW b \in Frames, FreeIgnored(b) PROVE MergeInv'
  BY <1>3, SameMerge DEF FreeIgnored, vars
<1>. QED
  BY <1>1, <1>2, <1>3, BootMerge, InitBlockMerge, AllocTakeMerge, SplitMerge, CallMerge,
     FreeDoneMerge DEF Next, Call, Proceed, vars

(* Between calls no two free blocks are buddies that could be merged,      *)
(* aligned or not.                                                         *)
THEOREM AlwaysCoalesced == Spec => []Coalesced
<1>1. Init => Chains /\ MergeInv
  BY InitChains DEF Init, MergeInv
<1>2. IndInv /\ Chains /\ MergeInv /\ [Next]_vars => Chains' /\ MergeInv'
  BY NextChains, NextMerge
<1>3. MergeInv => Coalesced
  BY DEF MergeInv, Coalesced
<1>. QED
  BY <1>1, <1>2, <1>3, Invariance, PTL DEF Spec

-----------------------------------------------------------------------------
(***************************************************************************)
(* Boot and every call end                                                 *)
(***************************************************************************)

(* A bound on the steps that are left: regions to reserve, frames to walk, *)
(* halves to split off, and orders a merge can still climb.                *)
StepsLeft ==
    CASE pc = "reserve" -> 2 + TotalFrame + (Len(Regions) - region)
      [] pc = "init"    -> 1 + TotalFrame - scan
      [] pc = "split"   -> 1 + ord - want
      [] pc = "merge"   -> 1 + MaxOrder - ord
      [] pc = "idle"    -> 0

(* Each iteration of a loop brings its end nearer.                         *)
StepsRunOut == [][Proceed => StepsLeft' < StepsLeft]_vars

(* It is a bound, and says whether a call is running.                      *)
LEMMA StepsCounted == IndInv => StepsLeft \in Nat /\ (StepsLeft = 0 <=> pc = "idle")
<1>. SUFFICES ASSUME IndInv PROVE StepsLeft \in Nat /\ (StepsLeft = 0 <=> pc = "idle")
  OBVIOUS
<1>1. /\ pc \in {"reserve", "init", "idle", "split", "merge"}
      /\ region \in 0 .. Len(Regions) /\ scan \in 0 .. TotalFrame
      /\ ord \in 0 .. MaxOrder /\ want \in 0 .. MaxOrder
      /\ (pc = "split" => want <= ord)
  BY DEF IndInv, TypeOK, Stage
<1>2. Len(Regions) \in Nat
  BY MemoryAssumption
<1>3. CASE pc = "reserve"
  BY <1>1, <1>2, <1>3, Naturals DEF StepsLeft
<1>4. CASE pc = "init"
  BY <1>1, <1>4, Naturals DEF StepsLeft
<1>5. CASE pc = "split"
  BY <1>1, <1>5, Naturals DEF StepsLeft
<1>6. CASE pc = "merge"
  BY <1>1, <1>6, Naturals DEF StepsLeft
<1>7. CASE pc = "idle"
  BY <1>7 DEF StepsLeft
<1>. QED
  BY <1>1, <1>3, <1>4, <1>5, <1>6, <1>7

(* The loops of memory_reserve's callers and of buddy_init.                *)
LEMMA BootShrinks ==
    ASSUME IndInv,
           MemoryReserve \/ BuddyInitStart \/ InitSkip \/ InitDone
             \/ \E o \in AllOrders : InitBlock(o)
    PROVE  StepsLeft' < StepsLeft
<1>1. /\ region \in Int /\ scan \in 0 .. TotalFrame /\ TotalFrame \in Nat
      /\ Len(Regions) \in Nat /\ Len(Regions)' = Len(Regions)
  BY MemoryAssumption DEF IndInv, TypeOK
<1>2. CASE MemoryReserve
  BY <1>1, <1>2 DEF MemoryReserve, StepsLeft
<1>3. CASE BuddyInitStart
  BY <1>1, <1>3 DEF BuddyInitStart, StepsLeft
<1>4. CASE InitSkip
  BY <1>1, <1>4 DEF InitSkip, StepsLeft
<1>5. CASE InitDone
  BY <1>1, <1>5 DEF InitDone, StepsLeft
<1>6. ASSUME NEW o \in AllOrders, InitBlock(o) PROVE StepsLeft' < StepsLeft
  <2>1. pc = "init" /\ pc' = "init" /\ scan' = scan + Size[o]
    BY <1>6 DEF InitBlock
  <2>2. Size[o] \in Nat /\ Size[o] >= 1
    BY SizePositive
  <2>. QED
    BY <1>1, <2>1, <2>2 DEF StepsLeft
<1>. QED
  BY <1>2, <1>3, <1>4, <1>5, <1>6

(* The split loop of buddy_allocate and the merge loop of buddy_free.      *)
LEMMA CallShrinks ==
    ASSUME IndInv, Split \/ AllocDone \/ Merge \/ FreeDone
    PROVE  StepsLeft' < StepsLeft
<1>1. ord \in 0 .. MaxOrder /\ want \in 0 .. MaxOrder /\ MaxOrder \in Nat
  BY Naturals DEF IndInv, TypeOK
<1>2. CASE Split
  BY <1>1, <1>2 DEF Split, StepsLeft
<1>3. CASE AllocDone
  BY <1>1, <1>3 DEF AllocDone, Idle, StepsLeft
<1>4. CASE Merge
  BY <1>1, <1>4 DEF Merge, StepsLeft
<1>5. CASE FreeDone
  BY <1>1, <1>5 DEF FreeDone, Idle, StepsLeft
<1>. QED
  BY <1>2, <1>3, <1>4, <1>5

(* No loop of boot, of an allocation or of a free goes on for ever: the    *)
(* bound is a natural number, 0 only between calls, and falls with every   *)
(* iteration.                                                              *)
THEOREM LoopsEnd == Spec => StepsRunOut /\ [](StepsLeft \in Nat /\ (StepsLeft = 0 <=> pc = "idle"))
<1>1. IndInv /\ [Next]_vars => [Proceed => StepsLeft' < StepsLeft]_vars
  BY BootShrinks, CallShrinks DEF Proceed
<1>. QED
  BY <1>1, StepsCounted, Invariance, PTL DEF Spec, StepsRunOut
=============================================================================
