----------------------------- MODULE SlabProofs ------------------------------
(***************************************************************************)
(* Proofs about Slab for every size of memory and of its frames, every     *)
(* number of page descriptors, every table of slab sizes and all requests. *)
(*                                                                         *)
(* The lists of pages are walked by following pointers any number of       *)
(* times.  The invariant speaks of the whole list at once instead: there   *)
(* is a numbering of its pages which next, prev and the head follow; that  *)
(* a walk meets the pages in this order is an induction, made once.        *)
(*                                                                         *)
(* That malloc and free keep the promise of Heap rests on which chunk a    *)
(* byte is in: its frame is the quotient of its address and the size of a  *)
(* frame, and that frame is one page's, or one block's, or nobody's.  A    *)
(* chunk that malloc adds shares no byte with another because the new      *)
(* state, too, gives each byte to one chunk only.                          *)
(***************************************************************************)
EXTENDS SlabCalls, TLAPS, FiniteSetTheorems, WellFoundedInduction

(* The fields of the page descriptors.                                     *)
Fields ==
    /\ slab_type \in [Pages -> Types \cup {Unused}]
    /\ start \in [Pages -> Frames \cup {-1}]
    /\ free_slabs \in [Pages -> Int]
    /\ bitmap \in [Pages -> SUBSET Nat]
    /\ {next, prev} \subseteq [Pages -> Pages \cup {SLAB_NULL}]
    /\ slab_start_list \in [Types -> Pages \cup {SLAB_NULL}]
    /\ \A p \in Pages : slab_type[p] = Unused => free_slabs[p] = -1 /\ bitmap[p] = {}

(* The blocks that are taken.                                              *)
Owned == \A o \in owned : o[1] \in Frames /\ o = <<o[1], o[2]>>

(* The pages of type t are c[1], ..., c[n] in the order of their list.     *)
InOrder(t, n, c) ==
    /\ \A i, j \in 1 .. n : c[i] = c[j] => i = j
    /\ \A p \in Pages : slab_type[p] = t <=> \E i \in 1 .. n : c[i] = p
    /\ slab_start_list[t] = IF n = 0 THEN SLAB_NULL ELSE c[1]
    /\ \A i \in 1 .. n :
        /\ next[c[i]] = IF i = n THEN SLAB_NULL ELSE c[i + 1]
        /\ prev[c[i]] = IF i = 1 THEN SLAB_NULL ELSE c[i - 1]

Chains == \A t \in Types : \E n \in Nat : \E c \in [1 .. n -> Pages] : InOrder(t, n, c)

IndInv == Fields /\ Owned /\ Chains /\ CountsExact /\ PagesOwnFrames

-----------------------------------------------------------------------------
(* The least element of a set of numbers, and induction.                   *)
LEMMA Least ==
    ASSUME NEW S \in SUBSET Nat, S # {}
    PROVE  \E m \in S : \A k \in S : m <= k
<1> DEFINE R == OpToRel(<, Nat)
<1>1. IsWellFoundedOn(R, Nat)
  BY NatLessThanWellFounded
<1>2. \A x, y \in Nat : <<y, x>> \in R <=> y < x
  BY DEF OpToRel
<1> HIDE DEF R
<1>3. PICK m \in S : \A k \in S : ~(<<k, m>> \in R)
  BY <1>1, WFMin
<1>4. \A k \in S : ~(k < m)
  BY <1>2, <1>3
<1>5. m \in Nat /\ \A k \in S : k \in Nat
  OBVIOUS
<1> QED
  BY <1>4, <1>5

LEMMA Induction ==
    ASSUME NEW S, 0 \in S, \A n \in Nat : n \in S => n + 1 \in S
    PROVE  Nat \subseteq S
<1> SUFFICES ASSUME Nat \ S # {}
             PROVE  FALSE
  OBVIOUS
<1>1. PICK m \in Nat \ S : \A k \in Nat \ S : m <= k
  BY Least
<1>2. m # 0 /\ m - 1 \in Nat /\ m - 1 \in S
  BY <1>1
<1> QED
  BY <1>1, <1>2

-----------------------------------------------------------------------------
(* A list in order has no more pages than there are descriptors.           *)
LEMMA ChainShort ==
    ASSUME NEW t \in Types, NEW n \in Nat, NEW c \in [1 .. n -> Pages], InOrder(t, n, c)
    PROVE  n <= Descriptors
<1> SUFFICES ASSUME n > Descriptors
             PROVE  FALSE
  BY SlabAssumption
<1>1. IsFiniteSet(1 .. n) /\ Cardinality(1 .. n) = n
  BY FS_Interval
<1>2. IsFiniteSet(Pages) /\ Cardinality(Pages) = Descriptors
  BY FS_Interval, SlabAssumption DEF Pages
<1>3. \E x, y \in 1 .. n : x # y /\ c[x] = c[y]
  BY <1>1, <1>2, FS_PigeonHole
<1> QED
  BY <1>3 DEF InOrder

(* Walking it meets its pages in their order and then SLAB_NULL.           *)
LEMMA WalkInOrder ==
    ASSUME NEW t \in Types, NEW n \in Nat, NEW c \in [1 .. n -> Pages], InOrder(t, n, c)
    PROVE  \A i \in 0 .. Descriptors : Walk(t)[i] = IF i < n THEN c[i + 1] ELSE SLAB_NULL
<1> DEFINE Step(w) == [i \in 0 .. Descriptors |->
                          IF i = 0 THEN slab_start_list[t]
                          ELSE IF w[i - 1] = SLAB_NULL THEN SLAB_NULL ELSE next[w[i - 1]]]
           At(i) == IF i < n THEN c[i + 1] ELSE SLAB_NULL
           order == [i \in 0 .. Descriptors |-> At(i)]
           w == Walk(t)
           S == {i \in Nat : i \in 0 .. Descriptors => w[i] = At(i)}
<1>1. order = Step(order)
  <2>1. ASSUME NEW i \in 0 .. Descriptors
        PROVE  order[i] = Step(order)[i]
    <3>0. i \in Nat /\ (i # 0 => i - 1 \in 0 .. Descriptors)
      BY SlabAssumption
    <3>1. CASE i = 0
      BY <3>1 DEF InOrder
    <3>2. CASE i # 0 /\ i - 1 < n
      <4>1. i \in 1 .. n /\ i - 1 \in 0 .. Descriptors /\ c[i] \in Pages /\ order[i - 1] = c[i]
        BY <3>0, <3>2
      <4> QED
        BY <3>2, <4>1, SlabAssumption DEF InOrder
    <3>3. CASE i # 0 /\ ~(i - 1 < n)
      BY <3>0, <3>3
    <3> QED
      BY <3>1, <3>2, <3>3
  <2> QED
    BY <2>1
<1>2. w = Step(w)
  <2>1. w = CHOOSE f : f = Step(f)
    BY DEF Walk
  <2> HIDE DEF w, Step, order
  <2> QED
    BY <1>1, <2>1
<1>3. 0 \in S
  BY <1>2 DEF InOrder
<1>4. ASSUME NEW i \in Nat, i \in S
      PROVE  i + 1 \in S
  <2> SUFFICES ASSUME i + 1 \in 0 .. Descriptors
               PROVE  w[i + 1] = At(i + 1)
    OBVIOUS
  <2>1. w[i] = At(i) /\ i \in 0 .. Descriptors
    BY <1>4, SlabAssumption
  <2>2. w[i + 1] = IF At(i) = SLAB_NULL THEN SLAB_NULL ELSE next[At(i)]
    <3> HIDE DEF w, At
    <3> QED
      BY <1>2, <2>1
  <2> HIDE DEF w
  <2> QED
    BY <2>2, SlabAssumption DEF InOrder
<1>5. Nat \subseteq S
  <2> HIDE DEF S
  <2> QED
    BY <1>3, <1>4, Induction
<1> HIDE DEF w, At
<1>6. \A i \in 0 .. Descriptors : w[i] = At(i)
  BY <1>5, SlabAssumption
<1> QED
  BY <1>6 DEF w, At

(* So the pages on a list are those of its type.                           *)
LEMMA ListedPages ==
    ASSUME Chains, NEW t \in Types
    PROVE  Listed(t) = {p \in Pages : slab_type[p] = t} /\ Walk(t)[Descriptors] = SLAB_NULL
<1>0. PICK n \in Nat : \E c \in [1 .. n -> Pages] : InOrder(t, n, c)
  BY DEF Chains
<1>1. PICK c \in [1 .. n -> Pages] : InOrder(t, n, c)
  BY <1>0
<1>2. n <= Descriptors
  BY <1>1, ChainShort
<1>3. \A i \in 0 .. Descriptors : Walk(t)[i] = IF i < n THEN c[i + 1] ELSE SLAB_NULL
  BY <1>1, WalkInOrder
<1>4. ASSUME NEW p \in Listed(t)
      PROVE  p \in Pages /\ slab_type[p] = t
  <2>1. PICK i \in 0 .. Descriptors : Walk(t)[i] = p /\ p # SLAB_NULL
    BY <1>4 DEF Listed
  <2>2. i < n /\ p = c[i + 1] /\ i + 1 \in 1 .. n
    BY <1>3, <2>1
  <2> QED
    BY <1>1, <2>2 DEF InOrder
<1>5. ASSUME NEW p \in Pages, slab_type[p] = t
      PROVE  p \in Listed(t)
  <2>1. PICK i \in 1 .. n : c[i] = p
    BY <1>1, <1>5 DEF InOrder
  <2>2. i - 1 \in 0 .. Descriptors /\ i - 1 < n /\ (i - 1) + 1 = i
    BY <1>2, SlabAssumption
  <2>3. Walk(t)[i - 1] = p
    BY <1>3, <2>1, <2>2
  <2> QED
    BY <2>2, <2>3, SlabAssumption DEF Listed
<1>6. Walk(t)[Descriptors] = SLAB_NULL
  BY <1>2, <1>3, SlabAssumption
<1> QED
  BY <1>4, <1>5, <1>6

-----------------------------------------------------------------------------
(* A page has at least one slot and at most one for each byte.             *)
LEMMA SlotsInPage ==
    ASSUME NEW t \in Types
    PROVE  TotalSlabs(t) \in Nat /\ 1 <= TotalSlabs(t) /\ TotalSlabs(t) <= FrameSize
<1>1. slab_sizes[t] \in 1 .. FrameSize /\ FrameSize \in Nat
  BY SlabAssumption DEF Types
<1>2. \A F, z \in Nat : 1 <= z /\ z <= F => F \div z \in Nat /\ 1 <= F \div z /\ F \div z <= F
  OBVIOUS
<1> QED
  BY <1>1, <1>2 DEF TotalSlabs

(* There is a size for each request that is less than a frame.             *)
LEMMA TypeForSmall ==
    ASSUME NEW request \in Requests, Small(request)
    PROVE  TypeFor(request) \in Types /\ slab_sizes[TypeFor(request)] >= request
<1> DEFINE Fits == {t \in Types : slab_sizes[t] >= request}
<1>1. request \in Nat /\ request < FrameSize /\ Types \subseteq Nat
  BY SlabAssumption DEF Small, Types
<1>2. Fits \in SUBSET Nat /\ Fits # {}
  <2>1. PICK t \in Types : slab_sizes[t] = FrameSize
    BY SlabAssumption
  <2>2. t \in Fits
    BY <1>1, <2>1, SlabAssumption
  <2> QED
    BY <1>1, <2>2
<1>3. PICK t \in Fits : \A u \in Fits : t <= u
  BY <1>2, Least
<1>4. \A u \in Types : slab_sizes[u] \in Nat
  BY SlabAssumption DEF Types
<1>5. \A u \in 1 .. t - 1 : u \in Types /\ u < t
  BY <1>3 DEF Types
<1>6. t \in Types /\ slab_sizes[t] >= request /\ \A u \in 1 .. t - 1 : slab_sizes[u] < request
  BY <1>1, <1>3, <1>4, <1>5
<1> QED
  BY <1>6 DEF TypeFor

(* The bitmap of a page in use is finite.                                  *)
LEMMA BitsFinite ==
    ASSUME IndInv, NEW p \in Pages, slab_type[p] # Unused
    PROVE  /\ slab_type[p] \in Types /\ IsFiniteSet(bitmap[p]) /\ Cardinality(bitmap[p]) \in Nat
           /\ free_slabs[p] \in Int
<1>1. slab_type[p] \in Types /\ bitmap[p] \subseteq 0 .. TotalSlabs(slab_type[p]) - 1
      /\ free_slabs[p] \in Int
  BY DEF IndInv, Fields, CountsExact
<1>2. IsFiniteSet(0 .. TotalSlabs(slab_type[p]) - 1)
  BY <1>1, SlotsInPage, FS_Interval
<1> QED
  BY <1>1, <1>2, FS_Subset, FS_CardinalityType

(* find_first_zero: where the count says that there is room there is.      *)
LEMMA FirstClearInPage ==
    ASSUME IndInv, NEW p \in Pages, slab_type[p] # Unused, HasRoom(p)
    PROVE  /\ FirstClear(p) \in 0 .. TotalSlabs(slab_type[p]) - 1
           /\ FirstClear(p) \notin bitmap[p]
<1> DEFINE total == TotalSlabs(slab_type[p])
           Clear == (0 .. total - 1) \ bitmap[p]
<1>1. slab_type[p] \in Types /\ bitmap[p] \subseteq 0 .. total - 1 /\ free_slabs[p] > 0
      /\ free_slabs[p] = total - Cardinality(bitmap[p]) /\ Cardinality(bitmap[p]) \in Nat
  BY BitsFinite DEF IndInv, CountsExact, HasRoom
<1>2. total \in Nat /\ total <= FrameSize /\ FrameSize \in Nat
  BY <1>1, SlotsInPage, SlabAssumption
<1>3. Clear # {} /\ Clear \in SUBSET Nat
  <2>1. Cardinality(0 .. total - 1) = total
    BY <1>2, FS_Interval
  <2>2. Clear = {} => bitmap[p] = 0 .. total - 1
    BY <1>1
  <2>3. bitmap[p] # 0 .. total - 1
    <3> HIDE DEF total
    <3> QED
      BY <1>1, <1>2, <2>1
  <2> HIDE DEF total
  <2> QED
    BY <1>2, <2>2, <2>3
<1>4. PICK m \in Clear : \A i \in Clear : m <= i
  <2> HIDE DEF Clear
  <2> QED
    BY <1>3, Least
<1>5. /\ m \in 0 .. FrameSize - 1 /\ m \notin bitmap[p] /\ m < total
      /\ \A j \in 0 .. m - 1 : j \in bitmap[p]
  BY <1>2, <1>4
<1> HIDE DEF total
<1>6. FirstClear(p) \in 0 .. FrameSize - 1 /\ FirstClear(p) \notin bitmap[p]
      /\ \A j \in 0 .. FirstClear(p) - 1 : j \in bitmap[p]
  BY <1>5 DEF FirstClear
<1>7. ~(FirstClear(p) > m)
  BY <1>2, <1>5, <1>6
<1> QED
  BY <1>2, <1>5, <1>6, <1>7 DEF total

-----------------------------------------------------------------------------
LEMMA InitInd == Init => IndInv
<1> SUFFICES ASSUME Init
             PROVE  IndInv
  OBVIOUS
<1>1. Fields /\ Owned /\ CountsExact /\ PagesOwnFrames
  BY SlabAssumption DEF Init, Fields, Owned, CountsExact, PagesOwnFrames
<1>2. ASSUME NEW t \in Types
      PROVE  \E n \in Nat : \E c \in [1 .. n -> Pages] : InOrder(t, n, c)
  <2> DEFINE c == [i \in 1 .. 0 |-> 0]
  <2>1. c \in [1 .. 0 -> Pages]
    OBVIOUS
  <2>2. InOrder(t, 0, c)
    BY DEF Init, InOrder, Types, Unused
  <2> QED
    BY <2>1, <2>2
<1> QED
  BY <1>1, <1>2 DEF Chains, IndInv

(* Calls that leave types and pointers alone leave the lists in order.     *)
LEMMA SameChains ==
    ASSUME Chains, UNCHANGED <<slab_type, next, prev, slab_start_list>>
    PROVE  Chains'
  BY DEF Chains, InOrder

(* A block of one frame is that frame.                                     *)
LEMMA OneFrame ==
    ASSUME NEW b \in Int
    PROVE  Extent(b, 0) = {b}
<1>1. Size[0] = 1
  BY OrderAssumption
<1> QED
  BY <1>1 DEF Extent

(* What buddy_allocate grants is no page's frame and covers none.          *)
LEMMA GrantedApart ==
    ASSUME IndInv, NEW b \in Frames, NEW order, CanGrant(b, order),
           NEW p \in Pages, slab_type[p] # Unused
    PROVE  start[p] \in Frames /\ start[p] \notin Extent(b, order)
<1>1. <<start[p], 0>> \in owned
  BY DEF IndInv, PagesOwnFrames
<1>2. start[p] \in Frames
  BY <1>1 DEF IndInv, Owned
<1>3. start[p] \in Extent(start[p], 0)
  BY <1>2, OneFrame DEF Frames
<1>4. start[p] \in Taken
  BY <1>1, <1>3 DEF Taken
<1> QED
  BY <1>2, <1>4 DEF CanGrant

LEMMA MallocSlotStep ==
    ASSUME IndInv, NEW request \in Requests, MallocSlot(request)
    PROVE  IndInv'
<1>1. PICK p \in Pages :
        /\ FirstWithRoom(TypeFor(request), p)
        /\ bitmap' = [bitmap EXCEPT ![p] = @ \cup {FirstClear(p)}]
        /\ free_slabs' = [free_slabs EXCEPT ![p] = @ - 1]
  BY DEF MallocSlot
<1>2. UNCHANGED <<owned, leaked, slab_type, start, next, prev, slab_start_list>>
  BY DEF MallocSlot
<1>3. HasRoom(p) /\ slab_type[p] # Unused
  BY <1>1 DEF FirstWithRoom, HasRoom, IndInv, Fields
<1> DEFINE i == FirstClear(p)
           total == TotalSlabs(slab_type[p])
<1>4. i \in 0 .. total - 1 /\ i \notin bitmap[p] /\ i \in Nat
  BY <1>3, FirstClearInPage
<1>5. IsFiniteSet(bitmap[p]) /\ Cardinality(bitmap[p]) \in Nat /\ slab_type[p] \in Types
      /\ free_slabs[p] \in Int
  BY <1>3, BitsFinite
<1> HIDE DEF i
<1>6. Cardinality(bitmap[p] \cup {i}) = Cardinality(bitmap[p]) + 1
  BY <1>4, <1>5, FS_AddElement
<1>7. bitmap' = [bitmap EXCEPT ![p] = bitmap[p] \cup {i}]
  BY <1>1 DEF i
<1>8. Fields'
  BY <1>1, <1>2, <1>3, <1>4, <1>7 DEF IndInv, Fields
<1>9. CountsExact'
  <2> SUFFICES ASSUME NEW q \in Pages, slab_type'[q] # Unused
               PROVE  /\ bitmap'[q] # {}
                      /\ bitmap'[q] \subseteq 0 .. TotalSlabs(slab_type'[q]) - 1
                      /\ free_slabs'[q] = TotalSlabs(slab_type'[q]) - Cardinality(bitmap'[q])
    BY DEF CountsExact, TotalSlabs
  <2>1. CASE q = p
    <3>1. /\ bitmap'[q] = bitmap[p] \cup {i} /\ free_slabs'[q] = free_slabs[p] - 1
          /\ slab_type'[q] = slab_type[p]
      BY <1>1, <1>2, <1>7, <2>1 DEF IndInv, Fields
    <3>2. bitmap[p] \subseteq 0 .. total - 1 /\ free_slabs[p] = total - Cardinality(bitmap[p])
          /\ total \in Nat
      BY <1>3, <1>5, SlotsInPage DEF IndInv, CountsExact
    <3> QED
      BY <1>4, <1>5, <1>6, <3>1, <3>2
  <2>2. CASE q # p
    BY <1>1, <1>2, <1>7, <2>2 DEF IndInv, Fields, CountsExact
  <2> QED
    BY <2>1, <2>2
<1>10. Owned' /\ PagesOwnFrames'
  BY <1>2 DEF IndInv, Owned, PagesOwnFrames, Extent
<1> QED
  BY <1>2, <1>8, <1>9, <1>10, SameChains DEF IndInv

(* A page at the head of its list, with a descriptor that was unused.      *)
LEMMA PushedInOrder ==
    ASSUME IndInv, NEW t \in Types, NEW p \in Pages, slab_type[p] = Unused,
           slab_type' = [slab_type EXCEPT ![p] = t],
           next' = [next EXCEPT ![p] = slab_start_list[t]],
           prev' = [q \in Pages |-> IF q = slab_start_list[t] THEN p
                                    ELSE IF q = p THEN SLAB_NULL ELSE prev[q]],
           slab_start_list' = [slab_start_list EXCEPT ![t] = p]
    PROVE  Chains'
<1>0. /\ \A u \in Types : u # Unused
      /\ SLAB_NULL \notin Pages
  BY SlabAssumption DEF Types, Unused
<1> SUFFICES ASSUME NEW u \in Types
             PROVE  \E n \in Nat : \E c \in [1 .. n -> Pages] : InOrder(u, n, c)'
  BY DEF Chains
<1>1. PICK n \in Nat : \E c \in [1 .. n -> Pages] : InOrder(u, n, c)
  BY DEF IndInv, Chains
<1>2. PICK c \in [1 .. n -> Pages] : InOrder(u, n, c)
  BY <1>1
<1>3. \A i \in 1 .. n : c[i] # p /\ c[i] \in Pages /\ slab_type[c[i]] = u
  BY <1>0, <1>2 DEF InOrder
<1>4. CASE u = t
  <2> DEFINE d == [i \in 1 .. n + 1 |-> IF i = 1 THEN p ELSE c[i - 1]]
  <2>0. \A i \in 2 .. n + 1 : i - 1 \in 1 .. n /\ d[i] = c[i - 1] /\ i \in 1 .. n + 1
    OBVIOUS
  <2>1. d \in [1 .. n + 1 -> Pages] /\ d[1] = p /\ 1 \in 1 .. n + 1
    BY <2>0
  <2>2. \A i \in 1 .. n + 1 : i = 1 \/ i \in 2 .. n + 1
    OBVIOUS
  <2> HIDE DEF d
  <2>3. \A i, j \in 1 .. n + 1 : d[i] = d[j] => i = j
    <3> TAKE i, j \in 1 .. n + 1
    <3>1. CASE i = 1 \/ j = 1
      BY <1>3, <2>0, <2>1, <2>2, <3>1
    <3>2. CASE i # 1 /\ j # 1
      <4>1. d[i] = c[i - 1] /\ d[j] = c[j - 1] /\ i - 1 \in 1 .. n /\ j - 1 \in 1 .. n
        BY <2>0, <2>2, <3>2
      <4>2. c[i - 1] = c[j - 1] => i - 1 = j - 1
        BY <1>2, <4>1 DEF InOrder
      <4> QED
        BY <4>1, <4>2
    <3> QED
      BY <3>1, <3>2
  <2>4. \A q \in Pages : slab_type'[q] = u <=> \E i \in 1 .. n + 1 : d[i] = q
    <3> TAKE q \in Pages
    <3>1. CASE q = p
      BY <1>4, <2>1, <3>1 DEF IndInv, Fields
    <3>2. CASE q # p
      <4>1. slab_type'[q] = slab_type[q]
        BY <3>2 DEF IndInv, Fields
      <4>2. \A i \in 1 .. n : i + 1 \in 2 .. n + 1 /\ d[i + 1] = c[i]
        BY <2>0
      <4>3. (\E i \in 1 .. n : c[i] = q) <=> \E i \in 1 .. n + 1 : d[i] = q
        BY <2>0, <2>1, <2>2, <3>2, <4>2
      <4> QED
        BY <1>2, <4>1, <4>3 DEF InOrder
    <3> QED
      BY <3>1, <3>2
  <2>5. slab_start_list'[u] = d[1] /\ n + 1 # 0
    BY <1>4, <2>1 DEF IndInv, Fields
  <2>6. \A i \in 1 .. n + 1 :
          /\ next'[d[i]] = IF i = n + 1 THEN SLAB_NULL ELSE d[i + 1]
          /\ prev'[d[i]] = IF i = 1 THEN SLAB_NULL ELSE d[i - 1]
    <3> TAKE i \in 1 .. n + 1
    <3>1. CASE i = 1
      <4>1. next'[p] = slab_start_list[t] /\ slab_start_list[t] # p
        BY <1>0, <1>2, <1>3, <1>4 DEF InOrder, IndInv, Fields
      <4>2. n # 0 => d[2] = c[1]
        <5> SUFFICES ASSUME n # 0
                     PROVE  d[2] = c[1]
          OBVIOUS
        <5>1. 2 \in 2 .. n + 1 /\ 2 - 1 = 1
          OBVIOUS
        <5> QED
          BY <2>0, <5>1
      <4> QED
        BY <1>2, <1>4, <2>1, <3>1, <4>1, <4>2 DEF InOrder
    <3>2. CASE i = 2
      <4>1. 2 \in 2 .. n + 1 /\ 2 - 1 = 1 /\ d[2] = c[1] /\ 1 \in 1 .. n
        BY <2>0, <3>2
      <4>2. prev'[c[1]] = p /\ next'[c[1]] = IF n = 1 THEN SLAB_NULL ELSE c[2]
        BY <1>2, <1>3, <1>4, <4>1 DEF InOrder, IndInv, Fields
      <4>3. n # 1 => 3 \in 2 .. n + 1 /\ d[3] = c[2]
        BY <2>0, <4>1
      <4> QED
        BY <2>1, <3>2, <4>1, <4>2, <4>3
    <3>3. CASE i > 2
      <4>1. d[i] = c[i - 1] /\ d[i - 1] = c[i - 2] /\ i - 1 \in 1 .. n /\ i - 1 # 1
            /\ i - 1 - 1 = i - 2 /\ i - 2 \in 1 .. n /\ 1 \in 1 .. n /\ i - 1 + 1 = i
        BY <2>0, <3>3
      <4>2. c[i - 1] # c[1]
        BY <1>2, <4>1 DEF InOrder
      <4>3. prev'[c[i - 1]] = prev[c[i - 1]] /\ next'[c[i - 1]] = next[c[i - 1]]
        BY <1>2, <1>3, <1>4, <4>1, <4>2 DEF InOrder, IndInv, Fields
      <4>4. /\ next[c[i - 1]] = IF i - 1 = n THEN SLAB_NULL ELSE c[i]
            /\ prev[c[i - 1]] = c[i - 2]
        <5> DEFINE k == i - 1
        <5>1. k \in 1 .. n /\ k # 1 /\ k + 1 = i /\ k - 1 = i - 2
          BY <4>1
        <5> HIDE DEF k
        <5>2. next[c[k]] = IF k = n THEN SLAB_NULL ELSE c[i]
          BY <1>2, <5>1 DEF InOrder
        <5>3. prev[c[k]] = c[i - 2]
          BY <1>2, <5>1 DEF InOrder
        <5> QED
          BY <5>2, <5>3 DEF k
      <4>5. i - 1 # n => i + 1 \in 2 .. n + 1 /\ i + 1 - 1 = i /\ d[i + 1] = c[i]
        BY <2>0, <3>3
      <4> QED
        BY <3>3, <4>1, <4>3, <4>4, <4>5
    <3> QED
      BY <3>1, <3>2, <3>3
  <2> DEFINE m == n + 1
  <2>7. m \in Nat /\ d \in [1 .. m -> Pages]
    BY <2>1
  <2>8. m # 0 /\ slab_start_list'[u] = d[1]
    BY <2>5
  <2> HIDE DEF m
  <2>9. InOrder(u, m, d)'
    BY <2>3, <2>4, <2>6, <2>8 DEF InOrder, m
  <2> QED
    BY <2>7, <2>9
<1>5. CASE u # t
  <2>1. \A i \in 1 .. n : c[i] # slab_start_list[t]
    <3>1. slab_start_list[t] \in Pages => slab_type[slab_start_list[t]] = t
      <4>1. PICK m \in Nat : \E e \in [1 .. m -> Pages] : InOrder(t, m, e)
        BY DEF IndInv, Chains
      <4>2. PICK e \in [1 .. m -> Pages] : InOrder(t, m, e)
        BY <4>1
      <4> QED
        BY <1>0, <4>2 DEF InOrder
    <3> QED
      BY <1>3, <1>5, <3>1
  <2>2. /\ \A i \in 1 .. n : next'[c[i]] = next[c[i]] /\ prev'[c[i]] = prev[c[i]]
        /\ slab_start_list'[u] = slab_start_list[u]
        /\ \A q \in Pages : slab_type'[q] = u <=> slab_type[q] = u
    BY <1>0, <1>3, <1>5, <2>1 DEF IndInv, Fields
  <2>3. InOrder(u, n, c)'
    BY <1>2, <2>2 DEF InOrder
  <2> QED
    BY <2>3
<1> QED
  BY <1>4, <1>5

(* A page taken off its list, at the head, in the middle or at the end.    *)
LEMMA UnlinkedInOrder ==
    ASSUME IndInv, NEW p \in Pages, slab_type[p] # Unused,
           slab_type' = [slab_type EXCEPT ![p] = Unused],
           slab_start_list' = UnlinkHead(p),
           next' = UnlinkNext(p), prev' = UnlinkPrev(p)
    PROVE  Chains'
<1> DEFINE t == slab_type[p]
<1>0. /\ \A u \in Types : u # Unused
      /\ SLAB_NULL \notin Pages
      /\ t \in Types
  BY SlabAssumption DEF Types, Unused, IndInv, Fields
<1> SUFFICES ASSUME NEW u \in Types
             PROVE  \E n \in Nat : \E c \in [1 .. n -> Pages] : InOrder(u, n, c)'
  BY DEF Chains
<1>1. PICK n \in Nat : \E c \in [1 .. n -> Pages] : InOrder(t, n, c)
  BY <1>0 DEF IndInv, Chains
<1>2. PICK c \in [1 .. n -> Pages] : InOrder(t, n, c)
  BY <1>1
<1>3. PICK k \in 1 .. n : c[k] = p
  BY <1>0, <1>2 DEF InOrder
<1>4. /\ next[p] = IF k = n THEN SLAB_NULL ELSE c[k + 1]
      /\ prev[p] = IF k = 1 THEN SLAB_NULL ELSE c[k - 1]
  BY <1>2, <1>3 DEF InOrder
<1>5. /\ \A q \in Pages \ {p} : next'[q] = IF q = prev[p] THEN next[p] ELSE next[q]
      /\ \A q \in Pages \ {p} : prev'[q] = IF q = next[p] THEN prev[p] ELSE prev[q]
      /\ \A q \in Pages \ {p} : slab_type'[q] = slab_type[q]
      /\ slab_type'[p] = Unused
      /\ \A v \in Types \ {t} : slab_start_list'[v] = slab_start_list[v]
      /\ slab_start_list'[t] = IF slab_start_list[t] = p THEN next[p] ELSE slab_start_list[t]
  <2>1. slab_type \in [Pages -> Types \cup {Unused}]
        /\ slab_start_list \in [Types -> Pages \cup {SLAB_NULL}]
    BY DEF IndInv, Fields
  <2>2. \A q \in Pages \ {p} : next'[q] = IF q = prev[p] THEN next[p] ELSE next[q]
    BY DEF UnlinkNext
  <2>3. \A q \in Pages \ {p} : prev'[q] = IF q = next[p] THEN prev[p] ELSE prev[q]
    BY DEF UnlinkPrev
  <2>4. /\ \A v \in Types \ {t} : slab_start_list'[v] = slab_start_list[v]
        /\ slab_start_list'[t] = IF slab_start_list[t] = p THEN next[p] ELSE slab_start_list[t]
    BY <1>0, <2>1 DEF UnlinkHead
  <2> QED
    BY <2>1, <2>2, <2>3, <2>4
<1>6. \A i \in 1 .. n : c[i] \in Pages /\ slab_type[c[i]] = t /\ (c[i] = p => i = k)
  BY <1>0, <1>2, <1>3 DEF InOrder
<1> HIDE DEF t
<1>7. CASE u = t
  <2> DEFINE d == [i \in 1 .. n - 1 |-> IF i < k THEN c[i] ELSE c[i + 1]]
             at(i) == IF i < k THEN i ELSE i + 1
  <2>1. /\ d \in [1 .. n - 1 -> Pages]
        /\ \A i \in 1 .. n - 1 : d[i] = c[at(i)] /\ at(i) \in 1 .. n /\ at(i) # k
                                  /\ d[i] \in Pages \ {p} /\ i \in Nat
    BY <1>6
  <2>2. \A j \in 1 .. n : j # k => \E i \in 1 .. n - 1 : at(i) = j
    <3> TAKE j \in 1 .. n
    <3>1. CASE j < k
      <4>1. j \in 1 .. n - 1 /\ at(j) = j
        BY <3>1
      <4> QED
        BY <4>1
    <3>2. CASE j > k
      <4>1. j - 1 \in 1 .. n - 1 /\ at(j - 1) = j
        BY <3>2
      <4> QED
        BY <4>1
    <3> QED
      BY <3>1, <3>2
  <2> HIDE DEF d
  <2>3. \A i, j \in 1 .. n - 1 : d[i] = d[j] => i = j
    <3> TAKE i, j \in 1 .. n - 1
    <3>1. d[i] = d[j] => at(i) = at(j)
      <4> HIDE DEF at
      <4> QED
        BY <1>2, <2>1 DEF InOrder
    <3>2. at(i) = at(j) => i = j
      OBVIOUS
    <3> QED
      BY <3>1, <3>2
  <2>4. \A q \in Pages : slab_type'[q] = u <=> \E i \in 1 .. n - 1 : d[i] = q
    <3> HIDE DEF at
    <3> TAKE q \in Pages
    <3>1. CASE q = p
      BY <1>0, <1>5, <2>1, <3>1
    <3>2. CASE q # p
      <4>1. slab_type'[q] = u <=> \E j \in 1 .. n : c[j] = q
        BY <1>2, <1>5, <1>7, <3>2 DEF InOrder
      <4>2. (\E j \in 1 .. n : c[j] = q) => \E i \in 1 .. n - 1 : d[i] = q
        BY <1>3, <2>1, <2>2, <3>2
      <4> QED
        BY <2>1, <4>1, <4>2
    <3> QED
      BY <3>1, <3>2
  <2>5. slab_start_list'[u] = IF n - 1 = 0 THEN SLAB_NULL ELSE d[1]
    <3>1. slab_start_list[t] = c[1] /\ 1 \in 1 .. n
      BY <1>2, <1>3 DEF InOrder
    <3>2. CASE k = 1
      <4>1. n - 1 # 0 => d[1] = c[2]
        BY <2>1, <3>2
      <4> QED
        BY <1>0, <1>3, <1>4, <1>5, <1>7, <3>1, <3>2, <4>1
    <3>3. CASE k # 1
      <4>1. n - 1 # 0 /\ d[1] = c[1]
        BY <2>1, <3>3
      <4>2. c[1] # p
        BY <1>6, <3>1, <3>3
      <4> QED
        BY <1>5, <1>7, <3>1, <4>1, <4>2
    <3> QED
      BY <3>2, <3>3
  <2>6. \A i \in 1 .. n - 1 :
          /\ next'[d[i]] = IF i = n - 1 THEN SLAB_NULL ELSE d[i + 1]
          /\ prev'[d[i]] = IF i = 1 THEN SLAB_NULL ELSE d[i - 1]
    <3> TAKE i \in 1 .. n - 1
    <3> DEFINE j == at(i)
    <3>1. j \in 1 .. n /\ j # k /\ d[i] = c[j] /\ c[j] \in Pages \ {p}
      BY <2>1
    <3>2. /\ next[c[j]] = IF j = n THEN SLAB_NULL ELSE c[j + 1]
          /\ prev[c[j]] = IF j = 1 THEN SLAB_NULL ELSE c[j - 1]
      <4> HIDE DEF j
      <4> QED
        BY <1>2, <3>1 DEF InOrder
    <3>3. /\ c[j] = prev[p] <=> j = k - 1
          /\ c[j] = next[p] <=> j = k + 1
      <4> HIDE DEF j
      <4>1. k # 1 => k - 1 \in 1 .. n
        BY <1>3
      <4>2. k # n => k + 1 \in 1 .. n
        BY <1>3
      <4>3. c[j] # SLAB_NULL
        BY <1>0, <3>1
      <4>4. c[j] = prev[p] <=> j = k - 1
        BY <1>2, <1>4, <3>1, <4>1, <4>3 DEF InOrder
      <4>5. c[j] = next[p] <=> j = k + 1
        BY <1>2, <1>4, <3>1, <4>2, <4>3 DEF InOrder
      <4> QED
        BY <4>4, <4>5
    <3>4. /\ next'[d[i]] = IF j = k - 1 THEN next[p] ELSE next[c[j]]
          /\ prev'[d[i]] = IF j = k + 1 THEN prev[p] ELSE prev[c[j]]
      <4> HIDE DEF j
      <4>1. next'[c[j]] = IF c[j] = prev[p] THEN next[p] ELSE next[c[j]]
        BY <1>5, <3>1
      <4>2. prev'[c[j]] = IF c[j] = next[p] THEN prev[p] ELSE prev[c[j]]
        BY <1>5, <3>1
      <4> QED
        BY <3>1, <3>3, <4>1, <4>2
    <3>5. /\ i # n - 1 => d[i + 1] = c[at(i + 1)]
          /\ i # 1 => d[i - 1] = c[at(i - 1)]
      <4>1. i # n - 1 => i + 1 \in 1 .. n - 1
        OBVIOUS
      <4>2. i # 1 => i - 1 \in 1 .. n - 1
        OBVIOUS
      <4> HIDE DEF at
      <4> QED
        BY <2>1, <4>1, <4>2
    <3>6. next'[d[i]] = IF i = n - 1 THEN SLAB_NULL ELSE d[i + 1]
      <4>1. CASE i < k - 1
        BY <3>2, <3>4, <3>5, <4>1
      <4>2. CASE i = k - 1
        BY <1>4, <3>4, <3>5, <4>2
      <4>3. CASE i > k - 1
        BY <3>2, <3>4, <3>5, <4>3
      <4> QED
        BY <4>1, <4>2, <4>3
    <3>7. prev'[d[i]] = IF i = 1 THEN SLAB_NULL ELSE d[i - 1]
      <4>1. CASE i < k
        BY <3>2, <3>4, <3>5, <4>1
      <4>2. CASE i = k
        BY <1>4, <3>4, <3>5, <4>2
      <4>3. CASE i > k
        BY <3>2, <3>4, <3>5, <4>3
      <4> QED
        BY <4>1, <4>2, <4>3
    <3> QED
      BY <3>6, <3>7
  <2> DEFINE m == n - 1
  <2>7. m \in Nat /\ d \in [1 .. m -> Pages]
    BY <2>1
  <2> HIDE DEF m
  <2>8. InOrder(u, m, d)'
    BY <2>3, <2>4, <2>5, <2>6 DEF InOrder, m
  <2> QED
    BY <2>7, <2>8
<1>8. CASE u # t
  <2>1. PICK m \in Nat : \E e \in [1 .. m -> Pages] : InOrder(u, m, e)
    BY DEF IndInv, Chains
  <2>2. PICK e \in [1 .. m -> Pages] : InOrder(u, m, e)
    BY <2>1
  <2>3. \A i \in 1 .. m : e[i] \in Pages /\ slab_type[e[i]] = u
    BY <2>2 DEF InOrder
  <2>4. /\ next[p] \in Pages => slab_type[next[p]] = t
        /\ prev[p] \in Pages => slab_type[prev[p]] = t
        /\ slab_type[p] = t
    <3>1. k # 1 => k - 1 \in 1 .. n
      BY <1>3
    <3>2. k # n => k + 1 \in 1 .. n
      BY <1>3
    <3> QED
      BY <1>0, <1>3, <1>4, <1>6, <3>1, <3>2
  <2>5. /\ \A i \in 1 .. m : next'[e[i]] = next[e[i]] /\ prev'[e[i]] = prev[e[i]]
        /\ slab_start_list'[u] = slab_start_list[u]
        /\ \A q \in Pages : slab_type'[q] = u <=> slab_type[q] = u
    <3>1. ASSUME NEW i \in 1 .. m
          PROVE  next'[e[i]] = next[e[i]] /\ prev'[e[i]] = prev[e[i]]
      <4>1. e[i] \in Pages \ {p} /\ e[i] # prev[p] /\ e[i] # next[p]
        BY <1>8, <2>3, <2>4
      <4> QED
        BY <1>5, <4>1
    <3>2. slab_start_list'[u] = slab_start_list[u]
      BY <1>5, <1>8
    <3>3. \A q \in Pages : slab_type'[q] = u <=> slab_type[q] = u
      BY <1>0, <1>5, <1>8, <2>4
    <3> QED
      BY <3>1, <3>2, <3>3
  <2>6. InOrder(u, m, e)'
    BY <2>2, <2>5 DEF InOrder
  <2> QED
    BY <2>6
<1> QED
  BY <1>7, <1>8

-----------------------------------------------------------------------------
LEMMA MallocPageStep ==
    ASSUME IndInv, NEW request \in Requests, MallocPage(request)
    PROVE  IndInv'
<1> DEFINE t == TypeFor(request)
<1>1. t \in Types
  BY TypeForSmall DEF MallocPage
<1>2. TotalSlabs(t) \in Nat /\ 1 <= TotalSlabs(t)
  BY <1>1, SlotsInPage
<1>3. PICK b \in Frames, p \in Pages :
        /\ CanGrant(b, 0) /\ FirstUnused(p)
        /\ owned' = owned \cup {<<b, 0>>}
        /\ slab_type' = [slab_type EXCEPT ![p] = t]
        /\ start' = [start EXCEPT ![p] = b]
        /\ free_slabs' = [free_slabs EXCEPT ![p] = TotalSlabs(t) - 1]
        /\ bitmap' = [bitmap EXCEPT ![p] = {0}]
        /\ next' = [next EXCEPT ![p] = slab_start_list[t]]
        /\ prev' = [q \in Pages |-> IF q = slab_start_list[t] THEN p
                                    ELSE IF q = p THEN SLAB_NULL ELSE prev[q]]
        /\ slab_start_list' = [slab_start_list EXCEPT ![t] = p]
  BY DEF MallocPage
<1> HIDE DEF t
<1>4. slab_type[p] = Unused
  BY <1>3 DEF FirstUnused
<1>5. Chains'
  BY <1>1, <1>3, <1>4, PushedInOrder
<1>6. Fields'
  <2>1. t # Unused /\ TotalSlabs(t) - 1 \in Int /\ {0} \in SUBSET Nat
    BY <1>1, <1>2 DEF Types, Unused
  <2>2. /\ slab_type' \in [Pages -> Types \cup {Unused}] /\ start' \in [Pages -> Frames \cup {-1}]
        /\ free_slabs' \in [Pages -> Int] /\ bitmap' \in [Pages -> SUBSET Nat]
    BY <1>1, <1>3, <2>1 DEF IndInv, Fields
  <2>3. /\ next' \in [Pages -> Pages \cup {SLAB_NULL}] /\ prev' \in [Pages -> Pages \cup {SLAB_NULL}]
        /\ slab_start_list' \in [Types -> Pages \cup {SLAB_NULL}]
    BY <1>1, <1>3 DEF IndInv, Fields
  <2>4. \A q \in Pages : slab_type'[q] = Unused => free_slabs'[q] = -1 /\ bitmap'[q] = {}
    BY <1>3, <2>1 DEF IndInv, Fields
  <2> QED
    BY <2>2, <2>3, <2>4 DEF Fields
<1>7. Owned'
  BY <1>3 DEF IndInv, Owned
<1>8. /\ slab_type'[p] = t /\ start'[p] = b /\ bitmap'[p] = {0}
      /\ free_slabs'[p] = TotalSlabs(t) - 1
      /\ \A q \in Pages \ {p} : /\ slab_type'[q] = slab_type[q] /\ start'[q] = start[q]
                                /\ bitmap'[q] = bitmap[q] /\ free_slabs'[q] = free_slabs[q]
  BY <1>3 DEF IndInv, Fields
<1>9. CountsExact'
  <2> SUFFICES ASSUME NEW q \in Pages, slab_type'[q] # Unused
               PROVE  /\ bitmap'[q] # {}
                      /\ bitmap'[q] \subseteq 0 .. TotalSlabs(slab_type'[q]) - 1
                      /\ free_slabs'[q] = TotalSlabs(slab_type'[q]) - Cardinality(bitmap'[q])
    BY DEF CountsExact, TotalSlabs
  <2>1. CASE q = p
    <3>1. Cardinality({0}) = 1
      BY FS_Singleton
    <3>2. slab_type'[q] = t /\ bitmap'[q] = {0} /\ free_slabs'[q] = TotalSlabs(t) - 1
      BY <1>8, <2>1
    <3> QED
      BY <1>2, <3>1, <3>2
  <2>2. CASE q # p
    BY <1>8, <2>2 DEF IndInv, CountsExact
  <2> QED
    BY <2>1, <2>2
<1>10. PagesOwnFrames'
  <2>1. Extent(b, 0) = {b} /\ b \in Frames
    BY <1>3, OneFrame DEF Frames
  <2>2. ASSUME NEW q \in Pages \ {p}, slab_type[q] # Unused
        PROVE  start[q] # b
    BY <1>3, <2>1, <2>2, GrantedApart
  <2>3. \A o \in owned : b \notin Extent(o[1], o[2])
    BY <1>3, <2>1 DEF CanGrant, Taken
  <2> SUFFICES ASSUME NEW q \in Pages, slab_type'[q] # Unused
               PROVE  /\ <<start'[q], 0>> \in owned'
                      /\ \A r \in Pages \ {q} : slab_type'[r] # Unused => start'[r] # start'[q]
                      /\ \A o \in owned' : start'[q] \in Extent(o[1], o[2]) => o = <<start'[q], 0>>
    BY DEF PagesOwnFrames, Extent
  <2>4. CASE q = p
    BY <1>3, <1>8, <2>2, <2>3, <2>4
  <2>5. CASE q # p
    <3>0. q \in Pages \ {p} /\ slab_type[q] # Unused /\ start'[q] = start[q] /\ start[q] # b
      BY <1>8, <2>2, <2>5
    <3>1. /\ <<start[q], 0>> \in owned
          /\ \A r \in Pages \ {q} : slab_type[r] # Unused => start[r] # start[q]
          /\ \A o \in owned : start[q] \in Extent(o[1], o[2]) => o = <<start[q], 0>>
      BY <3>0 DEF IndInv, PagesOwnFrames
    <3>2. start[q] \notin Extent(b, 0)
      BY <2>1, <3>0
    <3>3. \A o \in owned' : start[q] \in Extent(o[1], o[2]) => o = <<start[q], 0>>
      BY <1>3, <3>1, <3>2
    <3>4. \A r \in Pages \ {q} : slab_type'[r] # Unused => start'[r] # start'[q]
      BY <1>8, <3>0, <3>1
    <3> QED
      BY <1>3, <3>0, <3>1, <3>3, <3>4
  <2> QED
    BY <2>4, <2>5
<1> QED
  BY <1>5, <1>6, <1>7, <1>9, <1>10 DEF IndInv

(* The other ways through malloc: nothing, or one more block.              *)
LEMMA MallocBlockSteps ==
    ASSUME IndInv, NEW request \in Requests,
           \/ MallocNoFrame(request) \/ MallocNoDescriptor(request)
           \/ MallocBlock(request) \/ MallocBlockFails(request)
    PROVE  IndInv'
<1>1. UNCHANGED page
  BY DEF MallocNoFrame, MallocNoDescriptor, MallocBlock, MallocBlockFails
<1>2. Fields' /\ Chains' /\ CountsExact'
  BY <1>1, SameChains DEF page, IndInv, Fields, CountsExact, TotalSlabs
<1>3. CASE owned' = owned
  BY <1>1, <1>2, <1>3 DEF page, IndInv, Owned, PagesOwnFrames, Extent
<1>4. CASE \E b \in Frames : \E order : CanGrant(b, order) /\ owned' = owned \cup {<<b, order>>}
  <2>0. PICK b \in Frames : \E order : CanGrant(b, order) /\ owned' = owned \cup {<<b, order>>}
    BY <1>4
  <2>1. PICK order : CanGrant(b, order) /\ owned' = owned \cup {<<b, order>>}
    BY <2>0
  <2>2. Owned'
    BY <2>1 DEF IndInv, Owned
  <2>3. ASSUME NEW p \in Pages, slab_type[p] # Unused
        PROVE  start[p] \notin Extent(b, order)
    BY <2>1, <2>3, GrantedApart
  <2>4. PagesOwnFrames'
    BY <1>1, <2>1, <2>3 DEF page, IndInv, PagesOwnFrames, Extent
  <2> QED
    BY <1>2, <2>2, <2>4 DEF IndInv
<1> QED
  BY <1>3, <1>4 DEF MallocNoFrame, MallocNoDescriptor, MallocBlock, MallocBlockFails

-----------------------------------------------------------------------------
(* A slot is freed only in a page that is in use.                          *)
LEMMA FreedInUse ==
    ASSUME IndInv, NEW p \in Pages, NEW a, SlotOf(p, a) \in bitmap[p]
    PROVE  slab_type[p] # Unused
  BY DEF IndInv, Fields

LEMMA FreeSlotStep ==
    ASSUME IndInv, NEW p \in Pages, NEW a, FreeSlot(p, a)
    PROVE  IndInv'
<1> DEFINE i == SlotOf(p, a)
           total == TotalSlabs(slab_type[p])
<1>1. slab_type[p] # Unused /\ i \in bitmap[p]
  BY FreedInUse DEF FreeSlot
<1>2. /\ bitmap' = [bitmap EXCEPT ![p] = bitmap[p] \ {i}]
      /\ free_slabs' = [free_slabs EXCEPT ![p] = free_slabs[p] + 1]
      /\ free_slabs[p] + 1 # total
      /\ UNCHANGED <<owned, leaked, slab_type, start, next, prev, slab_start_list>>
  BY DEF FreeSlot
<1> HIDE DEF i
<1>3. IsFiniteSet(bitmap[p]) /\ Cardinality(bitmap[p]) \in Nat /\ slab_type[p] \in Types
      /\ free_slabs[p] \in Int
  BY <1>1, BitsFinite
<1>4. Cardinality(bitmap[p] \ {i}) = Cardinality(bitmap[p]) - 1
  BY <1>1, <1>3, FS_RemoveElement
<1>5. Fields'
  BY <1>1, <1>2, <1>3 DEF IndInv, Fields
<1>6. CountsExact'
  <2> SUFFICES ASSUME NEW q \in Pages, slab_type'[q] # Unused
               PROVE  /\ bitmap'[q] # {}
                      /\ bitmap'[q] \subseteq 0 .. TotalSlabs(slab_type'[q]) - 1
                      /\ free_slabs'[q] = TotalSlabs(slab_type'[q]) - Cardinality(bitmap'[q])
    BY DEF CountsExact, TotalSlabs
  <2>1. CASE q = p
    <3>1. /\ bitmap'[q] = bitmap[p] \ {i} /\ free_slabs'[q] = free_slabs[p] + 1
          /\ slab_type'[q] = slab_type[p]
      BY <1>2, <2>1 DEF IndInv, Fields
    <3>2. bitmap[p] \subseteq 0 .. total - 1 /\ free_slabs[p] = total - Cardinality(bitmap[p])
          /\ total \in Nat
      BY <1>1, <1>3, SlotsInPage DEF IndInv, CountsExact
    <3>3. bitmap[p] \ {i} # {}
      <4>1. bitmap[p] \ {i} = {} => Cardinality(bitmap[p] \ {i}) = 0
        BY FS_EmptySet
      <4> HIDE DEF total
      <4> QED
        BY <1>2, <1>3, <1>4, <3>2, <4>1
    <3> QED
      BY <1>3, <1>4, <2>1, <3>1, <3>2, <3>3
  <2>2. CASE q # p
    BY <1>2, <2>2 DEF IndInv, Fields, CountsExact
  <2> QED
    BY <2>1, <2>2
<1>7. Owned' /\ PagesOwnFrames'
  BY <1>2 DEF IndInv, Owned, PagesOwnFrames, Extent
<1> QED
  BY <1>2, <1>5, <1>6, <1>7, SameChains DEF IndInv

(* The frame that goes back is no other page's.                            *)
LEMMA FreeLastSlotStep ==
    ASSUME IndInv, NEW p \in Pages, NEW a, FreeLastSlot(p, a)
    PROVE  IndInv'
<1>1. slab_type[p] # Unused
  BY FreedInUse DEF FreeLastSlot
<1>2. Chains'
  BY <1>1, UnlinkedInOrder DEF FreeLastSlot
<1>3. /\ slab_type' = [slab_type EXCEPT ![p] = Unused]
      /\ start' = [start EXCEPT ![p] = -1]
      /\ free_slabs' = [free_slabs EXCEPT ![p] = -1]
      /\ bitmap' = [bitmap EXCEPT ![p] = {}]
      /\ owned' = {o \in owned : o[1] # start[p]}
  BY DEF FreeLastSlot
<1>4. Fields'
  <2>1. /\ slab_type' \in [Pages -> Types \cup {Unused}] /\ start' \in [Pages -> Frames \cup {-1}]
        /\ free_slabs' \in [Pages -> Int] /\ bitmap' \in [Pages -> SUBSET Nat]
        /\ \A q \in Pages : slab_type'[q] = Unused => free_slabs'[q] = -1 /\ bitmap'[q] = {}
    BY <1>3 DEF IndInv, Fields
  <2>2. /\ next \in [Pages -> Pages \cup {SLAB_NULL}] /\ prev \in [Pages -> Pages \cup {SLAB_NULL}]
        /\ slab_start_list \in [Types -> Pages \cup {SLAB_NULL}]
    BY DEF IndInv, Fields
  <2>3. next' \in [Pages -> Pages \cup {SLAB_NULL}] /\ prev' \in [Pages -> Pages \cup {SLAB_NULL}]
    BY <2>2 DEF FreeLastSlot, UnlinkNext, UnlinkPrev
  <2>4. slab_start_list' \in [Types -> Pages \cup {SLAB_NULL}]
    BY <2>2 DEF FreeLastSlot, UnlinkHead
  <2> QED
    BY <2>1, <2>3, <2>4 DEF Fields
<1>5. \A q \in Pages : slab_type'[q] # Unused =>
        /\ q # p /\ slab_type[q] # Unused /\ slab_type'[q] = slab_type[q]
        /\ start'[q] = start[q] /\ start[q] # start[p]
        /\ bitmap'[q] = bitmap[q] /\ free_slabs'[q] = free_slabs[q]
  BY <1>1, <1>3 DEF IndInv, Fields, PagesOwnFrames
<1>6. CountsExact'
  BY <1>5 DEF IndInv, CountsExact, TotalSlabs
<1>7. Owned'
  BY <1>3 DEF IndInv, Owned
<1>8. PagesOwnFrames'
  BY <1>3, <1>5 DEF IndInv, PagesOwnFrames, Extent
<1> QED
  BY <1>2, <1>4, <1>6, <1>7, <1>8 DEF IndInv

(* A block is given back only where no page is found, and pages in use are *)
(* on their lists, so they are found.                                      *)
LEMMA FreeBlockStep ==
    ASSUME IndInv, NEW a \in Pointers, PagesOf(a) = {}, FreeBlock(a)
    PROVE  IndInv'
<1>1. PICK o \in owned : o[1] = a \div FrameSize /\ owned' = owned \ {o}
  BY DEF FreeBlock
<1>2. UNCHANGED page
  BY DEF FreeBlock
<1>3. Fields' /\ Chains' /\ CountsExact'
  BY <1>2, SameChains DEF page, IndInv, Fields, CountsExact, TotalSlabs
<1>4. ASSUME NEW p \in Pages, slab_type[p] # Unused
      PROVE  o # <<start[p], 0>>
  <2> SUFFICES ASSUME o[1] = start[p]
               PROVE  FALSE
    BY DEF IndInv, Owned
  <2>1. slab_type[p] \in Types /\ p \in Listed(slab_type[p])
    BY <1>4, ListedPages DEF IndInv, Fields
  <2>2. a \in Int /\ FrameSize \in Nat /\ FrameSize > 0
    BY SlabAssumption DEF Pointers, Addresses, NULL
  <2>3. (a \div FrameSize) * FrameSize <= a /\ a < (a \div FrameSize) * FrameSize + FrameSize
    BY <2>2
  <2>4. p \in PagesOf(a)
    BY <1>1, <2>1, <2>3 DEF PagesOf
  <2> QED
    BY <2>4
<1>5. PagesOwnFrames'
  BY <1>1, <1>2, <1>4 DEF page, IndInv, PagesOwnFrames, Extent
<1> QED
  BY <1>1, <1>3, <1>5 DEF IndInv, Owned

LEMMA QuietSteps ==
    ASSUME IndInv, UNCHANGED <<owned, page>>
    PROVE  IndInv'
  BY SameChains DEF page, IndInv, Fields, Owned, CountsExact, TotalSlabs, PagesOwnFrames, Extent

LEMMA NextInd ==
    ASSUME IndInv, [Next]_vars
    PROVE  IndInv'
<1>1. ASSUME NEW request \in Requests, Malloc(request)
      PROVE  IndInv'
  BY <1>1, MallocSlotStep, MallocPageStep, MallocBlockSteps DEF Malloc
<1>2. ASSUME NEW a \in Pointers, Free(a)
      PROVE  IndInv'
  <2>1. CASE \E p \in PagesOf(a) : FreeSlot(p, a) \/ FreeLastSlot(p, a) \/ FreeUnusedSlot(p, a)
    <3>1. PICK p \in Pages : FreeSlot(p, a) \/ FreeLastSlot(p, a) \/ FreeUnusedSlot(p, a)
      BY <2>1 DEF PagesOf
    <3> QED
      BY <3>1, FreeSlotStep, FreeLastSlotStep, QuietSteps DEF FreeUnusedSlot
  <2>2. CASE NotInSlab(PagesOf(a)) /\ (FreeBlock(a) \/ FreeUnknown(a))
    BY <2>2, FreeBlockStep, QuietSteps DEF NotInSlab, FreeUnknown
  <2> QED
    BY <1>2, <2>1, <2>2 DEF Free
<1>3. CASE UNCHANGED vars
  BY <1>3, QuietSteps DEF vars, page
<1> QED
  BY <1>1, <1>2, <1>3 DEF Next

-----------------------------------------------------------------------------
(* The inductive invariant.                                                *)
THEOREM Invariance == Spec => []IndInv
  BY InitInd, NextInd, PTL DEF Spec

(* Counts and bitmaps agree however slots are freed, and freed twice.      *)
THEOREM CountsAlwaysExact == Spec => []CountsExact
  BY Invariance, PTL DEF IndInv

(* No frame serves two pages, or a page and a block.                       *)
THEOREM PagesAlwaysOwn == Spec => []PagesOwnFrames
  BY Invariance, PTL DEF IndInv

(* The list of a size is exactly its pages, whichever leave it and from    *)
(* wherever in the list.                                                   *)
THEOREM ListsAlwaysExact == Spec => []ListsExact
<1>1. ASSUME IndInv
      PROVE  ListsExact
  <2>1. ASSUME NEW t \in Types, NEW p \in Listed(t)
        PROVE  /\ prev[p] = SLAB_NULL <=> slab_start_list[t] = p
               /\ next[p] # SLAB_NULL => prev[next[p]] = p
    <3>1. PICK n \in Nat : \E c \in [1 .. n -> Pages] : InOrder(t, n, c)
      BY <1>1 DEF IndInv, Chains
    <3>2. PICK c \in [1 .. n -> Pages] : InOrder(t, n, c)
      BY <3>1
    <3>3. p \in Pages /\ slab_type[p] = t
      BY <1>1, <2>1, ListedPages DEF IndInv
    <3>4. PICK i \in 1 .. n : c[i] = p
      BY <3>2, <3>3 DEF InOrder
    <3>5. SLAB_NULL \notin Pages /\ \A j \in 1 .. n : c[j] # SLAB_NULL
      BY SlabAssumption
    <3>6. prev[p] = SLAB_NULL <=> slab_start_list[t] = p
      <4>1. prev[p] = IF i = 1 THEN SLAB_NULL ELSE c[i - 1]
        BY <3>2, <3>4 DEF InOrder
      <4>2. slab_start_list[t] = c[1] /\ 1 \in 1 .. n /\ (i # 1 => i - 1 \in 1 .. n)
        BY <3>2 DEF InOrder
      <4>3. c[1] = p <=> i = 1
        BY <3>2, <3>4, <4>2 DEF InOrder
      <4> QED
        BY <3>5, <4>1, <4>2, <4>3
    <3>7. ASSUME next[p] # SLAB_NULL
          PROVE  prev[next[p]] = p
      <4>1. next[p] = IF i = n THEN SLAB_NULL ELSE c[i + 1]
        BY <3>2, <3>4 DEF InOrder
      <4> DEFINE j == i + 1
      <4>2. j \in 1 .. n /\ j # 1 /\ j - 1 = i /\ next[p] = c[j]
        BY <3>7, <4>1
      <4> HIDE DEF j
      <4>3. prev[c[j]] = c[i]
        BY <3>2, <4>2 DEF InOrder
      <4> QED
        BY <3>4, <4>2, <4>3
    <3> QED
      BY <3>6, <3>7
  <2> QED
    BY <1>1, <2>1, ListedPages DEF IndInv, ListsExact
<1> QED
  BY <1>1, Invariance, PTL

-----------------------------------------------------------------------------
(* Where a byte is: a quotient is what its bounds say.                     *)
In(a, q, n) == q * n <= a /\ a < q * n + n

LEMMA Quotient ==
    ASSUME NEW n \in Nat \ {0}, NEW a \in Int, NEW q \in Int
    PROVE  a \div n = q <=> In(a, q, n)
<1>1. PICK d \in Int : d = a \div n
  OBVIOUS
<1>2. In(a, d, n)
  BY <1>1 DEF In
<1>3. ASSUME NEW x \in Int, NEW y \in Int, x < y, In(a, x, n), In(a, y, n)
      PROVE  FALSE
  <2>1. (x + 1) * n <= y * n
    <3>1. PICK k \in Nat : y = (x + 1) + k
      <4>1. y - (x + 1) \in Nat /\ y = (x + 1) + (y - (x + 1))
        BY <1>3
      <4> QED
        BY <4>1
    <3>2. y * n = (x + 1) * n + k * n /\ k * n >= 0
      BY <3>1
    <3>3. (x + 1) * n \in Int /\ k * n \in Int
      OBVIOUS
    <3> QED
      BY <3>2, <3>3
  <2>2. (x + 1) * n = x * n + n /\ x * n \in Int /\ y * n \in Int
    OBVIOUS
  <2> QED
    BY <1>3, <2>1, <2>2 DEF In
<1> QED
  BY <1>1, <1>2, <1>3 DEF In

(* A slot: the frame of its bytes, and their number within the frame.      *)
LEMMA SlotArithmetic ==
    ASSUME NEW F \in Nat \ {0}, NEW z \in 1 .. F, NEW b \in Int,
           NEW i \in Nat, i < F \div z, NEW x \in Int
    PROVE  x \in b * F + i * z .. b * F + i * z + z - 1
               <=> x \div F = b /\ (x - b * F) \div z = i
<1>1. PICK n \in Int : n = F \div z
  OBVIOUS
<1>2. n * z <= F
  <2>1. In(F, n, z)
    BY <1>1, Quotient
  <2> QED
    BY <2>1 DEF In
<1>3. i * z + z <= F /\ 0 <= i * z /\ i * z \in Int /\ b * F \in Int
  <2>1. PICK k \in Nat : n = (i + 1) + k
    <3>1. n - (i + 1) \in Nat /\ n = (i + 1) + (n - (i + 1))
      BY <1>1
    <3> QED
      BY <3>1
  <2>2. n * z = (i * z + z) + k * z /\ k * z \in Nat /\ i * z \in Nat
    BY <2>1
  <2> QED
    BY <1>2, <2>2
<1>4. (x - b * F) \div z = i <=> In(x - b * F, i, z)
  BY <1>3, Quotient
<1>5. x \div F = b <=> In(x, b, F)
  BY Quotient
<1>6. PICK s, f : s = i * z /\ f = b * F
  OBVIOUS
<1>7. x \in f + s .. f + s + z - 1 <=> (f <= x /\ x < f + F) /\ (s <= x - f /\ x - f < s + z)
  BY <1>3, <1>6
<1> QED
  BY <1>4, <1>5, <1>6, <1>7 DEF In

(* A block: its bytes are those in its frames.                             *)
LEMMA BlockArithmetic ==
    ASSUME NEW F \in Nat \ {0}, NEW b \in Int, NEW n \in Nat, NEW x \in Int
    PROVE  x \in b * F .. b * F + n * F - 1 <=> x \div F \in b .. b + n - 1
<1>1. PICK q \in Int : q = x \div F
  OBVIOUS
<1>2. In(x, q, F)
  BY <1>1, Quotient
<1>3. ASSUME NEW u \in Int, NEW v \in Int, u <= v
      PROVE  u * F <= v * F
  <2>1. PICK k \in Nat : v = u + k
    <3>1. v - u \in Nat /\ v = u + (v - u)
      BY <1>3
    <3> QED
      BY <3>1
  <2>2. v * F = u * F + k * F /\ k * F \in Nat /\ u * F \in Int
    BY <2>1
  <2> QED
    BY <2>2
<1>4. /\ b * F \in Int /\ n * F \in Int /\ q * F \in Int /\ (b + n) * F = b * F + n * F
      /\ (q + 1) * F = q * F + F
  OBVIOUS
<1>5. q * F <= x /\ x < q * F + F
  BY <1>2 DEF In
<1>6. b <= q <=> b * F <= x
  <2>1. b <= q => b * F <= q * F
    BY <1>3
  <2>2. ~(b <= q) => (q + 1) * F <= b * F
    BY <1>3
  <2> QED
    BY <1>4, <1>5, <2>1, <2>2
<1>7. q < b + n <=> x < b * F + n * F
  <2>1. q < b + n => (q + 1) * F <= (b + n) * F
    BY <1>3
  <2>2. ~(q < b + n) => (b + n) * F <= q * F
    BY <1>3
  <2> QED
    BY <1>4, <1>5, <2>1, <2>2
<1> QED
  BY <1>1, <1>4, <1>6, <1>7

-----------------------------------------------------------------------------
(* The blocks taken lie apart in memory, and a frame that malloc has       *)
(* leaked is taken and no page's.                                          *)
Extents(o) == Extent(o[1], o[2])
BlocksApart ==
    /\ \A o \in owned : o[2] \in 0 .. LastOrder /\ Extents(o) \subseteq Frames
    /\ \A o, u \in owned : o # u => Extents(o) \cap Extents(u) = {}
LeaksTaken ==
    \A b \in leaked :
        /\ <<b, 0>> \in owned
        /\ \A p \in Pages : slab_type[p] # Unused => start[p] # b

HeapInv == IndInv /\ BlocksApart /\ LeaksTaken

SlotChunk(p, i) ==
    <<start[p] * FrameSize + i * slab_sizes[slab_type[p]], slab_sizes[slab_type[p]]>>
BlockChunk(o) == <<o[1] * FrameSize, Size[o[2]] * FrameSize>>
Chunks == Slots \cup Blocks

(* Each chunk is a slot in use or a block handed out.                      *)
LEMMA ChunkIs ==
    ASSUME NEW c
    PROVE  /\ c \in Slots <=> \E p \in Pages : /\ slab_type[p] # Unused
                                               /\ \E i \in bitmap[p] : c = SlotChunk(p, i)
           /\ c \in Blocks <=> \E o \in Handed : c = BlockChunk(o)
  BY DEF Slots, Blocks, SlotChunk, BlockChunk

LEMMA ChunkWillBe ==
    ASSUME NEW c
    PROVE  /\ c \in Slots' <=> \E p \in Pages : /\ slab_type'[p] # Unused
                                                /\ \E i \in bitmap'[p] : c = SlotChunk(p, i)'
           /\ c \in Blocks' <=> \E o \in Handed' : c = BlockChunk(o)
  BY DEF Slots, Blocks, SlotChunk, BlockChunk

(* The bytes of a slot, in use or not, are those of its page that free     *)
(* takes for it.                                                           *)
LEMMA SlotBytes ==
    ASSUME IndInv, NEW p \in Pages, slab_type[p] # Unused,
           NEW i \in 0 .. TotalSlabs(slab_type[p]) - 1
    PROVE  /\ start[p] \in Frames /\ start[p] \in Int /\ <<start[p], 0>> \in owned
           /\ SlotChunk(p, i)[1] \in Int /\ SlotChunk(p, i)[1] \in TheHeap!Span(SlotChunk(p, i))
           /\ \A x \in Int : x \in TheHeap!Span(SlotChunk(p, i))
                                 <=> x \div FrameSize = start[p] /\ SlotOf(p, x) = i
<1>1. <<start[p], 0>> \in owned /\ start[p] \in Frames /\ slab_type[p] \in Types
  BY DEF IndInv, PagesOwnFrames, Owned, Fields
<1>2. PICK F, z, b : F = FrameSize /\ z = slab_sizes[slab_type[p]] /\ b = start[p]
  OBVIOUS
<1>3. F \in Nat \ {0} /\ z \in 1 .. F /\ b \in Int /\ i \in Nat /\ i < F \div z
  <2>1. F \div z \in Int
    <3>1. F \in Nat \ {0} /\ z \in 1 .. F
      BY <1>1, <1>2, SlabAssumption DEF Types
    <3> QED
      BY <3>1
  <2>2. i \in Nat /\ i < F \div z
    BY <1>2, <2>1 DEF TotalSlabs
  <2> QED
    BY <1>1, <1>2, <2>2, SlabAssumption DEF Types, Frames
<1>4. SlotChunk(p, i) = <<b * F + i * z, z>>
  BY <1>2 DEF SlotChunk
<1>5. TheHeap!Span(SlotChunk(p, i)) = b * F + i * z .. b * F + i * z + z - 1
  BY <1>4 DEF TheHeap!Span
<1>6. ASSUME NEW x \in Int
      PROVE  x \in TheHeap!Span(SlotChunk(p, i)) <=> x \div FrameSize = start[p] /\ SlotOf(p, x) = i
  <2>1. SlotOf(p, x) = (x - b * F) \div z
    BY <1>2 DEF SlotOf
  <2>2. x \in b * F + i * z .. b * F + i * z + z - 1
               <=> x \div F = b /\ (x - b * F) \div z = i
    BY <1>3, SlotArithmetic
  <2> QED
    BY <1>2, <1>5, <2>1, <2>2
<1>7. SlotChunk(p, i)[1] \in Int /\ SlotChunk(p, i)[1] \in TheHeap!Span(SlotChunk(p, i))
  <2>1. PICK s : s = b * F + i * z
    OBVIOUS
  <2>2. s \in Int
    BY <1>3, <2>1
  <2> QED
    BY <1>3, <1>4, <1>5, <2>1, <2>2
<1>8. start[p] \in Int
  BY <1>2, <1>3
<1> QED
  BY <1>1, <1>6, <1>7, <1>8

(* The bytes of a block are those of its frames.                           *)
LEMMA BlockBytes ==
    ASSUME NEW b \in Frames, NEW k \in 0 .. LastOrder
    PROVE  /\ BlockChunk(<<b, k>>)[1] \in Int
           /\ BlockChunk(<<b, k>>)[1] \in TheHeap!Span(BlockChunk(<<b, k>>))
           /\ BlockChunk(<<b, k>>)[1] \div FrameSize = b
           /\ \A x \in Int : x \in TheHeap!Span(BlockChunk(<<b, k>>))
                                 <=> x \div FrameSize \in Extent(b, k)
<1>1. PICK F, n : F = FrameSize /\ n = Size[k]
  OBVIOUS
<1>2. F \in Nat \ {0} /\ n \in Nat \ {0} /\ b \in Int
  BY <1>1, SlabAssumption, OrderAssumption DEF Frames
<1>3. BlockChunk(<<b, k>>) = <<b * F, n * F>>
  BY <1>1 DEF BlockChunk
<1>4. TheHeap!Span(BlockChunk(<<b, k>>)) = b * F .. b * F + n * F - 1
  BY <1>3 DEF TheHeap!Span
<1>5. \A x \in Int : x \in b * F .. b * F + n * F - 1 <=> x \div F \in b .. b + n - 1
  BY <1>2, BlockArithmetic
<1>6. b * F \in Int /\ (b * F) \div F = b
  <2>1. b * F \in Int
    BY <1>2
  <2>2. In(b * F, b, F)
    BY <1>2, <2>1 DEF In
  <2> QED
    BY <1>2, <2>1, <2>2, Quotient
<1>7. b \in b .. b + n - 1
  BY <1>2
<1>8. b * F \in b * F .. b * F + n * F - 1
  <2>1. (b * F) \div F \in b .. b + n - 1
    BY <1>6, <1>7
  <2> QED
    BY <1>5, <1>6, <2>1
<1>9. \A x \in Int : x \in TheHeap!Span(BlockChunk(<<b, k>>)) <=> x \div FrameSize \in Extent(b, k)
  BY <1>1, <1>4, <1>5 DEF Extent
<1> QED
  BY <1>1, <1>3, <1>4, <1>6, <1>8, <1>9

-----------------------------------------------------------------------------
(* Every byte of a chunk is in a frame taken, and knows its chunk.         *)
InSlot(c, x) == \E p \in Pages : /\ slab_type[p] # Unused
                                 /\ x \div FrameSize = start[p] /\ SlotOf(p, x) \in bitmap[p]
                                 /\ c = SlotChunk(p, SlotOf(p, x))
InBlock(c, x) == \E o \in Handed : c = BlockChunk(o) /\ x \div FrameSize \in Extents(o)

LEMMA SlotsInUse ==
    ASSUME IndInv, NEW p \in Pages, slab_type[p] # Unused
    PROVE  bitmap[p] \subseteq 0 .. TotalSlabs(slab_type[p]) - 1
  BY DEF IndInv, CountsExact

LEMMA HandedIs ==
    ASSUME HeapInv, NEW o \in Handed
    PROVE  /\ o \in owned /\ o[1] \in Frames /\ o[2] \in 0 .. LastOrder /\ o = <<o[1], o[2]>>
           /\ Extents(o) \subseteq Frames
           /\ \A p \in Pages : slab_type[p] # Unused => start[p] \notin Extents(o)
  BY DEF HeapInv, IndInv, Owned, BlocksApart, Handed, PagesOwnFrames, Extents

LEMMA ByteIn ==
    ASSUME HeapInv, NEW c \in Chunks, NEW x \in Int, x \in TheHeap!Span(c)
    PROVE  InSlot(c, x) \/ InBlock(c, x)
<1>1. CASE c \in Slots
  <2>1. PICK p \in Pages : slab_type[p] # Unused /\ \E i \in bitmap[p] : c = SlotChunk(p, i)
    BY <1>1, ChunkIs
  <2>2. PICK i \in bitmap[p] : c = SlotChunk(p, i)
    BY <2>1
  <2>3. i \in 0 .. TotalSlabs(slab_type[p]) - 1 /\ IndInv
    BY <2>1, SlotsInUse DEF HeapInv
  <2>4. x \div FrameSize = start[p] /\ SlotOf(p, x) = i
    BY <2>1, <2>2, <2>3, SlotBytes
  <2> QED
    BY <2>1, <2>2, <2>4 DEF InSlot
<1>2. CASE c \in Blocks
  <2>1. PICK o \in Handed : c = BlockChunk(o)
    BY <1>2, ChunkIs
  <2>2. o[1] \in Frames /\ o[2] \in 0 .. LastOrder /\ o = <<o[1], o[2]>>
    BY HandedIs
  <2>3. c = BlockChunk(<<o[1], o[2]>>)
    BY <2>1, <2>2
  <2>4. x \div FrameSize \in Extent(o[1], o[2])
    BY <2>2, <2>3, BlockBytes
  <2> QED
    BY <2>1, <2>4 DEF InBlock, Extents
<1> QED
  BY <1>1, <1>2 DEF Chunks

LEMMA FirstByte ==
    ASSUME HeapInv, NEW c \in Chunks
    PROVE  c[1] \in Int /\ c[1] \in TheHeap!Span(c)
<1>1. CASE c \in Slots
  <2>1. PICK p \in Pages : slab_type[p] # Unused /\ \E i \in bitmap[p] : c = SlotChunk(p, i)
    BY <1>1, ChunkIs
  <2>2. PICK i \in bitmap[p] : c = SlotChunk(p, i)
    BY <2>1
  <2>3. i \in 0 .. TotalSlabs(slab_type[p]) - 1 /\ IndInv
    BY <2>1, SlotsInUse DEF HeapInv
  <2> QED
    BY <2>1, <2>2, <2>3, SlotBytes
<1>2. CASE c \in Blocks
  <2>1. PICK o \in Handed : c = BlockChunk(o)
    BY <1>2, ChunkIs
  <2>2. o[1] \in Frames /\ o[2] \in 0 .. LastOrder /\ o = <<o[1], o[2]>>
    BY HandedIs
  <2>3. c = BlockChunk(<<o[1], o[2]>>)
    BY <2>1, <2>2
  <2> QED
    BY <2>2, <2>3, BlockBytes
<1> QED
  BY <1>1, <1>2 DEF Chunks

LEMMA BytesInMemory ==
    ASSUME HeapInv, NEW c \in Chunks, NEW x \in Int, x \in TheHeap!Span(c)
    PROVE  x \in 0 .. TotalFrame * FrameSize - 1
<1>1. x \div FrameSize \in Frames
  <2>1. CASE InSlot(c, x)
    BY <2>1 DEF InSlot, HeapInv, IndInv, PagesOwnFrames, Owned
  <2>2. CASE InBlock(c, x)
    BY <2>2, HandedIs DEF InBlock
  <2> QED
    BY <2>1, <2>2, ByteIn
<1>2. FrameSize \in Nat \ {0} /\ TotalFrame \in Nat
  BY SlabAssumption
<1>3. x \div FrameSize \in 0 .. 0 + TotalFrame - 1
  BY <1>1, <1>2 DEF Frames
<1>4. x \in 0 * FrameSize .. 0 * FrameSize + TotalFrame * FrameSize - 1
  <2> HIDE <1>1
  <2>1. 0 \in Int
    OBVIOUS
  <2> QED
    BY <1>2, <1>3, <2>1, BlockArithmetic
<1>5. 0 * FrameSize = 0 /\ TotalFrame * FrameSize \in Int
  BY <1>2
<1> QED
  BY <1>4, <1>5

(* Chunks that share a byte are one.                                       *)
LEMMA OneChunk ==
    ASSUME HeapInv, NEW c \in Chunks, NEW d \in Chunks, NEW x \in Int,
           x \in TheHeap!Span(c), x \in TheHeap!Span(d)
    PROVE  c = d
<1>1. (InSlot(c, x) \/ InBlock(c, x)) /\ (InSlot(d, x) \/ InBlock(d, x))
  BY ByteIn
<1>2. CASE InSlot(c, x) /\ InSlot(d, x)
  BY <1>2 DEF InSlot, HeapInv, IndInv, PagesOwnFrames
<1>3. CASE InBlock(c, x) /\ InBlock(d, x)
  BY <1>3, HandedIs DEF InBlock, HeapInv, BlocksApart
<1>4. ASSUME NEW u \in Chunks, NEW v \in Chunks, InSlot(u, x), InBlock(v, x)
      PROVE  FALSE
  BY <1>4, HandedIs DEF InSlot, InBlock
<1> QED
  BY <1>1, <1>2, <1>3, <1>4

(* A slot, in use or not, is no other slot's chunk, and no block's.        *)
LEMMA OneSlot ==
    ASSUME HeapInv, NEW p \in Pages, slab_type[p] # Unused,
           NEW i \in 0 .. TotalSlabs(slab_type[p]) - 1,
           NEW q \in Pages, slab_type[q] # Unused, NEW j \in bitmap[q],
           SlotChunk(p, i) = SlotChunk(q, j)
    PROVE  p = q /\ i = j
<1>1. j \in 0 .. TotalSlabs(slab_type[q]) - 1 /\ IndInv
  BY SlotsInUse DEF HeapInv
<1>2. PICK x : x = SlotChunk(p, i)[1]
  OBVIOUS
<1>3. x \in Int /\ x \in TheHeap!Span(SlotChunk(p, i))
  BY <1>1, <1>2, SlotBytes
<1>4. x \div FrameSize = start[p] /\ SlotOf(p, x) = i
  BY <1>1, <1>3, SlotBytes
<1>5. x \div FrameSize = start[q] /\ SlotOf(q, x) = j
  <2>1. x \in TheHeap!Span(SlotChunk(q, j))
    BY <1>3
  <2> QED
    BY <1>1, <1>3, <2>1, SlotBytes
<1>6. start[p] = start[q]
  BY <1>4, <1>5
<1>7. p = q
  BY <1>1, <1>6 DEF IndInv, PagesOwnFrames
<1> QED
  BY <1>4, <1>5, <1>7

LEMMA SlotNoBlock ==
    ASSUME HeapInv, NEW p \in Pages, slab_type[p] # Unused,
           NEW i \in 0 .. TotalSlabs(slab_type[p]) - 1
    PROVE  SlotChunk(p, i) \notin Blocks
<1>1. PICK x : x = SlotChunk(p, i)[1]
  OBVIOUS
<1>2. x \in Int /\ x \in TheHeap!Span(SlotChunk(p, i)) /\ x \div FrameSize = start[p]
  BY <1>1, SlotBytes DEF HeapInv
<1> SUFFICES ASSUME SlotChunk(p, i) \in Blocks
             PROVE  FALSE
  OBVIOUS
<1>3. PICK o \in Handed : SlotChunk(p, i) = BlockChunk(o)
  BY ChunkIs
<1>4. o[1] \in Frames /\ o[2] \in 0 .. LastOrder /\ o = <<o[1], o[2]>>
  BY HandedIs
<1>5. SlotChunk(p, i) = BlockChunk(<<o[1], o[2]>>)
  BY <1>3, <1>4
<1>6. x \div FrameSize \in Extent(o[1], o[2])
  BY <1>2, <1>4, <1>5, BlockBytes
<1>7. start[p] \notin Extent(o[1], o[2])
  BY HandedIs DEF Extents
<1> QED
  BY <1>2, <1>6, <1>7

-----------------------------------------------------------------------------
(* The order found for a request: there is one, and its blocks cover the   *)
(* request unless the sum in size2order wraps.                             *)
NoWrap == \A request \in Requests : request + FrameSize <= WordSize

LEMMA Times ==
    ASSUME NEW F \in Nat \ {0}, NEW u \in Int, NEW v \in Int
    PROVE  u <= v <=> u * F <= v * F
<1>1. ASSUME NEW x \in Int, NEW y \in Int, x <= y
      PROVE  x * F <= y * F
  <2>1. PICK k \in Nat : y = x + k
    <3>1. y - x \in Nat /\ y = x + (y - x)
      BY <1>1
    <3> QED
      BY <3>1
  <2>2. y * F = x * F + k * F /\ k * F \in Nat /\ x * F \in Int
    BY <2>1
  <2> QED
    BY <2>2
<1>2. (v + 1) * F = v * F + F /\ u * F \in Int /\ v * F \in Int
  OBVIOUS
<1>3. ~(u <= v) => (v + 1) * F <= u * F
  BY <1>1
<1> QED
  BY <1>1, <1>2, <1>3

Large(k, n) == Size[k] >= n /\ \A j \in 0 .. k - 1 : Size[j] < n

LEMMA SomeOrder ==
    ASSUME NEW n \in Int, n * FrameSize <= WordSize
    PROVE  \E k \in 0 .. LastOrder : Large(k, n)
<1> DEFINE S == {k \in 0 .. LastOrder : Size[k] >= n}
<1>1. /\ FrameSize \in Nat \ {0} /\ WordSize \in Nat /\ LastOrder \in Nat
      /\ Size \in [0 .. LastOrder -> Nat \ {0}]
      /\ Size[LastOrder] * FrameSize >= WordSize
  BY SlabAssumption, OrderAssumption
<1>2. PICK top \in Nat : top = Size[LastOrder]
  BY <1>1
<1>3. n * FrameSize <= top * FrameSize
  <2>1. n * FrameSize \in Int /\ top * FrameSize \in Int /\ top * FrameSize >= WordSize
    BY <1>1, <1>2
  <2> QED
    BY <1>1, <2>1
<1>4. n <= top
  BY <1>1, <1>3, Times
<1>5. LastOrder \in S /\ S \subseteq Nat
  BY <1>1, <1>2, <1>4
<1> HIDE DEF S
<1>6. PICK m \in S : \A k \in S : m <= k
  BY <1>5, Least
<1>7. Large(m, n) /\ m \in 0 .. LastOrder
  <2>1. m \in 0 .. LastOrder /\ Size[m] >= n
    BY DEF S
  <2>2. ASSUME NEW j \in 0 .. m - 1
        PROVE  Size[j] < n
    <3>1. j \in 0 .. LastOrder /\ j < m
      BY <1>1, <2>1
    <3>2. j \notin S
      BY <1>6, <2>1, <3>1
    <3>3. Size[j] \in Nat /\ ~(Size[j] >= n)
      BY <1>1, <3>1, <3>2 DEF S
    <3> QED
      BY <3>3
  <2> QED
    BY <2>1, <2>2 DEF Large
<1> QED
  BY <1>7

LEMMA OrderOf ==
    ASSUME NEW request \in Requests
    PROVE  /\ size2order(request) \in 0 .. LastOrder
           /\ NoWrap => Size[size2order(request)] * FrameSize >= request
<1> DEFINE s == (request + FrameSize - 1) % WordSize
           n == s \div FrameSize
<1>1. /\ request \in Nat /\ FrameSize \in Nat \ {0} /\ WordSize \in Nat \ {0}
      /\ Size \in [0 .. LastOrder -> Nat \ {0}]
  BY SlabAssumption, OrderAssumption
<1>2. s \in 0 .. WordSize - 1 /\ (NoWrap => s = request + FrameSize - 1)
  <2>1. PICK t \in Nat : t = request + FrameSize - 1
    BY <1>1
  <2>2. t % WordSize \in 0 .. WordSize - 1 /\ (t < WordSize => t % WordSize = t)
    BY <1>1
  <2>3. NoWrap => t < WordSize
    BY <1>1, <2>1 DEF NoWrap
  <2>4. s = t % WordSize
    BY <2>1
  <2> QED
    BY <2>1, <2>2, <2>3, <2>4
<1>3. size2order(request) = CHOOSE k \in 0 .. LastOrder : Large(k, n)
  BY DEF size2order, Large
<1> HIDE DEF s
<1>4. n \in Int /\ In(s, n, FrameSize)
  <2>1. n \in Int
    BY <1>1, <1>2
  <2>2. s \in Int
    BY <1>1, <1>2
  <2>3. \A q \in Int : s \div FrameSize = q <=> In(s, q, FrameSize)
    BY <1>1, <2>2, Quotient
  <2> QED
    BY <2>1, <2>3
<1> HIDE DEF n
<1>5. n * FrameSize <= s /\ s < n * FrameSize + FrameSize /\ n * FrameSize \in Int
  BY <1>1, <1>4 DEF In
<1>6. \E k \in 0 .. LastOrder : Large(k, n)
  BY <1>1, <1>2, <1>4, <1>5, SomeOrder
<1>7. size2order(request) \in 0 .. LastOrder /\ Large(size2order(request), n)
  BY <1>3, <1>6
<1>8. ASSUME NoWrap
      PROVE  Size[size2order(request)] * FrameSize >= request
  <2>1. PICK z \in Nat : z = Size[size2order(request)]
    BY <1>1, <1>7
  <2>2. n <= z
    BY <1>7, <2>1, <1>4 DEF Large
  <2>3. n * FrameSize <= z * FrameSize /\ z * FrameSize \in Int
    BY <1>1, <1>4, <2>1, <2>2, Times
  <2>4. request <= n * FrameSize
    BY <1>1, <1>2, <1>5, <1>8
  <2> QED
    BY <1>1, <1>5, <2>1, <2>3, <2>4
<1> QED
  BY <1>7, <1>8

-----------------------------------------------------------------------------
(* The blocks stay apart: one is granted in free frames, and others go.    *)
LEMMA Grows ==
    ASSUME HeapInv, NEW b \in Frames, NEW k \in 0 .. LastOrder, CanGrant(b, k),
           owned' = owned \cup {<<b, k>>}
    PROVE  BlocksApart' /\ (\A o \in owned : o[1] # b)
<1>1. /\ Extent(b, k) \subseteq Frames
      /\ \A o \in owned : Extents(o) \cap Extent(b, k) = {}
  BY DEF CanGrant, Taken, Extents
<1>2. b \in Extent(b, k) /\ \A o \in owned : o[1] \in Extents(o)
  <2>1. \A e \in Frames : \A j \in 0 .. LastOrder : e \in Extent(e, j)
    BY OrderAssumption DEF Extent, Frames
  <2> QED
    BY <2>1 DEF HeapInv, IndInv, Owned, BlocksApart, Extents
<1>3. \A o \in owned : o[1] # b
  BY <1>1, <1>2
<1>4. Extents(<<b, k>>) = Extent(b, k)
  BY DEF Extents
<1>5. \A o : Extents(o)' = Extents(o)
  BY DEF Extents, Extent
<1>6. BlocksApart'
  BY <1>1, <1>4, <1>5 DEF HeapInv, BlocksApart
<1> QED
  BY <1>3, <1>6

LEMMA Shrinks ==
    ASSUME HeapInv, owned' \subseteq owned
    PROVE  BlocksApart'
<1>1. \A o : Extents(o)' = Extents(o)
  BY DEF Extents, Extent
<1> QED
  BY <1>1 DEF HeapInv, BlocksApart

(* Where no page has the address, its frame is no page's.                  *)
LEMMA NoPage ==
    ASSUME IndInv, NEW a \in Pointers, PagesOf(a) = {}
    PROVE  \A p \in Pages : slab_type[p] # Unused => start[p] # a \div FrameSize
<1> SUFFICES ASSUME NEW p \in Pages, slab_type[p] # Unused, start[p] = a \div FrameSize
             PROVE  FALSE
  OBVIOUS
<1>1. slab_type[p] \in Types /\ p \in Listed(slab_type[p])
  BY ListedPages DEF IndInv, Fields
<1>2. a \in Int /\ FrameSize \in Nat /\ FrameSize > 0
  BY SlabAssumption DEF Pointers, Addresses, NULL
<1>3. (a \div FrameSize) * FrameSize <= a /\ a < (a \div FrameSize) * FrameSize + FrameSize
  BY <1>2
<1>4. p \in PagesOf(a)
  BY <1>1, <1>3 DEF PagesOf
<1> QED
  BY <1>4

LEMMA InitHeap == Init => HeapInv
  BY InitInd DEF Init, HeapInv, BlocksApart, LeaksTaken

LEMMA StillLeaks ==
    ASSUME HeapInv, owned \subseteq owned', leaked' = leaked,
           UNCHANGED <<slab_type, start>>
    PROVE  LeaksTaken'
  BY DEF HeapInv, LeaksTaken

LEMMA MallocHeap ==
    ASSUME HeapInv, NEW request \in Requests, Malloc(request)
    PROVE  BlocksApart' /\ LeaksTaken'
<1>1. CASE MallocSlot(request) \/ MallocNoFrame(request) \/ MallocBlockFails(request)
  <2>1. owned' = owned /\ UNCHANGED <<slab_type, start, leaked>>
    BY <1>1 DEF MallocSlot, MallocNoFrame, MallocBlockFails, page
  <2> QED
    BY <2>1, Shrinks, StillLeaks
<1>2. CASE MallocPage(request)
  <2>0. PICK b \in Frames : \E p \in Pages :
            /\ CanGrant(b, 0) /\ owned' = owned \cup {<<b, 0>>} /\ FirstUnused(p)
            /\ slab_type' = [slab_type EXCEPT ![p] = TypeFor(request)]
            /\ start' = [start EXCEPT ![p] = b] /\ leaked' = leaked
    BY <1>2 DEF MallocPage
  <2>1. PICK p \in Pages :
            /\ CanGrant(b, 0) /\ owned' = owned \cup {<<b, 0>>} /\ FirstUnused(p)
            /\ slab_type' = [slab_type EXCEPT ![p] = TypeFor(request)]
            /\ start' = [start EXCEPT ![p] = b] /\ leaked' = leaked
    BY <2>0
  <2>2. BlocksApart' /\ \A o \in owned : o[1] # b
    BY <2>1, Grows, OrderAssumption
  <2>3. \A d \in leaked : d # b
    BY <2>2 DEF HeapInv, LeaksTaken
  <2>4. \A q \in Pages : slab_type'[q] # Unused =>
             start'[q] = b \/ (slab_type[q] # Unused /\ start'[q] = start[q])
    BY <2>1 DEF HeapInv, IndInv, Fields
  <2>5. LeaksTaken'
    BY <2>1, <2>3, <2>4 DEF HeapInv, LeaksTaken
  <2> QED
    BY <2>2, <2>5
<1>3. CASE MallocNoDescriptor(request)
  <2>1. PICK b \in Frames : CanGrant(b, 0) /\ owned' = owned \cup {<<b, 0>>}
                            /\ leaked' = leaked \cup {b}
    BY <1>3 DEF MallocNoDescriptor
  <2>2. BlocksApart' /\ \A o \in owned : o[1] # b
    BY <2>1, Grows, OrderAssumption
  <2>3. UNCHANGED <<slab_type, start>>
    BY <1>3 DEF MallocNoDescriptor, page
  <2>4. \A p \in Pages : slab_type[p] # Unused => start[p] # b
    BY <2>2 DEF HeapInv, IndInv, PagesOwnFrames
  <2>5. LeaksTaken'
    BY <2>1, <2>3, <2>4 DEF HeapInv, LeaksTaken
  <2> QED
    BY <2>2, <2>5
<1>4. CASE MallocBlock(request)
  <2>1. PICK b \in Frames : /\ CanGrant(b, size2order(request))
                            /\ owned' = owned \cup {<<b, size2order(request)>>}
    BY <1>4 DEF MallocBlock
  <2>2. BlocksApart'
    BY <2>1, OrderOf, Grows
  <2>3. owned \subseteq owned' /\ leaked' = leaked /\ UNCHANGED <<slab_type, start>>
    BY <1>4, <2>1 DEF MallocBlock, page
  <2> QED
    BY <2>2, <2>3, StillLeaks
<1> QED
  BY <1>1, <1>2, <1>3, <1>4 DEF Malloc

LEMMA FreeHeap ==
    ASSUME HeapInv, NEW a \in Pointers, Free(a)
    PROVE  BlocksApart' /\ LeaksTaken'
<1>1. ASSUME NEW p \in Pages, FreeSlot(p, a) \/ FreeUnusedSlot(p, a) \/ FreeUnknown(a)
      PROVE  BlocksApart' /\ LeaksTaken'
  <2>1. owned' = owned /\ UNCHANGED <<slab_type, start, leaked>>
    BY <1>1 DEF FreeSlot, FreeUnusedSlot, FreeUnknown, page
  <2> QED
    BY <2>1, Shrinks, StillLeaks
<1>2. CASE FreeUnknown(a)
  <2>1. owned' = owned /\ UNCHANGED <<slab_type, start, leaked>>
    BY <1>2 DEF FreeUnknown, page
  <2> QED
    BY <2>1, Shrinks, StillLeaks
<1>3. ASSUME NEW p \in Pages, FreeLastSlot(p, a)
      PROVE  BlocksApart' /\ LeaksTaken'
  <2>1. /\ slab_type' = [slab_type EXCEPT ![p] = Unused]
        /\ start' = [start EXCEPT ![p] = -1]
        /\ owned' = {o \in owned : o[1] # start[p]} /\ leaked' = leaked
        /\ slab_type[p] # Unused
    BY <1>3, FreedInUse DEF FreeLastSlot, HeapInv
  <2>2. \A b \in leaked : b # start[p]
    BY <2>1 DEF HeapInv, LeaksTaken
  <2>3. \A q \in Pages : slab_type'[q] # Unused => slab_type[q] # Unused /\ start'[q] = start[q]
    BY <2>1 DEF HeapInv, IndInv, Fields
  <2>4. LeaksTaken'
    BY <2>1, <2>2, <2>3 DEF HeapInv, LeaksTaken
  <2> QED
    BY <2>1, <2>4, Shrinks
<1>4. ASSUME PagesOf(a) = {}, FreeBlock(a)
      PROVE  BlocksApart' /\ LeaksTaken'
  <2>1. PICK o \in owned : o[1] = a \div FrameSize /\ owned' = owned \ {o}
    BY <1>4 DEF FreeBlock
  <2>2. leaked' = leaked \ {o[1]} /\ UNCHANGED <<slab_type, start>>
    BY <1>4, <2>1 DEF FreeBlock, page
  <2>3. ASSUME NEW b \in leaked'
        PROVE  b \in leaked /\ <<b, 0>> \in owned'
    <3>1. b \in leaked /\ b # o[1] /\ <<b, 0>> \in owned
      BY <2>2 DEF HeapInv, LeaksTaken
    <3>2. <<b, 0>> # o
      BY <3>1
    <3> QED
      BY <2>1, <3>1, <3>2
  <2>4. LeaksTaken'
    BY <2>2, <2>3 DEF HeapInv, LeaksTaken
  <2> QED
    BY <2>1, <2>4, Shrinks
<1> QED
  BY <1>1, <1>2, <1>3, <1>4 DEF Free, PagesOf, NotInSlab

LEMMA NextHeap ==
    ASSUME HeapInv, [Next]_vars
    PROVE  HeapInv'
<1>1. IndInv'
  BY NextInd DEF HeapInv
<1>2. CASE UNCHANGED vars
  <2>1. owned' = owned /\ UNCHANGED <<slab_type, start, leaked>>
    BY <1>2 DEF vars
  <2> QED
    BY <1>1, <2>1, Shrinks, StillLeaks DEF HeapInv
<1> QED
  BY <1>1, <1>2, MallocHeap, FreeHeap DEF HeapInv, Next

-----------------------------------------------------------------------------
(* What malloc adds.                                                       *)
Adds(request, length) ==
    /\ length \in Lengths /\ length \in Int /\ length >= request
    /\ <<ret', length>> \notin Chunks
    /\ Chunks' = Chunks \cup {<<ret', length>>}

LEMMA SameChunks ==
    ASSUME UNCHANGED <<owned, slab_type, start, bitmap, leaked>>
    PROVE  Chunks' = Chunks
  BY DEF Chunks, Slots, Blocks, Handed

LEMMA SlotAdded ==
    ASSUME HeapInv, NEW request \in Requests, MallocSlot(request)
    PROVE  \E length : Adds(request, length)
<1> DEFINE t == TypeFor(request)
<1>1. PICK p \in Pages :
        /\ FirstWithRoom(t, p)
        /\ bitmap' = [bitmap EXCEPT ![p] = @ \cup {FirstClear(p)}]
        /\ ret' = start[p] * FrameSize + FirstClear(p) * slab_sizes[t]
  BY DEF MallocSlot
<1>2. UNCHANGED <<owned, leaked, slab_type, start>>
  BY DEF MallocSlot
<1>3. t \in Types /\ slab_sizes[t] >= request
  BY TypeForSmall DEF MallocSlot
<1>4. slab_type[p] = t /\ HasRoom(p)
  <2>1. p \in Listed(t) /\ HasRoom(p)
    BY <1>1 DEF FirstWithRoom, Listed
  <2> HIDE DEF t
  <2> QED
    BY <1>3, <2>1, ListedPages DEF HeapInv, IndInv
<1>5. t # Unused
  BY <1>3 DEF Types, Unused
<1> DEFINE i == FirstClear(p)
<1>6. i \in 0 .. TotalSlabs(slab_type[p]) - 1 /\ i \notin bitmap[p]
  BY <1>4, <1>5, FirstClearInPage DEF HeapInv
<1> HIDE DEF t, i
<1>7. bitmap' = [bitmap EXCEPT ![p] = bitmap[p] \cup {i}]
  BY <1>1 DEF i
<1>8. <<ret', slab_sizes[t]>> = SlotChunk(p, i)
  BY <1>1, <1>4 DEF SlotChunk, i
<1>9. \A q \in Pages : \A j : SlotChunk(q, j)' = SlotChunk(q, j)
  BY <1>2 DEF SlotChunk
<1>10. \A q \in Pages : bitmap'[q] = IF q = p THEN bitmap[p] \cup {i} ELSE bitmap[q]
  BY <1>7 DEF HeapInv, IndInv, Fields
<1>11. SlotChunk(p, i) \notin Slots
  <2>1. ASSUME NEW q \in Pages, slab_type[q] # Unused, NEW j \in bitmap[q], SlotChunk(p, i) = SlotChunk(q, j)
        PROVE  FALSE
    BY <1>4, <1>5, <1>6, <2>1, OneSlot
  <2> QED
    BY <2>1, ChunkIs
<1>12. SlotChunk(p, i) \notin Blocks
  BY <1>4, <1>5, <1>6, SlotNoBlock
<1>13. Blocks' = Blocks
  BY <1>2 DEF Blocks, Handed
<1>14. ASSUME NEW c
       PROVE  c \in Slots' <=> c \in Slots \/ c = SlotChunk(p, i)
  BY <1>2, <1>4, <1>5, <1>9, <1>10, ChunkIs, ChunkWillBe
<1>15. slab_sizes[t] \in Lengths /\ slab_sizes[t] \in Int
  BY <1>3, SlabAssumption DEF Lengths, Types
<1>16. Chunks' = Chunks \cup {SlotChunk(p, i)}
  BY <1>13, <1>14 DEF Chunks
<1>17. SlotChunk(p, i) \notin Chunks
  BY <1>11, <1>12 DEF Chunks
<1>18. Adds(request, slab_sizes[t])
  BY <1>3, <1>8, <1>15, <1>16, <1>17 DEF Adds
<1> QED
  BY <1>18

LEMMA PageAdded ==
    ASSUME HeapInv, HeapInv', NEW request \in Requests, MallocPage(request)
    PROVE  \E length : Adds(request, length)
<1> DEFINE t == TypeFor(request)
<1>1. t \in Types /\ slab_sizes[t] >= request
  BY TypeForSmall DEF MallocPage
<1>2. t # Unused /\ slab_sizes[t] \in Int
  BY <1>1, SlabAssumption DEF Types, Unused
<1>3. PICK b \in Frames : \E p \in Pages :
        /\ CanGrant(b, 0) /\ FirstUnused(p)
        /\ owned' = owned \cup {<<b, 0>>}
        /\ slab_type' = [slab_type EXCEPT ![p] = t]
        /\ start' = [start EXCEPT ![p] = b]
        /\ bitmap' = [bitmap EXCEPT ![p] = {0}]
        /\ ret' = b * FrameSize /\ leaked' = leaked
  BY DEF MallocPage
<1>4. PICK p \in Pages :
        /\ CanGrant(b, 0) /\ FirstUnused(p)
        /\ owned' = owned \cup {<<b, 0>>}
        /\ slab_type' = [slab_type EXCEPT ![p] = t]
        /\ start' = [start EXCEPT ![p] = b]
        /\ bitmap' = [bitmap EXCEPT ![p] = {0}]
        /\ ret' = b * FrameSize /\ leaked' = leaked
  BY <1>3
<1> HIDE DEF t
<1>5. slab_type[p] = Unused /\ \A o \in owned : o[1] # b
  BY <1>4, Grows, OrderAssumption DEF FirstUnused
<1>6. /\ slab_type'[p] = t /\ start'[p] = b /\ bitmap'[p] = {0}
      /\ \A q \in Pages \ {p} : /\ slab_type'[q] = slab_type[q] /\ start'[q] = start[q]
                                /\ bitmap'[q] = bitmap[q]
  BY <1>4 DEF HeapInv, IndInv, Fields
<1> DEFINE c == <<b * FrameSize, slab_sizes[t]>>
<1>7. SlotChunk(p, 0)' = c
  <2>1. b * FrameSize + 0 * slab_sizes[t] = b * FrameSize
    BY <1>2, SlabAssumption DEF Frames
  <2> QED
    BY <1>6, <2>1 DEF SlotChunk
<1>8. \A q \in Pages \ {p} : \A j : SlotChunk(q, j)' = SlotChunk(q, j)
  BY <1>6 DEF SlotChunk
<1>9. ASSUME NEW d
      PROVE  d \in Slots' <=> d \in Slots \/ d = c
  <2>1. d \in Slots' <=> \E q \in Pages : slab_type'[q] # Unused /\ \E i \in bitmap'[q] : d = SlotChunk(q, i)'
    BY ChunkWillBe
  <2>2. d \in Slots <=> \E q \in Pages : slab_type[q] # Unused /\ \E i \in bitmap[q] : d = SlotChunk(q, i)
    BY ChunkIs
  <2> HIDE DEF c
  <2> QED
    BY <1>2, <1>5, <1>6, <1>7, <1>8, <2>1, <2>2
<1>10. Handed' = Handed
  <2>1. ASSUME NEW o \in owned
        PROVE  (\A q \in Pages : slab_type[q] # Unused => start[q] # o[1])
                   <=> (\A q \in Pages : slab_type'[q] # Unused => start'[q] # o[1])
    BY <1>2, <1>5, <1>6
  <2>2. ~(\A q \in Pages : slab_type'[q] # Unused => start'[q] # b)
    BY <1>2, <1>6
  <2> QED
    BY <1>4, <2>1, <2>2 DEF Handed
<1>11. Blocks' = Blocks
  BY <1>10 DEF Blocks
<1>12. c \notin Chunks
  <2>1. SUFFICES ASSUME c \in Chunks
                 PROVE  FALSE
    OBVIOUS
  <2>2. PICK x : x = c[1]
    OBVIOUS
  <2>3. x \in Int /\ x \in TheHeap!Span(c)
    BY <2>1, <2>2, FirstByte
  <2>4. x \div FrameSize = b
    <3>1. x = b * FrameSize /\ b \in Int
      BY <2>2 DEF Frames
    <3>2. In(b * FrameSize, b, FrameSize) /\ b * FrameSize \in Int
      BY <3>1, SlabAssumption DEF In
    <3> QED
      BY <3>1, <3>2, Quotient, SlabAssumption
  <2>5. b \in Extent(b, 0) /\ Extent(b, 0) \cap Taken = {}
    BY <1>4, OneFrame DEF CanGrant, Frames
  <2>6. b \notin Taken
    BY <2>5
  <2>7. CASE InSlot(c, x)
    BY <1>5, <2>4, <2>7 DEF InSlot, HeapInv, IndInv, PagesOwnFrames
  <2>8. CASE InBlock(c, x)
    BY <2>4, <2>6, <2>8, HandedIs DEF InBlock, Taken, Extents
  <2> HIDE DEF c
  <2> QED
    BY <2>1, <2>3, <2>7, <2>8, ByteIn
<1>13. slab_sizes[t] \in Lengths
  BY <1>1 DEF Lengths
<1>14. Chunks' = Chunks \cup {c}
  BY <1>9, <1>11 DEF Chunks
<1>15. Adds(request, slab_sizes[t])
  BY <1>1, <1>2, <1>4, <1>12, <1>13, <1>14 DEF Adds
<1> QED
  BY <1>15

LEMMA BlockAdded ==
    ASSUME HeapInv, NoWrap, NEW request \in Requests, MallocBlock(request)
    PROVE  \E length : Adds(request, length)
<1> DEFINE k == size2order(request)
<1>1. k \in 0 .. LastOrder /\ Size[k] * FrameSize >= request
  BY OrderOf
<1>2. PICK b \in Frames : CanGrant(b, k) /\ owned' = owned \cup {<<b, k>>} /\ ret' = b * FrameSize
  BY DEF MallocBlock
<1>3. UNCHANGED <<leaked, slab_type, start, bitmap>>
  BY DEF MallocBlock, page
<1>4. Size[k] * FrameSize \in Lengths
  BY DEF Lengths
<1> HIDE DEF k
<1>5. \A o \in owned : o[1] # b
  BY <1>1, <1>2, Grows
<1>6. /\ \A q \in Pages : slab_type[q] # Unused => start[q] # b
      /\ b \notin leaked
  BY <1>5 DEF HeapInv, IndInv, PagesOwnFrames, LeaksTaken
<1>7. Handed' = Handed \cup {<<b, k>>}
  BY <1>2, <1>3, <1>6 DEF Handed
<1>8. Slots' = Slots
  BY <1>3 DEF Slots
<1> DEFINE c == BlockChunk(<<b, k>>)
<1>9. c = <<ret', Size[k] * FrameSize>>
  BY <1>2 DEF BlockChunk
<1>10. c \notin Chunks
  <2>1. SUFFICES ASSUME c \in Chunks
                 PROVE  FALSE
    OBVIOUS
  <2>2. PICK x : x = c[1]
    OBVIOUS
  <2>3. x \in Int /\ x \in TheHeap!Span(c)
    BY <2>1, <2>2, FirstByte
  <2>4. x \div FrameSize = b
    BY <1>1, <2>2, BlockBytes
  <2>5. b \notin Taken
    <3>1. b \in Extent(b, k)
      BY <1>1, OrderAssumption DEF Extent, Frames
    <3> QED
      BY <1>2, <3>1 DEF CanGrant
  <2>6. CASE InSlot(c, x)
    BY <1>6, <2>4, <2>6 DEF InSlot
  <2>7. CASE InBlock(c, x)
    BY <2>4, <2>5, <2>7, HandedIs DEF InBlock, Taken, Extents
  <2> HIDE DEF c
  <2> QED
    BY <2>1, <2>3, <2>6, <2>7, ByteIn
<1>11. Blocks' = Blocks \cup {c}
  <2>1. ASSUME NEW d
        PROVE  d \in Blocks' <=> d \in Blocks \/ d = c
    <3>1. d \in Blocks' <=> \E o \in Handed' : d = BlockChunk(o)
      BY ChunkWillBe
    <3>2. d \in Blocks <=> \E o \in Handed : d = BlockChunk(o)
      BY ChunkIs
    <3> QED
      BY <1>7, <3>1, <3>2
  <2> QED
    BY <2>1
<1>12. Chunks' = Chunks \cup {c}
  BY <1>8, <1>11 DEF Chunks
<1>13. Size[k] * FrameSize \in Int
  BY <1>1, OrderAssumption, SlabAssumption
<1>14. Adds(request, Size[k] * FrameSize)
  <2> HIDE DEF c
  <2> QED
    BY <1>1, <1>4, <1>9, <1>10, <1>12, <1>13 DEF Adds
<1> QED
  BY <1>14

(* The frame that malloc has leaked is no chunk.                           *)
LEMMA LeakAddsNothing ==
    ASSUME HeapInv, NEW request \in Requests, MallocNoDescriptor(request)
    PROVE  Chunks' = Chunks
<1>1. PICK b \in Frames : CanGrant(b, 0) /\ owned' = owned \cup {<<b, 0>>}
                          /\ leaked' = leaked \cup {b}
  BY DEF MallocNoDescriptor
<1>2. UNCHANGED <<slab_type, start, bitmap>>
  BY DEF MallocNoDescriptor, page
<1>3. \A o \in owned : o[1] # b
  <2>1. 0 \in 0 .. LastOrder
    BY OrderAssumption
  <2> QED
    BY <1>1, <2>1, Grows
<1>4. Handed' = Handed
  BY <1>1, <1>2, <1>3 DEF Handed
<1> QED
  BY <1>2, <1>4 DEF Chunks, Slots, Blocks

-----------------------------------------------------------------------------
(* What free takes away: a chunk that holds the address, or nothing, and   *)
(* then no chunk begins at it.                                             *)
Takes(a) == \E c \in Chunks : a \in TheHeap!Span(c) /\ Chunks' = Chunks \ {c}
Spares(a) == Chunks' = Chunks /\ \A c \in Chunks : c[1] # a

LEMMA InThePage ==
    ASSUME NEW p \in Pages, start[p] \in Int, NEW a \in Int, p \in PagesOf(a)
    PROVE  a \div FrameSize = start[p]
<1>1. In(a, start[p], FrameSize)
  BY DEF PagesOf, In
<1> QED
  BY <1>1, Quotient, SlabAssumption

LEMMA PointerIs ==
    ASSUME NEW a \in Pointers
    PROVE  a \in Int
  BY SlabAssumption DEF Pointers, Addresses, NULL

(* A page in use, with an address in it, and its slot there.               *)
LEMMA SlotOfIs ==
    ASSUME HeapInv, NEW a \in Pointers, NEW p \in PagesOf(a), SlotOf(p, a) \in bitmap[p]
    PROVE  /\ p \in Pages /\ slab_type[p] # Unused
           /\ SlotOf(p, a) \in 0 .. TotalSlabs(slab_type[p]) - 1
           /\ SlotChunk(p, SlotOf(p, a)) \in Chunks
           /\ a \in TheHeap!Span(SlotChunk(p, SlotOf(p, a)))
<1>1. p \in Pages /\ slab_type[p] # Unused
  BY FreedInUse DEF HeapInv, PagesOf
<1> DEFINE i == SlotOf(p, a)
<1>2. i \in 0 .. TotalSlabs(slab_type[p]) - 1
  BY <1>1, SlotsInUse DEF HeapInv
<1>3. a \in Int /\ start[p] \in Int
  BY <1>1, <1>2, PointerIs, SlotBytes DEF HeapInv
<1>4. a \div FrameSize = start[p]
  BY <1>1, <1>3, InThePage
<1>5. a \in TheHeap!Span(SlotChunk(p, i))
  BY <1>1, <1>2, <1>3, <1>4, SlotBytes DEF HeapInv
<1>6. SlotChunk(p, i) \in Chunks
  BY <1>1, ChunkIs DEF Chunks
<1> QED
  BY <1>1, <1>2, <1>5, <1>6

LEMMA SlotFreed ==
    ASSUME HeapInv, NEW a \in Pointers, NEW p \in PagesOf(a), FreeSlot(p, a)
    PROVE  Takes(a)
<1>1. SlotOf(p, a) \in bitmap[p]
  BY DEF FreeSlot
<1> DEFINE i == SlotOf(p, a)
<1>2. /\ p \in Pages /\ slab_type[p] # Unused
      /\ i \in 0 .. TotalSlabs(slab_type[p]) - 1
      /\ SlotChunk(p, i) \in Chunks
      /\ a \in TheHeap!Span(SlotChunk(p, i))
  BY <1>1, SlotOfIs
<1>3. bitmap' = [bitmap EXCEPT ![p] = bitmap[p] \ {i}]
  BY DEF FreeSlot
<1>4. UNCHANGED <<owned, leaked, slab_type, start>>
  BY DEF FreeSlot
<1> HIDE DEF i
<1>5. \A q \in Pages : \A j : SlotChunk(q, j)' = SlotChunk(q, j)
  BY <1>4 DEF SlotChunk
<1>6. \A q \in Pages : bitmap'[q] = IF q = p THEN bitmap[p] \ {i} ELSE bitmap[q]
  BY <1>3 DEF HeapInv, IndInv, Fields
<1>7. ASSUME NEW q \in Pages, slab_type[q] # Unused, NEW j \in bitmap[q], SlotChunk(p, i) = SlotChunk(q, j)
      PROVE  p = q /\ i = j
  BY <1>2, <1>7, OneSlot
<1>8. ASSUME NEW c
      PROVE  c \in Slots' <=> c \in Slots /\ c # SlotChunk(p, i)
  BY <1>4, <1>5, <1>6, <1>7, ChunkIs, ChunkWillBe
<1>9. SlotChunk(p, i) \notin Blocks
  BY <1>2, SlotNoBlock
<1>10. Blocks' = Blocks
  BY <1>4 DEF Blocks, Handed
<1>11. Chunks' = Chunks \ {SlotChunk(p, i)}
  BY <1>8, <1>9, <1>10 DEF Chunks
<1> QED
  BY <1>2, <1>11 DEF Takes

LEMMA PageFreed ==
    ASSUME HeapInv, NEW a \in Pointers, NEW p \in PagesOf(a), FreeLastSlot(p, a)
    PROVE  Takes(a)
<1>1. SlotOf(p, a) \in bitmap[p]
  BY DEF FreeLastSlot
<1> DEFINE i == SlotOf(p, a)
<1>2. /\ p \in Pages /\ slab_type[p] # Unused
      /\ i \in 0 .. TotalSlabs(slab_type[p]) - 1
      /\ SlotChunk(p, i) \in Chunks
      /\ a \in TheHeap!Span(SlotChunk(p, i))
  BY <1>1, SlotOfIs
<1>3. /\ free_slabs[p] + 1 = TotalSlabs(slab_type[p])
      /\ slab_type' = [slab_type EXCEPT ![p] = Unused]
      /\ start' = [start EXCEPT ![p] = -1]
      /\ bitmap' = [bitmap EXCEPT ![p] = {}]
      /\ owned' = {o \in owned : o[1] # start[p]} /\ leaked' = leaked
  BY DEF FreeLastSlot
<1> HIDE DEF i
<1>4. bitmap[p] = {i}
  <2>1. /\ free_slabs[p] = TotalSlabs(slab_type[p]) - Cardinality(bitmap[p])
        /\ TotalSlabs(slab_type[p]) \in Nat /\ IsFiniteSet(bitmap[p])
        /\ Cardinality(bitmap[p]) \in Nat
    BY <1>2, BitsFinite, SlotsInPage DEF HeapInv, IndInv, CountsExact
  <2>2. Cardinality(bitmap[p]) = 1
    BY <1>3, <2>1
  <2>3. PICK j : bitmap[p] = {j}
    BY <2>1, <2>2, FS_Singleton
  <2> QED
    BY <1>1, <2>3 DEF i
<1>5. \A q \in Pages : /\ slab_type'[q] = IF q = p THEN Unused ELSE slab_type[q]
                       /\ q # p => start'[q] = start[q] /\ bitmap'[q] = bitmap[q]
  BY <1>3 DEF HeapInv, IndInv, Fields
<1>6. \A q \in Pages \ {p} : \A j : SlotChunk(q, j)' = SlotChunk(q, j)
  BY <1>5 DEF SlotChunk
<1>7. ASSUME NEW q \in Pages, slab_type[q] # Unused, NEW j \in bitmap[q], SlotChunk(p, i) = SlotChunk(q, j)
      PROVE  p = q /\ i = j
  BY <1>2, <1>7, OneSlot
<1>8. ASSUME NEW c
      PROVE  c \in Slots' <=> c \in Slots /\ c # SlotChunk(p, i)
  <2>1. c \in Slots' <=> \E q \in Pages : slab_type'[q] # Unused /\ \E j \in bitmap'[q] : c = SlotChunk(q, j)'
    BY ChunkWillBe
  <2>2. c \in Slots <=> \E q \in Pages : slab_type[q] # Unused /\ \E j \in bitmap[q] : c = SlotChunk(q, j)
    BY ChunkIs
  <2> QED
    BY <1>4, <1>5, <1>6, <1>7, <2>1, <2>2
<1>9. SlotChunk(p, i) \notin Blocks
  BY <1>2, SlotNoBlock
<1>10. Handed' = Handed
  <2>1. \A o \in owned : o[1] # start[p] =>
            ((\A q \in Pages : slab_type[q] # Unused => start[q] # o[1])
                   <=> (\A q \in Pages : slab_type'[q] # Unused => start'[q] # o[1]))
    BY <1>5
  <2> QED
    BY <1>2, <1>3, <2>1 DEF Handed
<1>11. Blocks' = Blocks
  BY <1>10 DEF Blocks
<1>12. Chunks' = Chunks \ {SlotChunk(p, i)}
  BY <1>8, <1>9, <1>11 DEF Chunks
<1> QED
  BY <1>2, <1>12 DEF Takes

LEMMA NoSlotFreed ==
    ASSUME HeapInv, NEW a \in Pointers, NEW p \in PagesOf(a), FreeUnusedSlot(p, a)
    PROVE  Spares(a)
<1>1. Chunks' = Chunks
  BY SameChunks DEF FreeUnusedSlot, page
<1>2. SlotOf(p, a) \notin bitmap[p] /\ p \in Pages /\ a \in Int
  BY PointerIs DEF FreeUnusedSlot, PagesOf
<1>3. slab_type[p] # Unused
  <2>1. PICK t \in Types : p \in Listed(t)
    BY DEF PagesOf
  <2> QED
    BY <2>1, ListedPages DEF HeapInv, IndInv, Types, Unused
<1>4. start[p] \in Int
  <2>1. <<start[p], 0>> \in owned
    BY <1>2, <1>3 DEF HeapInv, IndInv, PagesOwnFrames
  <2>2. start[p] \in Frames
    BY <2>1 DEF HeapInv, IndInv, Owned
  <2> QED
    BY <2>2 DEF Frames
<1>5. a \div FrameSize = start[p]
  BY <1>2, <1>4, InThePage
<1>6. ASSUME NEW c \in Chunks, c[1] = a
      PROVE  FALSE
  <2>1. InSlot(c, a) \/ InBlock(c, a)
    BY <1>2, <1>6, FirstByte, ByteIn
  <2>2. CASE InSlot(c, a)
    BY <1>2, <1>3, <1>5, <2>2 DEF InSlot, HeapInv, IndInv, PagesOwnFrames
  <2>3. CASE InBlock(c, a)
    BY <1>2, <1>3, <1>5, <2>3, HandedIs DEF InBlock
  <2> QED
    BY <2>1, <2>2, <2>3
<1> QED
  BY <1>1, <1>6 DEF Spares

LEMMA BlockFreed ==
    ASSUME HeapInv, NEW a \in Pointers, PagesOf(a) = {}, FreeBlock(a)
    PROVE  Takes(a) \/ Spares(a)
<1>1. PICK o \in owned : o[1] = a \div FrameSize /\ owned' = owned \ {o}
  BY DEF FreeBlock
<1>2. leaked' = leaked \ {o[1]} /\ UNCHANGED <<slab_type, start, bitmap>>
  BY <1>1 DEF FreeBlock, page
<1>3. \A p \in Pages : slab_type[p] # Unused => start[p] # o[1]
  BY <1>1, NoPage DEF HeapInv
<1>4. a \in Int
  BY PointerIs
<1>5. o[1] \in Frames /\ o[2] \in 0 .. LastOrder /\ o = <<o[1], o[2]>> /\ o[1] \in Extents(o)
  <2>1. o[1] \in Frames /\ o[2] \in 0 .. LastOrder /\ o = <<o[1], o[2]>>
    BY DEF HeapInv, IndInv, Owned, BlocksApart
  <2>2. \A e \in Frames : \A j \in 0 .. LastOrder : e \in Extent(e, j)
    BY OrderAssumption DEF Extent, Frames
  <2> QED
    BY <2>1, <2>2 DEF Extents
<1>6. ASSUME NEW u \in owned, u # o
      PROVE  u[1] # o[1] /\ o[1] \notin Extents(u)
  <2>1. o[1] \notin Extents(u)
    BY <1>5, <1>6 DEF HeapInv, BlocksApart
  <2>2. u[1] \in Extents(u)
    <3>1. u[1] \in Frames /\ u[2] \in 0 .. LastOrder
      BY DEF HeapInv, IndInv, Owned, BlocksApart
    <3>2. \A e \in Frames : \A j \in 0 .. LastOrder : e \in Extent(e, j)
      BY OrderAssumption DEF Extent, Frames
    <3> QED
      BY <3>1, <3>2 DEF Extents
  <2> QED
    BY <2>1, <2>2
<1>7. Handed' = Handed \ {o}
  BY <1>1, <1>2, <1>6 DEF Handed
<1>8. Slots' = Slots
  BY <1>2 DEF Slots
<1>9. ASSUME NEW c \in Chunks, a \in TheHeap!Span(c)
      PROVE  o \in Handed /\ c = BlockChunk(o)
  <2>1. CASE InSlot(c, a)
    BY <1>1, <1>3, <2>1 DEF InSlot
  <2>2. CASE InBlock(c, a)
    BY <1>1, <1>6, <2>2, HandedIs DEF InBlock
  <2> QED
    BY <1>4, <1>9, <2>1, <2>2, ByteIn
<1>10. CASE o \in Handed
  <2> DEFINE c == BlockChunk(o)
  <2>1. c \in Chunks
    BY <1>10, ChunkIs DEF Chunks
  <2>2. a \in TheHeap!Span(c)
    <3>1. c = BlockChunk(<<o[1], o[2]>>) /\ a \div FrameSize \in Extent(o[1], o[2])
      BY <1>1, <1>5 DEF Extents
    <3> QED
      BY <1>4, <1>5, <3>1, BlockBytes
  <2> HIDE DEF c
  <2>3. ASSUME NEW u \in Handed, BlockChunk(u) = c
        PROVE  u = o
    <3>1. BlockChunk(u)[1] \div FrameSize = u[1]
      <4>1. u[1] \in Frames /\ u[2] \in 0 .. LastOrder /\ BlockChunk(u) = BlockChunk(<<u[1], u[2]>>)
        BY HandedIs
      <4> QED
        BY <4>1, BlockBytes
    <3>2. c[1] \div FrameSize = o[1]
      <4>1. c = BlockChunk(<<o[1], o[2]>>)
        BY <1>5 DEF c
      <4> QED
        BY <1>5, <4>1, BlockBytes
    <3> QED
      BY <1>6, <2>3, <3>1, <3>2, HandedIs
  <2>4. c \notin Slots
    <3> SUFFICES ASSUME c \in Slots
                 PROVE  FALSE
      OBVIOUS
    <3>1. PICK p \in Pages : slab_type[p] # Unused /\ \E i \in bitmap[p] : c = SlotChunk(p, i)
      BY ChunkIs
    <3>2. PICK i \in bitmap[p] : c = SlotChunk(p, i)
      BY <3>1
    <3>3. i \in 0 .. TotalSlabs(slab_type[p]) - 1
      BY <3>1, SlotsInUse DEF HeapInv
    <3>4. SlotChunk(p, i) \notin Blocks /\ c \in Blocks
      BY <1>10, <3>1, <3>3, SlotNoBlock, ChunkIs DEF c
    <3> QED
      BY <3>2, <3>4
  <2>5. ASSUME NEW d
        PROVE  d \in Blocks' <=> d \in Blocks /\ d # c
    <3>1. d \in Blocks' <=> \E u \in Handed' : d = BlockChunk(u)
      BY ChunkWillBe
    <3>2. d \in Blocks <=> \E u \in Handed : d = BlockChunk(u)
      BY ChunkIs
    <3>3. c = BlockChunk(o)
      BY DEF c
    <3> QED
      BY <1>7, <2>3, <3>1, <3>2, <3>3
  <2>6. Chunks' = Chunks \ {c}
    BY <1>8, <2>4, <2>5 DEF Chunks
  <2> QED
    BY <2>1, <2>2, <2>6 DEF Takes
<1>11. CASE o \notin Handed
  <2>1. Handed' = Handed
    BY <1>7, <1>11
  <2>2. Chunks' = Chunks
    BY <1>8, <2>1 DEF Chunks, Blocks
  <2>3. \A c \in Chunks : c[1] # a
    BY <1>9, <1>11, FirstByte
  <2> QED
    BY <2>2, <2>3 DEF Spares
<1> QED
  BY <1>10, <1>11

LEMMA NothingFreed ==
    ASSUME HeapInv, NEW a \in Pointers, PagesOf(a) = {}, FreeUnknown(a)
    PROVE  Spares(a)
<1>1. Chunks' = Chunks
  BY SameChunks DEF FreeUnknown, page
<1>2. ASSUME NEW c \in Chunks, c[1] = a
      PROVE  FALSE
  <2>1. CASE c \in Slots
    <3>1. PICK p \in Pages : slab_type[p] # Unused /\ \E i \in bitmap[p] : c = SlotChunk(p, i)
      BY <2>1, ChunkIs
    <3>2. PICK i \in bitmap[p] : c = SlotChunk(p, i)
      BY <3>1
    <3>3. i \in 0 .. TotalSlabs(slab_type[p]) - 1 /\ IndInv
      BY <3>1, SlotsInUse DEF HeapInv
    <3>4. a \in TheHeap!Span(SlotChunk(p, i)) /\ a \in Int
      BY <1>2, <3>2, PointerIs, FirstByte
    <3>5. a \div FrameSize = start[p]
      BY <3>1, <3>3, <3>4, SlotBytes
    <3> QED
      BY <3>1, <3>3, <3>5, NoPage
  <2>2. CASE c \in Blocks
    <3>1. PICK o \in Handed : c = BlockChunk(o)
      BY <2>2, ChunkIs
    <3>2. o[1] \in Frames /\ o[2] \in 0 .. LastOrder /\ c = BlockChunk(<<o[1], o[2]>>) /\ o \in owned
      BY <3>1, HandedIs
    <3>3. a \div FrameSize = o[1]
      BY <1>2, <3>2, BlockBytes
    <3> QED
      BY <3>2, <3>3 DEF FreeUnknown
  <2> QED
    BY <2>1, <2>2 DEF Chunks
<1> QED
  BY <1>1, <1>2 DEF Spares

-----------------------------------------------------------------------------
(* The chunks lie apart, in memory, now and after each step.               *)
ChunksApart ==
    /\ \A c, d \in Chunks : \A x \in Int :
          x \in TheHeap!Span(c) /\ x \in TheHeap!Span(d) => c = d
    /\ \A c \in Chunks : \A x \in Int :
          x \in TheHeap!Span(c) => x \in 0 .. TotalFrame * FrameSize - 1
    /\ \A c \in Chunks : c[1] \in Int /\ c[1] \in TheHeap!Span(c)

LEMMA HeapApart == HeapInv => ChunksApart
  BY OneChunk, BytesInMemory, FirstByte DEF ChunksApart

LEMMA HeapApartAfter == HeapInv' => ChunksApart'
  BY HeapApart, PTL

LEMMA MallocMaps ==
    ASSUME HeapInv, HeapInv', NEW request \in Requests, NEW length,
           Adds(request, length), call' = <<"malloc", request>>
    PROVE  TheHeap!Next
<1> DEFINE c == <<ret', length>>
<1>1. c \in Chunks' /\ Chunks' = Chunks \cup {c} /\ c \notin Chunks
      /\ length \in Lengths /\ length \in Int /\ length >= request
  BY DEF Adds
<1>2. ChunksApart'
  BY HeapApartAfter
<1>3. ret' \in Int /\ ret' \in TheHeap!Span(c)
  BY <1>1, <1>2 DEF ChunksApart, TheHeap!Span
<1>4. \A x \in TheHeap!Span(c) : x \in Int
  BY <1>1, <1>3 DEF TheHeap!Span
<1>5. TheHeap!Span(c) \subseteq 0 .. TotalFrame * FrameSize - 1
  BY <1>1, <1>2, <1>4 DEF ChunksApart, TheHeap!Span
<1>6. ASSUME NEW d \in Chunks
      PROVE  TheHeap!Span(d) \cap TheHeap!Span(c) = {}
  <2>1. d \in Chunks' /\ d # c
    BY <1>1
  <2>2. ASSUME NEW x \in TheHeap!Span(c), x \in TheHeap!Span(d)
        PROVE  FALSE
    BY <1>1, <1>2, <1>4, <2>1, <2>2 DEF ChunksApart, TheHeap!Span
  <2> QED
    BY <2>2
<1>7. ret' # -1
  <2>1. ret' \in 0 .. TotalFrame * FrameSize - 1
    BY <1>3, <1>5
  <2>2. TotalFrame * FrameSize - 1 \in Int
    BY SlabAssumption
  <2> QED
    BY <2>1, <2>2
<1>8. TheHeap!Malloc(request, length)
  <2> HIDE DEF c
  <2>1. c = <<ret', length>>
    BY DEF c
  <2> QED
    BY <1>1, <1>5, <1>6, <1>7, <2>1 DEF TheHeap!Malloc, TheHeap!NULL, Chunks
<1> QED
  BY <1>1, <1>8 DEF TheHeap!Next

LEMMA FreeMaps ==
    ASSUME HeapInv, NEW a \in Pointers, Takes(a) \/ Spares(a),
           call' = <<"free", a>>, ret' = NULL
    PROVE  TheHeap!Next
<1>1. a \in -1 .. TotalFrame * FrameSize - 1
  <2>1. TotalFrame * FrameSize \in Nat
    BY SlabAssumption
  <2> QED
    BY <2>1 DEF Pointers, Addresses, NULL
<1>2. CASE Takes(a)
  <2>1. PICK c \in Chunks : a \in TheHeap!Span(c) /\ Chunks' = Chunks \ {c}
    BY <1>2 DEF Takes
  <2>2. CASE a = c[1]
    <3>1. TheHeap!Free(c)
      BY <2>1, <2>2 DEF TheHeap!Free, TheHeap!NULL, NULL, Chunks
    <3> QED
      BY <2>1, <3>1 DEF TheHeap!Next, Chunks
  <2>3. CASE a # c[1]
    <3>1. ASSUME NEW d \in Chunks, d[1] = a
          PROVE  FALSE
      <4>1. d[1] \in Int /\ d[1] \in TheHeap!Span(d)
        BY FirstByte
      <4> QED
        BY <2>1, <2>3, <3>1, <4>1, OneChunk
    <3>2. TheHeap!FreeOther(a)
      BY <2>1, <3>1 DEF TheHeap!FreeOther, TheHeap!NULL, NULL, Chunks
    <3> QED
      BY <1>1, <3>2 DEF TheHeap!Next, TheHeap!NULL
  <2> QED
    BY <2>2, <2>3
<1>3. CASE Spares(a)
  <2>1. TheHeap!FreeOther(a)
    BY <1>3 DEF TheHeap!FreeOther, TheHeap!NULL, NULL, Chunks, Spares
  <2> QED
    BY <1>1, <2>1 DEF TheHeap!Next, TheHeap!NULL
<1> QED
  BY <1>2, <1>3

LEMMA CallMaps ==
    ASSUME HeapInv, HeapInv', NoWrap, [NextCalls]_<<vars, call>>
    PROVE  [TheHeap!Next]_(TheHeap!vars)
<1>1. ASSUME NEW request \in Requests, Malloc(request), call' = <<"malloc", request>>
      PROVE  TheHeap!Next
  <2>1. CASE MallocSlot(request) \/ MallocPage(request) \/ MallocBlock(request)
    <3>1. \E length : Adds(request, length)
      BY <2>1, SlotAdded, PageAdded, BlockAdded
    <3> QED
      BY <1>1, <3>1, MallocMaps
  <2>2. CASE MallocNoFrame(request) \/ MallocNoDescriptor(request) \/ MallocBlockFails(request)
    <3>1. Chunks' = Chunks
      BY <2>2, LeakAddsNothing, SameChunks DEF MallocNoFrame, MallocBlockFails, page
    <3>2. ret' = NULL
      BY <2>2 DEF MallocNoFrame, MallocNoDescriptor, MallocBlockFails
    <3>3. TheHeap!MallocFails(request)
      BY <1>1, <3>1, <3>2 DEF TheHeap!MallocFails, TheHeap!NULL, NULL, Chunks
    <3> QED
      BY <3>3 DEF TheHeap!Next
  <2> QED
    BY <1>1, <2>1, <2>2 DEF Malloc
<1>2. ASSUME NEW a \in Pointers, Free(a), call' = <<"free", a>>
      PROVE  TheHeap!Next
  <2>1. ret' = NULL
    BY <1>2 DEF Free
  <2>2. CASE \E p \in PagesOf(a) : FreeSlot(p, a) \/ FreeLastSlot(p, a) \/ FreeUnusedSlot(p, a)
    BY <1>2, <2>1, <2>2, SlotFreed, PageFreed, NoSlotFreed, FreeMaps
  <2>3. CASE PagesOf(a) = {} /\ (FreeBlock(a) \/ FreeUnknown(a))
    BY <1>2, <2>1, <2>3, BlockFreed, NothingFreed, FreeMaps
  <2> QED
    BY <1>2, <2>2, <2>3 DEF Free, NotInSlab
<1>3. CASE UNCHANGED <<vars, call>>
  <2>1. Chunks' = Chunks /\ call' = call /\ ret' = ret
    BY <1>3, SameChunks DEF vars
  <2> QED
    BY <2>1 DEF TheHeap!vars, Chunks
<1> QED
  BY <1>1, <1>2, <1>3 DEF NextCalls

LEMMA CallsNext ==
    ASSUME [NextCalls]_<<vars, call>>
    PROVE  [Next]_vars
  BY DEF NextCalls, Next

LEMMA InitMaps ==
    ASSUME InitCalls
    PROVE  Init /\ TheHeap!Init
<1>1. Init /\ call = <<"free", NULL>> /\ owned = {} /\ ret = NULL /\ \A p \in Pages : slab_type[p] = Unused
  BY DEF InitCalls, Init
<1>2. Slots = {} /\ Blocks = {}
  BY <1>1 DEF Slots, Blocks, Handed
<1> QED
  BY <1>1, <1>2 DEF TheHeap!Init, TheHeap!NULL, NULL

(* malloc and free keep what they promise, unless a request is so large    *)
(* that the sum in size2order wraps.                                       *)
THEOREM MallocIsAHeap == NoWrap /\ SpecCalls => ImplementsHeap
<1> SUFFICES ASSUME NoWrap
             PROVE  SpecCalls => ImplementsHeap
  OBVIOUS
<1>1. InitCalls => HeapInv /\ TheHeap!Init
  BY InitMaps, InitHeap
<1>2. HeapInv /\ [NextCalls]_<<vars, call>> => HeapInv'
  BY CallsNext, NextHeap
<1>3. HeapInv /\ HeapInv' /\ [NextCalls]_<<vars, call>> => [TheHeap!Next]_(TheHeap!vars)
  BY CallMaps
<1> QED
  BY <1>1, <1>2, <1>3, PTL DEF SpecCalls, ImplementsHeap, TheHeap!Spec
=============================================================================
