----------------------- MODULE MemoryBlocks_pool_proof -----------------------
(***************************************************************************)
(* Proofs that the page allocator keeps count of its free space, and that  *)
(* it implements PagePool, for every region of whole pages.                *)
(*                                                                         *)
(* A region with part of a page at its end is excluded by a hypothesis of  *)
(* the theorems: the allocator counts that part as a page in some blocks   *)
(* and as its bytes in others (run region_with_a_remainder), so that       *)
(* neither result holds for such a region.                                 *)
(***************************************************************************)
EXTENDS MemoryBlocks_order_proof, FiniteSetTheorems

(* Every free block is a number of whole pages. *)
Whole == \A b \in Headers : size[b] % 4096 = 0

(* The size of the block that is free but not counted in free_space: the    *)
(* page that deallocate() gives back with what is merged into it so far, or *)
(* the rest that allocate() has split off.                                  *)
Uncounted ==
  IF op = "deallocate" THEN size[hand]
  ELSE IF activity = "add" THEN size[node] ELSE 0

(* How many pages allocate() has taken and not yet returned. *)
Taken == IF op = "allocate" /\ activity = "add" THEN number_of_blocks(request) ELSE 0

(* FreeSpaceExact, at every step. *)
Counted == free_space + Uncounted = RegionSize - 4096 * (Cardinality(held) + Taken)

(* A running call has no result yet, and only allocate() has a request, one *)
(* that a caller made.                                                      *)
Answering == /\ op # "none" => result = nullptr
             /\ op = "allocate" => request \in Requests
             /\ op # "allocate" => request = 0

(* What the proofs need besides Inv and OrderInv. *)
PoolInv == Whole /\ Counted /\ Answering

(* All that is known of the allocator after every step. *)
IInv == Inv /\ OrderInv /\ PoolInv

-----------------------------------------------------------------------------
(* Facts about pages. *)

LEMMA HeldFinite ==
  ASSUME TypeOK
  PROVE  IsFiniteSet(held) /\ Cardinality(held) \in Nat
<1>1. IsFiniteSet(Pages)
  BY Region, FS_Interval
<1>2. IsFiniteSet(held)
  BY <1>1, FS_Subset DEF TypeOK
<1> QED BY <1>2, FS_CardinalityType

(* A run that nobody holds adds its length to what is held. *)
LEMMA HeldAndRun ==
  ASSUME TypeOK, NEW a \in Nat, NEW n \in Nat, held \cap (a .. (a + n - 1)) = {}
  PROVE  Cardinality(held \cup (a .. (a + n - 1))) = Cardinality(held) + n
<1>1. IsFiniteSet(a .. (a + n - 1)) /\ Cardinality(a .. (a + n - 1)) = n
  <2>1. a \in Int /\ (a + n - 1) \in Int
    OBVIOUS
  <2>2. Cardinality(a .. (a + n - 1)) = IF a > a + n - 1 THEN 0 ELSE (a + n - 1) - a + 1
    BY <2>1, FS_Interval
  <2>3. (IF a > a + n - 1 THEN 0 ELSE (a + n - 1) - a + 1) = n
    OBVIOUS
  <2> QED BY <2>1, <2>2, <2>3, FS_Interval
<1>2. IsFiniteSet(held)
  BY HeldFinite
<1>3. Cardinality(held \cup (a .. (a + n - 1))) =
        Cardinality(held) + Cardinality(a .. (a + n - 1)) -
        Cardinality(held \cap (a .. (a + n - 1)))
  BY <1>1, <1>2, FS_Union
<1>4. Cardinality(held \cap (a .. (a + n - 1))) = 0
  BY FS_EmptySet
<1> QED BY <1>1, <1>2, <1>3, <1>4, HeldFinite

LEMMA RequestType ==
  ASSUME TypeOK
  PROVE  request \in Nat /\ number_of_blocks(request) \in Nat
<1>1. request \in Nat
  BY MemoryAssumption DEF TypeOK
<1> QED BY <1>1, Blocks

(* Blocks of whole pages are as large as their pages. *)
LEMMA WholeSize ==
  ASSUME TypeOK, Whole, NEW b \in Headers
  PROVE  /\ size[b] = number_of_blocks(size[b]) * 4096
         /\ number_of_blocks(size[b]) \in Nat
         /\ Top(b) = b + number_of_blocks(size[b])
<1>1. size[b] \in Nat /\ size[b] % 4096 = 0
  BY TopType DEF Whole
<1>2. /\ size[b] = number_of_blocks(size[b]) * 4096
      /\ number_of_blocks(size[b]) \in Nat
  BY <1>1 DEF number_of_blocks
<1> QED BY <1>2 DEF Top

-----------------------------------------------------------------------------
(* The actions. *)

LEMMA InitPool == ASSUME RegionSize % 4096 = 0 PROVE Init => PoolInv
<1> SUFFICES ASSUME Init PROVE PoolInv
  OBVIOUS
<1>1. Whole
  BY Region DEF Init, Whole, Headers
<1>2. Counted
  BY FS_EmptySet, MemoryAssumption DEF Init, Counted, Uncounted, Taken
<1>3. Answering
  BY DEF Init, Answering
<1> QED BY <1>1, <1>2, <1>3 DEF PoolInv

(* A step inside a call, which moves no page. *)
LEMMA SamePages ==
  ASSUME Inv, PoolInv, UNCHANGED <<size, free_space, held, op, hand, request, result>>,
         Uncounted' = Uncounted, Taken' = Taken
  PROVE  PoolInv'
<1>1. Whole'
  BY DEF PoolInv, Whole, Headers
<1>2. Counted'
  BY DEF PoolInv, Counted
<1>3. Answering'
  BY DEF PoolInv, Answering
<1> QED BY <1>1, <1>2, <1>3 DEF PoolInv

LEMMA TreeStepPool ==
  ASSUME Inv, PoolInv, Unlink \/ Attach \/ DescendLeft \/ DescendRight
  PROVE  PoolInv'
<1>1. UNCHANGED <<size, free_space, held, op, hand, request, result, activity, node>>
  BY DEF Unlink, Attach, DescendLeft, DescendRight, TreeDone
<1>2. Uncounted' = Uncounted /\ Taken' = Taken
  BY <1>1 DEF Uncounted, Taken
<1> QED BY <1>1, <1>2, SamePages

LEMMA SearchStepPool ==
  ASSUME Inv, PoolInv, SearchOn \/ Choose \/ MergeFound \/ MergeSearchOn \/ MergeDone
  PROVE  PoolInv'
<1>1. UNCHANGED <<size, free_space, held, op, hand, request, result>>
      \/ Choose
  BY DEF SearchOn, MergeFound, MergeSearchOn, MergeDone
<1>2. UNCHANGED <<size, free_space, held, op, request, result>>
  BY DEF SearchOn, Choose, MergeFound, MergeSearchOn, MergeDone
<1>3. op # "deallocate" => activity # "add" /\ activity' # "add"
  BY DEF SearchOn, Choose, MergeFound, MergeSearchOn, MergeDone, StartRemoving,
     StartAdding, Inv, Control
<1>4. Uncounted' = Uncounted /\ Taken' = Taken
  <2>1. CASE op = "deallocate"
    <3>1. hand' = hand
      BY <2>1, <1>1 DEF Choose, Inv, Control
    <3> QED BY <2>1, <3>1, <1>2 DEF Uncounted, Taken
  <2>2. CASE op # "deallocate"
    BY <2>2, <1>2, <1>3 DEF Uncounted, Taken
  <2> QED BY <2>1, <2>2
<1>5. Whole'
  BY <1>2 DEF PoolInv, Whole, Headers
<1>6. Counted'
  BY <1>2, <1>4 DEF PoolInv, Counted
<1>7. Answering'
  BY <1>2 DEF PoolInv, Answering
<1> QED BY <1>5, <1>6, <1>7 DEF PoolInv

LEMMA AllocatePool ==
  ASSUME Inv, PoolInv, NEW bytes \in Requests, Allocate(bytes)
  PROVE  PoolInv'
<1>1. /\ op = "none" /\ op' = "allocate" /\ activity = "none" /\ activity' = "none"
      /\ UNCHANGED <<size, free_space, held>> /\ result' = nullptr /\ request' = bytes
  BY DEF Allocate, Inv, Control
<1>2. Uncounted' = Uncounted /\ Taken' = Taken
  BY <1>1 DEF Uncounted, Taken
<1> QED BY <1>1, <1>2 DEF PoolInv, Whole, Headers, Counted, Answering

LEMMA RefusePool ==
  ASSUME Inv, PoolInv, Refuse
  PROVE  PoolInv'
<1>1. /\ op = "allocate" /\ op' = "none" /\ activity = "none" /\ activity' = "none"
      /\ UNCHANGED <<size, free_space, held>> /\ request' = 0
  BY DEF Refuse, Return, Inv, Control
<1>2. Uncounted' = Uncounted /\ Taken' = Taken
  BY <1>1 DEF Uncounted, Taken
<1> QED BY <1>1, <1>2 DEF PoolInv, Whole, Headers, Counted, Answering

(* The bytes of the block that is split are those of the rest and those of  *)
(* the pages that the caller gets.                                          *)
LEMMA SplitPool ==
  ASSUME Inv, PoolInv, Split
  PROVE  PoolInv'
<1> PICK rest \in Pages, bytes \in Nat : SplitsOff(rest, bytes)
  BY SplitEffect
<1>1. /\ op = "allocate" /\ op' = "allocate" /\ activity = "remove" /\ activity' = "add"
      /\ hand \in Headers /\ node' = rest
      /\ rest < Top(hand) /\ bytes = (Top(hand) - rest) * 4096
      /\ size' = [b \in Pages |-> IF b = rest THEN bytes ELSE IF b = hand THEN 0 ELSE size[b]]
      /\ free_space' = free_space - size[hand]
      /\ UNCHANGED <<held, request, result>>
      /\ Headers' = (Headers \ {hand}) \cup {rest}
  BY DEF SplitsOff
<1>2. PICK n \in Nat : n = number_of_blocks(request)
  BY RequestType DEF Inv
<1>3. rest = hand + n
  BY <1>1, <1>2 DEF Split, StartAdding
<1>4. PICK k \in Nat : size[hand] = k * 4096 /\ Top(hand) = hand + k
  BY <1>1, WholeSize DEF Inv, PoolInv
<1>5. hand \in Nat /\ rest \in Nat
  BY <1>1, TopType, Region DEF Inv
<1>6. bytes = (k - n) * 4096 /\ k - n \in Nat
  BY <1>1, <1>3, <1>4, <1>5
<1>7. Whole'
  <2> SUFFICES ASSUME NEW b \in Headers'
               PROVE  size'[b] % 4096 = 0
    BY DEF Whole
  <2>1. CASE b = rest
    BY <2>1, <1>1, <1>6
  <2>2. CASE b # rest
    BY <2>2, <1>1 DEF PoolInv, Whole, Headers
  <2> QED BY <2>1, <2>2
<1>8. Counted'
  <2>1. Uncounted = 0 /\ Taken = 0 /\ Uncounted' = bytes /\ Taken' = n
    BY <1>1, <1>2 DEF Uncounted, Taken
  <2>2. free_space \in Int /\ Cardinality(held) \in Nat
    BY HeldFinite DEF Inv, TypeOK
  <2>3. free_space = RegionSize - 4096 * Cardinality(held)
    BY <2>1, <2>2, MemoryAssumption DEF PoolInv, Counted
  <2>4. free_space - k * 4096 + (k - n) * 4096 = RegionSize - 4096 * (Cardinality(held) + n)
    BY <2>2, <2>3, MemoryAssumption
  <2> QED BY <2>1, <2>4, <1>1, <1>4, <1>6 DEF Counted
<1> QED BY <1>1, <1>7, <1>8 DEF PoolInv, Answering

(* The run that allocate() takes is as long as the request says, and nobody *)
(* holds a page of it.                                                      *)
LEMMA WholeTaken ==
  ASSUME Inv, PoolInv, TakeWhole
  PROVE  /\ Granted = hand .. (hand + number_of_blocks(request) - 1)
         /\ number_of_blocks(request) \in Nat
         /\ number_of_blocks(request) = number_of_blocks(size[hand])
         /\ hand \in Headers
         /\ held \cap Granted = {}
         /\ Granted \subseteq Pages
<1> PICK n \in Nat : n = number_of_blocks(request)
  BY RequestType DEF Inv
<1>1. TakesAll
  BY TakeWholeEffect
<1>2. /\ hand \in Headers /\ node = hand /\ op = "allocate" /\ activity = "remove"
      /\ Granted = hand .. (Top(hand) - 1)
  BY <1>1 DEF TakesAll
<1>3. hand \in Nat /\ Top(hand) \in Nat /\ Top(hand) <= N
  BY <1>2, TopType DEF Inv, Ownership
<1>4. PICK k \in Nat : k = number_of_blocks(size[hand])
  BY <1>2, WholeSize DEF Inv, PoolInv
<1>5. n = k
  <2>1. request \in Nat /\ size[hand] \in Nat /\ request <= size[hand]
    <3>1. size[hand] >= request
      BY <1>2 DEF Inv, Control
    <3> QED BY <3>1, <1>2, TopType, RequestType DEF Inv
  <2>2. n <= k
    <3>1. \A few, many \in Nat : few <= many => number_of_blocks(few) <= number_of_blocks(many)
      BY Blocks
    <3>2. number_of_blocks(request) <= number_of_blocks(size[hand])
      BY ONLY <2>1, <3>1
    <3> QED BY <3>2, <1>4
  <2>3. ~(k > n)
    BY <1>2, <1>4 DEF TakeWhole, HasRest
  <2> QED BY <2>2, <2>3
<1>6. held \cap Granted = {}
  <2>1. \A p \in held : p \in Nat /\ (p < hand \/ Top(hand) <= p)
    BY <1>2, Region DEF Inv, TypeOK, Ownership
  <2> QED BY <2>1, <1>2, <1>3
<1>7. Granted \subseteq Pages
  BY <1>2, <1>3, Region
<1> QED BY <1>2, <1>4, <1>5, <1>6, <1>7 DEF Granted

LEMMA TakeWholePool ==
  ASSUME Inv, PoolInv, TakeWhole
  PROVE  PoolInv'
<1>1. TakesAll
  BY TakeWholeEffect
<1>2. /\ op = "allocate" /\ op' = "none" /\ activity = "remove" /\ activity' = "none"
      /\ hand \in Headers /\ request' = 0
      /\ size' = [size EXCEPT ![hand] = 0]
      /\ free_space' = free_space - size[hand]
      /\ held' = held \cup Granted
      /\ Headers' = Headers \ {hand}
  BY <1>1 DEF TakesAll, Return
<1>3. PICK n \in Nat : n = number_of_blocks(request) /\ size[hand] = n * 4096
  BY <1>2, WholeTaken, WholeSize DEF Inv, PoolInv
<1>4. Whole'
  BY <1>2 DEF PoolInv, Whole, Headers, Inv, TypeOK
<1>5. Counted'
  <2>1. Uncounted = 0 /\ Taken = 0 /\ Uncounted' = 0 /\ Taken' = 0
    BY <1>2 DEF Uncounted, Taken
  <2>2. free_space \in Int /\ Cardinality(held) \in Nat /\ hand \in Nat
    BY <1>2, HeldFinite, TopType DEF Inv, TypeOK
  <2>3. free_space = RegionSize - 4096 * Cardinality(held)
    BY <2>1, <2>2, MemoryAssumption DEF PoolInv, Counted
  <2>4. Granted = hand .. (hand + n - 1) /\ held \cap Granted = {}
    BY <1>3, WholeTaken
  <2>5. Cardinality(held') = Cardinality(held) + n
    BY <2>2, <2>4, <1>2, HeldAndRun DEF Inv
  <2>6. free_space - n * 4096 = RegionSize - 4096 * (Cardinality(held) + n)
    BY <2>2, <2>3, MemoryAssumption
  <2>7. free_space' + 0 = RegionSize - 4096 * (Cardinality(held') + 0)
    BY <2>2, <2>5, <2>6, <1>2, <1>3, MemoryAssumption
  <2> QED BY <2>1, <2>7 DEF Counted
<1>6. Answering'
  BY <1>2 DEF Answering
<1> QED BY <1>4, <1>5, <1>6 DEF PoolInv

(* The page is given back, and is counted when it is in the trees. *)
LEMMA DeallocatePool ==
  ASSUME Inv, PoolInv, NEW page \in held, Deallocate(page)
  PROVE  PoolInv'
<1>1. Frees(page)
  BY DeallocateEffect
<1>2. /\ op = "none" /\ op' = "deallocate" /\ activity = "none" /\ activity' = "none"
      /\ page \in Pages /\ page \notin Headers /\ hand' = page
      /\ size' = [size EXCEPT ![page] = 4096]
      /\ held' = held \ {page}
      /\ Headers' = Headers \cup {page}
      /\ UNCHANGED <<free_space, request>> /\ result' = nullptr
  BY <1>1 DEF Frees
<1>3. size'[page] = 4096 /\ \A b \in Headers : size'[b] = size[b]
  BY <1>2 DEF Inv, TypeOK, Headers
<1>4. Whole'
  BY <1>2, <1>3 DEF PoolInv, Whole
<1>5. Counted'
  <2>1. Uncounted = 0 /\ Taken = 0 /\ Uncounted' = 4096 /\ Taken' = 0
    BY <1>2, <1>3 DEF Uncounted, Taken
  <2>2. /\ free_space \in Int /\ Cardinality(held) \in Nat
        /\ Cardinality(held') = Cardinality(held) - 1
    BY <1>2, HeldFinite, FS_RemoveElement DEF Inv, TypeOK
  <2>3. free_space = RegionSize - 4096 * Cardinality(held)
    BY <2>1, <2>2, MemoryAssumption DEF PoolInv, Counted
  <2>4. free_space + 4096 = RegionSize - 4096 * ((Cardinality(held) - 1) + 0)
    BY <2>2, <2>3, MemoryAssumption
  <2> QED BY <2>1, <2>2, <2>4, <1>2 DEF Counted
<1>6. Answering'
  BY <1>2 DEF PoolInv, Answering
<1> QED BY <1>4, <1>5, <1>6 DEF PoolInv

(* What is merged into the block in hand is no longer counted. *)
LEMMA MergePool ==
  ASSUME Inv, PoolInv, Merge
  PROVE  PoolInv'
<1> PICK lower, upper \in Headers : Joins(lower, upper)
  BY MergeEffect
<1>1. /\ op = "deallocate" /\ op' = "deallocate" /\ lower < upper
      /\ {lower, upper} = {node, hand} /\ hand' = lower
      /\ free_space' = free_space - size[node]
      /\ UNCHANGED <<held, result, request>>
      /\ Headers' = Headers \ {upper}
  BY DEF Joins
<1>2. /\ lower \in Nat /\ upper \in Nat /\ size[lower] \in Nat /\ size[upper] \in Nat
      /\ lower \in Pages /\ upper \in Pages /\ lower # upper
  BY <1>1, TopType DEF Inv, Headers
<1>3. /\ size'[lower] = size[lower] + size[upper]
      /\ \A b \in Headers \ {lower, upper} : size'[b] = size[b]
  BY <1>2 DEF Joins, Inv, TypeOK, Headers
<1>4. Whole'
  <2>1. (size[lower] + size[upper]) % 4096 = 0
    BY <1>2 DEF PoolInv, Whole
  <2> QED BY <2>1, <1>1, <1>3 DEF PoolInv, Whole
<1>5. Counted'
  <2>1. Uncounted = size[hand] /\ Taken = 0 /\ Uncounted' = size'[lower] /\ Taken' = 0
    BY <1>1 DEF Uncounted, Taken
  <2>2. size[lower] + size[upper] = size[hand] + size[node] /\ size[node] \in Nat /\ size[hand] \in Nat
    BY <1>1, <1>2
  <2>3. free_space \in Int /\ Cardinality(held) \in Nat
    BY HeldFinite DEF Inv, TypeOK
  <2>4. free_space - size[node] + (size[hand] + size[node]) = free_space + size[hand]
    BY <2>2, <2>3
  <2> QED BY <2>1, <2>2, <2>4, <1>1, <1>3 DEF PoolInv, Counted
<1> QED BY <1>1, <1>4, <1>5 DEF PoolInv, Answering

LEMMA AttachedPool ==
  ASSUME Inv, PoolInv, Attached
  PROVE  PoolInv'
<1>1. /\ pc = "attached" /\ activity = "add" /\ op \in {"allocate", "deallocate"}
      /\ op' = "none" /\ activity' = "none" /\ request' = 0
      /\ free_space' = free_space + size[node] /\ size' = size
      /\ held' = IF op = "allocate" THEN held \cup Granted ELSE held
      /\ op = "deallocate" => node = hand
      /\ op = "allocate" => hand \in Pages
      /\ node \in Headers
  BY DEF Attached, Return, Inv, Control, TypeOK
<1>2. Whole'
  BY <1>1 DEF PoolInv, Whole, Headers
<1>3. Counted'
  <2>1. Uncounted' = 0 /\ Taken' = 0 /\ Uncounted = size[node]
    BY <1>1 DEF Uncounted, Taken
  <2>2. free_space \in Int /\ Cardinality(held) \in Nat /\ size[node] \in Nat
    BY <1>1, HeldFinite, TopType DEF Inv, TypeOK
  <2>3. PICK n \in Nat : n = number_of_blocks(request)
    BY RequestType DEF Inv
  <2>4. Cardinality(held') = Cardinality(held) + Taken /\ Taken \in Nat
    <3>1. CASE op = "allocate"
      <4>1. hand \in Nat /\ held \cap Granted = {} /\ Granted = hand .. (hand + n - 1)
        BY <3>1, <2>3, <1>1, Region DEF Inv, Ownership, InHand, Granted
      <4>2. Cardinality(held \cup Granted) = Cardinality(held) + n
        BY <4>1, HeldAndRun DEF Inv
      <4> QED BY <3>1, <4>2, <2>3, <1>1 DEF Taken
    <3>2. CASE op = "deallocate"
      BY <3>2, <2>2, <1>1 DEF Taken
    <3> QED BY <3>1, <3>2, <1>1
  <2>5. free_space + size[node] = RegionSize - 4096 * (Cardinality(held) + Taken)
    BY <2>1 DEF PoolInv, Counted
  <2>6. free_space' + 0 = RegionSize - 4096 * (Cardinality(held') + 0)
    BY <2>2, <2>4, <2>5, <1>1, MemoryAssumption
  <2> QED BY <2>1, <2>6 DEF Counted
<1>4. Answering'
  BY <1>1 DEF Answering
<1> QED BY <1>2, <1>3, <1>4 DEF PoolInv

LEMMA NextPool ==
  ASSUME Inv, PoolInv, [Next]_vars
  PROVE  PoolInv'
<1>1. CASE \E bytes \in Requests : Allocate(bytes)
  BY <1>1, AllocatePool
<1>2. CASE \E page \in held : Deallocate(page)
  BY <1>2, DeallocatePool
<1>3. CASE Step
  BY <1>3, TreeStepPool, SearchStepPool, RefusePool, SplitPool, TakeWholePool,
     MergePool, AttachedPool DEF Step
<1>4. CASE UNCHANGED vars
  BY <1>4, SamePages DEF vars, links, locals, Uncounted, Taken
<1> QED BY <1>1, <1>2, <1>3, <1>4 DEF Next

(* For every region of whole pages and every set of requests, all three     *)
(* inductive invariants hold.                                               *)
THEOREM PoolHolds ==
  ASSUME RegionSize % 4096 = 0
  PROVE  Spec => []IInv
<1>1. Init => IInv
  BY InitInv, InitOrder, InitPool DEF IInv
<1>2. IInv /\ [Next]_vars => IInv'
  BY NextInv, NextOrder, NextPool DEF IInv
<1> QED BY <1>1, <1>2, PTL DEF Spec

-----------------------------------------------------------------------------
(* The properties. *)

(* Between calls free_space is the number of bytes that no caller holds: a  *)
(* split, a merge and the detour of a page through deallocate() count each  *)
(* byte once.                                                               *)
THEOREM FreeSpaceStaysExact ==
  ASSUME RegionSize % 4096 = 0
  PROVE  Spec => []FreeSpaceExact
<1>1. IInv => FreeSpaceExact
  <2> SUFFICES ASSUME Inv, PoolInv, pc = "idle"
               PROVE  free_space = RegionSize - 4096 * Cardinality(held)
    BY DEF IInv, FreeSpaceExact
  <2>1. Uncounted = 0 /\ Taken = 0
    BY DEF Inv, Control, Uncounted, Taken
  <2>2. free_space \in Int /\ Cardinality(held) \in Nat
    BY HeldFinite DEF Inv, TypeOK
  <2> QED BY <2>1, <2>2, MemoryAssumption DEF PoolInv, Counted
<1> QED BY <1>1, PoolHolds, PTL

(* allocate() gives up only when no free block is large enough: what the    *)
(* search has passed is too small.                                          *)
LEMMA NothingFits ==
  ASSUME Inv, OrderInv, Refuse
  PROVE  \A b \in Headers : size[b] < request
<1>1. pc = "search" /\ "size" \in Trees
  BY DEF Refuse, Trees
<1>2. \A b \in Headers : size[b] \in Nat
  BY TopType DEF Inv
<1>3. request \in Nat
  BY RequestType DEF Inv
<1> SUFFICES ASSUME NEW c \in Under("size", cursor), size[c] >= request
             PROVE  FALSE
  BY <1>1, <1>2, <1>3 DEF OrderInv, FitAhead
<1>4. cursor # nullptr
  BY BelowNothing DEF Under
<1>5. cursor \in Linked("size") /\ cursor \in Headers
  BY <1>1, <1>4 DEF Inv, Standing, Linked
<1>6. size[cursor] < request /\ right["size"][cursor] = nullptr
  BY <1>4 DEF Refuse, MustGoLarger
<1> PICK l, r : l = left["size"][cursor] /\ r = right["size"][cursor]
  OBVIOUS
<1>7. c \in {cursor} \cup Under("size", l) \cup Under("size", r)
  BY <1>1, <1>5, UnderChildren
<1>8. c \notin Under("size", r)
  BY <1>6, BelowNothing DEF Under
<1>9. c # cursor
  BY <1>2, <1>3, <1>5, <1>6
<1>10. c \in Headers /\ size[c] <= size[cursor]
  BY <1>1, <1>5, <1>7, <1>8, <1>9, UnderSides, Sides
<1> QED BY <1>2, <1>3, <1>5, <1>6, <1>10

(* Then no run of pages that nobody holds is long enough either: such a run *)
(* would reach into a second block behind the first, and there is none      *)
(* without a page of a caller between them.                                 *)
LEMMA NoFreeRun ==
  ASSUME Inv, OrderInv, PoolInv, Refuse, request # 0
  PROVE  Pool!FreeRuns(number_of_blocks(request)) = {}
<1>1. PICK n \in Nat : n = number_of_blocks(request)
  BY RequestType DEF Inv
<1> SUFFICES ASSUME NEW first \in Pages,
                    \A p \in Nat : first <= p /\ p < first + n => p \in Pages \ held
             PROVE  FALSE
  <2> SUFFICES ASSUME NEW first \in Pages,
                      first .. (first + n - 1) \subseteq Pages \ held
               PROVE  \A p \in Nat : first <= p /\ p < first + n => p \in Pages \ held
    BY <1>1 DEF Pool!FreeRuns, Pool!Run
  <2> QED BY Region
<1>2. request \in Nat /\ n > 0 /\ first \in Nat
  <2>1. request \in Nat
    BY RequestType DEF Inv
  <2>2. \A bytes \in Nat : bytes > 0 => number_of_blocks(bytes) > 0
    BY Blocks
  <2> QED BY <2>1, <2>2, <1>1, Region
<1>3. \A p \in Pages \ held : \E b \in Headers : b <= p /\ p < Top(b)
  BY DEF Inv, Ownership, InHand, Control, Refuse
<1>5. PICK b \in Headers : b <= first /\ first < Top(b)
  <2>1. first \in Pages \ held
    BY <1>2
  <2> QED BY <2>1, <1>3
<1>6. PICK k \in Nat : size[b] = k * 4096 /\ Top(b) = b + k
  BY WholeSize DEF Inv, PoolInv
<1>7. b \in Nat /\ Top(b) \in Nat
  BY TopType DEF Inv
<1>8. k < n
  <2>1. k * 4096 < request
    <3>1. size[b] < request
      BY NothingFits
    <3> QED BY <3>1, <1>6
  <2>2. request <= n * 4096
    <3>1. PICK q, m \in Nat : /\ q = request \div 4096 /\ m = request % 4096
                              /\ request = q * 4096 + m /\ m < 4096
      BY <1>2
    <3>2. n = q + (IF m > 0 THEN 1 ELSE 0)
      BY <1>1, <3>1 DEF number_of_blocks
    <3>3. CASE m > 0
      BY ONLY <3>1, <3>2, <3>3
    <3>4. CASE m = 0
      BY ONLY <3>1, <3>2, <3>4
    <3> QED BY <3>1, <3>3, <3>4
  <2> QED BY ONLY <2>1, <2>2, <1>2, n \in Nat, k \in Nat
<1>9. first <= Top(b) /\ Top(b) < first + n
  BY ONLY <1>2, <1>5, <1>6, <1>7, <1>8, n \in Nat, k \in Nat
<1>10. PICK c \in Headers : c <= Top(b) /\ Top(b) < Top(c)
  <2>1. Top(b) \in Pages \ held
    BY <1>7, <1>9
  <2> QED BY <2>1, <1>3
<1>11. c \in Nat /\ Top(c) \in Nat
  BY TopType DEF Inv
<1>12. c = Top(b)
  <2>1. c # b
    BY <1>7, <1>10
  <2>2. ~(c < b)
    <3>1. c < b => Top(c) <= b
      BY DEF Inv, Ownership
    <3> QED BY <3>1, <1>2, <1>5, <1>7, <1>10, <1>11
  <2>3. b < c => Top(b) <= c
    BY DEF Inv, Ownership
  <2> QED BY <2>1, <2>2, <2>3, <1>7, <1>10, <1>11
<1>13. EndsAt(b, c)
  BY ONLY <1>6, <1>7, <1>12, k \in Nat DEF EndsAt
<1>14. Kept = Headers
  BY DEF Kept, Refuse, Inv, Control
<1> QED BY <1>13, <1>14 DEF OrderInv, Apart

(* Every step of the allocator is a step of PagePool or none. *)
LEMMA StepRefines ==
  ASSUME Inv, OrderInv, PoolInv, 0 \notin Requests, [Next]_vars
  PROVE  [Pool!Next]_(Pool!vars)
<1> SUFFICES ASSUME Next \/ UNCHANGED vars
             PROVE  Pool!Next \/ UNCHANGED Pool!vars
  OBVIOUS
<1>1. ASSUME NEW bytes \in Requests, Allocate(bytes)
      PROVE  Pool!Next
  <2>1. Pool!Ask(number_of_blocks(bytes))
    BY <1>1 DEF Pool!Ask, Allocate, Inv, Control
  <2> QED BY <2>1 DEF Pool!Next
<1>2. ASSUME NEW page \in held, Deallocate(page)
      PROVE  Pool!Next
  <2>1. Pool!GiveBack(page)
    BY <1>2 DEF Pool!GiveBack, Deallocate, Inv, Control
  <2> QED BY <2>1 DEF Pool!Next
<1>3. CASE Refuse
  <2>1. pc = "search" /\ op = "allocate" /\ request \in Requests
    BY <1>3 DEF Refuse, Inv, Control, PoolInv, Answering
  <2>2. Pool!FreeRuns(number_of_blocks(request)) = {}
    BY <1>3, <2>1, NoFreeRun
  <2>3. number_of_blocks(0) = 0
    BY DEF number_of_blocks
  <2>4. Pool!Refuse
    BY <1>3, <2>1, <2>2, <2>3 DEF Pool!Refuse, Refuse, Return
  <2> QED BY <2>4 DEF Pool!Next, Pool!Answer
<1>4. ASSUME hand \in Pages, Granted \subseteq Pages, held \cap Granted = {},
             op = "allocate", op' = "none", request' = 0, result' = hand,
             held' = held \cup Granted
      PROVE  Pool!Next
  <2>1. hand \in Pool!FreeRuns(number_of_blocks(request))
    BY <1>4 DEF Pool!FreeRuns, Pool!Run, Granted
  <2>2. number_of_blocks(0) = 0
    BY DEF number_of_blocks
  <2>3. Pool!Grant
    BY <1>4, <2>1, <2>2 DEF Pool!Grant, Pool!Run, Granted
  <2> QED BY <2>3 DEF Pool!Next, Pool!Answer
<1>5. CASE TakeWhole
  <2>1. /\ hand \in Pages /\ Granted \subseteq Pages /\ held \cap Granted = {}
    BY <1>5, WholeTaken DEF Headers
  <2>2. /\ op = "allocate" /\ op' = "none" /\ request' = 0 /\ result' = hand
        /\ held' = held \cup Granted
    BY <1>5 DEF TakeWhole, Return
  <2> QED BY <2>1, <2>2, <1>4
<1>6. CASE Attached
  <2>1. CASE op = "allocate"
    <3>1. hand \in Pages /\ Granted \subseteq Pages /\ held \cap Granted = {}
      BY <1>6, <2>1 DEF Attached, Inv, Control, Ownership, InHand
    <3>2. /\ op' = "none" /\ request' = 0 /\ result' = hand
          /\ held' = held \cup Granted
      BY <1>6, <2>1 DEF Attached, Return
    <3> QED BY <2>1, <3>1, <3>2, <1>4
  <2>2. CASE op # "allocate"
    <3>1. op = "deallocate" /\ request = 0 /\ result = nullptr
      BY <1>6, <2>2 DEF Attached, Inv, Control, TypeOK, PoolInv, Answering
    <3>2. Pool!GivenBack
      BY <1>6, <3>1 DEF Attached, Return, Pool!GivenBack
    <3> QED BY <3>2 DEF Pool!Next, Pool!Answer
  <2> QED BY <2>1, <2>2
<1>7. CASE \/ Unlink \/ Attach \/ DescendLeft \/ DescendRight \/ SearchOn \/ Choose
           \/ Split \/ MergeFound \/ MergeSearchOn \/ Merge \/ MergeDone \/ UNCHANGED vars
  <2>1. UNCHANGED <<held, result, op, request>>
    BY <1>7 DEF Unlink, Attach, DescendLeft, DescendRight, TreeDone, SearchOn, Choose,
       Split, MergeFound, MergeSearchOn, Merge, MergeDone, vars, locals
  <2> QED BY <2>1 DEF Pool!vars
<1> QED BY <1>1, <1>2, <1>3, <1>5, <1>6, <1>7 DEF Next, Step

(* The allocator keeps PagePool's promise, for every region of whole pages  *)
(* and all requests of at least a byte: an answer of allocate() is a run of *)
(* pages that nobody held, a refusal means that there was no such run, and  *)
(* deallocate() gives back one page. It is the safety half of PoolSpec.     *)
THEOREM KeepsPromise ==
  ASSUME RegionSize % 4096 = 0, 0 \notin Requests
  PROVE  Spec => Pool!Init /\ [][Pool!Next]_(Pool!vars)
<1>1. Init => Pool!Init
  <2>1. number_of_blocks(0) = 0
    BY DEF number_of_blocks
  <2> QED BY <2>1, Region DEF Init, Pool!Init
<1>2. IInv /\ [Next]_vars => [Pool!Next]_(Pool!vars)
  BY StepRefines DEF IInv
<1> QED BY <1>1, <1>2, PoolHolds, PTL DEF Spec

=============================================================================
