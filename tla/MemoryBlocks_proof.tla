------------------------- MODULE MemoryBlocks_proof -------------------------
(***************************************************************************)
(* Proofs about the page allocator, for every region and every set of      *)
(* requests.  The argument has three parts.                                *)
(*                                                                         *)
(* 1. Forest says of any links that they make a set of blocks into a tree, *)
(*    or a tree and one loose subtree; lemmas about it, which know nothing *)
(*    of the allocator, say what removing and adding a block does to it.   *)
(* 2. Inv says, for every place a call can be at, which blocks each of the *)
(*    two trees holds there and which pages belong to whom.  One lemma per *)
(*    action shows that the action preserves it.                           *)
(* 3. The theorems at the end derive the properties of MemoryBlocks.       *)
(***************************************************************************)
EXTENDS MemoryBlocks, TLAPS

-----------------------------------------------------------------------------
(* Trees of blocks, whatever the allocator does with them. *)

(* The links pd (predecessor), lf and rg (children) make the blocks of L    *)
(* into one binary tree, whose root is top, and, while a subtree is on its  *)
(* way back into the tree, a second one whose root is loose. The last       *)
(* conjunct rules out cycles: along the predecessors every set of blocks is *)
(* left in the end. It is stated with sets and not with paths because       *)
(* induction along a path is beyond the provers.                            *)
Forest(L, top, loose, pd, lf, rg) ==
  /\ nullptr \notin L
  /\ top # nullptr => top \in L /\ pd[top] = nullptr /\ top # loose
  /\ loose # nullptr => loose \in L /\ pd[loose] = nullptr
  /\ \A b \in L :
       /\ lf[b] # nullptr => lf[b] \in L /\ pd[lf[b]] = b
       /\ rg[b] # nullptr => rg[b] \in L /\ pd[rg[b]] = b
       /\ lf[b] = rg[b] => lf[b] = nullptr
       /\ pd[b] = nullptr => b \in {top, loose}
       /\ pd[b] # nullptr => pd[b] \in L /\ (lf[pd[b]] = b \/ rg[pd[b]] = b)
  /\ \A S \in SUBSET L : S # {} => \E b \in S : pd[b] \notin S

(* Swapping left and right keeps a forest a forest: a proof about one side  *)
(* serves for both.                                                         *)
LEMMA ForestMirrored ==
  ASSUME NEW L, NEW top, NEW loose, NEW pd, NEW lf, NEW rg,
         Forest(L, top, loose, pd, lf, rg)
  PROVE  Forest(L, top, loose, pd, rg, lf)
BY DEF Forest

(* Only the links of the blocks of the forest matter. *)
LEMMA ForestFrame ==
  ASSUME NEW L, NEW top, NEW loose, NEW pd, NEW lf, NEW rg,
         NEW pd2, NEW lf2, NEW rg2,
         \A b \in L : pd2[b] = pd[b] /\ lf2[b] = lf[b] /\ rg2[b] = rg[b],
         Forest(L, top, loose, pd, lf, rg)
  PROVE  Forest(L, top, loose, pd2, lf2, rg2)
<1>1. \A S \in SUBSET L : S # {} => \E b \in S : pd2[b] \notin S
  <2> SUFFICES ASSUME NEW S \in SUBSET L, S # {}
               PROVE  \E b \in S : pd2[b] \notin S
    OBVIOUS
  <2>1. PICK b \in S : pd[b] \notin S
    BY DEF Forest
  <2> QED BY <2>1
<1> QED BY <1>1 DEF Forest

(* A block without links is a tree by itself. *)
LEMMA ForestOfOne ==
  ASSUME NEW pd, NEW lf, NEW rg, NEW b, b # nullptr,
         pd[b] = nullptr, lf[b] = nullptr, rg[b] = nullptr
  PROVE  Forest({b}, b, nullptr, pd, lf, rg)
BY DEF Forest

(* A forest without roots has no blocks: the way up from any block ends in  *)
(* a root.                                                                  *)
LEMMA ForestWithoutTop ==
  ASSUME NEW L, NEW pd, NEW lf, NEW rg,
         Forest(L, nullptr, nullptr, pd, lf, rg)
  PROVE  L = {}
<1> SUFFICES ASSUME L # {} PROVE FALSE
  OBVIOUS
<1>1. PICK b \in L : pd[b] \notin L
  BY DEF Forest
<1> QED BY <1>1 DEF Forest

(* P is a set of blocks that holds at, is closed under going up, and does   *)
(* not hold the block that is added: going up from at does not meet it.     *)
Above(P, L, pd, at, added) ==
  /\ P \subseteq L
  /\ at \in P
  /\ added \notin P
  /\ \A b \in P : pd[b] = nullptr \/ pd[b] \in P

(* add_node_to_tree_by_size / _by_address link a new block, or the root of  *)
(* the loose subtree, below a block that has no left child. The result is   *)
(* one tree. No cycle appears because the new block is not above the block  *)
(* it is linked to.                                                         *)
LEMMA ForestAdd ==
  ASSUME NEW L, NEW top, NEW loose, NEW pd, NEW lf, NEW rg,
         NEW pd2, NEW lf2, NEW rg2,
         NEW at \in L, NEW added, added # nullptr, NEW P,
         Forest(L, top, loose, pd, lf, rg),
         \/ added \in L /\ loose = added
         \/ /\ added \notin L
            /\ loose = nullptr
            /\ lf[added] = nullptr
            /\ rg[added] = nullptr,
         Above(P, L, pd, at, added),
         lf[at] = nullptr,
         \A b \in L \cup {added} :
           /\ lf2[b] = IF b = at THEN added ELSE lf[b]
           /\ rg2[b] = rg[b]
           /\ pd2[b] = IF b = added THEN at ELSE pd[b]
  PROVE  Forest(L \cup {added}, top, nullptr, pd2, lf2, rg2)
<1>1. at # added
  BY DEF Above
<1>2. \A S \in SUBSET (L \cup {added}) : S # {} => \E b \in S : pd2[b] \notin S
  <2> SUFFICES ASSUME NEW S \in SUBSET (L \cup {added}), S # {},
                      \A b \in S : pd2[b] \in S
               PROVE  FALSE
    OBVIOUS
  <2>1. CASE added \in S
    <3>1. at \in S \cap P
      BY <2>1 DEF Above
    <3>2. PICK b \in S \cap P : pd[b] \notin S \cap P
      <4>1. S \cap P \in SUBSET L
        BY DEF Above
      <4> QED BY <3>1, <4>1 DEF Forest
    <3>3. b \in L /\ b # added /\ pd2[b] = pd[b]
      BY <3>2 DEF Above
    <3>4. pd[b] \in S
      BY <3>2, <3>3
    <3>5. pd[b] # nullptr
      BY <3>4 DEF Forest
    <3> QED BY <3>2, <3>4, <3>5 DEF Above
  <2>2. CASE added \notin S
    <3>1. PICK b \in S : pd[b] \notin S
      BY <2>2 DEF Forest
    <3> QED BY <2>2, <3>1
  <2> QED BY <2>1, <2>2
<1>3. ASSUME NEW b \in L \cup {added}
      PROVE  /\ lf2[b] # nullptr => lf2[b] \in L \cup {added} /\ pd2[lf2[b]] = b
             /\ rg2[b] # nullptr => rg2[b] \in L \cup {added} /\ pd2[rg2[b]] = b
             /\ lf2[b] = rg2[b] => lf2[b] = nullptr
  <2>1. CASE b = at
    BY <2>1, <1>1 DEF Forest
  <2>2. CASE b # at
    BY <2>2, <1>1 DEF Forest
  <2> QED BY <2>1, <2>2
<1>4. ASSUME NEW b \in L \cup {added}
      PROVE  /\ pd2[b] = nullptr => b = top
             /\ pd2[b] # nullptr => /\ pd2[b] \in L \cup {added}
                                    /\ lf2[pd2[b]] = b \/ rg2[pd2[b]] = b
  <2>1. CASE b = added
    BY <2>1, <1>1 DEF Forest
  <2>2. CASE b # added
    BY <2>2, <1>1 DEF Forest
  <2> QED BY <2>1, <2>2
<1>5. top # nullptr => top \in L \cup {added} /\ pd2[top] = nullptr
  BY DEF Forest
<1> QED BY <1>2, <1>3, <1>4, <1>5 DEF Forest

(* remove_node_from_tree_by_size / _by_address take a block out of a tree.  *)
(* What is left is one tree if the block had no right child or if there is  *)
(* nothing besides its right subtree; otherwise it is a tree and the loose  *)
(* subtree under the right child, which is to be added back.                *)
LEMMA ForestRemove ==
  ASSUME NEW L, NEW top, NEW pd, NEW lf, NEW rg,
         NEW pd2, NEW lf2, NEW rg2,
         NEW gone \in L, NEW parent, NEW l, NEW r, NEW rest,
         NEW top2, NEW loose2,
         Forest(L, top, nullptr, pd, lf, rg),
         parent = pd[gone], l = lf[gone], r = rg[gone],
         rest = IF parent = nullptr THEN l ELSE top,
         rest = nullptr => top2 = r /\ loose2 = nullptr,
         rest # nullptr => top2 = rest /\ loose2 = r,
         \A b \in L \ {gone} :
           /\ pd2[b] = IF b = r THEN nullptr
                       ELSE IF b = l THEN parent ELSE pd[b]
           /\ lf2[b] = IF b = parent /\ lf[b] = gone THEN l ELSE lf[b]
           /\ rg2[b] = IF b = parent /\ lf[b] # gone /\ rg[b] = gone
                       THEN l ELSE rg[b]
  PROVE  Forest(L \ {gone}, top2, loose2, pd2, lf2, rg2)
<1> DEFINE L2 == L \ {gone}
<1>1. parent # gone /\ l # gone /\ r # gone
  <2>1. pd[gone] # gone
    <3>1. PICK b \in {gone} : pd[b] \notin {gone}
      BY DEF Forest
    <3> QED BY <3>1
  <2> QED BY <2>1 DEF Forest
<1>2. /\ l # nullptr => l \in L2 /\ pd[l] = gone
      /\ r # nullptr => r \in L2 /\ pd[r] = gone
      /\ l = r => l = nullptr
      /\ parent # nullptr => parent \in L2 /\ (lf[parent] = gone \/ rg[parent] = gone)
      /\ parent = nullptr => gone = top
      /\ top # nullptr => top \in L /\ pd[top] = nullptr
      /\ nullptr \notin L
      /\ gone # nullptr
  BY <1>1 DEF Forest
<1>3. \A S \in SUBSET L2 : S # {} => \E b \in S : pd2[b] \notin S
  <2> SUFFICES ASSUME NEW S \in SUBSET L2, S # {},
                      \A b \in S : pd2[b] \in S
               PROVE  FALSE
    OBVIOUS
  <2>1. r \notin S
    BY <1>2
  <2>2. CASE l \in S
    <3>1. parent \in S
      BY <2>1, <2>2
    <3>2. \A b \in S \cup {gone} : pd[b] \in S \cup {gone}
      BY <1>2, <2>1, <3>1
    <3>3. S \cup {gone} \in SUBSET L
      OBVIOUS
    <3> QED BY <3>2, <3>3 DEF Forest
  <2>3. CASE l \notin S
    <3>1. \A b \in S : pd[b] \in S
      BY <2>1, <2>3
    <3> QED BY <3>1 DEF Forest
  <2> QED BY <2>2, <2>3
<1>4. ASSUME NEW b \in L2
      PROVE  /\ lf2[b] # nullptr => lf2[b] \in L2 /\ pd2[lf2[b]] = b
             /\ rg2[b] # nullptr => rg2[b] \in L2 /\ pd2[rg2[b]] = b
             /\ lf2[b] = rg2[b] => lf2[b] = nullptr
  <2>1. /\ lf[b] # nullptr => lf[b] \in L /\ pd[lf[b]] = b
        /\ rg[b] # nullptr => rg[b] \in L /\ pd[rg[b]] = b
        /\ lf[b] = rg[b] => lf[b] = nullptr
    BY DEF Forest
  <2>2. CASE b = parent
    BY <2>1, <2>2, <1>1, <1>2
  <2>3. CASE b # parent
    BY <2>1, <2>3, <1>1, <1>2
  <2> QED BY <2>2, <2>3
<1>5. ASSUME NEW b \in L2
      PROVE  /\ pd2[b] = nullptr => b \in {top2, loose2}
             /\ pd2[b] # nullptr => /\ pd2[b] \in L2
                                    /\ lf2[pd2[b]] = b \/ rg2[pd2[b]] = b
  <2>1. /\ pd[b] = nullptr => b = top
        /\ pd[b] # nullptr => pd[b] \in L /\ (lf[pd[b]] = b \/ rg[pd[b]] = b)
        /\ lf[gone] = l /\ rg[gone] = r
    BY <1>2 DEF Forest
  <2>2. CASE b = r
    BY <2>2, <1>1, <1>2
  <2>3. CASE b # r /\ b = l
    BY <2>3, <1>1, <1>2
  <2>4. CASE b # r /\ b # l
    <3>1. pd2[b] = pd[b] /\ pd[b] # gone
      BY <2>4, <2>1, <1>2
    <3>2. CASE pd[b] = nullptr
      BY <3>1, <3>2, <2>1, <1>2
    <3>3. CASE pd[b] # nullptr
      BY <3>1, <3>3, <2>1, <1>1, <1>2
    <3> QED BY <3>2, <3>3
  <2> QED BY <2>2, <2>3, <2>4
<1>6. /\ top2 # nullptr => top2 \in L2 /\ pd2[top2] = nullptr /\ top2 # loose2
      /\ loose2 # nullptr => loose2 \in L2 /\ pd2[loose2] = nullptr
  BY <1>1, <1>2
<1> QED BY <1>2, <1>3, <1>4, <1>5, <1>6 DEF Forest

-----------------------------------------------------------------------------
(* The inductive invariant. *)

(* How many pages the region has. *)
N == number_of_blocks(RegionSize)

(* The first page behind block b. *)
Top(b) == b + number_of_blocks(size[b])

(* The running remove_node_from_tree is done with tree t. *)
Removed(t) ==
  /\ activity = "remove"
  /\ \/ pc = "unlinked"
     \/ t = "size" /\ tree = "address"
     \/ t = tree /\ pc = "descend"

(* The running add_node_to_tree is done with tree t. *)
Added(t) ==
  /\ activity = "add"
  /\ \/ pc = "attached"
     \/ t = "size" /\ tree = "address"

(* The free block that is not in tree t yet: the block that deallocate()    *)
(* merges and adds, or the rest that allocate() has split off.              *)
Entering(t) ==
  IF Added(t) THEN {}
  ELSE IF op = "deallocate" THEN {hand}
  ELSE IF activity = "add" THEN {node} ELSE {}

(* The blocks that the links of tree t hold together. *)
Linked(t) ==
  Headers \ (Entering(t) \cup (IF Removed(t) THEN {node} ELSE {}))

(* The root of the subtree that is being added back to tree t. *)
Loose(t) ==
  IF pc = "descend" /\ activity = "remove" /\ t = tree THEN moving ELSE nullptr

(* Where each function of the call stack stands and what its arguments are  *)
(* there.                                                                   *)
Control ==
  /\ op = "none" <=> pc = "idle"
  /\ pc = "search" => op = "allocate"
  /\ pc = "merge" => op = "deallocate"
  /\ activity = "none" <=> pc \in {"idle", "search", "merge"}
  /\ pc \in {"unlink", "unlinked"} => activity = "remove"
  /\ pc \in {"attach", "attached"} => activity = "add"
  /\ pc \notin {"unlink", "attach", "descend"} => tree = "size"
  /\ pc # "descend" => moving = nullptr
  /\ pc \notin {"search", "merge", "descend"} => cursor = nullptr
  /\ activity = "none" => node = nullptr
  /\ activity # "none" => node \in Headers
  /\ op = "deallocate" => hand \in Headers
  /\ op = "allocate" /\ activity = "remove" =>
       node = hand /\ size[node] >= request
  /\ op = "allocate" /\ activity = "add" => hand \in Pages /\ Granted \subseteq Pages
  /\ op = "deallocate" /\ activity = "remove" =>
       node # hand /\ (EndsAt(node, hand) \/ EndsAt(hand, node))
  /\ op = "deallocate" /\ activity = "add" => node = hand

(* The blocks, the pages of the callers and the pages in hand are disjoint  *)
(* and cover the region. It is PagesHaveOneOwner in terms of the blocks'    *)
(* bounds.                                                                  *)
Ownership ==
  /\ \A b \in Headers : Top(b) <= N
  /\ \A b, c \in Headers : b < c => Top(b) <= c
  /\ \A b \in Headers : \A p \in held \cup InHand : p < b \/ Top(b) <= p
  /\ \A p \in Pages : p \in held \cup InHand \/ \E b \in Headers : b <= p /\ p < Top(b)
  /\ held \cap InHand = {}

(* Both trees are trees, of the blocks that belong in them at this moment. *)
Forests ==
  \A t \in Trees : Forest(Linked(t), root[t], Loose(t), pred[t], left[t], right[t])

(* A block that waits to be added has no children, so that it is added      *)
(* alone.                                                                   *)
Fresh ==
  \A t \in Trees : \A b \in Entering(t) : left[t][b] = nullptr /\ right[t][b] = nullptr

(* The cursor of a loop stands on a block of the tree it searches. When the *)
(* loop looks for a place for a block, the way up from the cursor does not  *)
(* pass through that block: the hypothesis of ForestAdd.                    *)
Standing ==
  /\ pc = "search" => cursor \in Linked("size") \cup {nullptr}
  /\ pc = "merge" => cursor \in Linked("address") \cup {nullptr}
  /\ pc = "descend" =>
       /\ cursor \in Linked(tree)
       /\ IF activity = "remove"
          THEN moving \in Linked(tree)
          ELSE moving = node
       /\ \E P \in SUBSET Linked(tree) :
            Above(P, Linked(tree), pred[tree], cursor, moving)

(* The inductive invariant. PagesHaveOneOwner, TreesWellFormed and          *)
(* CursorIsFree speak of the moments between two calls or of one part of    *)
(* the state; in the middle of a call they follow only from what each tree  *)
(* holds just then, which is what Linked, Loose and Entering keep track of. *)
Inv == TypeOK /\ Control /\ Ownership /\ Forests /\ Fresh /\ Standing

-----------------------------------------------------------------------------
(* Facts about the state. *)

(* The arithmetic of number_of_blocks. *)
LEMMA Blocks ==
  /\ \A bytes \in Nat : number_of_blocks(bytes) \in Nat
  /\ \A bytes \in Nat : bytes > 0 => number_of_blocks(bytes) > 0
  /\ \A few, many \in Nat : few <= many =>
       number_of_blocks(few) <= number_of_blocks(many)
  /\ \A k, bytes \in Nat :
       number_of_blocks(k * 4096 + bytes) = k + number_of_blocks(bytes)
  /\ \A k \in Nat : number_of_blocks(k * 4096) = k
BY DEF number_of_blocks

(* The region has at least one page, and null is not one of them. *)
LEMMA Region ==
  /\ N \in Nat /\ N > 0
  /\ Pages = 0 .. (N - 1)
  /\ Pages \subseteq Nat
  /\ 0 \in Pages
  /\ nullptr \notin Pages
  /\ nullptr \in Pointers
  /\ Pages \subseteq Pointers
  /\ \A p \in Pointers : p # nullptr => p \in Pages
<1>1. N \in Nat /\ N > 0
  BY Blocks, MemoryAssumption DEF N
<1>2. Pages = 0 .. (N - 1)
  BY DEF Pages, N
<1> QED BY <1>1, <1>2 DEF nullptr, Pointers

(* Ownership depends on the sizes of the blocks, the callers' pages and the *)
(* pages in hand only.                                                      *)
LEMMA OwnershipFrame ==
  ASSUME Ownership, UNCHANGED <<size, held>>, InHand' = InHand
  PROVE  Ownership'
BY DEF Ownership, Top, Headers

(* Forests depends on the links of the linked blocks only. *)
LEMMA ForestsFrame ==
  ASSUME Forests,
         \A t \in Trees :
           /\ Linked(t)' = Linked(t)
           /\ Loose(t)' = Loose(t)
           /\ root'[t] = root[t]
           /\ \A b \in Linked(t) : /\ pred'[t][b] = pred[t][b]
                                   /\ left'[t][b] = left[t][b]
                                   /\ right'[t][b] = right[t][b]
  PROVE  Forests'
<1> SUFFICES ASSUME NEW t \in Trees
             PROVE  Forest(Linked(t), root[t], Loose(t), pred[t], left[t], right[t])'
  BY DEF Forests
<1>1. Forest(Linked(t), root[t], Loose(t), pred[t], left[t], right[t])
  BY DEF Forests
<1>2. Forest(Linked(t), root[t], Loose(t), pred'[t], left'[t], right'[t])
  BY <1>1, ForestFrame
<1> QED BY <1>2

(* A block has at least one page. *)
LEMMA TopType ==
  ASSUME TypeOK
  PROVE  \A b \in Headers : b \in Nat /\ size[b] \in Nat /\ Top(b) \in Nat /\ Top(b) > b
<1> SUFFICES ASSUME NEW b \in Headers
             PROVE  b \in Nat /\ size[b] \in Nat /\ Top(b) \in Nat /\ Top(b) > b
  OBVIOUS
<1>1. b \in Nat /\ size[b] \in Nat /\ size[b] > 0
  BY Region DEF Headers, TypeOK
<1>2. number_of_blocks(size[b]) \in Nat /\ number_of_blocks(size[b]) > 0
  BY <1>1 DEF number_of_blocks
<1> QED BY <1>1, <1>2 DEF Top

(* Clearing headers keeps the types of the links. *)
LEMMA ClearLinksType ==
  ASSUME TypeOK, NEW B, ClearLinks(B)
  PROVE  /\ root' \in [Trees -> Pointers]
         /\ pred' \in [Trees -> [Pages -> Pointers]]
         /\ left' \in [Trees -> [Pages -> Pointers]]
         /\ right' \in [Trees -> [Pages -> Pointers]]
BY Region DEF TypeOK, ClearLinks

-----------------------------------------------------------------------------
(* The actions. *)

(* One lemma per action: if the invariant holds and the action takes place, *)
(* the invariant holds afterwards. allocate() is entered.                   *)
LEMMA AllocateInv ==
  ASSUME Inv, NEW bytes \in Requests, Allocate(bytes)
  PROVE  Inv'
<1> USE DEF Inv, Allocate, links
<1>1. TypeOK'
  BY MemoryAssumption, Region DEF TypeOK, Trees
<1>2. Control'
  BY DEF Control, Headers, EndsAt, Granted
<1>3. Ownership'
  BY OwnershipFrame DEF InHand, Control
<1>4. \A t \in Trees : Linked(t)' = Linked(t) /\ Loose(t)' = Loose(t) /\ Entering(t)' = Entering(t)
  BY DEF Linked, Loose, Entering, Removed, Added, Headers, Control
<1>5. Forests'
  BY <1>4, ForestsFrame
<1>6. Fresh'
  BY <1>4 DEF Fresh
<1>7. Standing'
  BY <1>4 DEF Standing, Forests, Forest, Trees
<1> QED BY <1>1, <1>2, <1>3, <1>5, <1>6, <1>7

(* The search of allocate() moves to a child. *)
LEMMA SearchOnInv ==
  ASSUME Inv, SearchOn
  PROVE  Inv'
<1> USE DEF Inv, SearchOn, links
<1>1. cursor \in Linked("size")
  BY DEF Standing
<1>2. cursor' \in Linked("size")
  BY <1>1 DEF Forests, Forest, Trees, SmallerFits, MustGoLarger
<1>3. TypeOK'
  BY <1>2, Region DEF TypeOK, Linked, Headers
<1>4. Control'
  BY DEF Control, Headers, EndsAt, Granted
<1>5. Ownership'
  BY OwnershipFrame DEF InHand, Granted
<1>6. \A t \in Trees : Linked(t)' = Linked(t) /\ Loose(t)' = Loose(t) /\ Entering(t)' = Entering(t)
  BY DEF Linked, Loose, Entering, Removed, Added, Headers
<1>7. Forests'
  BY <1>6, ForestsFrame
<1>8. Fresh'
  BY <1>6 DEF Fresh
<1>9. Standing'
  BY <1>2, <1>6 DEF Standing, Trees
<1> QED BY <1>3, <1>4, <1>5, <1>7, <1>8, <1>9

(* allocate() returns a null pointer. *)
LEMMA RefuseInv ==
  ASSUME Inv, Refuse
  PROVE  Inv'
<1> USE DEF Inv, Refuse, Return, links
<1>1. TypeOK'
  BY Region DEF TypeOK, Trees
<1>2. Control'
  BY DEF Control, Headers, EndsAt, Granted
<1>3. Ownership'
  BY OwnershipFrame DEF InHand, Control
<1>4. \A t \in Trees : Linked(t)' = Linked(t) /\ Loose(t)' = Loose(t) /\ Entering(t)' = {}
  BY DEF Linked, Loose, Entering, Removed, Added, Headers, Control
<1>5. Forests'
  BY <1>4, ForestsFrame
<1>6. Fresh'
  BY <1>4 DEF Fresh
<1>7. Standing'
  BY DEF Standing
<1> QED BY <1>1, <1>2, <1>3, <1>5, <1>6, <1>7

(* allocate() begins to remove the block it has found. *)
LEMMA ChooseInv ==
  ASSUME Inv, Choose
  PROVE  Inv'
<1> USE DEF Inv, Choose, StartRemoving, links
<1>1. cursor \in Headers
  BY DEF Standing, Linked
<1>2. TypeOK'
  BY <1>1, Region DEF TypeOK, Headers, Trees
<1>3. Control'
  BY <1>1 DEF Control, Headers, EndsAt, Granted
<1>4. Ownership'
  BY OwnershipFrame DEF InHand, Control
<1>5. \A t \in Trees : Linked(t)' = Linked(t) /\ Loose(t)' = Loose(t) /\ Entering(t)' = {}
  BY DEF Linked, Loose, Entering, Removed, Added, Headers, Control
<1>6. Forests'
  BY <1>5, ForestsFrame
<1>7. Fresh'
  BY <1>5 DEF Fresh
<1>8. Standing'
  BY DEF Standing
<1> QED BY <1>2, <1>3, <1>4, <1>6, <1>7, <1>8

(* What Split does to the blocks: the caller's pages and the rest, a block  *)
(* of that many bytes at page rest, share the pages of the removed block.   *)
(* The blocks in the trees stay.                                            *)
SplitsOff(rest, bytes) ==
  /\ op = "allocate" /\ activity = "remove" /\ pc = "unlinked"
  /\ node = hand /\ hand \in Headers
  /\ hand <= rest /\ rest < Top(hand) /\ Top(hand) <= N
  /\ bytes = (Top(hand) - rest) * 4096
  /\ Granted = hand .. (rest - 1)
  /\ size' = [b \in Pages |-> IF b = rest THEN bytes ELSE IF b = hand THEN 0 ELSE size[b]]
  /\ free_space' = free_space - size[hand]
  /\ UNCHANGED <<held, hand, request, op, result>>
  /\ pc' = "attach" /\ activity' = "add" /\ tree' = "size" /\ node' = rest
  /\ moving' = nullptr /\ cursor' = nullptr
  /\ ClearLinks({hand, rest})
  /\ Headers' = (Headers \ {hand}) \cup {rest}
  /\ rest \notin Headers \ {hand}
  /\ Top(rest)' = Top(hand)
  /\ \A b \in Headers \ {hand} : Top(b)' = Top(b)
  /\ \A t \in Trees : /\ Linked(t) = Headers \ {hand}
                      /\ Linked(t)' = Linked(t)
                      /\ Loose(t)' = Loose(t)
                      /\ Entering(t)' = {rest}

LEMMA SplitEffect ==
  ASSUME Inv, Split
  PROVE  \E rest \in Pages, bytes \in Nat : SplitsOff(rest, bytes)
<1>1. PICK in_node, needed, rest, bytes : /\ in_node = number_of_blocks(size[hand])
                                          /\ needed = number_of_blocks(request)
                                          /\ rest = hand + needed
                                          /\ bytes = (in_node - needed) * 4096
  OBVIOUS
<1>2. /\ pc = "unlinked" /\ op = "allocate" /\ activity = "remove" /\ node = hand
      /\ hand \in Headers
  BY DEF Split, HasRest, Control, Inv
<1>3. /\ in_node \in Nat /\ needed \in Nat /\ in_node > needed
      /\ hand \in Nat
      /\ hand + in_node \in Nat
  <2>1. request \in Nat
    BY MemoryAssumption DEF TypeOK, Inv
  <2>2. hand \in Nat /\ size[hand] \in Nat
    BY <1>2, TopType DEF Inv
  <2>3. in_node > needed
    BY <1>1, <1>2 DEF Split, HasRest
  <2>4. in_node \in Nat /\ needed \in Nat
    BY <1>1, <2>1, <2>2 DEF number_of_blocks
  <2> QED BY <2>1, <2>2, <2>3, <2>4
<1>4. Top(hand) = hand + in_node /\ Top(hand) <= N
  BY <1>1, <1>2 DEF Inv, Ownership, Top
<1>5. /\ rest \in Pages /\ rest \in Nat /\ hand <= rest /\ rest < Top(hand)
      /\ Granted = hand .. (rest - 1)
  <2>1. rest = hand + needed
    BY <1>1
  <2>2. rest \in Nat /\ hand <= rest /\ rest < Top(hand)
    BY <2>1, <1>3, <1>4
  <2>3. rest < N
    BY <2>1, <1>3, <1>4, Region
  <2>4. Granted = hand .. (rest - 1)
    <3>1. number_of_blocks(request) = needed
      BY <1>1
    <3>2. Granted = hand .. (hand + needed - 1)
      BY <3>1 DEF Granted
    <3> QED BY <1>3, <2>1, <3>2
  <2>5. rest \in Pages
    BY <2>2, <2>3, Region
  <2> QED BY <2>2, <2>4, <2>5
<1>6. bytes \in Nat /\ bytes > 0 /\ bytes = (Top(hand) - rest) * 4096
  <2>1. in_node - needed = Top(hand) - rest /\ in_node - needed \in Nat /\ in_node - needed > 0
    BY <1>1, <1>3, <1>4
  <2> QED BY <1>1, <2>1
<1>7. /\ size' = [b \in Pages |-> IF b = rest THEN bytes ELSE IF b = hand THEN 0 ELSE size[b]]
      /\ UNCHANGED <<held, hand, request, op, result>>
      /\ pc' = "attach" /\ activity' = "add" /\ tree' = "size" /\ node' = rest
      /\ moving' = nullptr /\ cursor' = nullptr
      /\ ClearLinks({hand, rest})
      /\ free_space' = free_space - size[hand]
  BY <1>1, <1>2 DEF Split, HasRest, StartAdding
<1>8. Headers' = (Headers \ {hand}) \cup {rest}
  BY <1>2, <1>5, <1>6, <1>7 DEF Headers
<1>9. rest \notin Headers \ {hand}
  <2>1. \A c \in Headers \ {hand} : c \in Nat /\ Top(c) \in Nat /\ c < Top(c)
    BY TopType DEF Inv
  <2>2. \A c \in Headers \ {hand} : Top(c) <= hand \/ Top(hand) <= c
    BY <2>1, <1>2, <1>3 DEF Ownership, Inv
  <2>3. ASSUME NEW c \in Headers \ {hand}
        PROVE  c # rest
    <3>1. c \in Nat /\ Top(c) \in Nat /\ c < Top(c) /\ (Top(c) <= hand \/ Top(hand) <= c)
      BY <2>1, <2>2
    <3> QED BY <3>1, <1>3, <1>4, <1>5
  <2> QED BY <2>3
<1>10. /\ Top(rest)' = Top(hand)
       /\ \A b \in Headers \ {hand} : Top(b)' = Top(b)
  <2>1. Top(rest)' = rest + number_of_blocks(bytes)
    <3>1. size'[rest] = bytes
      BY <1>5, <1>7
    <3> QED BY <3>1 DEF Top
  <2>2. number_of_blocks(bytes) = in_node - needed
    BY <1>1, <1>3, Blocks
  <2>3. Top(rest)' = Top(hand)
    BY <1>1, <1>3, <1>4, <2>1, <2>2
  <2>4. \A b \in Headers \ {hand} : size'[b] = size[b]
    BY <1>7, <1>9 DEF Headers
  <2> QED BY <2>3, <2>4 DEF Top
<1>11. \A t \in Trees : /\ Linked(t) = Headers \ {hand}
                        /\ Linked(t)' = Linked(t)
                        /\ Loose(t)' = Loose(t)
                        /\ Entering(t)' = {rest}
  BY <1>2, <1>7, <1>8, <1>9 DEF Linked, Loose, Entering, Removed, Added, Trees
<1>12. SplitsOff(rest, bytes)
  BY <1>2, <1>4, <1>5, <1>6, <1>7, <1>8, <1>9, <1>10, <1>11 DEF SplitsOff
<1> QED BY <1>5, <1>6, <1>12

(* allocate() splits the removed block. *)
LEMMA SplitInv ==
  ASSUME Inv, Split
  PROVE  Inv'
<1> USE DEF Inv
<1> PICK new \in Pages, bytes \in Nat : SplitsOff(new, bytes)
  BY SplitEffect
<1>1. /\ hand \in Headers /\ hand <= new /\ new < Top(hand) /\ Top(hand) <= N
      /\ Headers' = (Headers \ {hand}) \cup {new}
      /\ new \notin Headers \ {hand}
      /\ Top(new)' = Top(hand)
      /\ \A b \in Headers \ {hand} : Top(b)' = Top(b)
      /\ held' = held
  BY DEF SplitsOff
<1>2. hand \in Nat /\ Top(hand) \in Nat /\ new \in Nat
  BY <1>1, TopType, Region
<1>3. /\ op = "allocate" /\ activity = "remove" /\ node = hand
      /\ UNCHANGED <<held, hand, request, op, result>>
      /\ pc' = "attach" /\ activity' = "add" /\ tree' = "size" /\ node' = new
      /\ moving' = nullptr /\ cursor' = nullptr
      /\ ClearLinks({hand, new})
  BY DEF SplitsOff
<1>4. TypeOK'
  <2>1. size' \in [Pages -> Nat]
    BY DEF TypeOK, SplitsOff
  <2>2. free_space' \in Int
    BY <1>1 DEF TypeOK, Headers, SplitsOff
  <2> QED BY <1>3, <2>1, <2>2, ClearLinksType, Region DEF TypeOK, Trees
<1>5. InHand = {} /\ InHand' = hand .. (new - 1) /\ Granted \subseteq Pages
  <2>1. Granted = hand .. (new - 1)
    BY DEF SplitsOff
  <2>2. hand .. (new - 1) \subseteq Pages
    BY <1>1, <1>2, Region
  <2> QED BY <1>3, <2>1, <2>2 DEF InHand, Granted
<1>6. Control'
  BY <1>1, <1>3, <1>5 DEF Control, Granted, Headers
<1>7. Ownership'
  <2>1. \A b \in Headers' : Top(b)' <= N
    BY <1>1, <1>2 DEF Ownership
  <2>2. \A b, c \in Headers' : b < c => Top(b)' <= c
    <3> SUFFICES ASSUME NEW b \in Headers', NEW c \in Headers', b < c
                 PROVE  Top(b)' <= c
      OBVIOUS
    <3>1. CASE b = new
      <4>1. c \in Headers /\ c # hand /\ c \in Nat /\ hand < c
        BY <3>1, <1>1, <1>2, TopType
      <4> QED BY <3>1, <4>1, <1>1, <1>2 DEF Ownership
    <3>2. CASE b # new /\ c = new
      BY <3>2, <1>1, <1>2, TopType DEF Ownership
    <3>3. CASE b # new /\ c # new
      BY <3>3, <1>1, <1>2 DEF Ownership
    <3> QED BY <3>1, <3>2, <3>3
  <2>3. \A b \in Headers' : \A q \in (held \cup InHand)' : q < b \/ Top(b)' <= q
    <3> SUFFICES ASSUME NEW b \in Headers', NEW q \in (held \cup InHand)'
                 PROVE  q < b \/ Top(b)' <= q
      OBVIOUS
    <3>1. CASE q \in held
      <4>1. q \in Nat /\ (q < hand \/ Top(hand) <= q)
        BY <3>1, <1>1, <1>2, Region DEF Ownership, TypeOK
      <4>2. CASE b = new
        BY <4>1, <4>2, <1>1, <1>2, TopType
      <4>3. CASE b # new
        BY <4>3, <3>1, <1>1, <1>2 DEF Ownership
      <4> QED BY <4>2, <4>3
    <3>2. CASE q \in hand .. (new - 1)
      <4>1. CASE b = new
        BY <3>2, <4>1, <1>1, <1>2
      <4>2. CASE b # new
        <5>1. b \in Headers /\ b # hand /\ b \in Nat /\ Top(b) \in Nat /\ Top(b)' = Top(b)
          BY <4>2, <1>1, <1>2, TopType
        <5>2. Top(b) <= hand \/ Top(hand) <= b
          BY <5>1, <1>1, <1>2 DEF Ownership
        <5> QED BY <5>1, <5>2, <3>2, <1>1, <1>2
      <4> QED BY <4>1, <4>2
    <3> QED BY <3>1, <3>2, <1>1, <1>2, <1>5
  <2>4. \A q \in Pages : \/ q \in (held \cup InHand)'
                         \/ \E b \in Headers' : b <= q /\ q < Top(b)'
    <3> SUFFICES ASSUME NEW q \in Pages, q \notin (held \cup InHand)'
                 PROVE  \E b \in Headers' : b <= q /\ q < Top(b)'
      OBVIOUS
    <3>1. PICK b \in Headers : b <= q /\ q < Top(b)
      BY <1>1, <1>2, <1>5 DEF Ownership
    <3>2. CASE b = hand
      BY <3>1, <3>2, <1>1, <1>2, <1>5, Region
    <3>3. CASE b # hand
      BY <3>1, <3>3, <1>1, <1>2
    <3> QED BY <3>2, <3>3
  <2>5. (held \cap InHand)' = {}
    <3>1. \A q \in held : q \in Nat /\ (q < hand \/ Top(hand) <= q)
      BY <1>1, <1>2, Region DEF Ownership, TypeOK
    <3>2. \A q \in held : q \notin hand .. (new - 1)
      BY <3>1, <1>1, <1>2
    <3> QED BY <3>2, <1>1, <1>2, <1>5
  <2> QED BY <2>1, <2>2, <2>3, <2>4, <2>5 DEF Ownership
<1>8. \A t \in Trees : /\ Linked(t) = Headers \ {hand}
                      /\ Linked(t)' = Linked(t)
                      /\ Loose(t)' = Loose(t)
                      /\ Entering(t)' = {new}
  BY DEF SplitsOff
<1>9. Forests'
  BY <1>1, <1>3, <1>8, ForestsFrame DEF ClearLinks, Headers
<1>10. Fresh'
  BY <1>3, <1>8 DEF Fresh, ClearLinks
<1>11. Standing'
  BY <1>3 DEF Standing
<1> QED BY <1>4, <1>6, <1>7, <1>9, <1>10, <1>11

(* What TakeWhole does to the blocks: the removed one is gone, its pages are *)
(* the caller's, and the blocks in the trees stay.                          *)
TakesAll ==
  /\ op = "allocate" /\ activity = "remove" /\ node = hand /\ hand \in Headers
  /\ Granted = hand .. (Top(hand) - 1)
  /\ size' = [size EXCEPT ![hand] = 0]
  /\ free_space' = free_space - size[hand]
  /\ held' = held \cup Granted
  /\ ClearLinks({hand})
  /\ Return(hand)
  /\ Headers' = Headers \ {hand}
  /\ \A b \in Headers' : Top(b)' = Top(b)
  /\ \A t \in Trees : /\ Linked(t) = Headers \ {hand}
                      /\ Linked(t)' = Linked(t)
                      /\ Loose(t)' = Loose(t)
                      /\ Entering(t)' = {}

LEMMA TakeWholeEffect ==
  ASSUME Inv, TakeWhole
  PROVE  TakesAll
<1> USE DEF Inv
<1>1. /\ pc = "unlinked" /\ op = "allocate" /\ activity = "remove" /\ node = hand
      /\ hand \in Headers /\ size[hand] >= request
      /\ ~(number_of_blocks(size[hand]) > number_of_blocks(request))
  BY DEF TakeWhole, HasRest, Control
<1>2. Granted = hand .. (Top(hand) - 1)
  <2>1. Top(hand) \in Nat /\ size[hand] \in Nat /\ hand \in Nat /\ request \in Nat
    BY <1>1, TopType, MemoryAssumption DEF TypeOK
  <2>2. number_of_blocks(size[hand]) = number_of_blocks(request)
    BY <1>1, <2>1 DEF number_of_blocks
  <2>3. Top(hand) = hand + number_of_blocks(request) /\ Top(hand) <= N
    BY <1>1, <2>2 DEF Top, Ownership
  <2>4. number_of_blocks(request) \in Nat
    BY <2>1 DEF number_of_blocks
  <2>5. hand + number_of_blocks(request) - 1 = Top(hand) - 1
    BY <2>1, <2>3, <2>4
  <2> QED BY <2>5 DEF Granted
<1>3. /\ size' = [size EXCEPT ![hand] = 0]
      /\ held' = held \cup Granted
      /\ ClearLinks({hand})
      /\ Return(hand)
      /\ free_space' = free_space - size[hand]
  BY <1>1 DEF TakeWhole, HasRest
<1>4. Headers' = Headers \ {hand} /\ \A b \in Headers' : Top(b)' = Top(b)
  BY <1>1, <1>3 DEF Headers, Top, TypeOK
<1>5. \A t \in Trees : /\ Linked(t) = Headers \ {hand}
                       /\ Linked(t)' = Linked(t)
                       /\ Loose(t)' = Loose(t)
                       /\ Entering(t)' = {}
  BY <1>1, <1>3, <1>4 DEF Linked, Loose, Entering, Removed, Added, Return
<1> QED BY <1>1, <1>2, <1>3, <1>4, <1>5 DEF TakesAll

(* allocate() returns the whole block. *)
LEMMA TakeWholeInv ==
  ASSUME Inv, TakeWhole
  PROVE  Inv'
<1> USE DEF Inv
<1>1. /\ op = "allocate" /\ activity = "remove" /\ node = hand /\ hand \in Headers
      /\ Granted = hand .. (Top(hand) - 1)
      /\ size' = [size EXCEPT ![hand] = 0]
      /\ held' = held \cup Granted
      /\ ClearLinks({hand})
      /\ Return(hand)
  BY TakeWholeEffect DEF TakesAll
<1>2. Top(hand) \in Nat /\ Top(hand) <= N
  BY <1>1, TopType DEF Ownership
<1>3. Headers' = Headers \ {hand} /\ \A b \in Headers' : Top(b)' = Top(b)
  BY TakeWholeEffect DEF TakesAll
<1>4. \A t \in Trees : /\ Linked(t) = Headers \ {hand}
                       /\ Linked(t)' = Linked(t)
                       /\ Loose(t)' = Loose(t)
                       /\ Entering(t)' = {}
  BY TakeWholeEffect DEF TakesAll
<1>5. free_space' \in Int
  BY <1>1, TakeWholeEffect DEF TakesAll, TypeOK, Headers
<1>6. TypeOK'
  <2>1. size' \in [Pages -> Nat]
    BY <1>1 DEF TypeOK
  <2>2. held' \in SUBSET Pages
    <3>1. hand \in Nat /\ hand >= 0
      BY <1>1, Region DEF Headers
    <3>2. Granted \subseteq Pages
      BY <3>1, <1>1, <1>2, Region
    <3> QED BY <3>2, <1>1 DEF TypeOK
  <2>3. hand \in Pointers
    BY DEF TypeOK
  <2> QED BY <1>1, <1>5, <2>1, <2>2, <2>3, ClearLinksType, Region DEF TypeOK, Return, Trees
<1>7. Control'
  BY <1>1 DEF Control, Return
<1>8. InHand = {} /\ InHand' = {}
  BY <1>1 DEF InHand, Return
<1>9. Ownership'
  <2> USE TopType
  <2>1. \A b \in Headers' : b # hand /\ b \in Headers /\ Top(b)' = Top(b)
    BY <1>3
  <2>2. \A b \in Headers' : \A q \in (held \cup InHand)' : q < b \/ Top(b)' <= q
    <3> SUFFICES ASSUME NEW b \in Headers', NEW q \in held \cup Granted
                 PROVE  q < b \/ Top(b) <= q
      BY <2>1, <1>1, <1>8
    <3>1. CASE q \in held
      BY <3>1, <2>1 DEF Ownership
    <3>2. CASE q \in Granted
      <4>1. Top(b) <= hand \/ Top(hand) <= b
        BY <1>1, <2>1 DEF Ownership
      <4> QED BY <3>2, <4>1, <1>1, <1>2, <2>1
    <3> QED BY <3>1, <3>2
  <2>3. \A q \in Pages : \/ q \in (held \cup InHand)'
                         \/ \E b \in Headers' : b <= q /\ q < Top(b)'
    <3> SUFFICES ASSUME NEW q \in Pages, q \notin held \cup Granted
                 PROVE  \E b \in Headers' : b <= q /\ q < Top(b)'
      BY <1>1
    <3>1. PICK b \in Headers : b <= q /\ q < Top(b)
      BY <1>8 DEF Ownership
    <3>2. b # hand
      BY <3>1, <1>1, <1>2, Region
    <3> QED BY <3>1, <3>2, <1>3
  <2> QED BY <1>3, <1>8, <2>1, <2>2, <2>3 DEF Ownership
<1>10. Forests'
  BY <1>1, <1>4, ForestsFrame DEF ClearLinks, Headers
<1>11. Fresh'
  BY <1>4 DEF Fresh
<1>12. Standing'
  BY <1>1 DEF Standing, Return
<1> QED BY <1>6, <1>7, <1>9, <1>10, <1>11, <1>12

(* What Deallocate does to the blocks: the page is one, and not in a tree.  *)
Frees(page) ==
  /\ pc = "idle" /\ op = "none" /\ activity = "none" /\ tree = "size"
  /\ node = nullptr /\ moving = nullptr /\ InHand = {}
  /\ page \in Pages /\ page \notin Headers
  /\ size' = [size EXCEPT ![page] = 4096]
  /\ held' = held \ {page} /\ ClearLinks({page})
  /\ pc' = "merge" /\ op' = "deallocate" /\ hand' = page
  /\ cursor' = root["address"] /\ result' = nullptr
  /\ UNCHANGED <<free_space, activity, tree, node, moving, request>>
  /\ Headers' = Headers \cup {page}
  /\ Top(page)' = page + 1
  /\ \A b \in Headers : Top(b)' = Top(b)
  /\ \A t \in Trees : /\ Linked(t) = Headers
                      /\ Linked(t)' = Linked(t)
                      /\ Loose(t)' = Loose(t)
                      /\ Entering(t)' = {page}

LEMMA DeallocateEffect ==
  ASSUME Inv, NEW page \in held, Deallocate(page)
  PROVE  Frees(page)
<1> USE DEF Inv
<1>1. /\ pc = "idle" /\ op = "none" /\ activity = "none" /\ tree = "size"
      /\ node = nullptr /\ moving = nullptr /\ InHand = {}
  BY DEF Deallocate, Control, InHand
<1>2. page \in Pages /\ page \notin Headers
  BY TopType DEF Ownership, TypeOK
<1>3. /\ size' = [size EXCEPT ![page] = 4096]
      /\ held' = held \ {page} /\ ClearLinks({page})
      /\ pc' = "merge" /\ op' = "deallocate" /\ hand' = page
      /\ cursor' = root["address"] /\ result' = nullptr
      /\ UNCHANGED <<free_space, activity, tree, node, moving, request>>
  BY DEF Deallocate
<1>4. Headers' = Headers \cup {page}
  BY <1>2, <1>3, Region DEF Headers, TypeOK
<1>5. /\ Top(page)' = page + 1
      /\ \A b \in Headers : Top(b)' = Top(b)
  <2>1. size'[page] = 4096 /\ number_of_blocks(4096) = 1
    BY <1>2, <1>3 DEF TypeOK, number_of_blocks
  <2>2. \A b \in Headers : size'[b] = size[b]
    BY <1>2, <1>3 DEF TypeOK, Headers
  <2> QED BY <2>1, <2>2 DEF Top
<1>6. \A t \in Trees : /\ Linked(t) = Headers
                       /\ Linked(t)' = Linked(t)
                       /\ Loose(t)' = Loose(t)
                       /\ Entering(t)' = {page}
  BY <1>1, <1>2, <1>3, <1>4 DEF Linked, Loose, Entering, Removed, Added
<1> QED BY <1>1, <1>2, <1>3, <1>4, <1>5, <1>6 DEF Frees

(* deallocate() makes the caller's page a block that is to be added. *)
LEMMA DeallocateInv ==
  ASSUME Inv, NEW page \in held, Deallocate(page)
  PROVE  Inv'
<1> Frees(page)
  BY DeallocateEffect
<1> USE DEF Inv
<1>1. /\ op = "none" /\ activity = "none" /\ tree = "size"
      /\ node = nullptr /\ moving = nullptr /\ InHand = {}
  BY DEF Frees
<1>2. page \in Pages /\ page \notin Headers
  BY DEF Frees
<1>3. /\ size' = [size EXCEPT ![page] = 4096]
      /\ held' = held \ {page} /\ ClearLinks({page})
      /\ pc' = "merge" /\ op' = "deallocate" /\ hand' = page
      /\ cursor' = root["address"] /\ result' = nullptr
      /\ UNCHANGED <<free_space, activity, tree, node, moving, request>>
  BY DEF Frees
<1>4. Headers' = Headers \cup {page} /\ page \in Nat
  BY <1>2, Region DEF Frees
<1>5. /\ Top(page)' = page + 1
      /\ \A b \in Headers : Top(b)' = Top(b)
  BY DEF Frees
<1>6. TypeOK'
  <2>1. size' \in [Pages -> Nat]
    BY <1>3 DEF TypeOK
  <2> QED BY <1>2, <1>3, <2>1, ClearLinksType, Region DEF TypeOK, Trees
<1>7. Control'
  BY <1>1, <1>3, <1>4 DEF Control
<1>8. InHand' = {}
  BY <1>1, <1>3 DEF InHand
<1>9. Ownership'
  <2>1. \A b \in Headers : page < b \/ Top(b) <= page
    BY DEF Ownership
  <2>2. \A b \in Headers' : Top(b)' <= N
    BY <1>2, <1>4, <1>5, Region DEF Ownership
  <2>3. \A b, c \in Headers' : b < c => Top(b)' <= c
    BY <2>1, <1>4, <1>5, TopType DEF Ownership
  <2>4. \A b \in Headers' : \A q \in held' : q < b \/ Top(b)' <= q
    BY <2>1, <1>3, <1>4, <1>5, Region DEF Ownership, TypeOK
  <2>5. \A q \in Pages : q \in held' \/ \E b \in Headers' : b <= q /\ q < Top(b)'
    <3> SUFFICES ASSUME NEW q \in Pages, q \notin held'
                 PROVE  \E b \in Headers' : b <= q /\ q < Top(b)'
      OBVIOUS
    <3>1. CASE q = page
      BY <3>1, <1>4, <1>5
    <3>2. CASE q # page
      <4>1. PICK b \in Headers : b <= q /\ q < Top(b)
        BY <3>2, <1>1, <1>3 DEF Ownership
      <4> QED BY <4>1, <1>4, <1>5
    <3> QED BY <3>1, <3>2
  <2> QED BY <1>8, <2>2, <2>3, <2>4, <2>5 DEF Ownership
<1>10. \A t \in Trees : /\ Linked(t) = Headers
                        /\ Linked(t)' = Linked(t)
                        /\ Loose(t)' = Loose(t)
                        /\ Entering(t)' = {page}
  BY DEF Frees
<1>11. Forests'
  BY <1>2, <1>3, <1>10, ForestsFrame DEF ClearLinks, Headers
<1>12. Fresh'
  BY <1>2, <1>3, <1>10 DEF Fresh, ClearLinks
<1>13. Standing'
  <2>1. root["address"] \in Linked("address") \cup {nullptr}
    BY DEF Forests, Forest, Trees
  <2> QED BY <2>1, <1>3, <1>10 DEF Standing, Trees
<1> QED BY <1>6, <1>7, <1>9, <1>11, <1>12, <1>13

(* deallocate() begins to remove a neighbour. *)
LEMMA MergeFoundInv ==
  ASSUME Inv, MergeFound
  PROVE  Inv'
<1> USE DEF Inv, MergeFound, StartRemoving, links
<1>1. /\ op = "deallocate" /\ activity = "none"
      /\ cursor \in Headers /\ cursor # hand /\ moving = nullptr
  BY DEF Standing, Linked, Entering, Added, Control
<1>2. TypeOK'
  BY <1>1, Region DEF TypeOK, Headers, Trees
<1>3. Control'
  BY <1>1 DEF Control, Headers, EndsAt, Neighbour
<1>4. Ownership'
  BY <1>1, OwnershipFrame DEF InHand
<1>5. \A t \in Trees : Linked(t)' = Linked(t) /\ Loose(t)' = Loose(t) /\ Entering(t)' = Entering(t)
  BY <1>1 DEF Linked, Loose, Entering, Removed, Added, Headers
<1>6. Forests'
  BY <1>5, ForestsFrame
<1>7. Fresh'
  BY <1>5 DEF Fresh
<1>8. Standing'
  BY DEF Standing
<1> QED BY <1>2, <1>3, <1>4, <1>6, <1>7, <1>8

(* The search for a neighbour moves to a child. *)
LEMMA MergeSearchOnInv ==
  ASSUME Inv, MergeSearchOn
  PROVE  Inv'
<1> USE DEF Inv, MergeSearchOn, links
<1>1. cursor \in Linked("address")
  BY DEF Standing
<1>2. cursor' \in Linked("address") \cup {nullptr}
  BY <1>1 DEF Forests, Forest, Trees
<1>3. TypeOK'
  BY <1>2, Region DEF TypeOK, Linked, Headers
<1>4. Control'
  BY DEF Control, Headers, EndsAt, Granted
<1>5. Ownership'
  BY OwnershipFrame DEF InHand, Granted
<1>6. \A t \in Trees : Linked(t)' = Linked(t) /\ Loose(t)' = Loose(t) /\ Entering(t)' = Entering(t)
  BY DEF Linked, Loose, Entering, Removed, Added, Headers
<1>7. Forests'
  BY <1>6, ForestsFrame
<1>8. Fresh'
  BY <1>6 DEF Fresh
<1>9. Standing'
  BY <1>2, <1>6 DEF Standing, Trees
<1> QED BY <1>3, <1>4, <1>5, <1>7, <1>8, <1>9

(* No neighbour is left and the merged block is added. *)
LEMMA MergeDoneInv ==
  ASSUME Inv, MergeDone
  PROVE  Inv'
<1> USE DEF Inv, MergeDone, StartAdding, links
<1>1. op = "deallocate" /\ activity = "none" /\ hand \in Headers
  BY DEF Control
<1>2. TypeOK'
  BY Region DEF TypeOK, Trees
<1>3. Control'
  BY <1>1 DEF Control, Headers
<1>4. Ownership'
  BY <1>1, OwnershipFrame DEF InHand
<1>5. \A t \in Trees : Linked(t)' = Linked(t) /\ Loose(t)' = Loose(t) /\ Entering(t)' = Entering(t)
  BY <1>1 DEF Linked, Loose, Entering, Removed, Added, Headers, Trees
<1>6. Forests'
  BY <1>5, ForestsFrame
<1>7. Fresh'
  BY <1>5 DEF Fresh
<1>8. Standing'
  BY DEF Standing
<1> QED BY <1>2, <1>3, <1>4, <1>6, <1>7, <1>8

(* The block is in both trees and the call returns. *)
LEMMA AttachedInv ==
  ASSUME Inv, Attached
  PROVE  Inv'
<1> USE DEF Inv, Attached, Return, links
<1>1. /\ activity = "add" /\ pc = "attached" /\ op \in {"allocate", "deallocate"}
      /\ node \in Headers /\ hand \in Pages
  BY DEF Control, TypeOK, Headers
<1>2. held' = held \cup InHand /\ InHand' = {} /\ size' = size /\ InHand \subseteq Pages
  BY <1>1 DEF InHand, Control
<1>3. TypeOK'
  BY <1>1, <1>2, Region DEF TypeOK, Trees, Headers
<1>4. Control'
  BY DEF Control
<1>5. Ownership'
  BY <1>2 DEF Ownership, Top, Headers
<1>6. \A t \in Trees : Linked(t)' = Linked(t) /\ Loose(t)' = Loose(t) /\ Entering(t)' = {}
  BY <1>1 DEF Linked, Loose, Entering, Removed, Added, Headers
<1>7. Forests'
  BY <1>6, ForestsFrame
<1>8. Fresh'
  BY <1>6 DEF Fresh
<1>9. Standing'
  BY DEF Standing
<1> QED BY <1>3, <1>4, <1>5, <1>7, <1>8, <1>9

(* What Merge does to the blocks: the lower of the removed neighbour and    *)
(* the block in hand gets the pages of both.                                *)
Joins(lower, upper) ==
  /\ pc = "unlinked" /\ op = "deallocate" /\ activity = "remove" /\ tree = "size"
  /\ moving = nullptr
  /\ lower \in Headers /\ upper \in Headers /\ lower < upper
  /\ {lower, upper} = {node, hand}
  /\ EndsAt(lower, upper)
  /\ size' = [size EXCEPT ![lower] = size[lower] + size[upper], ![upper] = 0]
  /\ free_space' = free_space - size[node]
  /\ ClearLinks({node})
  /\ hand' = lower /\ pc' = "merge" /\ cursor' = root["address"]
  /\ activity' = "none" /\ node' = nullptr
  /\ UNCHANGED <<held, result, op, tree, moving, request>>
  /\ Headers' = Headers \ {upper}
  /\ Top(lower) = upper
  /\ Top(lower)' = Top(upper)
  /\ \A b \in Headers \ {lower, upper} : Top(b)' = Top(b)
  /\ \A t \in Trees : /\ Linked(t) = Headers \ {lower, upper}
                      /\ Linked(t)' = Linked(t)
                      /\ Loose(t)' = Loose(t)
                      /\ Entering(t) = {hand}
                      /\ Entering(t)' = {lower}

LEMMA MergeEffect ==
  ASSUME Inv, Merge
  PROVE  \E lower, upper \in Headers : Joins(lower, upper)
<1> USE DEF Inv
<1> PICK lower, upper : /\ lower = IF node < hand THEN node ELSE hand
                        /\ upper = IF node < hand THEN hand ELSE node
  OBVIOUS
<1>1. /\ pc = "unlinked" /\ op = "deallocate" /\ activity = "remove" /\ tree = "size"
      /\ hand \in Headers /\ node \in Headers /\ node # hand
      /\ EndsAt(node, hand) \/ EndsAt(hand, node)
      /\ moving = nullptr
  BY DEF Merge, Control
<1>2. /\ size' = [size EXCEPT ![lower] = size[lower] + size[upper], ![upper] = 0]
      /\ ClearLinks({node})
      /\ hand' = lower /\ pc' = "merge" /\ cursor' = root["address"]
      /\ activity' = "none" /\ node' = nullptr
      /\ UNCHANGED <<held, result, op, tree, moving, request>>
  BY DEF Merge, MergedSize, RestartSearch
<1>3. /\ hand \in Nat /\ size[hand] \in Nat /\ size[hand] > 0
      /\ node \in Nat /\ size[node] \in Nat /\ size[node] > 0
  BY <1>1, TopType DEF Headers
<1>4. /\ lower \in Headers /\ upper \in Headers /\ lower < upper
      /\ {lower, upper} = {node, hand}
      /\ EndsAt(lower, upper)
  BY <1>1, <1>3 DEF EndsAt
<1>5. /\ lower \in Nat /\ size[lower] \in Nat /\ size[lower] > 0
      /\ upper \in Nat /\ size[upper] \in Nat /\ size[upper] > 0
  BY <1>3, <1>4
<1>6. Headers' = Headers \ {upper}
  <2>1. lower \in Pages /\ upper \in Pages /\ lower # upper
    BY <1>4, <1>5 DEF Headers
  <2>2. size[lower] + size[upper] \in Nat /\ size[lower] + size[upper] > 0
    BY <1>5
  <2>3. size' = [b \in Pages |-> IF b = upper THEN 0
                                 ELSE IF b = lower THEN size[lower] + size[upper]
                                 ELSE size[b]]
    BY <1>2, <2>1 DEF TypeOK
  <2> HIDE DEF Inv
  <2> QED BY <2>1, <2>2, <2>3, <1>4, <1>5 DEF Headers, TypeOK, Inv
<1>7. /\ Top(lower) = upper
      /\ Top(lower)' = Top(upper)
      /\ \A b \in Headers \ {lower, upper} : Top(b)' = Top(b)
  <2>1. size[lower] = (upper - lower) * 4096
    BY <1>4, <1>5 DEF EndsAt
  <2>2. number_of_blocks(size[lower]) = upper - lower
    BY <1>4, <1>5, <2>1 DEF number_of_blocks
  <2>3. number_of_blocks(size[lower] + size[upper])
          = (upper - lower) + number_of_blocks(size[upper])
    BY <1>4, <1>5, <2>1 DEF number_of_blocks
  <2>4. size'[lower] = size[lower] + size[upper]
    BY <1>2, <1>4 DEF TypeOK, Headers
  <2>5. \A b \in Headers \ {lower, upper} : size'[b] = size[b]
    BY <1>2 DEF TypeOK, Headers
  <2>6. number_of_blocks(size[upper]) \in Nat
    BY <1>5 DEF number_of_blocks
  <2>7. Top(lower) = upper
    BY <1>5, <2>2 DEF Top
  <2>8. Top(lower)' = lower + number_of_blocks(size[lower] + size[upper])
    BY <2>4 DEF Top
  <2>9. Top(lower)' = Top(upper)
    BY <2>3, <2>6, <2>8, <1>5 DEF Top
  <2> QED BY <2>5, <2>7, <2>9 DEF Top
<1>8. free_space' = free_space - size[node]
  BY DEF Merge
<1>9. \A t \in Trees : /\ Linked(t) = Headers \ {lower, upper}
                       /\ Linked(t)' = Linked(t)
                       /\ Loose(t)' = Loose(t)
                       /\ Entering(t) = {hand}
                       /\ Entering(t)' = {lower}
  BY <1>1, <1>2, <1>4, <1>6 DEF Linked, Loose, Entering, Removed, Added
<1>10. Joins(lower, upper)
  BY <1>1, <1>2, <1>4, <1>6, <1>7, <1>8, <1>9 DEF Joins
<1> QED BY <1>4, <1>10

(* The removed neighbour and the block in hand become one block. *)
LEMMA MergeInv ==
  ASSUME Inv, Merge
  PROVE  Inv'
<1> USE DEF Inv
<1> PICK lower, upper \in Headers : Joins(lower, upper)
  BY MergeEffect
<1>1. /\ op = "deallocate" /\ activity = "remove" /\ tree = "size"
      /\ hand \in Headers /\ node \in Headers /\ moving = nullptr
  BY DEF Joins, Control
<1>2. /\ size' = [size EXCEPT ![lower] = size[lower] + size[upper], ![upper] = 0]
      /\ ClearLinks({node})
      /\ hand' = lower /\ pc' = "merge" /\ cursor' = root["address"]
      /\ activity' = "none" /\ node' = nullptr
      /\ UNCHANGED <<held, result, op, tree, moving, request>>
  BY DEF Joins
<1>3. node \in Nat /\ size[node] \in Nat
  BY <1>1, TopType
<1>4. /\ lower \in Headers /\ upper \in Headers /\ lower < upper
      /\ {lower, upper} = {node, hand}
  BY DEF Joins
<1>5. /\ lower \in Nat /\ size[lower] \in Nat
      /\ upper \in Nat /\ size[upper] \in Nat
  BY TopType
<1>6. /\ Headers' = Headers \ {upper}
      /\ size' \in [Pages -> Nat]
  <2>1. size[lower] + size[upper] \in Nat
    BY <1>5
  <2>2. size' \in [Pages -> Nat]
    BY <2>1, <1>2 DEF TypeOK
  <2> QED BY <2>2 DEF Joins
<1>7. /\ Top(lower) = upper
      /\ Top(lower)' = Top(upper)
      /\ \A b \in Headers \ {lower, upper} : Top(b)' = Top(b)
  BY DEF Joins
<1>8. free_space' \in Int
  BY <1>3 DEF Merge, TypeOK
<1>9. TypeOK'
  BY <1>2, <1>4, <1>6, <1>8, ClearLinksType, Region DEF TypeOK, Trees, Headers
<1>10. Control'
  BY <1>1, <1>2, <1>4, <1>6 DEF Control
<1>11. InHand = {} /\ InHand' = {}
  BY <1>1, <1>2 DEF InHand
<1>12. Ownership'
  <2> USE TopType
  <2>1. \A b \in Headers' : Top(b)' <= N
    BY <1>4, <1>6, <1>7 DEF Ownership
  <2>2. \A b, c \in Headers' : b < c => Top(b)' <= c
    <3> SUFFICES ASSUME NEW b \in Headers', NEW c \in Headers', b < c
                 PROVE  Top(b)' <= c
      OBVIOUS
    <3>1. CASE b = lower
      <4>1. c \in Headers /\ c # upper /\ upper <= c
        BY <3>1, <1>4, <1>6, <1>7 DEF Ownership
      <4>2. Top(upper) <= c
        BY <4>1, <1>4 DEF Ownership
      <4> QED BY <3>1, <4>2, <1>7
    <3>2. CASE b # lower
      BY <3>2, <1>6, <1>7 DEF Ownership
    <3> QED BY <3>1, <3>2
  <2>3. \A b \in Headers' : \A q \in held' : q < b \/ Top(b)' <= q
    <3> SUFFICES ASSUME NEW b \in Headers', NEW q \in held
                 PROVE  q < b \/ Top(b)' <= q
      BY <1>2
    <3>1. CASE b = lower
      <4>1. (q < lower \/ Top(lower) <= q) /\ (q < upper \/ Top(upper) <= q)
        BY <1>4 DEF Ownership
      <4>2. q \in Nat
        BY Region DEF TypeOK
      <4> QED BY <3>1, <4>1, <4>2, <1>4, <1>5, <1>7
    <3>2. CASE b # lower
      BY <3>2, <1>6, <1>7 DEF Ownership
    <3> QED BY <3>1, <3>2
  <2>4. \A q \in Pages : q \in held' \/ \E b \in Headers' : b <= q /\ q < Top(b)'
    <3> SUFFICES ASSUME NEW q \in Pages, q \notin held
                 PROVE  \E b \in Headers' : b <= q /\ q < Top(b)'
      BY <1>2
    <3>1. PICK b \in Headers : b <= q /\ q < Top(b)
      BY <1>11 DEF Ownership
    <3>2. CASE b \in {lower, upper}
      <4>1. lower <= q /\ q < Top(upper)
        BY <3>1, <3>2, <1>4, <1>5, <1>7, Region
      <4>2. lower \in Headers'
        BY <1>4, <1>5, <1>6
      <4> QED BY <4>1, <4>2, <1>7
    <3>3. CASE b \notin {lower, upper}
      BY <3>1, <3>3, <1>6, <1>7
    <3> QED BY <3>2, <3>3
  <2> QED BY <1>11, <2>1, <2>2, <2>3, <2>4 DEF Ownership
<1>13. \A t \in Trees : /\ Linked(t) = Headers \ {lower, upper}
                        /\ Linked(t)' = Linked(t)
                        /\ Loose(t)' = Loose(t)
                        /\ Entering(t) = {hand}
                        /\ Entering(t)' = {lower}
  BY DEF Joins
<1>14. Forests'
  BY <1>2, <1>4, <1>13, ForestsFrame DEF ClearLinks, Headers
<1>15. Fresh'
  BY <1>2, <1>4, <1>13 DEF Fresh, ClearLinks, Headers
<1>16. Standing'
  <2>1. root["address"] \in Linked("address") \cup {nullptr}
    BY DEF Forests, Forest, Trees
  <2> QED BY <2>1, <1>2, <1>13 DEF Standing, Trees
<1> QED BY <1>9, <1>10, <1>12, <1>14, <1>15, <1>16

(* What Unlink does to tree here, whose blocks are L: the links of the      *)
(* blocks that stay, which are those of ForestRemove. A right subtree is    *)
(* left over if there is a place to add it to, rest.                        *)
TakesOut(here, L, parent, l, r, rest) ==
  /\ pc = "unlink" /\ activity = "remove" /\ tree = here
  /\ L = Linked(here) /\ node \in L /\ Loose(here) = nullptr
  /\ parent = pred[here][node] /\ l = left[here][node] /\ r = right[here][node]
  /\ rest = IF parent = nullptr THEN l ELSE root[here]
  /\ Linked(here)' = L \ {node}
  /\ root'[here] = IF rest = nullptr THEN r ELSE rest
  /\ Loose(here)' = IF rest = nullptr THEN nullptr ELSE r
  /\ \A b \in L \ {node} :
       /\ pred'[here][b] = IF b = r THEN nullptr
                           ELSE IF b = l THEN parent ELSE pred[here][b]
       /\ left'[here][b] = IF b = parent /\ left[here][b] = node THEN l ELSE left[here][b]
       /\ right'[here][b] = IF b = parent /\ left[here][b] # node /\ right[here][b] = node
                            THEN l ELSE right[here][b]
  /\ \A t \in Trees \ {here} : /\ Linked(t)' = Linked(t) /\ Loose(t)' = Loose(t)
                               /\ root'[t] = root[t] /\ pred'[t] = pred[t]
                               /\ left'[t] = left[t] /\ right'[t] = right[t]
  /\ UNCHANGED <<size, free_space, held, result, op, activity, node, hand, request>>
  /\ \/ /\ r # nullptr /\ rest # nullptr
        /\ pc' = "descend" /\ moving' = r /\ cursor' = rest /\ tree' = tree
     \/ /\ r = nullptr \/ rest = nullptr
        /\ moving' = nullptr /\ cursor' = nullptr
        /\ \/ tree = "size" /\ tree' = "address" /\ pc' = "unlink"
           \/ tree = "address" /\ tree' = "size" /\ pc' = "unlinked"

LEMMA UnlinkEffect ==
  ASSUME Inv, Unlink
  PROVE  \E here \in Trees : \E L, parent, l, r, rest : TakesOut(here, L, parent, l, r, rest)
<1> USE DEF Inv
<1> PICK here \in Trees : here = tree
  BY DEF TypeOK
<1> PICK parent, l, r, rest : /\ parent = pred[tree][node]
                              /\ l = left[tree][node]
                              /\ r = right[tree][node]
                              /\ rest = IF parent = nullptr THEN l ELSE root[tree]
  OBVIOUS
<1>1. /\ pc = "unlink" /\ activity = "remove" /\ op \in {"allocate", "deallocate"}
      /\ node \in Headers /\ node \in Pages /\ cursor = nullptr /\ moving = nullptr
      /\ tree \in Trees
  BY DEF Unlink, Control, Headers, TypeOK
<1>2. /\ left' = IF parent # nullptr /\ left[tree][parent] = node
                 THEN [left EXCEPT ![tree][parent] = l] ELSE left
      /\ right' = IF /\ parent # nullptr
                     /\ left[tree][parent] # node
                     /\ right[tree][parent] = node
                  THEN [right EXCEPT ![tree][parent] = l] ELSE right
      /\ pred' = [pred EXCEPT ![tree] =
                    [b \in Pages |-> IF b = r THEN nullptr
                                     ELSE IF b = l THEN parent ELSE pred[tree][b]]]
      /\ root' = [root EXCEPT ![tree] = IF rest = nullptr THEN r ELSE rest]
      /\ UNCHANGED <<size, free_space, held, result, op, activity, node, hand, request>>
  BY DEF Unlink, ReplaceAtPredecessor, Reparented, TreeDone
<1>3. \/ /\ r # nullptr /\ rest # nullptr
         /\ pc' = "descend" /\ moving' = r /\ cursor' = rest /\ tree' = tree
      \/ /\ r = nullptr \/ rest = nullptr
         /\ moving' = nullptr /\ cursor' = nullptr
         /\ \/ tree = "size" /\ tree' = "address" /\ pc' = "unlink"
            \/ tree = "address" /\ tree' = "size" /\ pc' = "unlinked"
  BY <1>1 DEF Unlink, TreeDone, Trees
<1>4. \A t \in Trees \ {here} : /\ Linked(t)' = Linked(t)
                                /\ Loose(t)' = Loose(t)
  BY <1>1, <1>2, <1>3 DEF Linked, Loose, Entering, Removed, Added, Headers, Trees
<1>5. /\ node \in Linked(here)
      /\ Linked(here)' = Linked(here) \ {node}
      /\ Loose(here) = nullptr
      /\ Linked(here) \subseteq Pages
  BY <1>1, <1>2, <1>3 DEF Linked, Loose, Entering, Removed, Added, Headers, Trees, Control
<1>6. Loose(here)' = IF rest = nullptr THEN nullptr ELSE r
  BY <1>1, <1>2, <1>3 DEF Loose, Trees
<1>7. \A b \in Linked(here) \ {node} :
        /\ pred'[here][b] = IF b = r THEN nullptr
                            ELSE IF b = l THEN parent ELSE pred[here][b]
        /\ left'[here][b] = IF b = parent /\ left[here][b] = node
                            THEN l ELSE left[here][b]
        /\ right'[here][b] = IF b = parent /\ left[here][b] # node /\ right[here][b] = node
                             THEN l ELSE right[here][b]
  BY <1>1, <1>2, <1>5, Region DEF TypeOK
<1>8. /\ root'[here] = IF rest = nullptr THEN r ELSE rest
      /\ \A t \in Trees \ {here} : /\ root'[t] = root[t] /\ pred'[t] = pred[t]
                                   /\ left'[t] = left[t] /\ right'[t] = right[t]
  BY <1>2 DEF TypeOK
<1>9. TakesOut(here, Linked(here), parent, l, r, rest)
  BY <1>1, <1>2, <1>3, <1>4, <1>5, <1>6, <1>7, <1>8 DEF TakesOut
<1> QED BY <1>9

(* The step of remove_node_from_tree on one tree: ForestRemove, and the     *)
(* start of the descent when there is a subtree to add back.                *)
LEMMA UnlinkInv ==
  ASSUME Inv, Unlink
  PROVE  Inv'
<1> USE DEF Inv
<1> PICK here \in Trees : \E L, parent, l, r, rest : TakesOut(here, L, parent, l, r, rest)
  BY UnlinkEffect
<1> PICK L, parent, l, r, rest : TakesOut(here, L, parent, l, r, rest)
  OBVIOUS
<1>1. /\ pc = "unlink" /\ activity = "remove" /\ op \in {"allocate", "deallocate"}
      /\ node \in Headers /\ node \in Pages /\ cursor = nullptr /\ moving = nullptr
      /\ tree \in Trees /\ tree = here
      /\ L = Linked(here) /\ node \in L /\ L \subseteq Pages /\ Loose(here) = nullptr
      /\ parent = pred[here][node] /\ l = left[here][node] /\ r = right[here][node]
      /\ rest = IF parent = nullptr THEN l ELSE root[here]
  BY DEF TakesOut, Control, Headers, TypeOK, Linked
<1>2. UNCHANGED <<size, free_space, held, result, op, activity, node, hand, request>>
  BY DEF TakesOut
<1>3. \/ /\ r # nullptr /\ rest # nullptr
         /\ pc' = "descend" /\ moving' = r /\ cursor' = rest /\ tree' = tree
      \/ /\ r = nullptr \/ rest = nullptr
         /\ moving' = nullptr /\ cursor' = nullptr
         /\ \/ tree = "size" /\ tree' = "address" /\ pc' = "unlink"
            \/ tree = "address" /\ tree' = "size" /\ pc' = "unlinked"
  BY DEF TakesOut
<1>4. parent \in Pointers /\ l \in Pointers /\ r \in Pointers /\ rest \in Pointers
  BY <1>1 DEF TypeOK
<1>5. TypeOK'
  <2>1. root' \in [Trees -> Pointers] /\ pred' \in [Trees -> [Pages -> Pointers]]
    BY <1>1, <1>4, Region DEF TypeOK, Unlink, Reparented
  <2>2. left' \in [Trees -> [Pages -> Pointers]] /\ right' \in [Trees -> [Pages -> Pointers]]
    BY <1>1, <1>4, Region DEF TypeOK, Unlink, ReplaceAtPredecessor
  <2> QED BY <1>2, <1>3, <1>4, <2>1, <2>2, Region DEF TypeOK, Trees
<1>6. Control'
  BY <1>1, <1>2, <1>3 DEF Control, Headers, EndsAt
<1>7. Ownership'
  BY <1>1, <1>2, OwnershipFrame DEF InHand
<1>8. /\ \A b \in L \ {node} :
            /\ pred'[here][b] = IF b = r THEN nullptr
                                ELSE IF b = l THEN parent ELSE pred[here][b]
            /\ left'[here][b] = IF b = parent /\ left[here][b] = node
                                THEN l ELSE left[here][b]
            /\ right'[here][b] = IF b = parent /\ left[here][b] # node /\ right[here][b] = node
                                 THEN l ELSE right[here][b]
      /\ Linked(here)' = L \ {node}
      /\ root'[here] = IF rest = nullptr THEN r ELSE rest
      /\ Loose(here)' = IF rest = nullptr THEN nullptr ELSE r
  BY DEF TakesOut
<1>9. \A t \in Trees \ {here} : /\ Linked(t)' = Linked(t) /\ Loose(t)' = Loose(t)
                                /\ root'[t] = root[t] /\ pred'[t] = pred[t]
                                /\ left'[t] = left[t] /\ right'[t] = right[t]
  BY DEF TakesOut
<1>10. \A t \in Trees : Entering(t)' = Entering(t)
  BY <1>1, <1>2 DEF Entering, Added
<1>11. Forest(L, root[here], nullptr, pred[here], left[here], right[here])
  BY <1>1 DEF Forests
<1>12. Forest(L \ {node}, root'[here], Loose(here)', pred'[here], left'[here], right'[here])
  <2> PICK top2, loose2 : top2 = root'[here] /\ loose2 = Loose(here)'
    OBVIOUS
  <2>1. rest = nullptr => top2 = r /\ loose2 = nullptr
    BY <1>8
  <2>2. rest # nullptr => top2 = rest /\ loose2 = r
    BY <1>8
  <2> HIDE DEF Inv
  <2> QED BY <2>1, <2>2, <1>1, <1>8, <1>11, ForestRemove
<1>13. Forests'
  <2> SUFFICES ASSUME NEW t \in Trees
               PROVE  Forest(Linked(t), root[t], Loose(t), pred[t], left[t], right[t])'
    BY DEF Forests
  <2>1. CASE t = here
    BY <2>1, <1>8, <1>12
  <2>2. CASE t # here
    BY <2>2, <1>9 DEF Forests
  <2> QED BY <2>1, <2>2
<1>14. Fresh'
  <2>1. \A t \in Trees : \A b \in Entering(t) : b # parent
    <3>1. \A t \in Trees : \A b \in Entering(t) : op = "deallocate" /\ b = hand
      BY <1>1 DEF Entering, Added
    <3>2. parent # nullptr => parent \in L
      BY <1>1, <1>11 DEF Forest
    <3>3. op = "deallocate" => hand \notin L
      BY <1>1 DEF Linked, Entering, Added
    <3> QED BY <3>1, <3>2, <3>3, <1>1, Region DEF Control, Headers
  <2>2. /\ left' = IF parent # nullptr /\ left[tree][parent] = node
                   THEN [left EXCEPT ![tree][parent] = l] ELSE left
        /\ right' = IF /\ parent # nullptr
                       /\ left[tree][parent] # node
                       /\ right[tree][parent] = node
                    THEN [right EXCEPT ![tree][parent] = l] ELSE right
    BY <1>1 DEF Unlink, ReplaceAtPredecessor
  <2> QED BY <2>1, <2>2, <1>1, <1>4, <1>10, Region DEF Fresh, TypeOK
<1>15. Standing'
  <2> SUFFICES ASSUME pc' = "descend"
               PROVE  Standing'
    BY <1>3 DEF Standing
  <2>1. /\ r # nullptr /\ rest # nullptr
        /\ moving' = r /\ cursor' = rest /\ tree' = tree /\ activity' = "remove"
    BY <1>1, <1>2, <1>3
  <2>2. /\ rest \in L \ {node} /\ pred'[here][rest] = nullptr /\ rest # r
        /\ r \in L \ {node}
    BY <1>8, <1>12, <2>1 DEF Forest
  <2>3. Above({rest}, L \ {node}, pred'[here], rest, r)
    BY <2>2 DEF Above
  <2>4. Linked(here)' = L \ {node}
    BY <1>8
  <2>5. Above({rest}, Linked(tree), pred[tree], cursor, moving)'
    BY <2>1, <2>3, <2>4, <1>1
  <2> QED BY <2>1, <2>2, <2>4, <2>5, <1>1 DEF Standing
<1> QED BY <1>5, <1>6, <1>7, <1>13, <1>14, <1>15

(* What Attach does to the trees: the block is all of an empty tree, or the *)
(* search for its place starts.                                             *)
LEMMA AttachEffect ==
  ASSUME Inv, Attach, NEW here \in Trees, here = tree
  PROVE  /\ node \in Headers /\ node # nullptr
         /\ Entering(here) = {node} /\ node \notin Linked(here) /\ Loose(here) = nullptr
         /\ left[here][node] = nullptr /\ right[here][node] = nullptr
         /\ UNCHANGED <<left, right, size, free_space, held, result, op, activity, node,
                        hand, request>>
         /\ \A t \in Trees \ {here} : /\ Linked(t)' = Linked(t)
                                      /\ Loose(t)' = Loose(t)
                                      /\ Entering(t)' = Entering(t)
         /\ \/ /\ root[here] = nullptr
               /\ Linked(here) = {} /\ Linked(here)' = {node}
               /\ Loose(here)' = nullptr /\ Entering(here)' = {}
               /\ pc' \in {"attach", "attached"}
            \/ /\ root[here] # nullptr
               /\ pc' = "descend" /\ moving' = node /\ cursor' = root[here]
               /\ UNCHANGED <<root, pred, tree>>
               /\ Linked(here)' = Linked(here)
               /\ Loose(here)' = nullptr /\ Entering(here)' = Entering(here)
<1> USE DEF Inv
<1>1. /\ pc = "attach" /\ activity = "add" /\ op \in {"allocate", "deallocate"}
      /\ node \in Headers /\ node \in Pages /\ node # nullptr
      /\ cursor = nullptr /\ moving = nullptr
      /\ op = "deallocate" => node = hand
  BY Region DEF Attach, Control, TypeOK, Headers
<1>2. UNCHANGED <<left, right, size, free_space, held, result, op, activity, node, hand, request>>
  BY DEF Attach, TreeDone
<1>3. Entering(here) = {node} /\ left[here][node] = nullptr /\ right[here][node] = nullptr
  BY <1>1 DEF Entering, Added, Fresh
<1>4. node \notin Linked(here) /\ Loose(here) = nullptr
  BY <1>1, <1>3 DEF Linked, Loose
<1>5. CASE root[here] = nullptr
  <2>1. \/ here = "size" /\ tree' = "address" /\ pc' = "attach"
        \/ here = "address" /\ tree' = "size" /\ pc' = "attached"
    BY <1>1, <1>5 DEF Attach, TreeDone, Trees
  <2>2. Linked(here) = {}
    <3>1. Forest(Linked(here), root[here], nullptr, pred[here], left[here], right[here])
      BY <1>4 DEF Forests
    <3> QED BY <3>1, <1>5, ForestWithoutTop
  <2>3. Linked(here)' = {node} /\ Loose(here)' = nullptr /\ Entering(here)' = {}
    BY <2>1, <2>2, <1>1, <1>2, <1>3 DEF Linked, Loose, Entering, Removed, Added, Headers
  <2>4. \A t \in Trees \ {here} : /\ Linked(t)' = Linked(t)
                                  /\ Loose(t)' = Loose(t)
                                  /\ Entering(t)' = Entering(t)
    BY <2>1, <1>1, <1>2 DEF Linked, Loose, Entering, Removed, Added, Headers, Trees
  <2> QED BY <2>1, <2>2, <2>3, <2>4, <1>1, <1>2, <1>3, <1>4, <1>5
<1>6. CASE root[here] # nullptr
  <2>1. /\ pc' = "descend" /\ moving' = node /\ cursor' = root[here]
        /\ UNCHANGED <<root, pred, tree>>
    BY <1>6 DEF Attach
  <2>2. \A t \in Trees : /\ Linked(t)' = Linked(t)
                         /\ Loose(t)' = Loose(t)
                         /\ Entering(t)' = Entering(t)
    BY <2>1, <1>1, <1>2 DEF Linked, Loose, Entering, Removed, Added, Headers
  <2> QED BY <2>1, <2>2, <1>1, <1>2, <1>3, <1>4, <1>6
<1> QED BY <1>5, <1>6

(* add_node_to_tree on one tree up to its loop. *)
LEMMA AttachInv ==
  ASSUME Inv, Attach
  PROVE  Inv'
<1> USE DEF Inv
<1> PICK here \in Trees : here = tree
  BY DEF TypeOK
<1>1. /\ pc = "attach" /\ activity = "add" /\ op \in {"allocate", "deallocate"}
      /\ node \in Headers /\ node \in Pages /\ node # nullptr
      /\ cursor = nullptr /\ moving = nullptr
      /\ op = "deallocate" => node = hand
  BY Region DEF Attach, Control, TypeOK, Headers
<1>2. UNCHANGED <<left, right, size, free_space, held, result, op, activity, node, hand, request>>
  BY AttachEffect
<1>3. Entering(here) = {node} /\ left[here][node] = nullptr /\ right[here][node] = nullptr
  BY AttachEffect
<1>4. /\ Linked(here) \subseteq Headers
      /\ node \notin Linked(here)
      /\ Loose(here) = nullptr
  BY AttachEffect DEF Linked
<1>5. Forest(Linked(here), root[here], nullptr, pred[here], left[here], right[here])
  BY <1>4 DEF Forests
<1>6. Ownership'
  BY <1>2, OwnershipFrame DEF InHand, Granted
<1>7. CASE root[here] = nullptr
  <2>1. /\ root' = [root EXCEPT ![here] = node]
        /\ pred' = [pred EXCEPT ![here][node] = nullptr]
        /\ moving' = nullptr /\ cursor' = nullptr
        /\ \/ here = "size" /\ tree' = "address" /\ pc' = "attach"
           \/ here = "address" /\ tree' = "size" /\ pc' = "attached"
    BY <1>1, <1>7 DEF Attach, TreeDone, Trees
  <2>2. TypeOK'
    BY <2>1, <1>1, <1>2, Region DEF TypeOK, Trees
  <2>3. Control'
    BY <2>1, <1>1, <1>2 DEF Control, Headers, EndsAt, Granted
  <2>4. Linked(here) = {}
    BY <1>7, AttachEffect
  <2>5. /\ Linked(here)' = {node}
        /\ Loose(here)' = nullptr
        /\ Entering(here)' = {}
    BY <1>7, AttachEffect
  <2>6. \A t \in Trees \ {here} : /\ Linked(t)' = Linked(t)
                                  /\ Loose(t)' = Loose(t)
                                  /\ Entering(t)' = Entering(t)
    BY AttachEffect
  <2>7. Forest({node}, node, nullptr, pred'[here], left'[here], right'[here])
    BY <2>1, <1>1, <1>2, <1>3, ForestOfOne DEF TypeOK
  <2>8. Forests'
    <3> SUFFICES ASSUME NEW t \in Trees
                 PROVE  Forest(Linked(t), root[t], Loose(t), pred[t], left[t], right[t])'
      BY DEF Forests
    <3>1. CASE t = here
      BY <3>1, <2>1, <2>5, <2>7 DEF TypeOK
    <3>2. CASE t # here
      <4>1. root'[t] = root[t] /\ pred'[t] = pred[t]
        BY <3>2, <2>1 DEF TypeOK
      <4> QED BY <3>2, <4>1, <2>6, <1>2 DEF Forests
    <3> QED BY <3>1, <3>2
  <2>9. Fresh'
    BY <2>5, <2>6, <1>2 DEF Fresh
  <2>10. Standing'
    BY <2>1 DEF Standing
  <2> QED BY <2>2, <2>3, <2>8, <2>9, <2>10, <1>6
<1>8. CASE root[here] # nullptr
  <2>1. /\ pc' = "descend" /\ moving' = node /\ cursor' = root[here]
        /\ UNCHANGED <<root, pred, tree>>
    BY <1>8 DEF Attach
  <2>2. TypeOK'
    BY <2>1, <1>1, <1>2, Region DEF TypeOK, Trees
  <2>3. Control'
    BY <2>1, <1>1, <1>2 DEF Control, Headers, EndsAt, Granted
  <2>4. \A t \in Trees : /\ Linked(t)' = Linked(t)
                         /\ Loose(t)' = Loose(t)
                         /\ Entering(t)' = Entering(t)
    BY <1>4, <1>8, AttachEffect
  <2>5. Forests'
    BY <2>1, <2>4, <1>2, ForestsFrame
  <2>6. Fresh'
    BY <2>4, <1>2 DEF Fresh
  <2>7. Standing'
    <3>1. root[here] \in Linked(here) /\ pred[here][root[here]] = nullptr
      BY <1>5, <1>8 DEF Forest
    <3>2. Above({root[here]}, Linked(here), pred[here], root[here], node)
      BY <3>1, <1>4 DEF Above
    <3>3. {root[here]} \in SUBSET Linked(here)
      BY <3>1
    <3> QED BY <3>1, <3>2, <3>3, <2>1, <2>4, <1>1, <1>2 DEF Standing
  <2> QED BY <2>2, <2>3, <2>5, <2>6, <2>7, <1>6
<1> QED BY <1>7, <1>8

(* A descent that moves to a child keeps the way up from the cursor free of *)
(* the block that is added.                                                 *)
LEMMA DescendFurtherInv ==
  ASSUME Inv, pc = "descend",
         cursor' \in {left[tree][cursor], right[tree][cursor]},
         cursor' # nullptr,
         UNCHANGED <<links, size, free_space, held, result, pc, op, activity,
                     tree, node, moving, hand, request>>
  PROVE  Inv'
<1> USE DEF Inv, links
<1> PICK here \in Trees : here = tree
  BY DEF TypeOK
<1> PICK P \in SUBSET Linked(here) :
           Above(P, Linked(here), pred[here], cursor, moving)
  BY DEF Standing
<1>1. cursor \in Linked(here)
  BY DEF Standing
<1>2. cursor' \in Linked(here) /\ pred[here][cursor'] = cursor
  BY <1>1 DEF Forests, Forest
<1>3. moving # cursor'
  <2>1. CASE activity = "remove"
    BY <2>1, <1>1, <1>2 DEF Forests, Forest, Loose, Standing
  <2>2. CASE activity # "remove"
    BY <2>2, <1>2 DEF Standing, Linked, Entering, Added, Control, Trees, TypeOK
  <2> QED BY <2>1, <2>2
<1>4. TypeOK'
  BY <1>2, Region DEF TypeOK, Linked, Headers
<1>5. Control'
  BY DEF Control, Headers, EndsAt, Granted
<1>6. Ownership'
  BY OwnershipFrame DEF InHand, Granted
<1>7. \A t \in Trees : Linked(t)' = Linked(t) /\ Loose(t)' = Loose(t) /\ Entering(t)' = Entering(t)
  BY DEF Linked, Loose, Entering, Removed, Added, Headers
<1>8. Forests'
  BY <1>7, ForestsFrame
<1>9. Fresh'
  BY <1>7 DEF Fresh
<1>10. Standing'
  <2>1. Above(P \cup {cursor'}, Linked(here), pred[here], cursor', moving)
    BY <1>2, <1>3 DEF Above
  <2>2. P \cup {cursor'} \in SUBSET Linked(here)
    BY <1>2
  <2>3. moving \in Linked(here) \/ activity # "remove"
    BY DEF Standing
  <2> QED BY <1>2, <1>7, <2>1, <2>2, <2>3 DEF Standing
<1> QED BY <1>4, <1>5, <1>6, <1>8, <1>9, <1>10

(* What the end of a descent does to the trees: the block, or the root of   *)
(* the loose subtree, joins tree here.                                      *)
LEMMA HookEffect ==
  ASSUME Inv, pc = "descend", NEW here \in Trees, here = tree,
         \/ /\ left[here][cursor] = nullptr
            /\ left' = [left EXCEPT ![here][cursor] = moving]
            /\ right' = right
         \/ /\ right[here][cursor] = nullptr
            /\ right' = [right EXCEPT ![here][cursor] = moving]
            /\ left' = left,
         pred' = [pred EXCEPT ![here][moving] = cursor],
         TreeDone,
         UNCHANGED <<root, size, free_space, held, result>>
  PROVE  /\ \/ activity = "remove" /\ moving \in Linked(here) /\ Loose(here) = moving
            \/ /\ activity = "add" /\ moving = node
               /\ moving \notin Linked(here) /\ Loose(here) = nullptr
               /\ left[here][moving] = nullptr /\ right[here][moving] = nullptr
               /\ Entering(here) = {moving}
         /\ cursor \in Linked(here) /\ moving \in Headers /\ moving # nullptr
         /\ Linked(here)' = Linked(here) \cup {moving}
         /\ Loose(here)' = nullptr
         /\ activity = "add" => Entering(here)' = {}
         /\ activity = "remove" => Entering(here)' = Entering(here)
         /\ \A t \in Trees \ {here} : /\ Linked(t)' = Linked(t)
                                      /\ Loose(t)' = Loose(t)
                                      /\ Entering(t)' = Entering(t)
         /\ UNCHANGED <<op, activity, node, hand, request>>
         /\ pc' \in {"unlink", "attach", "unlinked", "attached"}
<1> USE DEF Inv
<1>1. /\ activity \in {"remove", "add"} /\ op \in {"allocate", "deallocate"}
      /\ node \in Headers /\ node \in Pages
      /\ op = "deallocate" /\ activity = "add" => node = hand
  BY DEF Control, TypeOK, Headers
<1>2. /\ moving' = nullptr /\ cursor' = nullptr
      /\ UNCHANGED <<op, activity, node, hand, request>>
      /\ \/ here = "size" /\ tree' = "address" /\ activity = "remove" /\ pc' = "unlink"
         \/ here = "size" /\ tree' = "address" /\ activity = "add" /\ pc' = "attach"
         \/ here = "address" /\ tree' = "size" /\ activity = "remove" /\ pc' = "unlinked"
         \/ here = "address" /\ tree' = "size" /\ activity = "add" /\ pc' = "attached"
  BY <1>1 DEF TreeDone, Trees
<1>3. /\ cursor \in Linked(here) /\ Linked(here) \subseteq Headers
      /\ cursor \in Pages
  BY DEF Standing, Linked, Headers
<1>4. moving \in Headers /\ moving \in Pages /\ moving # nullptr
  BY <1>1, Region DEF Standing, Linked, Headers
<1>5. \/ /\ activity = "remove"
         /\ moving \in Linked(here)
         /\ Loose(here) = moving
      \/ /\ activity = "add"
         /\ moving = node
         /\ moving \notin Linked(here)
         /\ Loose(here) = nullptr
         /\ left[here][moving] = nullptr
         /\ right[here][moving] = nullptr
         /\ Entering(here) = {moving}
  <2>1. CASE activity = "remove"
    BY <2>1 DEF Standing, Loose
  <2>2. CASE activity = "add"
    BY <2>2, <1>1 DEF Standing, Loose, Linked, Entering, Added, Fresh
  <2> QED BY <2>1, <2>2, <1>1
<1>6. /\ Linked(here)' = Linked(here) \cup {moving}
      /\ Loose(here)' = nullptr
      /\ activity = "add" => Entering(here)' = {}
      /\ activity = "remove" => Entering(here)' = Entering(here)
  BY <1>1, <1>2, <1>4, <1>5 DEF Linked, Loose, Entering, Removed, Added, Headers
<1>7. \A t \in Trees \ {here} : /\ Linked(t)' = Linked(t)
                                 /\ Loose(t)' = Loose(t)
                                 /\ Entering(t)' = Entering(t)
  BY <1>1, <1>2 DEF Linked, Loose, Entering, Removed, Added, Headers, Trees
<1> QED BY <1>1, <1>2, <1>3, <1>4, <1>5, <1>6, <1>7

(* A descent that has found a free place, on the left or on the right,      *)
(* links the block there: ForestAdd, mirrored for the right side.           *)
LEMMA HookInv ==
  ASSUME Inv, pc = "descend", NEW here \in Trees, here = tree,
         \/ /\ left[here][cursor] = nullptr
            /\ left' = [left EXCEPT ![here][cursor] = moving]
            /\ right' = right
         \/ /\ right[here][cursor] = nullptr
            /\ right' = [right EXCEPT ![here][cursor] = moving]
            /\ left' = left,
         pred' = [pred EXCEPT ![here][moving] = cursor],
         TreeDone,
         UNCHANGED <<root, size, free_space, held, result>>
  PROVE  Inv'
<1> USE DEF Inv
<1>1. /\ activity \in {"remove", "add"} /\ op \in {"allocate", "deallocate"}
      /\ node \in Headers /\ node \in Pages
      /\ op = "deallocate" /\ activity = "add" => node = hand
  BY DEF Control, TypeOK, Headers
<1>2. /\ moving' = nullptr /\ cursor' = nullptr
      /\ UNCHANGED <<op, activity, node, hand, request>>
      /\ \/ here = "size" /\ tree' = "address" /\ activity = "remove" /\ pc' = "unlink"
         \/ here = "size" /\ tree' = "address" /\ activity = "add" /\ pc' = "attach"
         \/ here = "address" /\ tree' = "size" /\ activity = "remove" /\ pc' = "unlinked"
         \/ here = "address" /\ tree' = "size" /\ activity = "add" /\ pc' = "attached"
  BY <1>1 DEF TreeDone, Trees
<1>3. /\ cursor \in Linked(here) /\ Linked(here) \subseteq Headers
      /\ cursor \in Pages
  BY DEF Standing, Linked, Headers
<1>4. moving \in Headers /\ moving \in Pages /\ moving # nullptr
  BY <1>1, Region DEF Standing, Linked, Headers
<1>5. \/ /\ activity = "remove"
         /\ moving \in Linked(here)
         /\ Loose(here) = moving
      \/ /\ activity = "add"
         /\ moving = node
         /\ moving \notin Linked(here)
         /\ Loose(here) = nullptr
         /\ left[here][moving] = nullptr
         /\ right[here][moving] = nullptr
         /\ Entering(here) = {moving}
  BY HookEffect
<1>6. TypeOK'
  <2>1. /\ left' \in [Trees -> [Pages -> Pointers]]
        /\ right' \in [Trees -> [Pages -> Pointers]]
        /\ pred' \in [Trees -> [Pages -> Pointers]]
    <3>1. cursor \in Pointers /\ moving \in Pointers
      BY DEF TypeOK
    <3>2. pred' \in [Trees -> [Pages -> Pointers]]
      BY <3>1, <1>4 DEF TypeOK
    <3>3. CASE left' = [left EXCEPT ![here][cursor] = moving] /\ right' = right
      BY <3>1, <3>2, <3>3, <1>3 DEF TypeOK
    <3>4. CASE right' = [right EXCEPT ![here][cursor] = moving] /\ left' = left
      BY <3>1, <3>2, <3>4, <1>3 DEF TypeOK
    <3> QED BY <3>3, <3>4
  <2> QED BY <2>1, <1>2, Region DEF TypeOK, Trees
<1>7. Control'
  BY <1>1, <1>2 DEF Control, Headers, EndsAt, Granted
<1>8. Ownership'
  BY <1>2, OwnershipFrame DEF InHand, Granted
<1>9. /\ Linked(here)' = Linked(here) \cup {moving}
      /\ Loose(here)' = nullptr
      /\ activity = "add" => Entering(here)' = {}
      /\ activity = "remove" => Entering(here)' = Entering(here)
  BY HookEffect
<1>10. \A t \in Trees \ {here} : /\ Linked(t)' = Linked(t)
                                 /\ Loose(t)' = Loose(t)
                                 /\ Entering(t)' = Entering(t)
  BY HookEffect
<1>11. Forest(Linked(here) \cup {moving}, root[here], nullptr,
              pred'[here], left'[here], right'[here])
  <2> PICK L, top, loose, pd, lf, rg, pd2, lf2, rg2, at, added :
           /\ L = Linked(here) /\ top = root[here] /\ loose = Loose(here)
           /\ pd = pred[here] /\ lf = left[here] /\ rg = right[here]
           /\ pd2 = pred'[here] /\ lf2 = left'[here] /\ rg2 = right'[here]
           /\ at = cursor /\ added = moving
    OBVIOUS
  <2>1. Forest(L, top, loose, pd, lf, rg)
    BY DEF Forests
  <2>2. PICK P : Above(P, L, pd, at, added)
    BY DEF Standing
  <2>3. \A b \in L \cup {added} : pd2[b] = IF b = added THEN at ELSE pd[b]
    BY <1>3, <1>4 DEF TypeOK, Headers
  <2>4. /\ added # nullptr /\ at \in L
        /\ \/ added \in L /\ loose = added
           \/ /\ added \notin L
              /\ loose = nullptr
              /\ lf[added] = nullptr
              /\ rg[added] = nullptr
    BY <1>3, <1>4, <1>5
  <2>5. CASE /\ left[here][cursor] = nullptr
             /\ left' = [left EXCEPT ![here][cursor] = moving]
             /\ right' = right
    <3>1. \A b \in L \cup {added} : /\ lf2[b] = IF b = at THEN added ELSE lf[b]
                                    /\ rg2[b] = rg[b]
      BY <2>5, <1>3, <1>4 DEF TypeOK, Headers
    <3>2. lf[at] = nullptr
      BY <2>5
    <3>3. Forest(L \cup {added}, top, nullptr, pd2, lf2, rg2)
      BY ONLY <2>1, <2>2, <2>3, <2>4, <3>1, <3>2, ForestAdd
    <3> QED BY <3>3
  <2>6. CASE /\ right[here][cursor] = nullptr
             /\ right' = [right EXCEPT ![here][cursor] = moving]
             /\ left' = left
    <3>1. \A b \in L \cup {added} : /\ rg2[b] = IF b = at THEN added ELSE rg[b]
                                    /\ lf2[b] = lf[b]
      BY <2>6, <1>3, <1>4 DEF TypeOK, Headers
    <3>2. rg[at] = nullptr
      BY <2>6
    <3>3. Forest(L, top, loose, pd, rg, lf)
      BY <2>1, ForestMirrored
    <3>4. Forest(L \cup {added}, top, nullptr, pd2, rg2, lf2)
      BY ONLY <2>2, <2>3, <2>4, <3>1, <3>2, <3>3, ForestAdd
    <3>5. Forest(L \cup {added}, top, nullptr, pd2, lf2, rg2)
      BY <3>4, ForestMirrored
    <3> QED BY <3>5
  <2> QED BY <2>5, <2>6
<1>12. Forests'
  <2> SUFFICES ASSUME NEW t \in Trees
               PROVE  Forest(Linked(t), root[t], Loose(t), pred[t], left[t], right[t])'
    BY DEF Forests
  <2>1. CASE t = here
    BY <2>1, <1>9, <1>11
  <2>2. CASE t # here
    <3>1. pred'[t] = pred[t] /\ left'[t] = left[t] /\ right'[t] = right[t]
      BY <2>2 DEF TypeOK
    <3> QED BY <2>2, <3>1, <1>10 DEF Forests
  <2> QED BY <2>1, <2>2
<1>13. Fresh'
  <2>1. CASE activity = "add"
    <3>1. \A t \in Trees : t # here => left'[t] = left[t] /\ right'[t] = right[t]
      BY DEF TypeOK
    <3> QED BY <2>1, <3>1, <1>9, <1>10 DEF Fresh
  <2>2. CASE activity = "remove"
    <3>1. \A t \in Trees : \A b \in Entering(t) : b = hand /\ op = "deallocate"
      BY <2>2 DEF Entering, Added
    <3>2. op = "deallocate" => hand # cursor /\ hand \in Pages
      BY <2>2, <1>3 DEF Linked, Entering, Added, Control, Headers
    <3>3. \A t \in Trees : \A b \in Pages \ {cursor} :
            left'[t][b] = left[t][b] /\ right'[t][b] = right[t][b]
      <4>1. CASE left' = [left EXCEPT ![here][cursor] = moving] /\ right' = right
        BY <4>1, <1>3 DEF TypeOK
      <4>2. CASE right' = [right EXCEPT ![here][cursor] = moving] /\ left' = left
        BY <4>2, <1>3 DEF TypeOK
      <4> QED BY <4>1, <4>2
    <3>4. \A t \in Trees : Entering(t)' = Entering(t)
      BY <2>2, <1>9, <1>10
    <3> QED BY <3>1, <3>2, <3>3, <3>4 DEF Fresh
  <2> QED BY <2>1, <2>2, <1>1
<1>14. Standing'
  BY <1>2 DEF Standing
<1> QED BY <1>6, <1>7, <1>8, <1>12, <1>13, <1>14

(* The iterations of a descent are the two cases above. *)
LEMMA DescendInv ==
  ASSUME Inv, DescendLeft \/ DescendRight
  PROVE  Inv'
<1>1. CASE DescendLeft /\ left[tree][cursor] # nullptr
  BY <1>1, DescendFurtherInv DEF DescendLeft, links
<1>2. CASE DescendLeft /\ left[tree][cursor] = nullptr
  BY <1>2, HookInv DEF DescendLeft, Inv, TypeOK
<1>3. CASE DescendRight /\ right[tree][cursor] # nullptr
  BY <1>3, DescendFurtherInv DEF DescendRight, links
<1>4. CASE DescendRight /\ right[tree][cursor] = nullptr
  BY <1>4, HookInv DEF DescendRight, Inv, TypeOK
<1> QED BY <1>1, <1>2, <1>3, <1>4

-----------------------------------------------------------------------------
(* The invariant is inductive. *)

(* initialize() establishes the invariant. *)
LEMMA InitInv == Init => Inv
<1> SUFFICES ASSUME Init
             PROVE  Inv
  OBVIOUS
<1> USE DEF Init
<1>1. TypeOK
  BY Region, MemoryAssumption DEF TypeOK, Trees
<1>2. Headers = {0} /\ Top(0) = N /\ InHand = {}
  <2>1. Headers = {0}
    BY Region, MemoryAssumption DEF Headers
  <2>2. size[0] = RegionSize /\ 0 + N = N
    BY Region
  <2> QED BY <2>1, <2>2 DEF Top, N, InHand
<1>3. Control
  BY DEF Control
<1>4. Ownership
  BY <1>2, Region DEF Ownership
<1>5. \A t \in Trees : Linked(t) = {0} /\ Loose(t) = nullptr /\ Entering(t) = {}
  BY <1>2 DEF Linked, Loose, Entering, Removed, Added
<1>6. Forests
  <2> SUFFICES ASSUME NEW t \in Trees
               PROVE  Forest({0}, 0, nullptr, pred[t], left[t], right[t])
    BY <1>5 DEF Forests
  <2> QED BY Region, ForestOfOne
<1>7. Fresh
  BY <1>5 DEF Fresh
<1>8. Standing
  BY DEF Standing
<1> QED BY <1>1, <1>3, <1>4, <1>6, <1>7, <1>8 DEF Inv

(* The invariant does not depend on anything else. *)
LEMMA StutterInv ==
  ASSUME Inv, UNCHANGED vars
  PROVE  Inv'
<1> USE DEF Inv, vars, links, locals
<1>1. TypeOK'
  BY DEF TypeOK
<1>2. Control'
  BY DEF Control, Headers, EndsAt, Granted
<1>3. Ownership'
  BY OwnershipFrame DEF InHand, Granted
<1>4. \A t \in Trees : Linked(t)' = Linked(t) /\ Loose(t)' = Loose(t) /\ Entering(t)' = Entering(t)
  BY DEF Linked, Loose, Entering, Removed, Added, Headers
<1>5. Forests'
  BY <1>4, ForestsFrame
<1>6. Fresh'
  BY <1>4 DEF Fresh
<1>7. Standing'
  BY <1>4 DEF Standing, Trees, TypeOK
<1> QED BY <1>1, <1>2, <1>3, <1>5, <1>6, <1>7

(* Every step preserves the invariant. *)
LEMMA NextInv ==
  ASSUME Inv, [Next]_vars
  PROVE  Inv'
<1>1. CASE \E bytes \in Requests : Allocate(bytes)
  BY <1>1, AllocateInv
<1>2. CASE \E page \in held : Deallocate(page)
  BY <1>2, DeallocateInv
<1>3. CASE Step
  BY <1>3, UnlinkInv, AttachInv, DescendInv, SearchOnInv, RefuseInv, ChooseInv,
     SplitInv, TakeWholeInv, MergeFoundInv, MergeSearchOnInv, MergeInv,
     MergeDoneInv, AttachedInv DEF Step
<1>4. CASE UNCHANGED vars
  BY <1>4, StutterInv
<1> QED BY <1>1, <1>2, <1>3, <1>4 DEF Next

(* For every region and every set of requests, the inductive invariant      *)
(* holds at every step of every sequence of allocate() and deallocate()     *)
(* calls.                                                                   *)
THEOREM InvHolds == Spec => []Inv
BY InitInv, NextInv, PTL DEF Spec

-----------------------------------------------------------------------------
(* The properties. *)

(* The allocator's variables keep their types: pointers stay in the region  *)
(* or null, sizes stay natural numbers.                                     *)
THEOREM TypeCorrect == Spec => []TypeOK
<1>1. Inv => TypeOK
  BY DEF Inv
<1> QED BY <1>1, InvHolds, PTL

(* Splitting a block in allocate() and merging blocks in deallocate()       *)
(* neither lose a page nor give it two owners: at every step each page      *)
(* belongs to a caller, to the running allocate() or to exactly one free    *)
(* block.                                                                   *)
THEOREM OneOwnerPerPage == Spec => []PagesHaveOneOwner
<1>1. Inv => PagesHaveOneOwner
  <2> SUFFICES ASSUME Inv
               PROVE  PagesHaveOneOwner
    OBVIOUS
  <2>1. \A b \in Headers : /\ b \in Nat /\ Top(b) \in Nat /\ Top(b) > b /\ Top(b) <= N
                           /\ Extent(b) = b .. (Top(b) - 1)
    <3> SUFFICES ASSUME NEW b \in Headers
                 PROVE  /\ b \in Nat /\ Top(b) \in Nat /\ Top(b) > b /\ Top(b) <= N
                        /\ Extent(b) = b .. (Top(b) - 1)
      OBVIOUS
    <3>1. b \in Nat /\ Top(b) \in Nat /\ Top(b) > b /\ Top(b) <= N
      BY TopType DEF Inv, Ownership
    <3>2. Extent(b) = b .. (Top(b) - 1)
      <4>1. number_of_blocks(size[b]) \in Nat
        BY TopType DEF Inv, number_of_blocks
      <4>2. b + number_of_blocks(size[b]) - 1 = Top(b) - 1
        BY <3>1, <4>1 DEF Top
      <4> QED BY <4>2 DEF Extent
    <3> QED BY <3>1, <3>2
  <2>2. \A b, c \in Headers : b # c => Extent(b) \cap Extent(c) = {}
    <3> SUFFICES ASSUME NEW b \in Headers, NEW c \in Headers, b < c
                 PROVE  Extent(b) \cap Extent(c) = {}
      BY <2>1
    <3>1. Top(b) <= c
      BY DEF Inv, Ownership
    <3> QED BY <3>1, <2>1
  <2>3. \A q \in Pages : q \notin held \cup InHand <=> \E b \in Headers : q \in Extent(b)
    <3> SUFFICES ASSUME NEW q \in Pages
                 PROVE  q \notin held \cup InHand <=> \E b \in Headers : q \in Extent(b)
      OBVIOUS
    <3>1. q \in Nat
      BY Region
    <3>2. ASSUME q \notin held \cup InHand
          PROVE  \E b \in Headers : q \in Extent(b)
      <4>1. PICK b \in Headers : b <= q /\ q < Top(b)
        BY <3>2 DEF Inv, Ownership
      <4> QED BY <4>1, <3>1, <2>1
    <3>3. ASSUME NEW b \in Headers, q \in Extent(b)
          PROVE  q \notin held \cup InHand
      BY <3>1, <3>3, <2>1 DEF Inv, Ownership
    <3> QED BY <3>2, <3>3
  <2>4. \A b \in Headers : Extent(b) \subseteq Pages
    BY <2>1, Region
  <2>5. Pages \ (held \cup InHand) = UNION {Extent(b) : b \in Headers}
    BY <2>3, <2>4
  <2> QED BY <2>2, <2>5 DEF PagesHaveOneOwner, Inv, Ownership
<1> QED BY <1>1, InvHolds, PTL

(* Between calls the tree by size and the tree by address each hold exactly *)
(* the free blocks, linked consistently in both directions and all          *)
(* reachable from the root.                                                 *)
THEOREM TreesStayWellFormed == Spec => []TreesWellFormed
<1>1. Inv => TreesWellFormed
  <2> SUFFICES ASSUME Inv, pc = "idle", NEW t \in Trees
               PROVE  /\ root[t] = nullptr <=> Headers = {}
                      /\ root[t] # nullptr => root[t] \in Headers /\ pred[t][root[t]] = nullptr
                      /\ \A b \in Headers :
                           /\ {left[t][b], right[t][b]} \subseteq Headers \cup {nullptr}
                           /\ left[t][b] = right[t][b] => left[t][b] = nullptr
                           /\ \A c \in Headers : IsChild(t, c, b) <=> pred[t][c] = b
                      /\ \A B \in SUBSET Headers :
                           /\ root[t] \in B
                           /\ \A b \in B : {left[t][b], right[t][b]} \subseteq B \cup {nullptr}
                           => B = Headers
    BY DEF TreesWellFormed
  <2>1. Forest(Headers, root[t], nullptr, pred[t], left[t], right[t])
    <3>1. Linked(t) = Headers /\ Loose(t) = nullptr
      BY DEF Inv, Control, Linked, Loose, Entering, Removed, Added
    <3> QED BY <3>1 DEF Inv, Forests
  <2>2. root[t] = nullptr <=> Headers = {}
    BY <2>1, ForestWithoutTop DEF Forest
  <2>3. root[t] # nullptr => root[t] \in Headers /\ pred[t][root[t]] = nullptr
    BY <2>1 DEF Forest
  <2>4. \A b \in Headers :
          /\ {left[t][b], right[t][b]} \subseteq Headers \cup {nullptr}
          /\ left[t][b] = right[t][b] => left[t][b] = nullptr
          /\ \A c \in Headers : IsChild(t, c, b) <=> pred[t][c] = b
    BY <2>1 DEF Forest, IsChild
  <2>5. ASSUME NEW B \in SUBSET Headers, root[t] \in B,
               \A b \in B : {left[t][b], right[t][b]} \subseteq B \cup {nullptr}
        PROVE  B = Headers
    <3> SUFFICES ASSUME Headers \ B # {}
                 PROVE  FALSE
      OBVIOUS
    <3>1. PICK b \in Headers \ B : pred[t][b] \notin Headers \ B
      <4>1. Headers \ B \in SUBSET Headers
        OBVIOUS
      <4> QED BY <4>1, <2>1 DEF Forest
    <3>2. pred[t][b] \in B /\ b \in {left[t][pred[t][b]], right[t][pred[t][b]]} /\ b # nullptr
      BY <3>1, <2>1, <2>5 DEF Forest
    <3> QED BY <3>1, <3>2, <2>5
  <2> QED BY <2>2, <2>3, <2>4, <2>5
<1> QED BY <1>1, InvHolds, PTL

(* The loops of allocate(), deallocate() and add_node_to_tree never stand   *)
(* on a caller's page, on a block that is out of the trees, or on the block *)
(* that is being added; so the arm for a block that is already in the tree  *)
(* is dead code.                                                            *)
THEOREM CursorStaysOnFreeBlocks == Spec => []CursorIsFree
<1>1. Inv => CursorIsFree
  <2> SUFFICES ASSUME Inv, cursor # nullptr
               PROVE  /\ cursor \in Headers
                      /\ cursor \notin held \cup InHand
                      /\ cursor \notin {node, moving}
                      /\ op = "deallocate" => cursor # hand
    BY DEF CursorIsFree
  <2> USE DEF Inv
  <2>1. pc \in {"search", "merge", "descend"}
    BY DEF Control
  <2>2. cursor \in Headers
    BY <2>1 DEF Standing, Linked
  <2>3. cursor \notin held \cup InHand
    BY <2>2, TopType DEF Ownership
  <2>4. CASE pc \in {"search", "merge"}
    BY <2>1, <2>2, <2>3, <2>4 DEF Standing, Linked, Control, Entering, Added
  <2>5. CASE pc = "descend"
    <3>1. cursor \in Linked(tree) /\ cursor # moving
      BY <2>5 DEF Standing, Above
    <3>2. cursor # node
      BY <2>5, <3>1 DEF Standing, Linked, Removed
    <3>3. op = "deallocate" => cursor # hand
      BY <2>5, <3>1 DEF Linked, Entering, Added
    <3> QED BY <2>2, <2>3, <3>1, <3>2, <3>3
  <2> QED BY <2>1, <2>4, <2>5
<1> QED BY <1>1, InvHolds, PTL

(* A caller's page is not the header of a block. *)
LEMMA HeadersNotHeld ==
  ASSUME Inv
  PROVE  \A p \in held : p \in Pages /\ p \notin Headers
BY TopType DEF Inv, Ownership, TypeOK

(* Clearing headers leaves the other pages alone. *)
LEMMA ClearLinksElsewhere ==
  ASSUME TypeOK, NEW B, ClearLinks(B), NEW p \in Pages \ B
  PROVE  \A t \in Trees : /\ pred'[t][p] = pred[t][p]
                          /\ left'[t][p] = left[t][p]
                          /\ right'[t][p] = right[t][p]
BY DEF ClearLinks

(* A step writes headers of free blocks only, and the page that a caller    *)
(* gives back or gets with it.                                              *)
LEMMA StepLeavesCallersMemory ==
  ASSUME Inv, [Next]_vars
  PROVE  LeavesCallersMemory
<1> SUFFICES ASSUME NEW p \in held, p \in held'
             PROVE  /\ size'[p] = size[p]
                    /\ \A t \in Trees : /\ pred'[t][p] = pred[t][p]
                                        /\ left'[t][p] = left[t][p]
                                        /\ right'[t][p] = right[t][p]
  BY DEF LeavesCallersMemory
<1>1. p \in Pages /\ p \notin Headers /\ TypeOK /\ tree \in Trees
  BY HeadersNotHeld DEF Inv, TypeOK
<1>2. CASE UNCHANGED <<pred, left, right, size>>
  BY <1>2
<1>3. ASSUME NEW page \in held, Deallocate(page)
      PROVE  size'[p] = size[p] /\ p \in Pages \ {page} /\ ClearLinks({page})
  BY <1>1, <1>3 DEF Deallocate, TypeOK
<1>4. CASE Split
  <2> PICK new : new = hand + number_of_blocks(request)
    OBVIOUS
  <2>1. node = hand /\ hand \in Headers
    BY <1>4 DEF Split, HasRest, Inv, Control
  <2>2. p # hand /\ p # new
    <3>1. request \in Nat /\ hand \in Nat /\ Top(hand) \in Nat
      BY <2>1, TopType, MemoryAssumption DEF Inv, TypeOK
    <3>2. number_of_blocks(request) \in Nat
      BY <3>1 DEF number_of_blocks
    <3>3. new >= hand /\ new < Top(hand)
      <4>1. number_of_blocks(size[hand]) > number_of_blocks(request)
        BY <1>4, <2>1 DEF Split, HasRest
      <4>2. number_of_blocks(size[hand]) \in Nat
        BY <2>1, TopType DEF Inv, number_of_blocks
      <4> QED BY <3>1, <3>2, <4>1, <4>2 DEF Top
    <3>4. p < hand \/ Top(hand) <= p
      BY <2>1 DEF Inv, Ownership
    <3>5. p \in Nat
      BY <1>1, Region
    <3> QED BY <3>1, <3>2, <3>3, <3>4, <3>5
  <2>3. size'[p] = size[p]
    BY <1>1, <1>4, <2>2 DEF Split, HasRest
  <2>4. ClearLinks({node, new})
    BY <1>4 DEF Split, HasRest
  <2> QED BY <1>1, <2>1, <2>2, <2>3, <2>4, ClearLinksElsewhere
<1>5. CASE TakeWhole
  <2>1. hand \in Headers /\ node = hand
    BY <1>5 DEF TakeWhole, HasRest, Inv, Control
  <2>2. size'[p] = size[p] /\ ClearLinks({node})
    BY <1>1, <1>5, <2>1 DEF TakeWhole, HasRest, TypeOK
  <2> QED BY <1>1, <2>1, <2>2, ClearLinksElsewhere
<1>6. CASE Merge
  <2>1. node \in Headers /\ hand \in Headers
    BY <1>6 DEF Merge, Inv, Control
  <2>2. size'[p] = size[p] /\ ClearLinks({node})
    BY <1>1, <1>6, <2>1 DEF Merge, TypeOK
  <2> QED BY <1>1, <2>1, <2>2, ClearLinksElsewhere
<1>7. CASE Attach
  <2>1. node \in Headers
    BY <1>7 DEF Attach, Inv, Control
  <2>2. UNCHANGED <<size, left, right>>
    BY <1>7 DEF Attach
  <2>3. \/ pred' = [pred EXCEPT ![tree][node] = nullptr]
        \/ pred' = pred
    BY <1>7 DEF Attach
  <2>4. \A t \in Trees : pred'[t][p] = pred[t][p]
    BY <1>1, <2>1, <2>3 DEF TypeOK
  <2> QED BY <2>2, <2>4
<1>8. CASE DescendLeft \/ DescendRight
  <2>1. cursor \in Headers /\ moving \in Headers
    BY <1>8 DEF DescendLeft, DescendRight, Inv, Standing, Linked, Control, TypeOK
  <2>2. /\ size' = size
        /\ left' = left \/ left' = [left EXCEPT ![tree][cursor] = moving]
        /\ right' = right \/ right' = [right EXCEPT ![tree][cursor] = moving]
        /\ pred' = pred \/ pred' = [pred EXCEPT ![tree][moving] = cursor]
    BY <1>8 DEF DescendLeft, DescendRight
  <2>3. \A t \in Trees : pred'[t][p] = pred[t][p]
    BY <1>1, <2>1, <2>2 DEF TypeOK
  <2>4. \A t \in Trees : left'[t][p] = left[t][p]
    BY <1>1, <2>1, <2>2 DEF TypeOK
  <2>5. \A t \in Trees : right'[t][p] = right[t][p]
    BY <1>1, <2>1, <2>2 DEF TypeOK
  <2> QED BY <2>2, <2>3, <2>4, <2>5
<1>9. CASE Unlink
  <2>1. node \in Linked(tree)
    BY <1>9, <1>1 DEF Unlink, Inv, Control, Linked, Entering, Added, Removed, Trees
  <2>2. {pred[tree][node], left[tree][node], right[tree][node]} \subseteq Headers \cup {nullptr}
    BY <2>1, <1>1 DEF Inv, Forests, Forest, Linked
  <2>3. p # nullptr
    BY <1>1, Region
  <2> QED BY <1>1, <1>9, <2>2, <2>3 DEF Unlink, ReplaceAtPredecessor, Reparented, TypeOK
<1> QED
  <2>1. CASE \E page \in held : Deallocate(page)
    BY <2>1, <1>1, <1>3, ClearLinksElsewhere
  <2>2. CASE \E bytes \in Requests : Allocate(bytes)
    BY <2>2, <1>2 DEF Allocate, links
  <2>3. CASE Step
    BY <2>3, <1>2, <1>4, <1>5, <1>6, <1>7, <1>8, <1>9
    DEF Step, SearchOn, Refuse, Choose, MergeFound, MergeSearchOn, MergeDone, Attached, links
  <2>4. CASE UNCHANGED vars
    BY <2>4, <1>2 DEF vars, links
  <2> QED BY <2>1, <2>2, <2>3, <2>4 DEF Next

(* No step of allocate() or deallocate() writes the header fields of a page *)
(* that a caller owns before and after it: no link in the trees ever leads  *)
(* a write into a caller's memory.                                          *)
THEOREM CallersMemoryStaysUntouched == Spec => CallersMemoryUntouched
<1>1. Inv /\ [Next]_vars => [LeavesCallersMemory]_vars
  BY StepLeavesCallersMemory
<1> QED BY <1>1, InvHolds, PTL DEF Spec, CallersMemoryUntouched

=============================================================================
