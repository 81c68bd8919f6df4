----------------------------- MODULE MemoryBlocks -----------------------------
(***************************************************************************)
(* The kernel's page allocator, struct memory_blocks                       *)
(* (source/kernel/source/memory/memory_blocks.cpp).                        *)
(*                                                                         *)
(* Free memory is a set of free blocks, runs of 4096-byte pages.  The      *)
(* header of a block lives in its first page and links the block into two  *)
(* binary search trees, one ordered by size and one by address.            *)
(*                                                                         *)
(* A step of this module is one iteration of a loop of the code, or one    *)
(* piece of its straight-line code; pc says where the running call is.     *)
(* The two trees have the same code up to the names of the fields and the  *)
(* order, so the actions on a tree are written once, for tree "size"       *)
(* (smaller_block, larger_block, predecessor_by_size) and for tree         *)
(* "address" (lower_block, higher_block, predecessor_by_address).          *)
(*                                                                         *)
(* A pointer to a page is the page's number, counted from the start of the *)
(* region; sizes are in bytes, as in the code.                             *)
(***************************************************************************)
EXTENDS Integers, FiniteSets

CONSTANTS
  RegionSize,   \* the size, in bytes, that initialize() is called with
  Requests      \* the sizes, in bytes, that callers ask allocate() for

ASSUME MemoryAssumption ==
  /\ RegionSize \in Nat \ {0}
  /\ Requests \subseteq Nat

number_of_blocks(bytes) ==
  (bytes \div 4096) + (IF bytes % 4096 > 0 THEN 1 ELSE 0)

Pages == 0 .. (number_of_blocks(RegionSize) - 1)

nullptr == -1

Pointers == Pages \cup {nullptr}

Trees == {"size", "address"}

VARIABLES
  root,         \* free_blocks and free_blocks_by_address
  size,         \* free_block::size; 0 for a page that is not a block's header
  pred,         \* predecessor_by_size, predecessor_by_address
  left,         \* smaller_block, lower_block
  right,        \* larger_block, higher_block
  free_space,   \* memory_blocks::free_space
  held,         \* the pages that callers own
  result,       \* what the last call returned
  pc,           \* where the running call is
  op,           \* the running call
  activity,     \* remove_node_from_tree or add_node_to_tree, while in one
  tree,         \* the tree that function is at work on
  node,         \* its argument
  moving,       \* the argument of add_node_to_tree_by_size / _by_address
  cursor,       \* `current' of the running loop
  hand,         \* allocate's current_block, deallocate's new_block
  request       \* allocate's size_in_bytes

links == <<root, pred, left, right>>
locals == <<op, activity, tree, node, moving, cursor, hand, request>>
vars == <<links, size, free_space, held, result, pc, locals>>

TypeOK ==
  /\ root \in [Trees -> Pointers]
  /\ size \in [Pages -> Nat]
  /\ pred \in [Trees -> [Pages -> Pointers]]
  /\ left \in [Trees -> [Pages -> Pointers]]
  /\ right \in [Trees -> [Pages -> Pointers]]
  /\ free_space \in Int
  /\ held \in SUBSET Pages
  /\ result \in Pointers
  /\ pc \in {"idle", "search", "merge", "unlink", "unlinked", "attach",
             "descend", "attached"}
  /\ op \in {"none", "allocate", "deallocate"}
  /\ activity \in {"none", "remove", "add"}
  /\ tree \in Trees
  /\ node \in Pointers
  /\ moving \in Pointers
  /\ cursor \in Pointers
  /\ hand \in Pointers
  /\ request \in Requests \cup {0}

-----------------------------------------------------------------------------
(* initialize(): one free block that spans the region. *)
Init ==
  /\ root = [t \in Trees |-> 0]
  /\ size = [b \in Pages |-> IF b = 0 THEN RegionSize ELSE 0]
  /\ pred = [t \in Trees |-> [b \in Pages |-> nullptr]]
  /\ left = [t \in Trees |-> [b \in Pages |-> nullptr]]
  /\ right = [t \in Trees |-> [b \in Pages |-> nullptr]]
  /\ free_space = RegionSize
  /\ held = {}
  /\ result = nullptr
  /\ pc = "idle"
  /\ op = "none"
  /\ activity = "none"
  /\ tree = "size"
  /\ node = nullptr
  /\ moving = nullptr
  /\ cursor = nullptr
  /\ hand = nullptr
  /\ request = 0

(* The call returns r; its stack frame is gone. *)
Return(r) ==
  /\ pc' = "idle"
  /\ result' = r
  /\ op' = "none"
  /\ activity' = "none"
  /\ tree' = "size"
  /\ node' = nullptr
  /\ moving' = nullptr
  /\ cursor' = nullptr
  /\ hand' = nullptr
  /\ request' = 0

(* remove_node_from_tree(b) and add_node_to_tree(b) start with the tree by *)
(* size.                                                                   *)
StartRemovingByAddressOnly(b) ==
  /\ pc' = "unlink"
  /\ activity' = "remove"
  /\ tree' = "address"
  /\ node' = b

StartRemoving(b) ==
  /\ pc' = "unlink"
  /\ activity' = "remove"
  /\ tree' = "size"
  /\ node' = b

StartAdding(b) ==
  /\ pc' = "attach"
  /\ activity' = "add"
  /\ tree' = "size"
  /\ node' = b
  /\ moving' = nullptr
  /\ cursor' = nullptr

(* The by-size half of either function is over and the by-address half     *)
(* begins, or that one is over too and only the function's tail is left.   *)
TreeDone ==
  /\ tree' = IF tree = "size" THEN "address" ELSE "size"
  /\ pc' = IF tree = "size"
           THEN IF activity = "remove" THEN "unlink" ELSE "attach"
           ELSE IF activity = "remove" THEN "unlinked" ELSE "attached"
  /\ moving' = nullptr
  /\ cursor' = nullptr
  /\ UNCHANGED <<op, activity, node, hand, request>>

-----------------------------------------------------------------------------
(* Binary trees. *)

GoesLeftIfSmaller(t, b, c) == IF t = "size" THEN size[b] < size[c] ELSE b < c

GoesLeft(t, b, c) == IF t = "size" THEN size[b] <= size[c] ELSE b < c

(* replace_block_at_its_predecessor_by_size / _by_address, for a block that *)
(* has a predecessor.                                                      *)
ReplaceAtPredecessorForgotten(old, new) == UNCHANGED <<left, right>>

ReplaceAtPredecessor(old, new) ==
  LET parent == pred[tree][old]
      atLeft == parent # nullptr /\ left[tree][parent] = old
      atRight == parent # nullptr /\ ~atLeft /\ right[tree][parent] = old
  IN  /\ left' = IF atLeft THEN [left EXCEPT ![tree][parent] = new] ELSE left
      /\ right' = IF atRight THEN [right EXCEPT ![tree][parent] = new] ELSE right

(* The predecessors once the children l and r have left their block. *)
ReparentedWithoutLeft(l, r, parent) ==
  [b \in Pages |-> IF b = r THEN nullptr ELSE pred[tree][b]]

Reparented(l, r, parent) ==
  [b \in Pages |-> IF b = r THEN nullptr
                   ELSE IF b = l THEN parent ELSE pred[tree][b]]

(* remove_node_from_tree_by_size / _by_address: the left child takes the   *)
(* node's place, then the right child is added back from the root, which   *)
(* starts a descent unless the tree is empty by now.                       *)
Unlink ==
  LET parent == pred[tree][node]
      l == left[tree][node]
      r == right[tree][node]
      top == IF parent = nullptr THEN l ELSE root[tree]
  IN  /\ pc = "unlink"
      /\ ReplaceAtPredecessor(node, l)
      /\ pred' = [pred EXCEPT ![tree] = Reparented(l, r, parent)]
      /\ root' = [root EXCEPT ![tree] = IF top = nullptr THEN r ELSE top]
      /\ IF r = nullptr \/ top = nullptr
         THEN TreeDone
         ELSE /\ pc' = "descend"
              /\ moving' = r
              /\ cursor' = top
              /\ UNCHANGED <<op, activity, tree, node, hand, request>>
      /\ UNCHANGED <<size, free_space, held, result>>

(* add_node_to_tree_by_size / _by_address up to its loop. *)
Attach ==
  /\ pc = "attach"
  /\ IF root[tree] = nullptr
     THEN /\ root' = [root EXCEPT ![tree] = node]
          /\ pred' = [pred EXCEPT ![tree][node] = nullptr]
          /\ TreeDone
     ELSE /\ pc' = "descend"
          /\ moving' = node
          /\ cursor' = root[tree]
          /\ UNCHANGED <<root, pred, op, activity, tree, node, hand, request>>
  /\ UNCHANGED <<left, right, size, free_space, held, result>>

(* The loop of add_node_to_tree_by_size / _by_address.  Its arm for a block *)
(* that is found in the tree already is never taken: see CursorIsFree.      *)
DescendLeft ==
  /\ pc = "descend"
  /\ GoesLeft(tree, moving, cursor)
  /\ IF left[tree][cursor] # nullptr
     THEN /\ cursor' = left[tree][cursor]
          /\ UNCHANGED <<left, pred, pc, op, activity, tree, node, moving,
                         hand, request>>
     ELSE /\ left' = [left EXCEPT ![tree][cursor] = moving]
          /\ pred' = [pred EXCEPT ![tree][moving] = cursor]
          /\ TreeDone
  /\ UNCHANGED <<root, right, size, free_space, held, result>>

DescendRight ==
  /\ pc = "descend"
  /\ ~GoesLeft(tree, moving, cursor)
  /\ IF right[tree][cursor] # nullptr
     THEN /\ cursor' = right[tree][cursor]
          /\ UNCHANGED <<right, pred, pc, op, activity, tree, node, moving,
                         hand, request>>
     ELSE /\ right' = [right EXCEPT ![tree][cursor] = moving]
          /\ pred' = [pred EXCEPT ![tree][moving] = cursor]
          /\ TreeDone
  /\ UNCHANGED <<root, left, size, free_space, held, result>>

(* The tail of remove_node_from_tree: the header of b is cleared. *)
ClearLinks(B) ==
  /\ pred' = [t \in Trees |-> [b \in Pages |-> IF b \in B THEN nullptr ELSE pred[t][b]]]
  /\ left' = [t \in Trees |-> [b \in Pages |-> IF b \in B THEN nullptr ELSE left[t][b]]]
  /\ right' = [t \in Trees |-> [b \in Pages |-> IF b \in B THEN nullptr ELSE right[t][b]]]
  /\ UNCHANGED root

-----------------------------------------------------------------------------
(* allocate(). *)

Allocate(bytes) ==
  /\ pc = "idle"
  /\ pc' = "search"
  /\ op' = "allocate"
  /\ request' = bytes
  /\ cursor' = root["size"]
  /\ result' = nullptr
  /\ UNCHANGED <<links, size, free_space, held, activity, tree, node, moving,
                 hand>>

SmallerFits ==
  /\ left["size"][cursor] # nullptr
  /\ size[left["size"][cursor]] >= request

MustGoLargerNever == FALSE

MustGoLarger == size[cursor] < request /\ right["size"][cursor] # nullptr

SearchOn ==
  /\ pc = "search"
  /\ cursor # nullptr
  /\ SmallerFits \/ MustGoLarger
  /\ cursor' = IF SmallerFits THEN left["size"][cursor]
                              ELSE right["size"][cursor]
  /\ UNCHANGED <<links, size, free_space, held, result, pc, op, activity,
                 tree, node, moving, hand, request>>

(* Both early returns: no free block at all, or none that is large enough. *)
Refuse ==
  /\ pc = "search"
  /\ cursor # nullptr => ~SmallerFits /\ ~MustGoLarger /\ size[cursor] < request
  /\ Return(nullptr)
  /\ UNCHANGED <<links, size, free_space, held>>

Choose ==
  /\ pc = "search"
  /\ cursor # nullptr
  /\ ~SmallerFits
  /\ ~MustGoLarger
  /\ size[cursor] >= request
  /\ hand' = cursor
  /\ StartRemoving(cursor)
  /\ cursor' = nullptr
  /\ UNCHANGED <<links, size, free_space, held, result, op, moving, request>>

(* The run of pages that the caller gets. *)
Granted == hand .. (hand + number_of_blocks(request) - 1)

HasRestAlsoOfAnExactFit == number_of_blocks(size[node]) >= number_of_blocks(request)

HasRest == number_of_blocks(size[node]) > number_of_blocks(request)

(* The block has more pages than the caller needs: the rest of it becomes  *)
(* a free block.  The header in the caller's first page is garbage now.    *)
Split ==
  LET in_node == number_of_blocks(size[node])
      needed == number_of_blocks(request)
      new_block == hand + needed
  IN  /\ pc = "unlinked"
      /\ op = "allocate"
      /\ HasRest
      /\ size' = [b \in Pages |-> IF b = new_block THEN (in_node - needed) * 4096
                                  ELSE IF b = hand THEN 0 ELSE size[b]]
      /\ free_space' = free_space - size[node]
      /\ ClearLinks({node, new_block})
      /\ StartAdding(new_block)
      /\ UNCHANGED <<held, result, op, hand, request>>

TakeWholeUncounted ==
  /\ pc = "unlinked"
  /\ op = "allocate"
  /\ ~HasRest
  /\ size' = [size EXCEPT ![hand] = 0]
  /\ ClearLinks({node})
  /\ held' = held \cup Granted
  /\ Return(hand)
  /\ UNCHANGED free_space

TakeWhole ==
  /\ pc = "unlinked"
  /\ op = "allocate"
  /\ ~HasRest
  /\ size' = [size EXCEPT ![hand] = 0]
  /\ free_space' = free_space - size[node]
  /\ ClearLinks({node})
  /\ held' = held \cup Granted
  /\ Return(hand)

-----------------------------------------------------------------------------
(* deallocate(), which gives back one page. *)

Deallocate(page) ==
  /\ pc = "idle"
  /\ page \in held
  /\ held' = held \ {page}
  /\ size' = [size EXCEPT ![page] = 4096]
  /\ ClearLinks({page})
  /\ pc' = "merge"
  /\ op' = "deallocate"
  /\ hand' = page
  /\ cursor' = root["address"]
  /\ result' = nullptr
  /\ UNCHANGED <<free_space, activity, tree, node, moving, request>>

(* Block b ends where block c starts. *)
EndsAt(b, c) == b * 4096 + size[b] = c * 4096

NeighbourBelowOnly == EndsAt(cursor, hand)

Neighbour == EndsAt(cursor, hand) \/ EndsAt(hand, cursor)

MergeFound ==
  /\ pc = "merge"
  /\ cursor # nullptr
  /\ Neighbour
  /\ StartRemoving(cursor)
  /\ cursor' = nullptr
  /\ UNCHANGED <<links, size, free_space, held, result, op, moving, hand,
                 request>>

MergeSearchOn ==
  /\ pc = "merge"
  /\ cursor # nullptr
  /\ ~Neighbour
  /\ cursor' = IF cursor < hand THEN right["address"][cursor]
                                ELSE left["address"][cursor]
  /\ UNCHANGED <<links, size, free_space, held, result, pc, op, activity,
                 tree, node, moving, hand, request>>

RestartSearchForgotten == cursor' = node

RestartSearch == cursor' = root["address"]

MergedSizeOfLowerOnly(lower, upper) == size[lower]

MergedSize(lower, upper) == size[lower] + size[upper]

(* The neighbour is off the trees: the two blocks become one, and the      *)
(* search for neighbours starts again from the root.                       *)
Merge ==
  LET merged == IF node < hand THEN node ELSE hand
      other == IF node < hand THEN hand ELSE node
  IN  /\ pc = "unlinked"
      /\ op = "deallocate"
      /\ size' = [size EXCEPT ![merged] = MergedSize(merged, other),
                              ![other] = 0]
      /\ free_space' = free_space - size[node]
      /\ ClearLinks({node})
      /\ hand' = merged
      /\ pc' = "merge"
      /\ RestartSearch
      /\ activity' = "none"
      /\ node' = nullptr
      /\ UNCHANGED <<held, result, op, tree, moving, request>>

MergeDone ==
  /\ pc = "merge"
  /\ cursor = nullptr
  /\ StartAdding(hand)
  /\ UNCHANGED <<links, size, free_space, held, result, op, hand, request>>

-----------------------------------------------------------------------------
(* The tail of add_node_to_tree, after which either call returns. *)
Attached ==
  /\ pc = "attached"
  /\ free_space' = free_space + size[node]
  /\ IF op = "allocate"
     THEN held' = held \cup Granted /\ Return(hand)
     ELSE held' = held /\ Return(nullptr)
  /\ UNCHANGED <<links, size>>

(* The steps of a call that has begun. *)
Step ==
  \/ Unlink
  \/ Attach
  \/ DescendLeft
  \/ DescendRight
  \/ SearchOn
  \/ Refuse
  \/ Choose
  \/ Split
  \/ TakeWhole
  \/ MergeFound
  \/ MergeSearchOn
  \/ Merge
  \/ MergeDone
  \/ Attached

Next ==
  \/ \E bytes \in Requests : Allocate(bytes)
  \/ \E page \in held : Deallocate(page)
  \/ Step

(* A call, once begun, runs on: the kernel is single threaded and takes no *)
(* interrupts, so nothing stops it between two of its steps.               *)
Spec == Init /\ [][Next]_vars /\ WF_vars(Step)


-----------------------------------------------------------------------------
(* Properties. *)

Headers == {b \in Pages : size[b] > 0}

Extent(b) == b .. (b + number_of_blocks(size[b]) - 1)

(* The pages that allocate() has taken for its caller and not yet returned. *)
InHand == IF op = "allocate" /\ activity = "add" THEN Granted ELSE {}

(* Every page of the region has one owner at every step of every call: a   *)
(* caller, the running allocate(), or a single free block.  Splits and     *)
(* merges neither lose a page, nor put it into two blocks, nor reach past  *)
(* the region.                                                             *)
PagesHaveOneOwner ==
  /\ \A b, c \in Headers : b # c => Extent(b) \cap Extent(c) = {}
  /\ held \cap InHand = {}
  /\ Pages \ (held \cup InHand) = UNION {Extent(b) : b \in Headers}

IsChild(t, c, b) == left[t][b] = c \/ right[t][b] = c

(* Between calls both trees hold exactly the free blocks, a block's         *)
(* predecessor is the one block it is a child of, and every block is        *)
(* reached from the root: a set of blocks that has the root and the children *)
(* of all its blocks is the set of all free blocks.  This is what the       *)
(* validators of the unit tests look for, after every sequence of calls     *)
(* instead of a few.                                                        *)
TreesWellFormed ==
  pc = "idle" =>
    \A t \in Trees :
      /\ root[t] = nullptr <=> Headers = {}
      /\ root[t] # nullptr => root[t] \in Headers /\ pred[t][root[t]] = nullptr
      /\ \A b \in Headers :
           /\ {left[t][b], right[t][b]} \subseteq Headers \cup {nullptr}
           /\ left[t][b] = right[t][b] => left[t][b] = nullptr
           /\ \A c \in Headers : IsChild(t, c, b) <=> pred[t][c] = b
      /\ \A B \in SUBSET Headers :
           /\ root[t] \in B
           /\ \A b \in B : {left[t][b], right[t][b]} \subseteq B \cup {nullptr}
           => B = Headers

(* The blocks reached from b along the children's links of tree t: the      *)
(* least set of blocks that has b and the children of all its blocks.       *)
Subtree(t, b) ==
  {c \in Headers :
     /\ b # nullptr
     /\ \A B \in SUBSET Headers :
          /\ b \in B
          /\ \A a \in B : {left[t][a], right[t][a]} \subseteq B \cup {nullptr}
          => c \in B}

(* At every step of every call, in the tree and in the subtree that is on  *)
(* its way back into it, all that is left of a block goes left of it, and  *)
(* all that is right of it right: removing a block and adding its right    *)
(* subtree back as a whole, by its top alone, keeps the search order, also *)
(* among blocks of one size.                                               *)
SearchOrder ==
  \A t \in Trees :
    \A b \in Subtree(t, root[t]) \cup
             (IF pc = "descend" /\ t = tree THEN Subtree(t, moving) ELSE {}) :
      /\ \A c \in Subtree(t, left[t][b]) :
           IF t = "size" THEN size[c] <= size[b] ELSE c < b
      /\ \A c \in Subtree(t, right[t][b]) :
           IF t = "size" THEN size[c] > size[b] ELSE c > b

(* Between calls no free block ends where another one starts: the search   *)
(* for a neighbour looks only along one path of the tree by address, and   *)
(* still finds both neighbours of the block that is given back.            *)
Coalesced ==
  pc = "idle" => \A b, c \in Headers : ~EndsAt(b, c)

(* Between calls free_space is the number of bytes that nobody holds.      *)
FreeSpaceExact ==
  pc = "idle" => free_space = RegionSize - 4096 * Cardinality(held)

(* The block a loop stands on is the header of a free block, and neither   *)
(* the block that has just been unlinked nor the one that is being merged  *)
(* or added: what the loop reads, and links the added block to, is never a *)
(* caller's data nor the added block itself.                               *)
CursorIsFree ==
  cursor # nullptr =>
    /\ cursor \in Headers
    /\ cursor \notin held \cup InHand
    /\ cursor \notin {node, moving}
    /\ op = "deallocate" => cursor # hand

(* No step of a call writes a page that a caller holds before and after    *)
(* it: the links of the trees never lead a call into callers' memory.      *)
LeavesCallersMemory ==
  \A p \in held \cap held' :
    /\ size'[p] = size[p]
    /\ \A t \in Trees : /\ pred'[t][p] = pred[t][p]
                        /\ left'[t][p] = left[t][p]
                        /\ right'[t][p] = right[t][p]

CallersMemoryUntouched == [][LeavesCallersMemory]_vars

(* A caller gets pages of the region only, whatever the region's size. *)
AllocatedWithinRegion == \A p \in held : (p + 1) * 4096 <= RegionSize

(* Every call of allocate() and deallocate() returns: no loop over a tree  *)
(* runs forever, and the restarted search for neighbours gives up at last. *)
CallReturns == pc # "idle" ~> pc = "idle"

-----------------------------------------------------------------------------
(* What the allocator promises its callers, whatever its trees look like:  *)
(* the calls of PagePool, each with the answer that PagePool allows.  A    *)
(* refusal means that no run of free pages was long enough, an answer is a *)
(* run that nobody held, and every call is answered.                       *)
Pool == INSTANCE PagePool WITH
          pages <- Pages,
          Lengths <- {number_of_blocks(bytes) : bytes \in Requests},
          call <- op,
          length <- number_of_blocks(request)

PoolSpec == Pool!Spec

=============================================================================
