---------------------- MODULE MemoryBlocks_order_proof ----------------------
(***************************************************************************)
(* Proofs that the two trees of the page allocator are search trees, and   *)
(* that the searches in them find what they look for, for every region and *)
(* every set of requests.                                                  *)
(*                                                                         *)
(* 1. Below is the set of blocks that are reached from a block. Lemmas     *)
(*    that know nothing of the allocator say how it relates to Forest, and *)
(*    what removing and adding a block does to a sorted tree.              *)
(* 2. OrderInv says which order the trees are in at every step, and what   *)
(*    the running search has not missed. One lemma per action.             *)
(* 3. The theorems: SearchOrder and Coalesced.                             *)
(* 4. Remaining bounds the steps that are left of a call, and every step   *)
(*    of the call lowers it.                                               *)
(***************************************************************************)
EXTENDS MemoryBlocks_proof, FiniteSetTheorems

-----------------------------------------------------------------------------
(* What is below a block. *)

(* B has the children lf and rg of all its blocks. *)
Closed(B, lf, rg) == \A b \in B : {lf[b], rg[b]} \subseteq B \cup {nullptr}

(* The blocks of L that are reached from block b, b among them: Subtree for *)
(* any links. Every set that has b and is closed has them all.              *)
Below(L, lf, rg, b) ==
  {c \in L : /\ b # nullptr
             /\ \A B \in SUBSET L : b \in B /\ Closed(B, lf, rg) => c \in B}

LEMMA BelowMirrored ==
  ASSUME NEW L, NEW lf, NEW rg, NEW b
  PROVE  Below(L, rg, lf, b) = Below(L, lf, rg, b)
<1>1. \A B : Closed(B, rg, lf) <=> Closed(B, lf, rg)
  BY DEF Closed
<1> QED BY <1>1 DEF Below

(* Nothing is below a null pointer. *)
LEMMA BelowNothing ==
  ASSUME NEW L, NEW lf, NEW rg
  PROVE  Below(L, lf, rg, nullptr) = {}
BY DEF Below

(* Below is the least closed set. *)
LEMMA BelowLeast ==
  ASSUME NEW L, NEW lf, NEW rg, NEW b, NEW B \in SUBSET L,
         b \in B, Closed(B, lf, rg)
  PROVE  Below(L, lf, rg, b) \subseteq B
BY DEF Below

LEMMA BelowClosed ==
  ASSUME NEW L, NEW lf, NEW rg, Closed(L, lf, rg), nullptr \notin L, NEW b \in L
  PROVE  /\ b \in Below(L, lf, rg, b)
         /\ Below(L, lf, rg, b) \subseteq L
         /\ Closed(Below(L, lf, rg, b), lf, rg)
<1>1. b \in Below(L, lf, rg, b)
  BY DEF Below
<1>2. ASSUME NEW c \in Below(L, lf, rg, b), NEW d \in {lf[c], rg[c]}, d # nullptr
      PROVE  d \in Below(L, lf, rg, b)
  <2>1. d \in L
    BY <1>2 DEF Below, Closed
  <2>2. ASSUME NEW B \in SUBSET L, b \in B, Closed(B, lf, rg)
        PROVE  d \in B
    <3>1. c \in B
      BY <2>2 DEF Below
    <3> QED BY <1>2, <2>2, <3>1 DEF Closed
  <2> QED BY <2>1, <2>2 DEF Below
<1>3. Closed(Below(L, lf, rg, b), lf, rg)
  BY <1>2 DEF Closed
<1> QED BY <1>1, <1>3 DEF Below

(* Below the blocks that are below b there is nothing else. *)
LEMMA BelowBelow ==
  ASSUME NEW L, NEW lf, NEW rg, Closed(L, lf, rg), nullptr \notin L,
         NEW b \in L, NEW c \in Below(L, lf, rg, b)
  PROVE  Below(L, lf, rg, c) \subseteq Below(L, lf, rg, b)
<1>1. Closed(Below(L, lf, rg, b), lf, rg) /\ Below(L, lf, rg, b) \in SUBSET L
  BY BelowClosed
<1> QED BY <1>1, BelowLeast

(* A block, and what is below its children. *)
LEMMA BelowChildren ==
  ASSUME NEW L, NEW lf, NEW rg, Closed(L, lf, rg), nullptr \notin L, NEW b \in L
  PROVE  Below(L, lf, rg, b) =
           {b} \cup Below(L, lf, rg, lf[b]) \cup Below(L, lf, rg, rg[b])
<1> PICK l, r : l = lf[b] /\ r = rg[b]
  OBVIOUS
<1> DEFINE B == {b} \cup Below(L, lf, rg, l) \cup Below(L, lf, rg, r)
<1>1. /\ l # nullptr => l \in L /\ l \in Below(L, lf, rg, b)
      /\ r # nullptr => r \in L /\ r \in Below(L, lf, rg, b)
      /\ b \in Below(L, lf, rg, b)
  BY BelowClosed DEF Closed
<1>2. Below(L, lf, rg, l) \subseteq Below(L, lf, rg, b)
  <2>1. CASE l = nullptr
    BY <2>1, BelowNothing
  <2>2. CASE l # nullptr
    BY <2>2, <1>1, BelowBelow
  <2> QED BY <2>1, <2>2
<1>3. Below(L, lf, rg, r) \subseteq Below(L, lf, rg, b)
  <2>1. CASE r = nullptr
    BY <2>1, BelowNothing
  <2>2. CASE r # nullptr
    BY <2>2, <1>1, BelowBelow
  <2> QED BY <2>1, <2>2
<1>4. ASSUME NEW c \in L
      PROVE  /\ Closed(Below(L, lf, rg, c), lf, rg)
             /\ c \in Below(L, lf, rg, c)
  BY BelowClosed
<1>5. Closed(B, lf, rg)
  <2> SUFFICES ASSUME NEW c \in B, NEW d \in {lf[c], rg[c]}, d # nullptr
               PROVE  d \in B
    BY DEF Closed
  <2>1. CASE c = b
    BY <2>1, <1>1, <1>4
  <2>2. CASE c \in Below(L, lf, rg, l)
    <3>1. l \in L
      BY <2>2, <1>1, BelowNothing
    <3> QED BY <3>1, <2>2, <1>4 DEF Closed
  <2>3. CASE c \in Below(L, lf, rg, r)
    <3>1. r \in L
      BY <2>3, <1>1, BelowNothing
    <3> QED BY <3>1, <2>3, <1>4 DEF Closed
  <2> QED BY <2>1, <2>2, <2>3
<1>6. B \in SUBSET L /\ b \in B
  BY DEF Below
<1>7. Below(L, lf, rg, b) \subseteq B
  <2> HIDE DEF B
  <2> QED BY <1>5, <1>6, BelowLeast
<1> QED BY <1>1, <1>2, <1>3, <1>7

(* Only the children of the blocks of L matter. *)
LEMMA BelowFrame ==
  ASSUME NEW L, NEW lf, NEW rg, NEW lf2, NEW rg2, NEW b,
         \A c \in L : lf2[c] = lf[c] /\ rg2[c] = rg[c]
  PROVE  Below(L, lf2, rg2, b) = Below(L, lf, rg, b)
<1>1. \A B \in SUBSET L : Closed(B, lf2, rg2) <=> Closed(B, lf, rg)
  BY DEF Closed
<1> QED BY <1>1 DEF Below

(* The blocks of a forest are closed. *)
LEMMA ForestClosed ==
  ASSUME NEW L, NEW top, NEW loose, NEW pd, NEW lf, NEW rg,
         Forest(L, top, loose, pd, lf, rg)
  PROVE  Closed(L, lf, rg) /\ nullptr \notin L
BY DEF Forest, Closed

(* The way up from a block below b, other than b, stays below b. *)
LEMMA BelowParent ==
  ASSUME NEW L, NEW top, NEW loose, NEW pd, NEW lf, NEW rg,
         Forest(L, top, loose, pd, lf, rg),
         NEW b \in L, NEW c \in Below(L, lf, rg, b), c # b
  PROVE  pd[c] \in Below(L, lf, rg, b)
<1> PICK D : D = Below(L, lf, rg, b)
  OBVIOUS
<1> SUFFICES ASSUME pd[c] \notin D
             PROVE  FALSE
  OBVIOUS
<1>1. b \in D /\ D \subseteq L /\ Closed(D, lf, rg)
  BY ForestClosed, BelowClosed
<1>2. ASSUME NEW d \in D \ {c}, NEW e \in {lf[d], rg[d]}, e # nullptr
      PROVE  e \in D \ {c}
  <2>1. e \in D /\ pd[e] = d
    BY <1>1, <1>2 DEF Closed, Forest
  <2> QED BY <2>1
<1>3. Closed(D \ {c}, lf, rg)
  BY <1>2 DEF Closed
<1>4. D \subseteq D \ {c}
  <2>1. b \in D \ {c} /\ D \ {c} \in SUBSET L
    BY <1>1
  <2> QED BY <2>1, <1>3, BelowLeast
<1> QED BY <1>4

(* No block is below one of its children. *)
LEMMA BelowAcyclic ==
  ASSUME NEW L, NEW top, NEW loose, NEW pd, NEW lf, NEW rg,
         Forest(L, top, loose, pd, lf, rg), NEW b \in L
  PROVE  b \notin Below(L, lf, rg, lf[b]) /\ b \notin Below(L, lf, rg, rg[b])
<1>1. ASSUME NEW c \in {lf[b], rg[b]}
      PROVE  b \notin Below(L, lf, rg, c)
  <2>1. CASE c = nullptr
    BY <2>1, BelowNothing
  <2>2. CASE c # nullptr
    <3>1. c \in L /\ pd[c] = b
      BY <2>2 DEF Forest
    <3>2. c \in Below(L, lf, rg, c) /\ Below(L, lf, rg, c) \in SUBSET L
      BY <3>1, ForestClosed, BelowClosed
    <3>3. PICK d \in Below(L, lf, rg, c) : pd[d] \notin Below(L, lf, rg, c)
      BY <3>2 DEF Forest
    <3> QED BY <3>1, <3>3, BelowParent
  <2> QED BY <2>1, <2>2
<1> QED BY <1>1

(* The root is below no other block. *)
LEMMA TopNotBelow ==
  ASSUME NEW L, NEW top, NEW loose, NEW pd, NEW lf, NEW rg,
         Forest(L, top, loose, pd, lf, rg), top # nullptr, NEW b \in L
  PROVE  top \notin Below(L, lf, rg, lf[b]) /\ top \notin Below(L, lf, rg, rg[b])
<1> SUFFICES ASSUME NEW c \in {lf[b], rg[b]}, top \in Below(L, lf, rg, c)
             PROVE  FALSE
  OBVIOUS
<1>1. c \in L /\ pd[c] = b /\ b # nullptr
  BY BelowNothing DEF Forest
<1>2. pd[top] = nullptr /\ nullptr \notin L
  BY DEF Forest
<1>3. pd[top] \in Below(L, lf, rg, c)
  BY <1>1, <1>2, BelowParent
<1> QED BY <1>2, <1>3 DEF Below

(* The whole tree is below its root. *)
LEMMA BelowTop ==
  ASSUME NEW L, NEW top, NEW pd, NEW lf, NEW rg,
         Forest(L, top, nullptr, pd, lf, rg), top # nullptr
  PROVE  Below(L, lf, rg, top) = L
<1> PICK D : D = Below(L, lf, rg, top)
  OBVIOUS
<1> SUFFICES ASSUME L \ D # {}
             PROVE  FALSE
  BY DEF Below
<1>1. top \in D /\ D \subseteq L /\ Closed(D, lf, rg)
  <2>1. top \in L
    BY DEF Forest
  <2> QED BY <2>1, ForestClosed, BelowClosed
<1>2. PICK b \in L \ D : pd[b] \notin L \ D
  <2>1. L \ D \in SUBSET L
    OBVIOUS
  <2> QED BY <2>1 DEF Forest
<1>3. pd[b] \in D /\ pd[b] # nullptr /\ (lf[pd[b]] = b \/ rg[pd[b]] = b) /\ b # nullptr
  BY <1>1, <1>2 DEF Forest
<1> QED BY <1>1, <1>2, <1>3 DEF Closed

(* Two blocks of a tree, neither of which is below the other, are on        *)
(* different sides of a third. The proof goes down from the root: if it     *)
(* were not so, every block would be above both or above neither.           *)
LEMMA Parted ==
  ASSUME NEW L, NEW top, NEW pd, NEW lf, NEW rg,
         Forest(L, top, nullptr, pd, lf, rg),
         NEW b \in L, NEW c \in L,
         b \notin Below(L, lf, rg, c), c \notin Below(L, lf, rg, b)
  PROVE  \E a \in L :
           \/ b \in Below(L, lf, rg, lf[a]) /\ c \in Below(L, lf, rg, rg[a])
           \/ c \in Below(L, lf, rg, lf[a]) /\ b \in Below(L, lf, rg, rg[a])
<1> SUFFICES ASSUME \A a \in L :
                      /\ ~(b \in Below(L, lf, rg, lf[a]) /\ c \in Below(L, lf, rg, rg[a]))
                      /\ ~(c \in Below(L, lf, rg, lf[a]) /\ b \in Below(L, lf, rg, rg[a]))
             PROVE  FALSE
  OBVIOUS
<1> PICK S : S = {a \in L : ~(b \in Below(L, lf, rg, a) <=> c \in Below(L, lf, rg, a))}
  OBVIOUS
<1>1. Closed(L, lf, rg) /\ nullptr \notin L
  BY ForestClosed
<1>2. b \in S
  BY <1>1, BelowClosed
<1>3. PICK p \in S : pd[p] \notin S
  BY <1>2 DEF Forest
<1>4. CASE pd[p] = nullptr
  <2>1. p = top /\ p # nullptr
    BY <1>3, <1>4 DEF Forest
  <2>2. Below(L, lf, rg, p) = L
    BY <2>1, BelowTop
  <2> QED BY <1>3, <2>2
<1>5. CASE pd[p] # nullptr
  <2> PICK q \in L : q = pd[p] /\ (p = lf[q] \/ p = rg[q]) /\ q \notin S
    BY <1>3, <1>5 DEF Forest
  <2>1. Below(L, lf, rg, q) = {q} \cup Below(L, lf, rg, lf[q]) \cup Below(L, lf, rg, rg[q])
    BY <1>1, BelowChildren
  <2>2. CASE b \notin Below(L, lf, rg, q) /\ c \notin Below(L, lf, rg, q)
    BY <2>1, <2>2, <1>3
  <2>3. CASE b \in Below(L, lf, rg, q) /\ c \in Below(L, lf, rg, q)
    <3>1. b # q /\ c # q
      BY <2>3
    <3>2. \/ b \in Below(L, lf, rg, lf[q]) /\ c \in Below(L, lf, rg, lf[q])
          \/ b \in Below(L, lf, rg, rg[q]) /\ c \in Below(L, lf, rg, rg[q])
      BY <2>1, <2>3, <3>1
    <3> QED BY <3>2, <1>3
  <2> QED BY <2>2, <2>3
<1> QED BY <1>4, <1>5

-----------------------------------------------------------------------------
(* Search trees. An order is given by two functions: before[b] are the      *)
(* blocks that go left of b, after[b] those that go right.                  *)

Consistent(L, before, after) ==
  \A a, b, c \in L :
    /\ ~(a \in before[b] /\ a \in after[b])
    /\ a \in before[b] /\ c \in after[b] => a \in before[c] /\ c \in after[a]

Sorted(L, before, after, lf, rg) ==
  \A b \in L : /\ Below(L, lf, rg, lf[b]) \subseteq before[b]
               /\ Below(L, lf, rg, rg[b]) \subseteq after[b]

LEMMA SortedMirrored ==
  ASSUME NEW L, NEW before, NEW after, NEW lf, NEW rg,
         Sorted(L, before, after, lf, rg)
  PROVE  Sorted(L, after, before, rg, lf)
BY BelowMirrored DEF Sorted

(* Only the children, and the order, of the blocks of L matter. *)
LEMMA SortedFrame ==
  ASSUME NEW L, NEW before, NEW after, NEW lf, NEW rg,
         NEW before2, NEW after2, NEW lf2, NEW rg2,
         \A b \in L : /\ lf2[b] = lf[b] /\ rg2[b] = rg[b]
                      /\ before[b] \cap L \subseteq before2[b]
                      /\ after[b] \cap L \subseteq after2[b],
         Sorted(L, before, after, lf, rg)
  PROVE  Sorted(L, before2, after2, lf2, rg2)
<1> SUFFICES ASSUME NEW b \in L
             PROVE  /\ Below(L, lf2, rg2, lf2[b]) \subseteq before2[b]
                    /\ Below(L, lf2, rg2, rg2[b]) \subseteq after2[b]
  BY DEF Sorted
<1>1. /\ Below(L, lf2, rg2, lf2[b]) = Below(L, lf, rg, lf[b])
      /\ Below(L, lf2, rg2, rg2[b]) = Below(L, lf, rg, rg[b])
  BY BelowFrame
<1>2. /\ Below(L, lf, rg, lf[b]) \subseteq L
      /\ Below(L, lf, rg, rg[b]) \subseteq L
  BY DEF Below
<1> QED BY <1>1, <1>2 DEF Sorted

(* The search for a place for a block, added, and what is below it, D, has  *)
(* come to block at: no other block comes between those of D in the order, *)
(* and on the way to at all of D went to the side where it belongs.         *)
Placing(L, before, after, pd, lf, rg, at, added, D) ==
  /\ at \in L \ D
  /\ added \in D
  /\ D \subseteq L \cup {added}
  /\ Closed(D, lf, rg)
  /\ \A d \in D : d = added \/ pd[d] \in D
  /\ \A b \in L \ D : D \subseteq before[b] \/ D \subseteq after[b]
  /\ \A b \in L : /\ at \in Below(L, lf, rg, lf[b]) => D \subseteq before[b]
                  /\ at \in Below(L, lf, rg, rg[b]) => D \subseteq after[b]

LEMMA PlacingMirrored ==
  ASSUME NEW L, NEW before, NEW after, NEW pd, NEW lf, NEW rg,
         NEW at, NEW added, NEW D,
         Placing(L, before, after, pd, lf, rg, at, added, D)
  PROVE  Placing(L, after, before, pd, rg, lf, at, added, D)
<1>1. Closed(D, rg, lf)
  BY DEF Placing, Closed
<1> QED BY <1>1, BelowMirrored DEF Placing

LEMMA PlacingFrame ==
  ASSUME NEW L, NEW before, NEW after, NEW pd, NEW lf, NEW rg,
         NEW at, NEW added, NEW D,
         NEW before2, NEW after2, NEW pd2, NEW lf2, NEW rg2,
         \A b \in L \cup {added} :
            /\ pd2[b] = pd[b] /\ lf2[b] = lf[b] /\ rg2[b] = rg[b]
            /\ before[b] \cap (L \cup {added}) \subseteq before2[b]
            /\ after[b] \cap (L \cup {added}) \subseteq after2[b],
         Placing(L, before, after, pd, lf, rg, at, added, D)
  PROVE  Placing(L, before2, after2, pd2, lf2, rg2, at, added, D)
<1> USE DEF Placing
<1>1. Closed(D, lf2, rg2)
  BY DEF Closed
<1>2. \A d \in D : d = added \/ pd2[d] \in D
  OBVIOUS
<1>3. \A b \in L \ D : D \subseteq before2[b] \/ D \subseteq after2[b]
  OBVIOUS
<1>4. ASSUME NEW b \in L
      PROVE  /\ at \in Below(L, lf2, rg2, lf2[b]) => D \subseteq before2[b]
             /\ at \in Below(L, lf2, rg2, rg2[b]) => D \subseteq after2[b]
  <2>1. /\ Below(L, lf2, rg2, lf2[b]) = Below(L, lf, rg, lf[b])
        /\ Below(L, lf2, rg2, rg2[b]) = Below(L, lf, rg, rg[b])
    BY BelowFrame
  <2> QED BY <2>1
<1> QED BY <1>1, <1>2, <1>3, <1>4

(* The block, and with it all of D, belongs to one side of every block that *)
(* the search comes to.                                                     *)
LEMMA PlacingSide ==
  ASSUME NEW L, NEW before, NEW after, NEW pd, NEW lf, NEW rg,
         NEW at, NEW added, NEW D,
         Placing(L, before, after, pd, lf, rg, at, added, D),
         ~(added \in before[at] /\ added \in after[at]),
         added \in before[at]
  PROVE  D \subseteq before[at]
BY DEF Placing

(* The search goes left. *)
LEMMA PlacingLeft ==
  ASSUME NEW L, NEW before, NEW after, NEW pd, NEW lf, NEW rg,
         NEW top, NEW loose, NEW at, NEW added, NEW D,
         Forest(L, top, loose, pd, lf, rg),
         Placing(L, before, after, pd, lf, rg, at, added, D),
         added \in L => pd[added] = nullptr,
         D \subseteq before[at], lf[at] # nullptr
  PROVE  Placing(L, before, after, pd, lf, rg, lf[at], added, D)
<1> PICK l : l = lf[at]
  OBVIOUS
<1>1. at \in L /\ l \in L /\ pd[l] = at /\ at # nullptr /\ rg[at] # l
  BY DEF Placing, Forest
<1>2. l \notin D
  BY <1>1 DEF Placing
<1>3. ASSUME NEW b \in L, l \in Below(L, lf, rg, lf[b])
      PROVE  D \subseteq before[b]
  <2>1. CASE l = lf[b]
    BY <2>1, <1>1 DEF Forest
  <2>2. CASE l # lf[b]
    <3>1. lf[b] \in L
      BY <1>3, BelowNothing DEF Forest
    <3>2. at \in Below(L, lf, rg, lf[b])
      BY <3>1, <2>2, <1>1, <1>3, BelowParent
    <3> QED BY <3>2 DEF Placing
  <2> QED BY <2>1, <2>2
<1>4. ASSUME NEW b \in L, l \in Below(L, lf, rg, rg[b])
      PROVE  D \subseteq after[b]
  <2>1. l # rg[b]
    BY <1>1 DEF Forest
  <2>2. rg[b] \in L
    BY <1>4, BelowNothing DEF Forest
  <2>3. at \in Below(L, lf, rg, rg[b])
    BY <2>1, <2>2, <1>1, <1>4, BelowParent
  <2> QED BY <2>3 DEF Placing
<1> QED BY <1>1, <1>2, <1>3, <1>4 DEF Placing

(* The search ends on the left of a block that has no left child: linking  *)
(* added there keeps the tree sorted.                                       *)
LEMMA SortedAdd ==
  ASSUME NEW L, NEW before, NEW after, NEW pd, NEW lf, NEW rg,
         NEW lf2, NEW rg2, NEW at, NEW added, NEW D,
         nullptr \notin L, Closed(L, lf, rg),
         Sorted(L, before, after, lf, rg),
         Placing(L, before, after, pd, lf, rg, at, added, D),
         \/ added \in L
         \/ lf[added] = nullptr /\ rg[added] = nullptr,
         added # nullptr,
         D \subseteq before[at], lf[at] = nullptr,
         \A b \in L \cup {added} : /\ lf2[b] = IF b = at THEN added ELSE lf[b]
                                   /\ rg2[b] = rg[b]
  PROVE  Sorted(L \cup {added}, before, after, lf2, rg2)
<1> PICK M : M = L \cup {added}
  OBVIOUS
<1>1. at \in L /\ at # added /\ added \in D /\ D \subseteq M /\ Closed(D, lf, rg)
  BY DEF Placing
<1>2. Below(M, lf2, rg2, added) \subseteq D
  <2>1. Closed(D, lf2, rg2)
    BY <1>1 DEF Closed
  <2> QED BY <1>1, <2>1, BelowLeast
<1>3. ASSUME NEW b \in L
      PROVE  Below(M, lf2, rg2, b) \subseteq
               Below(L, lf, rg, b) \cup (IF at \in Below(L, lf, rg, b) THEN D ELSE {})
  <2> PICK B : B = Below(L, lf, rg, b)
    OBVIOUS
  <2> PICK C : C = B \cup (IF at \in B THEN D ELSE {})
    OBVIOUS
  <2>1. b \in B /\ B \subseteq L /\ Closed(B, lf, rg)
    BY BelowClosed
  <2>2. Closed(C, lf2, rg2)
    <3> SUFFICES ASSUME NEW c \in C, NEW d \in {lf2[c], rg2[c]}, d # nullptr
                 PROVE  d \in C
      BY DEF Closed
    <3>1. CASE c = at
      <4>1. at \in B
        <5>1. CASE at \in D
          BY <5>1 DEF Placing
        <5>2. CASE at \notin D
          BY <5>2, <3>1
        <5> QED BY <5>1, <5>2
      <4> QED BY <3>1, <4>1, <2>1, <1>1 DEF Closed
    <3>2. CASE c # at
      <4>1. d \in {lf[c], rg[c]}
        BY <3>2, <2>1, <1>1
      <4> QED BY <4>1, <2>1, <1>1 DEF Closed
    <3> QED BY <3>1, <3>2
  <2>3. C \in SUBSET M /\ b \in C
    BY <2>1, <1>1
  <2>4. Below(M, lf2, rg2, b) \subseteq C
    BY <2>2, <2>3, BelowLeast
  <2> QED BY <2>4
<1>4. ASSUME NEW b \in M, b # at
      PROVE  Below(M, lf2, rg2, lf2[b]) \subseteq before[b]
  <2>1. lf2[b] = lf[b]
    BY <1>4
  <2>2. CASE lf[b] = nullptr
    BY <2>1, <2>2, BelowNothing
  <2>3. CASE lf[b] # nullptr
    <3>1. b \in L /\ lf[b] \in L
      BY <2>3 DEF Closed
    <3>2. Below(L, lf, rg, lf[b]) \subseteq before[b]
      BY <3>1 DEF Sorted
    <3>3. at \in Below(L, lf, rg, lf[b]) => D \subseteq before[b]
      BY <3>1 DEF Placing
    <3> QED BY <2>1, <3>1, <3>2, <3>3, <1>3
  <2> QED BY <2>2, <2>3
<1>5. Below(M, lf2, rg2, lf2[at]) \subseteq before[at]
  BY <1>1, <1>2
<1>6. ASSUME NEW b \in M
      PROVE  Below(M, lf2, rg2, rg2[b]) \subseteq after[b]
  <2>1. rg2[b] = rg[b]
    OBVIOUS
  <2>2. CASE rg[b] = nullptr
    BY <2>1, <2>2, BelowNothing
  <2>3. CASE rg[b] # nullptr
    <3>1. b \in L /\ rg[b] \in L
      BY <2>3 DEF Closed
    <3>2. Below(L, lf, rg, rg[b]) \subseteq after[b]
      BY <3>1 DEF Sorted
    <3>3. at \in Below(L, lf, rg, rg[b]) => D \subseteq after[b]
      BY <3>1 DEF Placing
    <3> QED BY <2>1, <3>1, <3>2, <3>3, <1>3
  <2> QED BY <2>2, <2>3
<1> QED BY <1>4, <1>5, <1>6 DEF Sorted

(* Taking a block out of a sorted tree, as in ForestRemove, leaves a sorted *)
(* tree, or two: what is below a block afterwards was below it before.      *)
LEMMA SortedRemove ==
  ASSUME NEW L, NEW before, NEW after, NEW pd, NEW lf, NEW rg, NEW top,
         NEW lf2, NEW rg2, NEW gone \in L, NEW parent, NEW l,
         Forest(L, top, nullptr, pd, lf, rg),
         Sorted(L, before, after, lf, rg),
         parent = pd[gone], l = lf[gone],
         \A b \in L \ {gone} :
           /\ lf2[b] = IF b = parent /\ lf[b] = gone THEN l ELSE lf[b]
           /\ rg2[b] = IF b = parent /\ lf[b] # gone /\ rg[b] = gone
                       THEN l ELSE rg[b]
  PROVE  Sorted(L \ {gone}, before, after, lf2, rg2)
<1> PICK M : M = L \ {gone}
  OBVIOUS
<1>1. Closed(L, lf, rg) /\ nullptr \notin L
  BY ForestClosed
<1>2. l # nullptr => l \in M
  <2>1. gone \notin Below(L, lf, rg, l)
    BY BelowAcyclic
  <2>2. l # nullptr => l \in L
    BY DEF Forest
  <2> QED BY <2>1, <2>2, <1>1, BelowClosed
<1>3. \A b \in M : /\ lf[b] # nullptr => lf[b] \in L /\ pd[lf[b]] = b
                   /\ rg[b] # nullptr => rg[b] \in L /\ pd[rg[b]] = b
  BY DEF Forest
<1>4. gone # nullptr
  BY <1>1
<1>5. ASSUME NEW b \in M
      PROVE  /\ lf2[b] \in M \cup {nullptr}
             /\ rg2[b] \in M \cup {nullptr}
             /\ lf2[b] # lf[b] => lf[b] = gone /\ lf2[b] = l
             /\ rg2[b] # rg[b] => rg[b] = gone /\ rg2[b] = l
  <2>1. (lf[b] = gone => b = parent) /\ (rg[b] = gone => b = parent)
    BY <1>3, <1>4
  <2>2. lf[b] # rg[b] \/ lf[b] = nullptr
    BY DEF Forest
  <2> QED BY <2>1, <2>2, <1>2, <1>3, <1>4
<1>6. l # nullptr => l \in Below(L, lf, rg, gone)
  BY <1>1, BelowClosed DEF Closed
<1>7. Below(L, lf, rg, l) \subseteq Below(L, lf, rg, gone)
  <2>1. CASE l = nullptr
    BY <2>1, BelowNothing
  <2>2. CASE l # nullptr
    BY <2>2, <1>1, <1>6, BelowBelow
  <2> QED BY <2>1, <2>2
<1>8. ASSUME NEW b \in M
      PROVE  Below(M, lf2, rg2, b) \subseteq Below(L, lf, rg, b)
  <2> PICK B : B = Below(L, lf, rg, b)
    OBVIOUS
  <2>1. b \in B /\ B \subseteq L /\ Closed(B, lf, rg)
    BY <1>1, BelowClosed
  <2>2. gone \in B /\ l # nullptr => l \in B
    BY <2>1 DEF Closed
  <2>3. Closed(B \ {gone}, lf2, rg2)
    <3> SUFFICES ASSUME NEW c \in B \ {gone}, NEW d \in {lf2[c], rg2[c]}, d # nullptr
                 PROVE  d \in B \ {gone}
      BY DEF Closed
    <3>1. c \in M
      BY <2>1
    <3>2. d \in M
      BY <3>1, <1>5
    <3>3. d \in {lf[c], rg[c]} \/ (d = l /\ gone \in {lf[c], rg[c]})
      BY <3>1, <1>5
    <3>4. \A e \in {lf[c], rg[c]} : e # nullptr => e \in B
      BY <2>1 DEF Closed
    <3> QED BY <3>2, <3>3, <3>4, <2>2, <1>4
  <2>4. B \ {gone} \in SUBSET M /\ b \in B \ {gone}
    BY <2>1
  <2>5. Below(M, lf2, rg2, b) \subseteq B \ {gone}
    BY <2>3, <2>4, BelowLeast
  <2> QED BY <2>5
<1>9. ASSUME NEW b \in M, NEW c, NEW c2, c2 \in M \cup {nullptr},
             c2 = c \/ (c = gone /\ c2 = l)
      PROVE  Below(M, lf2, rg2, c2) \subseteq Below(L, lf, rg, c)
  <2>1. CASE c2 = nullptr
    BY <2>1, BelowNothing
  <2>2. CASE c2 # nullptr
    BY <2>2, <1>7, <1>8, <1>9
  <2> QED BY <2>1, <2>2
<1>10. ASSUME NEW b \in M
       PROVE  /\ Below(M, lf2, rg2, lf2[b]) \subseteq before[b]
              /\ Below(M, lf2, rg2, rg2[b]) \subseteq after[b]
  <2>1. /\ Below(M, lf2, rg2, lf2[b]) \subseteq Below(L, lf, rg, lf[b])
        /\ Below(M, lf2, rg2, rg2[b]) \subseteq Below(L, lf, rg, rg[b])
    BY <1>5, <1>9
  <2> QED BY <2>1 DEF Sorted
<1> QED BY <1>10 DEF Sorted

(* What is left of the links pd, lf and rg when block gone has been taken   *)
(* out, as in ForestRemove.                                                 *)
Relinked(L, gone, parent, l, r, pd, lf, rg, pd2, lf2, rg2) ==
  /\ parent = pd[gone] /\ l = lf[gone] /\ r = rg[gone]
  /\ \A b \in L \ {gone} :
       /\ pd2[b] = IF b = r THEN nullptr ELSE IF b = l THEN parent ELSE pd[b]
       /\ lf2[b] = IF b = parent /\ lf[b] = gone THEN l ELSE lf[b]
       /\ rg2[b] = IF b = parent /\ lf[b] # gone /\ rg[b] = gone THEN l ELSE rg[b]

(* When a right subtree is left over, the search for a place for it starts  *)
(* at the root. Nothing comes between its blocks in the order, because it   *)
(* was all that was right of the removed block.                             *)
LEMMA PlacingAfterRemove ==
  ASSUME NEW L, NEW before, NEW after, NEW pd, NEW lf, NEW rg, NEW top,
         NEW pd2, NEW lf2, NEW rg2, NEW gone \in L, NEW parent,
         NEW l, NEW r, NEW rest,
         Forest(L, top, nullptr, pd, lf, rg),
         Forest(L \ {gone}, rest, r, pd2, lf2, rg2),
         Sorted(L, before, after, lf, rg),
         Consistent(L, before, after),
         Relinked(L, gone, parent, l, r, pd, lf, rg, pd2, lf2, rg2),
         r # nullptr, rest # nullptr,
         parent = nullptr => rest = l, parent # nullptr => rest = top
  PROVE  Placing(L \ {gone}, before, after, pd2, lf2, rg2, rest, r,
                 Below(L, lf, rg, r))
<1>0. /\ parent = pd[gone] /\ l = lf[gone] /\ r = rg[gone]
      /\ \A b \in L \ {gone} :
           /\ pd2[b] = IF b = r THEN nullptr ELSE IF b = l THEN parent ELSE pd[b]
           /\ lf2[b] = IF b = parent /\ lf[b] = gone THEN l ELSE lf[b]
           /\ rg2[b] = IF b = parent /\ lf[b] # gone /\ rg[b] = gone THEN l ELSE rg[b]
  BY DEF Relinked
<1> PICK M, D : M = L \ {gone} /\ D = Below(L, lf, rg, r)
  OBVIOUS
<1>1. Closed(L, lf, rg) /\ nullptr \notin L
  BY ForestClosed
<1>2. r \in L /\ pd[r] = gone
  BY <1>0 DEF Forest
<1>3. r \in D /\ D \subseteq M /\ Closed(D, lf, rg)
  BY <1>0, <1>1, <1>2, BelowClosed, BelowAcyclic
<1>4. \A d \in D : d = r \/ pd[d] \in D
  BY <1>2, BelowParent
<1>5. parent # gone /\ parent \notin D
  <2>1. parent # nullptr => parent \in L /\ gone \in {lf[parent], rg[parent]}
    BY <1>0 DEF Forest
  <2>2. parent \notin D
    BY <2>1, <1>1, <1>3 DEF Closed
  <2>3. parent # gone
    <3>1. gone \in Below(L, lf, rg, gone)
      BY <1>1, BelowClosed
    <3>2. gone \notin {lf[gone], rg[gone]}
      BY <3>1, BelowAcyclic
    <3> QED BY <2>1, <3>2, <1>1
  <2> QED BY <2>2, <2>3
<1>6. l \notin D
  <2> SUFFICES ASSUME l \in D
               PROVE  FALSE
    OBVIOUS
  <2>1. pd[l] = gone /\ l # r
    BY <1>0, <1>1, <1>3 DEF Forest
  <2> QED BY <2>1, <1>3, <1>4
<1>7. Closed(D, lf2, rg2) /\ \A d \in D : d = r \/ pd2[d] \in D
  BY <1>0, <1>3, <1>4, <1>5, <1>6 DEF Closed
<1>8. rest \in M \ D
  <2>1. rest \in M /\ pd2[rest] = nullptr /\ rest # r
    BY DEF Forest
  <2>2. rest \in D => pd2[rest] \in D
    BY <2>1, <1>7
  <2> QED BY <2>1, <2>2, <1>1, <1>3
<1>9. ASSUME NEW b \in M
      PROVE  rest \notin Below(M, lf2, rg2, lf2[b]) /\ rest \notin Below(M, lf2, rg2, rg2[b])
  BY TopNotBelow
<1>10. D \subseteq after[gone] /\ D \subseteq Below(L, lf, rg, gone)
  <2>1. r \in Below(L, lf, rg, gone)
    BY <1>0, <1>1, <1>2, BelowClosed DEF Closed
  <2> QED BY <1>0, <2>1, <1>1, BelowBelow DEF Sorted
<1>11. ASSUME NEW b \in M \ D
       PROVE  D \subseteq before[b] \/ D \subseteq after[b]
  <2>1. CASE b \in Below(L, lf, rg, gone)
    <3>1. b \in Below(L, lf, rg, l)
      BY <1>0, <2>1, <1>1, BelowChildren
    <3>2. b \in before[gone]
      BY <1>0, <3>1 DEF Sorted
    <3> QED BY <3>2, <1>3, <1>10 DEF Consistent
  <2>2. CASE gone \in Below(L, lf, rg, b)
    <3>1. gone \in Below(L, lf, rg, lf[b]) \/ gone \in Below(L, lf, rg, rg[b])
      <4>1. Below(L, lf, rg, b) =
              {b} \cup Below(L, lf, rg, lf[b]) \cup Below(L, lf, rg, rg[b])
        BY <1>1, BelowChildren
      <4> QED BY <2>2, <4>1
    <3>2. ASSUME NEW c \in {lf[b], rg[b]}, gone \in Below(L, lf, rg, c)
          PROVE  D \subseteq Below(L, lf, rg, c)
      <4>1. c \in L
        BY <3>2, BelowNothing DEF Forest
      <4> QED BY <4>1, <3>2, <1>1, <1>10, BelowBelow
    <3> QED BY <3>1, <3>2 DEF Sorted
  <2>3. CASE b \notin Below(L, lf, rg, gone) /\ gone \notin Below(L, lf, rg, b)
    <3>1. PICK a \in L :
            \/ b \in Below(L, lf, rg, lf[a]) /\ gone \in Below(L, lf, rg, rg[a])
            \/ gone \in Below(L, lf, rg, lf[a]) /\ b \in Below(L, lf, rg, rg[a])
      BY <2>3, Parted
    <3>2. ASSUME NEW c \in {lf[a], rg[a]}, gone \in Below(L, lf, rg, c)
          PROVE  D \subseteq Below(L, lf, rg, c)
      <4>1. c \in L
        BY <3>2, BelowNothing DEF Forest
      <4> QED BY <4>1, <3>2, <1>1, <1>10, BelowBelow
    <3>3. CASE b \in Below(L, lf, rg, lf[a]) /\ gone \in Below(L, lf, rg, rg[a])
      <4>1. b \in before[a] /\ D \subseteq after[a]
        BY <3>2, <3>3 DEF Sorted
      <4> QED BY <4>1, <1>3 DEF Consistent
    <3>4. CASE gone \in Below(L, lf, rg, lf[a]) /\ b \in Below(L, lf, rg, rg[a])
      <4>1. b \in after[a] /\ D \subseteq before[a]
        BY <3>2, <3>4 DEF Sorted
      <4> QED BY <4>1, <1>3 DEF Consistent
    <3> QED BY <3>1, <3>3, <3>4
  <2> QED BY <2>1, <2>2, <2>3
<1> QED BY <1>3, <1>7, <1>8, <1>9, <1>11 DEF Placing

-----------------------------------------------------------------------------
(* The inductive invariant. *)

(* The order of tree t: where GoesLeft sends a block that comes to block b. *)
LeftOf(t) ==
  [b \in Pages |-> {c \in Pages : IF t = "size" THEN size[c] <= size[b] ELSE c < b}]

RightOf(t) ==
  [b \in Pages |-> {c \in Pages : IF t = "size" THEN size[c] > size[b] ELSE c > b}]

(* What is reached from block b in tree t. *)
Under(t, b) == Below(Linked(t), left[t], right[t], b)

(* Both trees, and the subtree that is on its way back, are in order. *)
Ordered == \A t \in Trees : Sorted(Linked(t), LeftOf(t), RightOf(t), left[t], right[t])

(* The block, or the subtree, that is on its way into a tree belongs where  *)
(* the loop has come to.                                                    *)
Placed ==
  pc = "descend" =>
    \E D \in SUBSET (Linked(tree) \cup {moving}) :
      Placing(Linked(tree), LeftOf(tree), RightOf(tree), pred[tree], left[tree],
              right[tree], cursor, moving, D)

(* A block is a number of whole pages, unless it ends the region. *)
Exact == \A b \in Headers : size[b] % 4096 = 0 \/ Top(b) = N

(* The free blocks but the one that deallocate() has yet to merge. *)
Kept == IF op = "deallocate" /\ activity # "add" THEN Headers \ {hand} ELSE Headers

(* Coalesced, at every step. *)
Apart == \A b, c \in Kept : ~EndsAt(b, c)

(* What deallocate() has not come to yet has all neighbours of its block. *)
NeighboursAhead ==
  pc = "merge" =>
    \A b \in Kept : EndsAt(b, hand) \/ EndsAt(hand, b) => b \in Under("address", cursor)

(* What allocate() has not come to yet has a block that is large enough, if *)
(* there is one.                                                            *)
FitAhead ==
  pc = "search" =>
    \A b \in Headers : size[b] >= request =>
      \E c \in Under("size", cursor) : size[c] >= request

(* The inductive invariant, together with Inv. SearchOrder and Coalesced    *)
(* follow from Ordered and Apart; Ordered needs Placed, because the loop of *)
(* add_node_to_tree compares with one path of blocks only, and Apart needs  *)
(* NeighboursAhead, because deallocate() searches one path only.            *)
OrderInv == Ordered /\ Placed /\ Exact /\ Apart /\ NeighboursAhead /\ FitAhead

(* Facts about the trees in terms of the allocator's variables. *)

(* The trees' blocks are pages, and what the orders are, block by block. *)
LEMMA Sides ==
  ASSUME NEW t \in Trees
  PROVE  /\ Linked(t) \subseteq Headers
         /\ Headers \subseteq Pages
         /\ \A b, c \in Pages :
              /\ c \in LeftOf(t)[b] <=> IF t = "size" THEN size[c] <= size[b] ELSE c < b
              /\ c \in RightOf(t)[b] <=> IF t = "size" THEN size[c] > size[b] ELSE c > b
BY DEF Linked, Headers, LeftOf, RightOf

(* The orders are orders. *)
LEMMA OrderConsistent ==
  ASSUME TypeOK, NEW t \in Trees, NEW L \in SUBSET Pages
  PROVE  Consistent(L, LeftOf(t), RightOf(t))
<1> SUFFICES ASSUME NEW a \in L, NEW b \in L, NEW c \in L
             PROVE  /\ ~(a \in LeftOf(t)[b] /\ a \in RightOf(t)[b])
                    /\ a \in LeftOf(t)[b] /\ c \in RightOf(t)[b] =>
                         a \in LeftOf(t)[c] /\ c \in RightOf(t)[a]
  BY DEF Consistent
<1>1. /\ a \in Pages /\ b \in Pages /\ c \in Pages
      /\ a \in Nat /\ b \in Nat /\ c \in Nat
      /\ size[a] \in Nat /\ size[b] \in Nat /\ size[c] \in Nat
  BY Region DEF TypeOK
<1>2. CASE t = "size"
  BY <1>1, <1>2, Sides
<1>3. CASE t # "size"
  BY <1>1, <1>3, Sides
<1> QED BY <1>2, <1>3

(* What is under a block are the block and what is under its children. *)
LEMMA UnderChildren ==
  ASSUME Inv, NEW t \in Trees, NEW b \in Linked(t)
  PROVE  Under(t, b) = {b} \cup Under(t, left[t][b]) \cup Under(t, right[t][b])
<1>1. Forest(Linked(t), root[t], Loose(t), pred[t], left[t], right[t])
  BY DEF Inv, Forests
<1>2. Closed(Linked(t), left[t], right[t]) /\ nullptr \notin Linked(t)
  BY <1>1, ForestClosed
<1> QED BY <1>2, BelowChildren DEF Under

(* Under the root is the whole tree. *)
LEMMA UnderRoot ==
  ASSUME Inv, NEW t \in Trees, Loose(t) = nullptr
  PROVE  Under(t, root[t]) = Linked(t)
<1>1. Forest(Linked(t), root[t], nullptr, pred[t], left[t], right[t])
  BY DEF Inv, Forests
<1>2. CASE root[t] = nullptr
  BY <1>1, <1>2, ForestWithoutTop, BelowNothing DEF Under
<1>3. CASE root[t] # nullptr
  BY <1>1, <1>3, BelowTop DEF Under
<1> QED BY <1>2, <1>3

(* Only the links and the sizes of the linked blocks matter. *)
LinkedUnchanged ==
  \A t \in Trees :
    /\ Linked(t)' = Linked(t)
    /\ \A b \in Linked(t) : /\ left'[t][b] = left[t][b]
                            /\ right'[t][b] = right[t][b]
                            /\ size'[b] = size[b]

LEMMA UnderFrame ==
  ASSUME LinkedUnchanged, NEW t \in Trees, NEW b
  PROVE  Under(t, b)' = Under(t, b)
<1> PICK L, lf, rg, lf2, rg2 : /\ L = Linked(t) /\ lf = left[t] /\ rg = right[t]
                               /\ lf2 = left'[t] /\ rg2 = right'[t]
  OBVIOUS
<1>1. \A c \in L : lf2[c] = lf[c] /\ rg2[c] = rg[c]
  BY DEF LinkedUnchanged
<1>2. Below(L, lf2, rg2, b) = Below(L, lf, rg, b)
  BY <1>1, BelowFrame
<1>3. Linked(t)' = L
  BY DEF LinkedUnchanged
<1> QED BY <1>2, <1>3 DEF Under

LEMMA OrderedFrame ==
  ASSUME LinkedUnchanged, Ordered
  PROVE  Ordered'
<1> SUFFICES ASSUME NEW t \in Trees
             PROVE  Sorted(Linked(t), LeftOf(t), RightOf(t), left[t], right[t])'
  BY DEF Ordered
<1> PICK L, lf, rg, lf2, rg2, bf, af, bf2, af2 :
      /\ L = Linked(t) /\ lf = left[t] /\ rg = right[t]
      /\ lf2 = left'[t] /\ rg2 = right'[t]
      /\ bf = LeftOf(t) /\ af = RightOf(t) /\ bf2 = LeftOf(t)' /\ af2 = RightOf(t)'
  OBVIOUS
<1>1. Sorted(L, bf, af, lf, rg)
  BY DEF Ordered
<1>2. \A b \in L : lf2[b] = lf[b] /\ rg2[b] = rg[b] /\ size'[b] = size[b]
  BY DEF LinkedUnchanged
<1>3. L \subseteq Pages
  BY Sides
<1>4. \A b \in L : /\ bf[b] \cap L \subseteq bf2[b]
                   /\ af[b] \cap L \subseteq af2[b]
  BY <1>2, <1>3 DEF LeftOf, RightOf
<1>5. Sorted(L, bf2, af2, lf2, rg2)
  BY <1>1, <1>2, <1>4, SortedFrame
<1>6. Linked(t)' = L
  BY DEF LinkedUnchanged
<1> QED BY <1>5, <1>6

-----------------------------------------------------------------------------
(* The actions. *)

(* A step that changes no block and no link. *)
LEMMA SameBlocks ==
  ASSUME OrderInv, UNCHANGED <<left, right, size>>,
         \A t \in Trees : Linked(t)' = Linked(t)
  PROVE  /\ LinkedUnchanged
         /\ Ordered'
         /\ Exact'
         /\ Headers' = Headers
         /\ Kept' = Kept => Apart'
<1>1. LinkedUnchanged
  BY DEF LinkedUnchanged
<1>2. Ordered'
  BY <1>1, OrderedFrame DEF OrderInv
<1>3. Headers' = Headers
  BY DEF Headers
<1>4. Exact'
  BY <1>3 DEF OrderInv, Exact, Top
<1>5. Kept' = Kept => Apart'
  BY DEF OrderInv, Apart, EndsAt
<1> QED BY <1>1, <1>2, <1>3, <1>4, <1>5

LEMMA AllocateOrder ==
  ASSUME Inv, OrderInv, NEW bytes \in Requests, Allocate(bytes)
  PROVE  OrderInv'
<1>1. /\ pc = "idle" /\ op = "none" /\ activity = "none"
      /\ pc' = "search" /\ op' = "allocate" /\ activity' = "none"
      /\ cursor' = root["size"]
      /\ UNCHANGED <<links, size, tree, node, moving, hand>>
  BY DEF Allocate, Inv, Control
<1>2. \A t \in Trees : Linked(t)' = Linked(t) /\ Loose(t) = nullptr
  BY <1>1 DEF Linked, Loose, Entering, Removed, Added, Headers
<1>3. LinkedUnchanged /\ Ordered' /\ Exact' /\ Headers' = Headers /\ Apart'
  <2>1. Kept' = Kept
    BY <1>1 DEF Kept, Headers
  <2> QED BY <2>1, <1>1, <1>2, SameBlocks DEF links
<1>4. FitAhead'
  <2> SUFFICES ASSUME NEW b \in Headers
               PROVE  b \in Under("size", cursor)'
    BY <1>3 DEF FitAhead
  <2>1. "size" \in Trees
    BY DEF Trees
  <2>2. Under("size", root["size"]) = Linked("size")
    BY <2>1, <1>2, UnderRoot
  <2>3. Under("size", root["size"])' = Linked("size")
    BY <2>1, <2>2, <1>1, <1>3, UnderFrame DEF links
  <2>4. b \in Linked("size")
    BY <1>1 DEF Linked, Entering, Removed, Added
  <2> QED BY <2>3, <2>4, <1>1 DEF links
<1> QED BY <1>1, <1>3, <1>4 DEF OrderInv, Placed, NeighboursAhead

(* What is under a block's children goes to their sides of it. *)
LEMMA UnderSides ==
  ASSUME Inv, OrderInv, NEW t \in Trees, NEW b \in Linked(t)
  PROVE  /\ \A c \in Under(t, left[t][b]) :
              c \in Linked(t) /\ IF t = "size" THEN size[c] <= size[b] ELSE c < b
         /\ \A c \in Under(t, right[t][b]) :
              c \in Linked(t) /\ IF t = "size" THEN size[c] > size[b] ELSE c > b
<1>1. Sorted(Linked(t), LeftOf(t), RightOf(t), left[t], right[t])
  BY DEF OrderInv, Ordered
<1>2. /\ Under(t, left[t][b]) \subseteq LeftOf(t)[b] \cap Linked(t)
      /\ Under(t, right[t][b]) \subseteq RightOf(t)[b] \cap Linked(t)
  BY <1>1 DEF Sorted, Under, Below
<1> QED BY <1>2, Sides

(* The search of allocate() goes where a block that is large enough is: a   *)
(* smaller child that fits is itself one, and without one nothing on the    *)
(* left of a block that is too small fits.                                  *)
LEMMA SearchOnOrder ==
  ASSUME Inv, OrderInv, SearchOn
  PROVE  OrderInv'
<1>1. /\ pc = "search" /\ cursor \in Linked("size") /\ "size" \in Trees
      /\ pc' = pc /\ op' = op /\ activity' = activity
      /\ UNCHANGED <<links, size, tree, node, moving, hand, request>>
  BY DEF SearchOn, Inv, Standing, Trees
<1>2. \A t \in Trees : Linked(t)' = Linked(t)
  BY <1>1 DEF Linked, Entering, Removed, Added, Headers
<1>3. LinkedUnchanged /\ Ordered' /\ Exact' /\ Headers' = Headers /\ Apart'
  <2>1. Kept' = Kept
    BY <1>1 DEF Kept, Headers
  <2> QED BY <2>1, <1>1, <1>2, SameBlocks DEF links
<1> PICK l, r, next : /\ l = left["size"][cursor] /\ r = right["size"][cursor]
                      /\ next = cursor'
  OBVIOUS
<1>4. ASSUME NEW b \in Headers, size[b] >= request
      PROVE  \E c \in Under("size", next) : size[c] >= request
  <2>1. PICK c \in Under("size", cursor) : size[c] >= request
    BY <1>1, <1>4 DEF OrderInv, FitAhead
  <2>2. Under("size", cursor) = {cursor} \cup Under("size", l) \cup Under("size", r)
    BY <1>1, UnderChildren
  <2>3. CASE SmallerFits
    <3>1. next = l /\ l # nullptr /\ size[l] >= request
      BY <2>3 DEF SearchOn, SmallerFits
    <3>2. l \in Linked("size")
      BY <3>1, <1>1 DEF Inv, Forests, Forest
    <3>3. l \in Under("size", l)
      BY <3>2, <1>1, UnderChildren
    <3> QED BY <3>1, <3>3
  <2>4. CASE ~SmallerFits
    <3>1. next = r /\ size[cursor] < request
      BY <2>4 DEF SearchOn, MustGoLarger
    <3>2. request \in Nat /\ size[cursor] \in Nat /\ size[c] \in Nat
      BY <1>1, <2>1, Sides, MemoryAssumption DEF Inv, TypeOK, Under, Below
    <3>3. c # cursor
      BY <3>1, <3>2, <2>1
    <3>4. c \notin Under("size", l)
      <4> SUFFICES ASSUME c \in Under("size", l) PROVE FALSE
        OBVIOUS
      <4>1. size[c] <= size[cursor]
        BY <1>1, UnderSides
      <4> QED BY <4>1, <3>1, <3>2, <2>1
    <3> QED BY <3>1, <3>3, <3>4, <2>1, <2>2
  <2> QED BY <2>3, <2>4
<1>5. FitAhead'
  <2>1. Under("size", next)' = Under("size", next)
    BY <1>1, <1>3, UnderFrame
  <2> QED BY <2>1, <1>1, <1>3, <1>4 DEF FitAhead
<1> QED BY <1>1, <1>3, <1>5 DEF OrderInv, Placed, NeighboursAhead

LEMMA RefuseOrder ==
  ASSUME Inv, OrderInv, Refuse
  PROVE  OrderInv'
<1>1. /\ pc = "search" /\ op = "allocate" /\ activity = "none"
      /\ pc' = "idle" /\ op' = "none" /\ activity' = "none"
      /\ UNCHANGED <<links, size>>
  BY DEF Refuse, Return, Inv, Control
<1>2. \A t \in Trees : Linked(t)' = Linked(t)
  BY <1>1 DEF Linked, Entering, Removed, Added, Headers
<1>3. Ordered' /\ Exact' /\ Apart'
  <2>1. Kept' = Kept
    BY <1>1 DEF Kept, Headers
  <2> QED BY <2>1, <1>1, <1>2, SameBlocks DEF links
<1> QED BY <1>1, <1>3 DEF OrderInv, Placed, NeighboursAhead, FitAhead

LEMMA ChooseOrder ==
  ASSUME Inv, OrderInv, Choose
  PROVE  OrderInv'
<1>1. /\ pc = "search" /\ op = "allocate" /\ activity = "none" /\ tree = "size"
      /\ pc' = "unlink" /\ op' = "allocate" /\ activity' = "remove" /\ tree' = "size"
      /\ UNCHANGED <<links, size>>
  BY DEF Choose, StartRemoving, Inv, Control
<1>2. \A t \in Trees : Linked(t)' = Linked(t)
  BY <1>1 DEF Linked, Entering, Removed, Added, Headers
<1>3. Ordered' /\ Exact' /\ Apart'
  <2>1. Kept' = Kept
    BY <1>1 DEF Kept, Headers
  <2> QED BY <2>1, <1>1, <1>2, SameBlocks DEF links
<1> QED BY <1>1, <1>3 DEF OrderInv, Placed, NeighboursAhead, FitAhead

LEMMA MergeFoundOrder ==
  ASSUME Inv, OrderInv, MergeFound
  PROVE  OrderInv'
<1>1. /\ pc = "merge" /\ op = "deallocate" /\ activity = "none" /\ tree = "size"
      /\ pc' = "unlink" /\ op' = "deallocate" /\ activity' = "remove" /\ tree' = "size"
      /\ UNCHANGED <<links, size, hand>>
  BY DEF MergeFound, StartRemoving, Inv, Control
<1>2. \A t \in Trees : Linked(t)' = Linked(t)
  BY <1>1 DEF Linked, Entering, Removed, Added, Headers
<1>3. Ordered' /\ Exact' /\ Apart'
  <2>1. Kept' = Kept
    BY <1>1 DEF Kept, Headers
  <2> QED BY <2>1, <1>1, <1>2, SameBlocks DEF links
<1> QED BY <1>1, <1>3 DEF OrderInv, Placed, NeighboursAhead, FitAhead

(* A block ends within its last page, and at its end if it has whole pages. *)
LEMMA EndsBy ==
  ASSUME TypeOK, NEW b \in Headers
  PROVE  /\ b * 4096 < b * 4096 + size[b]
         /\ b * 4096 + size[b] <= Top(b) * 4096
         /\ size[b] % 4096 = 0 => b * 4096 + size[b] = Top(b) * 4096
         /\ (Top(b) - 1) * 4096 < b * 4096 + size[b]
<1>1. b \in Nat /\ size[b] \in Nat /\ size[b] > 0
  BY TopType DEF Headers
<1>2. PICK n \in Nat : n = number_of_blocks(size[b])
  <2>1. number_of_blocks(size[b]) \in Nat
    BY <1>1 DEF number_of_blocks
  <2> QED BY <2>1
<1>3. /\ size[b] <= n * 4096 /\ (n - 1) * 4096 < size[b]
      /\ size[b] % 4096 = 0 => size[b] = n * 4096
  <2>1. PICK q, m \in Nat : /\ q = size[b] \div 4096 /\ m = size[b] % 4096
                            /\ size[b] = q * 4096 + m /\ m < 4096
    BY <1>1
  <2>2. n = q + (IF m > 0 THEN 1 ELSE 0) /\ size[b] = q * 4096 + m /\ m < 4096
    BY <1>2, <2>1 DEF number_of_blocks
  <2>3. /\ q * 4096 + m <= n * 4096
        /\ (n - 1) * 4096 < q * 4096 + m \/ q * 4096 + m = 0
        /\ m = 0 => q * 4096 + m = n * 4096
    <3>1. CASE m > 0
      <4>1. n = q + 1 /\ m < 4096
        BY <2>2, <3>1
      <4> QED BY <4>1, <3>1
    <3>2. CASE m = 0
      <4>1. n = q
        BY <2>2, <3>2
      <4> QED BY <4>1, <3>2
    <3> QED BY <3>1, <3>2
  <2> QED BY <1>1, <2>1, <2>2, <2>3
<1>4. Top(b) = b + n
  BY <1>2 DEF Top
<1> QED BY <1>1, <1>2, <1>3, <1>4

(* The search for a neighbour goes towards the block in hand: what is on    *)
(* the other side of a block that is no neighbour ends, or starts, too far  *)
(* away.                                                                    *)
LEMMA MergeSearchOnOrder ==
  ASSUME Inv, OrderInv, MergeSearchOn
  PROVE  OrderInv'
<1>1. /\ pc = "merge" /\ op = "deallocate" /\ activity = "none"
      /\ cursor \in Linked("address") /\ "address" \in Trees
      /\ pc' = pc /\ op' = op /\ activity' = activity
      /\ ~EndsAt(cursor, hand) /\ ~EndsAt(hand, cursor)
      /\ UNCHANGED <<links, size, tree, node, moving, hand, request>>
  BY DEF MergeSearchOn, Neighbour, Inv, Control, Standing, Trees
<1>2. \A t \in Trees : Linked(t)' = Linked(t)
  BY <1>1 DEF Linked, Entering, Removed, Added, Headers
<1>3. LinkedUnchanged /\ Ordered' /\ Exact' /\ Headers' = Headers /\ Apart'
  <2>1. Kept' = Kept
    BY <1>1 DEF Kept, Headers
  <2> QED BY <2>1, <1>1, <1>2, SameBlocks DEF links
<1> PICK l, r, next : /\ l = left["address"][cursor] /\ r = right["address"][cursor]
                      /\ next = cursor'
  OBVIOUS
<1>4. /\ hand \in Headers /\ cursor \in Headers /\ cursor # hand
      /\ Linked("address") = Headers \ {hand} /\ Kept = Headers \ {hand}
  BY <1>1 DEF Inv, Control, Linked, Entering, Added, Removed, Kept
<1>5. \A b \in Headers : b \in Nat /\ Top(b) \in Nat /\ size[b] \in Nat
  BY TopType DEF Inv
<1>6. ASSUME NEW b \in Kept, EndsAt(b, hand) \/ EndsAt(hand, b)
      PROVE  b \in Under("address", next)
  <2>1. b \in {cursor} \cup Under("address", l) \cup Under("address", r)
    BY <1>1, <1>6, UnderChildren DEF OrderInv, NeighboursAhead
  <2>2. b # cursor
    BY <1>1, <1>6
  <2>3. b \in Headers /\ b # hand
    BY <1>4
  <2>4. CASE cursor < hand
    <3>1. next = r
      BY <2>4 DEF MergeSearchOn
    <3>2. b \notin Under("address", l)
      <4> SUFFICES ASSUME b \in Under("address", l) PROVE FALSE
        OBVIOUS
      <4>1. b < cursor
        BY <1>1, UnderSides
      <4>2. Top(b) <= cursor
        BY <4>1, <2>3, <1>4 DEF Inv, Ownership
      <4>3. b * 4096 + size[b] <= Top(b) * 4096
        BY <2>3, EndsBy DEF Inv
      <4>4. ~EndsAt(b, hand)
        BY <4>2, <4>3, <2>3, <2>4, <1>4, <1>5 DEF EndsAt
      <4>5. ~EndsAt(hand, b)
        BY <4>1, <2>3, <2>4, <1>4, <1>5 DEF EndsAt
      <4> QED BY <4>4, <4>5, <1>6
    <3> QED BY <2>1, <2>2, <3>1, <3>2
  <2>5. CASE ~(cursor < hand)
    <3>1. next = l /\ hand < cursor
      BY <2>5, <1>4, <1>5 DEF MergeSearchOn
    <3>2. b \notin Under("address", r)
      <4> SUFFICES ASSUME b \in Under("address", r) PROVE FALSE
        OBVIOUS
      <4>1. b > cursor
        BY <1>1, UnderSides
      <4>2. Top(hand) <= cursor
        BY <3>1, <1>4 DEF Inv, Ownership
      <4>3. hand * 4096 + size[hand] <= Top(hand) * 4096
        BY <1>4, EndsBy DEF Inv
      <4>4. ~EndsAt(hand, b)
        BY <4>1, <4>2, <4>3, <2>3, <1>4, <1>5 DEF EndsAt
      <4>5. ~EndsAt(b, hand)
        BY <4>1, <3>1, <2>3, <1>4, <1>5 DEF EndsAt
      <4> QED BY <4>4, <4>5, <1>6
    <3> QED BY <2>1, <2>2, <3>1, <3>2
  <2> QED BY <2>4, <2>5
<1>7. NeighboursAhead'
  <2>1. Under("address", next)' = Under("address", next)
    BY <1>1, <1>3, UnderFrame
  <2>2. Kept' = Kept
    BY <1>1 DEF Kept, Headers
  <2> QED BY <2>1, <2>2, <1>1, <1>3, <1>6 DEF NeighboursAhead, EndsAt
<1> QED BY <1>1, <1>3, <1>7 DEF OrderInv, Placed, FitAhead

(* The search for a neighbour is over, and there is none.                   *)
LEMMA MergeDoneOrder ==
  ASSUME Inv, OrderInv, MergeDone
  PROVE  OrderInv'
<1>1. /\ pc = "merge" /\ op = "deallocate" /\ activity = "none" /\ tree = "size"
      /\ cursor = nullptr /\ hand \in Headers
      /\ pc' = "attach" /\ op' = "deallocate" /\ activity' = "add" /\ tree' = "size"
      /\ hand' = hand
      /\ UNCHANGED <<links, size>>
  BY DEF MergeDone, StartAdding, Inv, Control
<1>2. \A t \in Trees : Linked(t)' = Linked(t)
  BY <1>1 DEF Linked, Entering, Removed, Added, Headers
<1>3. Ordered' /\ Exact' /\ Headers' = Headers
  BY <1>1, <1>2, SameBlocks DEF links
<1>4. Apart'
  <2>1. Kept = Headers \ {hand} /\ Kept' = Headers
    BY <1>1, <1>3 DEF Kept
  <2>2. \A b \in Kept : ~EndsAt(b, hand) /\ ~EndsAt(hand, b)
    BY <1>1, BelowNothing DEF OrderInv, NeighboursAhead, Under
  <2>3. ~EndsAt(hand, hand)
    <3>1. hand * 4096 < hand * 4096 + size[hand] /\ hand \in Nat /\ size[hand] \in Nat
      BY <1>1, EndsBy, TopType DEF Inv
    <3> QED BY <3>1 DEF EndsAt
  <2>4. \A b, c \in Headers : ~EndsAt(b, c)
    BY <2>1, <2>2, <2>3 DEF OrderInv, Apart
  <2> QED BY <2>1, <2>4, <1>1 DEF Apart, EndsAt
<1> QED BY <1>1, <1>3, <1>4 DEF OrderInv, Placed, NeighboursAhead, FitAhead

LEMMA AttachedOrder ==
  ASSUME Inv, OrderInv, Attached
  PROVE  OrderInv'
<1>1. /\ pc = "attached" /\ activity = "add" /\ tree = "size"
      /\ pc' = "idle" /\ op' = "none" /\ activity' = "none"
      /\ UNCHANGED <<links, size>>
  BY DEF Attached, Return, Inv, Control
<1>2. \A t \in Trees : Linked(t)' = Linked(t)
  BY <1>1 DEF Linked, Entering, Removed, Added, Headers
<1>3. Ordered' /\ Exact' /\ Apart'
  <2>1. Kept' = Kept
    BY <1>1 DEF Kept, Headers
  <2> QED BY <2>1, <1>1, <1>2, SameBlocks DEF links
<1> QED BY <1>1, <1>3 DEF OrderInv, Placed, NeighboursAhead, FitAhead

LEMMA StutterOrder ==
  ASSUME OrderInv, UNCHANGED vars
  PROVE  OrderInv'
<1> USE DEF vars, links, locals
<1>1. /\ \A t \in Trees : Linked(t)' = Linked(t)
      /\ UNCHANGED <<left, right, size>>
  BY DEF Linked, Entering, Removed, Added, Headers
<1>2. LinkedUnchanged /\ Ordered' /\ Exact' /\ Headers' = Headers /\ Apart'
  <2>1. Kept' = Kept
    BY DEF Kept, Headers
  <2> QED BY <2>1, <1>1, SameBlocks
<1>3. Placed'
  BY DEF OrderInv, Placed, Linked, Entering, Removed, Added, Headers, LeftOf, RightOf
<1>4. NeighboursAhead' /\ FitAhead'
  BY DEF OrderInv, NeighboursAhead, FitAhead, Kept, EndsAt, Under, Linked, Entering,
     Removed, Added, Headers
<1> QED BY <1>2, <1>3, <1>4 DEF OrderInv

(* initialize() makes two trees of one block. *)
LEMMA InitOrder == Init => OrderInv
<1> SUFFICES ASSUME Init
             PROVE  OrderInv
  OBVIOUS
<1>1. Headers = {0} /\ Kept = {0} /\ Top(0) = N /\ size[0] = RegionSize /\ RegionSize \in Nat \ {0}
  <2>1. Headers = {0} /\ size[0] = RegionSize
    BY Region, MemoryAssumption DEF Init, Headers
  <2>2. 0 + N = N
    BY Region
  <2>3. Kept = Headers
    BY DEF Init, Kept
  <2> QED BY <2>1, <2>2, <2>3, MemoryAssumption DEF Top, N
<1>2. Exact
  BY <1>1 DEF Exact
<1>3. Apart
  BY <1>1 DEF Apart, EndsAt
<1>4. Ordered
  <2> SUFFICES ASSUME NEW t \in Trees
               PROVE  Sorted(Linked(t), LeftOf(t), RightOf(t), left[t], right[t])
    BY DEF Ordered
  <2>1. \A b \in Linked(t) : left[t][b] = nullptr /\ right[t][b] = nullptr
    BY DEF Init, Linked, Headers
  <2> QED BY <2>1, BelowNothing DEF Sorted
<1> QED BY <1>2, <1>3, <1>4 DEF OrderInv, Placed, NeighboursAhead, FitAhead, Init

(* Blocks with the same pages as before end where they ended. *)
LEMMA EndsAtFrame ==
  ASSUME NEW b, NEW c, size'[b] = size[b]
  PROVE  EndsAt(b, c)' <=> EndsAt(b, c)
BY DEF EndsAt

(* The rest of a split block starts where no block ends, and ends where the *)
(* split block ended, as far as whole pages go.                             *)
LEMMA SplitOrder ==
  ASSUME Inv, OrderInv, Split
  PROVE  OrderInv'
<1> PICK rest \in Pages, bytes \in Nat : SplitsOff(rest, bytes)
  BY SplitEffect
<1>1. /\ op = "allocate" /\ op' = "allocate" /\ activity = "remove" /\ activity' = "add"
      /\ pc' = "attach" /\ hand \in Headers /\ hand' = hand
      /\ hand <= rest /\ rest < Top(hand) /\ Top(hand) <= N
      /\ bytes = (Top(hand) - rest) * 4096
      /\ size' = [b \in Pages |-> IF b = rest THEN bytes ELSE IF b = hand THEN 0 ELSE size[b]]
      /\ Headers' = (Headers \ {hand}) \cup {rest}
      /\ rest \notin Headers \ {hand}
      /\ Top(rest)' = Top(hand)
      /\ \A b \in Headers \ {hand} : Top(b)' = Top(b)
  BY DEF SplitsOff
<1>2. rest \in Nat /\ hand \in Nat /\ Top(hand) \in Nat
  BY <1>1, TopType, Region DEF Inv
<1>3. \A b \in Headers \ {hand} : b \in Pages /\ b # rest /\ size'[b] = size[b]
  BY <1>1 DEF Headers
<1>4. LinkedUnchanged
  <2>1. \A t \in Trees : Linked(t) = Headers \ {hand} /\ Linked(t)' = Linked(t)
    BY DEF SplitsOff
  <2>2. ClearLinks({hand, rest})
    BY DEF SplitsOff
  <2> QED BY <2>1, <2>2, <1>3 DEF LinkedUnchanged, ClearLinks
<1>5. Ordered'
  BY <1>4, OrderedFrame DEF OrderInv
<1>6. Exact'
  <2> SUFFICES ASSUME NEW b \in Headers'
               PROVE  size'[b] % 4096 = 0 \/ Top(b)' = N
    BY DEF Exact
  <2>1. CASE b = rest
    <3>1. PICK k \in Nat : k = Top(hand) - rest
      BY <1>1, <1>2
    <3>2. size'[b] = k * 4096
      BY <1>1, <2>1, <3>1
    <3> QED BY <3>2
  <2>2. CASE b # rest
    BY <2>2, <1>1, <1>3 DEF OrderInv, Exact
  <2> QED BY <2>1, <2>2
<1>7. ASSUME NEW b \in Headers \ {hand}
      PROVE  /\ b \in Nat /\ Top(b) \in Nat /\ b < Top(b) /\ size[b] \in Nat
             /\ b * 4096 + size[b] <= Top(b) * 4096
             /\ Top(b) <= hand \/ Top(hand) <= b
             /\ b < N
             /\ b * 4096 + size[b] # hand * 4096
  <2>1. b \in Nat /\ Top(b) \in Nat /\ b < Top(b) /\ size[b] \in Nat
    BY TopType DEF Inv
  <2>2. b * 4096 + size[b] <= Top(b) * 4096
    BY EndsBy DEF Inv
  <2>3. Top(b) <= hand \/ Top(hand) <= b
    BY <2>1, <1>1, <1>2 DEF Inv, Ownership
  <2>4. b < N
    BY Region DEF Headers
  <2>5. ~EndsAt(b, hand)
    BY <1>1 DEF OrderInv, Apart, Kept
  <2> QED BY <2>1, <2>2, <2>3, <2>4, <2>5 DEF EndsAt
<1>8. Apart'
  <2>1. Kept' = Headers'
    BY <1>1 DEF Kept
  <2>2. ASSUME NEW b \in Headers \ {hand}, NEW c \in Headers \ {hand}
        PROVE  ~EndsAt(b, c)'
    <3>1. ~EndsAt(b, c)
      BY <1>1 DEF OrderInv, Apart, Kept
    <3>2. size'[b] = size[b]
      BY <1>3
    <3> QED BY <3>1, <3>2, EndsAtFrame
  <2>3. ASSUME NEW b \in Headers \ {hand}
        PROVE  ~EndsAt(b, rest)'
    <3>1. b * 4096 + size[b] # rest * 4096
      BY <1>1, <1>2, <1>7
    <3> QED BY <3>1, <1>3 DEF EndsAt
  <2>4. ASSUME NEW c \in Headers'
        PROVE  ~EndsAt(rest, c)'
    <3>1. size'[rest] = bytes /\ rest * 4096 + bytes = Top(hand) * 4096
      BY <1>1, <1>2
    <3>2. c # Top(hand)
      <4>1. CASE c = rest
        BY <4>1, <1>1, <1>2
      <4>2. CASE c # rest
        <5>1. c \in Headers \ {hand}
          BY <4>2, <1>1
        <5>2. c # Top(hand) \/ size[hand] % 4096 # 0
          <6>1. ~EndsAt(hand, c)
            BY <5>1, <1>1 DEF OrderInv, Apart, Kept
          <6> QED BY <6>1, <1>1, EndsBy DEF EndsAt, Inv
        <5>3. size[hand] % 4096 = 0 \/ Top(hand) = N
          BY <1>1 DEF OrderInv, Exact
        <5>4. c < N /\ c \in Nat
          BY <5>1, <1>7
        <5> QED BY <5>2, <5>3, <5>4, Region
      <4> QED BY <4>1, <4>2
    <3>3. c \in Nat
      BY <1>1, <1>2, <1>7
    <3>4. ~(rest * 4096 + bytes = c * 4096)
      BY <3>1, <3>2, <3>3, <1>2
    <3> QED BY <3>1, <3>4 DEF EndsAt
  <2>5. \A b, c \in Headers' : ~EndsAt(b, c)'
    BY <2>2, <2>3, <2>4, <1>1
  <2> QED BY <2>1, <2>5 DEF Apart
<1> QED BY <1>1, <1>5, <1>6, <1>8 DEF OrderInv, Placed, NeighboursAhead, FitAhead

LEMMA TakeWholeOrder ==
  ASSUME Inv, OrderInv, TakeWhole
  PROVE  OrderInv'
<1>1. TakesAll
  BY TakeWholeEffect
<1>2. /\ op = "allocate" /\ op' = "none" /\ pc' = "idle" /\ hand \in Headers
      /\ Headers' = Headers \ {hand}
      /\ \A b \in Headers' : Top(b)' = Top(b)
      /\ \A b \in Headers' : size'[b] = size[b]
  BY <1>1 DEF TakesAll, Return, Inv, TypeOK, Headers
<1>3. LinkedUnchanged
  <2>1. \A t \in Trees : Linked(t) = Headers' /\ Linked(t)' = Linked(t)
    BY <1>1 DEF TakesAll
  <2>2. \A b \in Headers' : b \in Pages /\ b # hand
    BY <1>2 DEF Headers
  <2> QED BY <2>1, <2>2, <1>1, <1>2 DEF LinkedUnchanged, ClearLinks, TakesAll
<1>4. Ordered'
  BY <1>3, OrderedFrame DEF OrderInv
<1>5. Exact'
  BY <1>2 DEF OrderInv, Exact
<1>6. Apart'
  <2>1. Kept' = Headers' /\ Kept = Headers
    BY <1>2 DEF Kept
  <2>2. \A b, c \in Headers' : ~EndsAt(b, c)'
    BY <2>1, <1>2, EndsAtFrame DEF OrderInv, Apart
  <2> QED BY <2>1, <2>2 DEF Apart
<1> QED BY <1>2, <1>4, <1>5, <1>6 DEF OrderInv, Placed, NeighboursAhead, FitAhead

(* deallocate() begins at the root, where no block has been passed yet. *)
LEMMA DeallocateOrder ==
  ASSUME Inv, OrderInv, NEW page \in held, Deallocate(page)
  PROVE  OrderInv'
<1> Frees(page)
  BY DeallocateEffect
<1>1. /\ op = "none" /\ op' = "deallocate" /\ activity = "none" /\ activity' = "none"
      /\ pc = "idle" /\ pc' = "merge" /\ hand' = page /\ cursor' = root["address"]
      /\ root' = root
      /\ page \in Pages /\ page \notin Headers
      /\ Headers' = Headers \cup {page}
      /\ Top(page)' = page + 1
      /\ \A b \in Headers : Top(b)' = Top(b)
      /\ \A t \in Trees : Linked(t) = Headers /\ Linked(t)' = Linked(t)
  BY DEF Frees, ClearLinks
<1>2. size'[page] = 4096 /\ \A b \in Headers : size'[b] = size[b]
  BY DEF Frees, Inv, TypeOK, Headers
<1>3. LinkedUnchanged
  <2>1. \A b \in Headers : b \in Pages /\ b # page
    BY <1>1 DEF Headers
  <2> QED BY <2>1, <1>1, <1>2 DEF LinkedUnchanged, ClearLinks, Frees
<1>4. Ordered'
  BY <1>3, OrderedFrame DEF OrderInv
<1>5. Exact'
  BY <1>1, <1>2 DEF OrderInv, Exact
<1>6. Kept' = Headers /\ Kept = Headers
  BY <1>1 DEF Kept
<1>7. Apart'
  <2>1. \A b, c \in Headers : ~EndsAt(b, c)'
    BY <1>2, <1>6, EndsAtFrame DEF OrderInv, Apart
  <2> QED BY <2>1, <1>6 DEF Apart
<1>8. NeighboursAhead'
  <2>1. "address" \in Trees /\ Loose("address") = nullptr
    BY <1>1 DEF Trees, Loose
  <2>2. PICK top : top = root["address"]
    OBVIOUS
  <2>3. Under("address", top) = Headers
    BY <2>1, <2>2, <1>1, UnderRoot
  <2>4. Under("address", top)' = Headers
    BY <2>1, <2>3, <1>3, UnderFrame
  <2> QED BY <2>2, <2>4, <1>1, <1>6 DEF NeighboursAhead
<1> QED BY <1>1, <1>4, <1>5, <1>7, <1>8 DEF OrderInv, Placed, FitAhead

(* After a merge the search begins at the root again. *)
LEMMA MergeOrder ==
  ASSUME Inv, OrderInv, Merge
  PROVE  OrderInv'
<1> PICK lower, upper \in Headers : Joins(lower, upper)
  BY MergeEffect
<1>1. /\ op = "deallocate" /\ op' = "deallocate" /\ activity = "remove" /\ activity' = "none"
      /\ pc' = "merge" /\ hand' = lower /\ cursor' = root["address"] /\ root' = root
      /\ tree = "size" /\ pc = "unlinked"
      /\ lower < upper /\ {lower, upper} = {node, hand} /\ EndsAt(lower, upper)
      /\ Headers' = Headers \ {upper}
      /\ Top(lower)' = Top(upper)
      /\ \A b \in Headers \ {lower, upper} : Top(b)' = Top(b)
      /\ \A t \in Trees : Linked(t) = Headers \ {lower, upper} /\ Linked(t)' = Linked(t)
  BY DEF Joins, ClearLinks
<1>2. /\ lower \in Nat /\ upper \in Nat /\ size[lower] \in Nat /\ size[upper] \in Nat
      /\ lower \in Pages /\ upper \in Pages /\ lower # upper
  BY <1>1, TopType DEF Inv, Headers
<1>3. /\ size'[lower] = size[lower] + size[upper]
      /\ \A b \in Headers \ {lower, upper} : size'[b] = size[b]
  BY <1>2 DEF Joins, Inv, TypeOK, Headers
<1>4. LinkedUnchanged
  <2>1. \A b \in Headers \ {lower, upper} : b \in Pages /\ b # node
    BY <1>1 DEF Headers
  <2> QED BY <2>1, <1>1, <1>3 DEF LinkedUnchanged, ClearLinks, Joins
<1>5. Ordered'
  BY <1>4, OrderedFrame DEF OrderInv
<1>6. Exact'
  <2>1. size[lower] = (upper - lower) * 4096
    BY <1>1, <1>2 DEF EndsAt
  <2>2. size'[lower] % 4096 = size[upper] % 4096
    BY <2>1, <1>1, <1>2, <1>3
  <2>3. size'[lower] % 4096 = 0 \/ Top(lower)' = N
    BY <2>2, <1>1 DEF OrderInv, Exact
  <2>4. \A b \in Headers \ {lower, upper} : size'[b] % 4096 = 0 \/ Top(b)' = N
    BY <1>1, <1>3 DEF OrderInv, Exact
  <2> QED BY <2>3, <2>4, <1>1 DEF Exact
<1>7. Kept' = Headers \ {lower, upper} /\ Kept' \subseteq Kept
  BY <1>1 DEF Kept
<1>8. Apart'
  <2>1. \A b, c \in Headers \ {lower, upper} : ~EndsAt(b, c)'
    BY <1>3, <1>7, EndsAtFrame DEF OrderInv, Apart
  <2> QED BY <2>1, <1>7 DEF Apart
<1>9. NeighboursAhead'
  <2>1. "address" \in Trees /\ Loose("address") = nullptr
    BY <1>1 DEF Trees, Loose
  <2>2. PICK top : top = root["address"]
    OBVIOUS
  <2>3. Under("address", top) = Headers \ {lower, upper}
    BY <2>1, <2>2, <1>1, UnderRoot
  <2>4. Under("address", top)' = Headers \ {lower, upper}
    BY <2>1, <2>3, <1>4, UnderFrame
  <2> QED BY <2>2, <2>4, <1>1, <1>7 DEF NeighboursAhead
<1> QED BY <1>1, <1>5, <1>6, <1>8, <1>9 DEF OrderInv, Placed, FitAhead

-----------------------------------------------------------------------------
(* The steps that change the links of one tree. *)

(* A step that changes no size and takes no block out of deallocate()'s     *)
(* hands, and leaves tree here sorted and the other tree alone.             *)
LEMMA OneTreeOrder ==
  ASSUME Inv, OrderInv, UNCHANGED <<size, op, hand, activity>>, NEW here \in Trees,
         Sorted(Linked(here)', LeftOf(here), RightOf(here), left'[here], right'[here]),
         \A t \in Trees \ {here} : /\ Linked(t)' = Linked(t)
                                   /\ left'[t] = left[t] /\ right'[t] = right[t]
  PROVE  /\ Ordered' /\ Exact' /\ Apart'
         /\ \A t \in Trees : LeftOf(t)' = LeftOf(t) /\ RightOf(t)' = RightOf(t)
<1>1. \A t \in Trees : LeftOf(t)' = LeftOf(t) /\ RightOf(t)' = RightOf(t)
  BY DEF LeftOf, RightOf
<1>2. Ordered'
  <2> SUFFICES ASSUME NEW t \in Trees
               PROVE  Sorted(Linked(t), LeftOf(t), RightOf(t), left[t], right[t])'
    BY DEF Ordered
  <2>1. CASE t = here
    BY <2>1, <1>1
  <2>2. CASE t # here
    BY <2>2, <1>1 DEF OrderInv, Ordered
  <2> QED BY <2>1, <2>2
<1>3. Headers' = Headers /\ Kept' = Kept
  BY DEF Headers, Kept
<1>4. Exact'
  BY <1>3 DEF OrderInv, Exact, Top
<1>5. Apart'
  BY <1>3 DEF OrderInv, Apart, EndsAt
<1> QED BY <1>1, <1>2, <1>4, <1>5

(* Removing a block keeps its tree in order, and the right subtree that is  *)
(* left over belongs somewhere in the rest of the tree.                     *)
LEMMA UnlinkOrder ==
  ASSUME Inv, OrderInv, Unlink
  PROVE  OrderInv'
<1> PICK here \in Trees : \E L, parent, l, r, rest : TakesOut(here, L, parent, l, r, rest)
  BY UnlinkEffect
<1> PICK L, parent, l, r, rest : TakesOut(here, L, parent, l, r, rest)
  OBVIOUS
<1> PICK pd, lf, rg, pd2, lf2, rg2, top, gone, bf, af :
      /\ pd = pred[here] /\ lf = left[here] /\ rg = right[here]
      /\ pd2 = pred'[here] /\ lf2 = left'[here] /\ rg2 = right'[here]
      /\ top = root[here] /\ gone = node
      /\ bf = LeftOf(here) /\ af = RightOf(here)
  OBVIOUS
<1>1. /\ L = Linked(here) /\ gone \in L /\ Loose(here) = nullptr
      /\ parent = pd[gone] /\ l = lf[gone] /\ r = rg[gone]
      /\ rest = IF parent = nullptr THEN l ELSE top
      /\ Linked(here)' = L \ {gone}
      /\ UNCHANGED <<size, op, hand, activity>>
      /\ here = tree
      /\ pc' \in {"descend", "unlink", "unlinked"}
  BY DEF TakesOut
<1>2. \A b \in L \ {gone} :
        /\ pd2[b] = IF b = r THEN nullptr ELSE IF b = l THEN parent ELSE pd[b]
        /\ lf2[b] = IF b = parent /\ lf[b] = gone THEN l ELSE lf[b]
        /\ rg2[b] = IF b = parent /\ lf[b] # gone /\ rg[b] = gone THEN l ELSE rg[b]
  BY DEF TakesOut
<1>3. Forest(L, top, nullptr, pd, lf, rg) /\ Sorted(L, bf, af, lf, rg)
  BY <1>1 DEF Inv, Forests, OrderInv, Ordered
<1>4. Sorted(L \ {gone}, bf, af, lf2, rg2)
  BY <1>1, <1>2, <1>3, SortedRemove
<1>5. /\ Ordered' /\ Exact' /\ Apart'
      /\ \A t \in Trees : LeftOf(t)' = LeftOf(t) /\ RightOf(t)' = RightOf(t)
  <2>1. Sorted(Linked(here)', LeftOf(here), RightOf(here), left'[here], right'[here])
    BY <1>1, <1>4
  <2>2. \A t \in Trees \ {here} : /\ Linked(t)' = Linked(t)
                                  /\ left'[t] = left[t] /\ right'[t] = right[t]
    BY DEF TakesOut
  <2> QED BY <2>1, <2>2, <1>1, OneTreeOrder
<1>6. Placed'
  <2> SUFFICES ASSUME pc' = "descend"
               PROVE  \E D \in SUBSET (Linked(tree) \cup {moving})' :
                        Placing(Linked(tree), LeftOf(tree), RightOf(tree), pred[tree],
                                left[tree], right[tree], cursor, moving, D)'
    BY DEF Placed
  <2>1. /\ r # nullptr /\ rest # nullptr /\ moving' = r /\ cursor' = rest /\ tree' = here
        /\ root'[here] = rest /\ Loose(here)' = r
    BY DEF TakesOut
  <2>2. Forest(L \ {gone}, rest, r, pd2, lf2, rg2)
    <3>1. Forest(Linked(here)', root'[here], Loose(here)', pred'[here], left'[here],
                 right'[here])
      BY UnlinkInv DEF Inv, Forests
    <3> QED BY <3>1, <2>1, <1>1
  <2>3. Consistent(L, bf, af)
    <3>1. L \in SUBSET Pages
      BY <1>1, Sides
    <3> QED BY <3>1, OrderConsistent DEF Inv
  <2>4. Placing(L \ {gone}, bf, af, pd2, lf2, rg2, rest, r, Below(L, lf, rg, r))
    <3>1. Relinked(L, gone, parent, l, r, pd, lf, rg, pd2, lf2, rg2)
      BY <1>1, <1>2 DEF Relinked
    <3>2. /\ gone \in L /\ r # nullptr /\ rest # nullptr
          /\ (parent = nullptr => rest = l) /\ (parent # nullptr => rest = top)
      BY <1>1, <2>1
    <3> QED BY ONLY <3>1, <3>2, <1>3, <2>2, <2>3, PlacingAfterRemove
  <2> PICK D : D = Below(L, lf, rg, r)
    OBVIOUS
  <2>5. Placing(L \ {gone}, bf, af, pd2, lf2, rg2, rest, r, D)
    BY <2>4
  <2>6. D \in SUBSET ((L \ {gone}) \cup {r})
    BY <2>5 DEF Placing
  <2>7. Linked(here)' = L \ {gone} /\ LeftOf(here)' = bf /\ RightOf(here)' = af
    BY <1>1, <1>5
  <2>8. /\ Linked(tree)' = L \ {gone} /\ LeftOf(tree)' = bf /\ RightOf(tree)' = af
        /\ pred'[tree'] = pd2 /\ left'[tree'] = lf2 /\ right'[tree'] = rg2
        /\ moving' = r /\ cursor' = rest
    BY <2>1, <2>7
  <2> QED BY <2>5, <2>6, <2>8
<1> QED BY <1>1, <1>5, <1>6 DEF OrderInv, NeighboursAhead, FitAhead

(* Every block belongs to one side of every other. *)
LEMMA OrderTotal ==
  ASSUME TypeOK, NEW t \in Trees, NEW b \in Pages, NEW c \in Pages, b # c
  PROVE  c \in LeftOf(t)[b] \/ c \in RightOf(t)[b]
<1>1. b \in Nat /\ c \in Nat /\ size[b] \in Nat /\ size[c] \in Nat
  BY Region DEF TypeOK
<1> QED BY <1>1, Sides

(* A block that is added alone starts at the root, and has nothing below.   *)
LEMMA AttachOrder ==
  ASSUME Inv, OrderInv, Attach
  PROVE  OrderInv'
<1> PICK here \in Trees : here = tree
  BY DEF Inv, TypeOK
<1> PICK L, pd, lf, rg, top, added, bf, af :
      /\ L = Linked(here) /\ top = root[here] /\ added = node
      /\ pd = pred[here] /\ lf = left[here] /\ rg = right[here]
      /\ bf = LeftOf(here) /\ af = RightOf(here)
  OBVIOUS
<1>1. /\ added \in Headers /\ added # nullptr /\ added \notin L /\ Loose(here) = nullptr
      /\ lf[added] = nullptr /\ rg[added] = nullptr
      /\ UNCHANGED <<left, right, size, op, hand, activity>>
      /\ \A t \in Trees \ {here} : Linked(t)' = Linked(t)
      /\ pc' \in {"descend", "attach", "attached"}
  BY AttachEffect
<1>2. CASE top = nullptr
  <2>1. Linked(here)' = {added} /\ pc' \in {"attach", "attached"}
    BY <1>2, AttachEffect
  <2>2. Sorted({added}, bf, af, lf, rg)
    BY <1>1, BelowNothing DEF Sorted
  <2>3. Sorted(Linked(here)', LeftOf(here), RightOf(here), left'[here], right'[here])
    BY <2>1, <2>2, <1>1
  <2>4. Ordered' /\ Exact' /\ Apart'
    BY <2>3, <1>1, OneTreeOrder
  <2> QED BY <2>1, <2>4 DEF OrderInv, Placed, NeighboursAhead, FitAhead
<1>3. CASE top # nullptr
  <2>1. /\ pc' = "descend" /\ moving' = added /\ cursor' = top
        /\ UNCHANGED <<root, pred, tree>>
        /\ Linked(here)' = L
    BY <1>3, AttachEffect
  <2>2. Forest(L, top, nullptr, pd, lf, rg) /\ Sorted(L, bf, af, lf, rg)
    BY <1>1 DEF Inv, Forests, OrderInv, Ordered
  <2>3. /\ Ordered' /\ Exact' /\ Apart'
        /\ \A t \in Trees : LeftOf(t)' = LeftOf(t) /\ RightOf(t)' = RightOf(t)
    <3>1. Sorted(Linked(here)', LeftOf(here), RightOf(here), left'[here], right'[here])
      BY <2>1, <2>2, <1>1
    <3> QED BY <3>1, <1>1, OneTreeOrder
  <2>4. Placing(L, bf, af, pd, lf, rg, top, added, {added})
    <3>1. top \in L
      BY <1>3, <2>2 DEF Forest
    <3>2. \A b \in L : added \in bf[b] \/ added \in af[b]
      <4>1. L \subseteq Pages /\ added \in Pages
        BY <1>1, Sides
      <4> QED BY <4>1, <1>1, OrderTotal DEF Inv
    <3>3. \A b \in L : top \notin Below(L, lf, rg, lf[b]) /\ top \notin Below(L, lf, rg, rg[b])
      BY <1>3, <2>2, TopNotBelow
    <3>4. Closed({added}, lf, rg)
      BY <1>1 DEF Closed
    <3> QED BY <3>1, <3>2, <3>3, <3>4, <1>1 DEF Placing
  <2>5. Placed'
    <3>1. /\ Linked(tree)' = L /\ LeftOf(tree)' = bf /\ RightOf(tree)' = af
          /\ pred'[tree'] = pd /\ left'[tree'] = lf /\ right'[tree'] = rg
          /\ moving' = added /\ cursor' = top
      BY <1>1, <2>1, <2>3
    <3>2. {added} \in SUBSET (L \cup {added})
      OBVIOUS
    <3> QED BY <3>1, <3>2, <2>4 DEF Placed
  <2> QED BY <2>1, <2>3, <2>5 DEF OrderInv, NeighboursAhead, FitAhead
<1> QED BY <1>2, <1>3

(* An iteration of the descent that goes on to a child. *)
LEMMA DescendFurtherOrder ==
  ASSUME Inv, OrderInv, pc = "descend", NEW here \in Trees, here = tree,
         \/ /\ moving \in LeftOf(here)[cursor]
            /\ left[here][cursor] # nullptr /\ cursor' = left[here][cursor]
         \/ /\ moving \in RightOf(here)[cursor]
            /\ right[here][cursor] # nullptr /\ cursor' = right[here][cursor],
         UNCHANGED <<links, size, held, pc, op, activity, tree, node, moving, hand, request>>
  PROVE  OrderInv'
<1> PICK L, pd, lf, rg, top, loose, at, next, added, bf, af :
      /\ L = Linked(here) /\ top = root[here] /\ loose = Loose(here)
      /\ pd = pred[here] /\ lf = left[here] /\ rg = right[here]
      /\ at = cursor /\ next = cursor' /\ added = moving
      /\ bf = LeftOf(here) /\ af = RightOf(here)
  OBVIOUS
<1>1. PICK D \in SUBSET (L \cup {added}) :
             Placing(L, bf, af, pd, lf, rg, at, added, D)
  BY DEF OrderInv, Placed
<1>2. Forest(L, top, loose, pd, lf, rg)
  BY DEF Inv, Forests
<1>3. added \in L => pd[added] = nullptr
  <2>1. activity = "remove" => loose = added
    BY DEF Loose
  <2>2. activity # "remove" => added \notin L
    BY DEF Inv, Control, Standing, Linked, Entering, Added, TypeOK, Trees
  <2>3. added \in Headers
    BY DEF Inv, Standing, Linked, Control
  <2> QED BY <2>1, <2>2, <2>3, <1>2, Region DEF Forest, Headers
<1>4. ~(added \in bf[at] /\ added \in af[at])
  <2>1. at \in Pages /\ added \in Pages
    BY DEF Inv, Standing, Linked, Control, Headers
  <2>2. {at, added} \in SUBSET Pages
    BY <2>1
  <2>3. Consistent({at, added}, bf, af)
    BY <2>2, OrderConsistent DEF Inv
  <2> QED BY <2>3 DEF Consistent
<1>5. Placing(L, bf, af, pd, lf, rg, next, added, D)
  <2>1. CASE added \in bf[at] /\ lf[at] # nullptr /\ next = lf[at]
    <3>1. D \subseteq bf[at]
      BY ONLY <2>1, <1>1, <1>4, PlacingSide
    <3> QED BY ONLY <2>1, <3>1, <1>1, <1>2, <1>3, PlacingLeft
  <2>2. CASE added \in af[at] /\ rg[at] # nullptr /\ next = rg[at]
    <3>1. Placing(L, af, bf, pd, rg, lf, at, added, D) /\ Forest(L, top, loose, pd, rg, lf)
      BY ONLY <1>1, <1>2, PlacingMirrored, ForestMirrored
    <3>2. D \subseteq af[at]
      BY ONLY <2>2, <3>1, <1>4, PlacingSide
    <3>3. Placing(L, af, bf, pd, rg, lf, next, added, D)
      BY ONLY <2>2, <3>1, <3>2, <1>3, PlacingLeft
    <3> QED BY ONLY <3>3, PlacingMirrored
  <2> QED BY <2>1, <2>2
<1>6. \A t \in Trees : Linked(t)' = Linked(t)
  BY DEF Linked, Entering, Removed, Added, Headers
<1>7. Ordered' /\ Exact' /\ Apart' /\ LeftOf(here)' = bf /\ RightOf(here)' = af
  <2>1. Sorted(Linked(here)', LeftOf(here), RightOf(here), left'[here], right'[here])
    BY <1>6 DEF OrderInv, Ordered, links
  <2> QED BY <2>1, <1>6, OneTreeOrder DEF links
<1>8. Placed'
  <2>1. /\ Linked(tree)' = L /\ LeftOf(tree)' = bf /\ RightOf(tree)' = af
        /\ pred'[tree'] = pd /\ left'[tree'] = lf /\ right'[tree'] = rg
        /\ moving' = added /\ cursor' = next
    BY <1>6, <1>7 DEF links
  <2> QED BY <2>1, <1>1, <1>5 DEF Placed
<1> QED BY <1>7, <1>8 DEF OrderInv, NeighboursAhead, FitAhead

(* The iteration of the descent that links the block. *)
LEMMA HookOrder ==
  ASSUME Inv, OrderInv, pc = "descend", NEW here \in Trees, here = tree,
         \/ /\ moving \in LeftOf(here)[cursor]
            /\ left[here][cursor] = nullptr
            /\ left' = [left EXCEPT ![here][cursor] = moving]
            /\ right' = right
         \/ /\ moving \in RightOf(here)[cursor]
            /\ right[here][cursor] = nullptr
            /\ right' = [right EXCEPT ![here][cursor] = moving]
            /\ left' = left,
         pred' = [pred EXCEPT ![here][moving] = cursor],
         TreeDone,
         UNCHANGED <<root, size, free_space, held, result>>
  PROVE  OrderInv'
<1> PICK L, pd, lf, rg, lf2, rg2, top, loose, at, added, bf, af :
      /\ L = Linked(here) /\ top = root[here] /\ loose = Loose(here)
      /\ pd = pred[here] /\ lf = left[here] /\ rg = right[here]
      /\ lf2 = left'[here] /\ rg2 = right'[here]
      /\ at = cursor /\ added = moving
      /\ bf = LeftOf(here) /\ af = RightOf(here)
  OBVIOUS
<1>1. /\ added \in L \/ (lf[added] = nullptr /\ rg[added] = nullptr)
      /\ at \in L /\ L \subseteq Pages /\ added \in Pages /\ added # nullptr
      /\ Linked(here)' = L \cup {added}
      /\ \A t \in Trees \ {here} : Linked(t)' = Linked(t)
      /\ UNCHANGED <<size, op, activity, hand>>
      /\ pc' \in {"unlink", "attach", "unlinked", "attached"}
  <2>1. /\ added \in L \/ (lf[added] = nullptr /\ rg[added] = nullptr)
        /\ at \in L /\ added \in Headers /\ added # nullptr
        /\ Linked(here)' = L \cup {added}
        /\ \A t \in Trees \ {here} : Linked(t)' = Linked(t)
        /\ UNCHANGED <<op, activity, hand>>
        /\ pc' \in {"unlink", "attach", "unlinked", "attached"}
    BY HookEffect
  <2> QED BY <2>1, Sides
<1>2. PICK D \in SUBSET (L \cup {added}) :
             Placing(L, bf, af, pd, lf, rg, at, added, D)
  BY DEF OrderInv, Placed
<1>3. Closed(L, lf, rg) /\ nullptr \notin L
  <2>1. Forest(L, top, loose, pd, lf, rg)
    BY DEF Inv, Forests
  <2> QED BY <2>1, ForestClosed
<1>4. Sorted(L, bf, af, lf, rg)
  BY DEF OrderInv, Ordered
<1>5. ~(added \in bf[at] /\ added \in af[at])
  <2>1. {at, added} \in SUBSET Pages
    BY <1>1
  <2>2. Consistent({at, added}, bf, af)
    BY <2>1, OrderConsistent DEF Inv
  <2> QED BY <2>2 DEF Consistent
<1>6. Sorted(L \cup {added}, bf, af, lf2, rg2)
  <2>1. CASE /\ moving \in LeftOf(here)[cursor]
             /\ left[here][cursor] = nullptr
             /\ left' = [left EXCEPT ![here][cursor] = moving]
             /\ right' = right
    <3>1. added \in bf[at] /\ lf[at] = nullptr
      BY <2>1
    <3>2. \A b \in L \cup {added} : lf2[b] = (IF b = at THEN added ELSE lf[b]) /\ rg2[b] = rg[b]
      BY <2>1, <1>1 DEF Inv, TypeOK
    <3>3. D \subseteq bf[at]
      BY ONLY <3>1, <1>2, <1>5, PlacingSide
    <3> QED BY ONLY <3>1, <3>2, <3>3, <1>1, <1>2, <1>3, <1>4, SortedAdd
  <2>2. CASE /\ moving \in RightOf(here)[cursor]
             /\ right[here][cursor] = nullptr
             /\ right' = [right EXCEPT ![here][cursor] = moving]
             /\ left' = left
    <3>1. added \in af[at] /\ rg[at] = nullptr
      BY <2>2
    <3>2. \A b \in L \cup {added} : rg2[b] = (IF b = at THEN added ELSE rg[b]) /\ lf2[b] = lf[b]
      BY <2>2, <1>1 DEF Inv, TypeOK
    <3>3. /\ Placing(L, af, bf, pd, rg, lf, at, added, D)
          /\ Sorted(L, af, bf, rg, lf)
          /\ Closed(L, rg, lf)
      BY ONLY <1>2, <1>3, <1>4, PlacingMirrored, SortedMirrored DEF Closed
    <3>4. D \subseteq af[at]
      BY ONLY <3>1, <3>3, <1>5, PlacingSide
    <3>5. Sorted(L \cup {added}, af, bf, rg2, lf2)
      BY ONLY <3>1, <3>2, <3>3, <3>4, <1>1, <1>3, SortedAdd
    <3> QED BY ONLY <3>5, SortedMirrored
  <2> QED BY <2>1, <2>2
<1>7. Ordered' /\ Exact' /\ Apart'
  <2>1. Sorted(Linked(here)', LeftOf(here), RightOf(here), left'[here], right'[here])
    BY <1>1, <1>6
  <2>2. \A t \in Trees \ {here} : left'[t] = left[t] /\ right'[t] = right[t]
    BY DEF Inv, TypeOK
  <2> QED BY <2>1, <2>2, <1>1, OneTreeOrder
<1> QED BY <1>1, <1>7 DEF OrderInv, Placed, NeighboursAhead, FitAhead

(* GoesLeft sends a block to the side where it belongs. *)
LEMMA DescendOrder ==
  ASSUME Inv, OrderInv, DescendLeft \/ DescendRight
  PROVE  OrderInv'
<1> PICK here \in Trees : here = tree
  BY DEF Inv, TypeOK
<1>1. /\ pc = "descend" /\ cursor \in Pages /\ moving \in Pages
      /\ size[cursor] \in Nat /\ size[moving] \in Nat /\ cursor \in Nat /\ moving \in Nat
  <2>1. pc = "descend" /\ cursor \in Pages /\ moving \in Pages
    BY DEF DescendLeft, DescendRight, Inv, Standing, Linked, Control, Headers
  <2> QED BY <2>1, Region DEF Inv, TypeOK
<1>2. /\ GoesLeft(here, moving, cursor) => moving \in LeftOf(here)[cursor]
      /\ ~GoesLeft(here, moving, cursor) => moving \in RightOf(here)[cursor]
  <2>1. CASE here = "size"
    BY <2>1, <1>1, Sides DEF GoesLeft
  <2>2. CASE here # "size"
    <3>1. ~(moving < cursor) => moving > cursor \/ moving = cursor
      BY <1>1
    <3>2. moving # cursor
      BY <1>1 DEF Inv, Standing, Above
    <3> QED BY <2>2, <3>1, <3>2, <1>1, Sides DEF GoesLeft
  <2> QED BY <2>1, <2>2
<1>3. CASE DescendLeft /\ left[here][cursor] # nullptr
  BY <1>1, <1>2, <1>3, DescendFurtherOrder DEF DescendLeft, links
<1>4. CASE DescendLeft /\ left[here][cursor] = nullptr
  BY <1>1, <1>2, <1>4, HookOrder DEF DescendLeft
<1>5. CASE DescendRight /\ right[here][cursor] # nullptr
  BY <1>1, <1>2, <1>5, DescendFurtherOrder DEF DescendRight, links
<1>6. CASE DescendRight /\ right[here][cursor] = nullptr
  BY <1>1, <1>2, <1>6, HookOrder DEF DescendRight
<1> QED BY <1>3, <1>4, <1>5, <1>6

(* Every step preserves the order. *)
LEMMA NextOrder ==
  ASSUME Inv, OrderInv, [Next]_vars
  PROVE  OrderInv'
<1>1. CASE \E bytes \in Requests : Allocate(bytes)
  BY <1>1, AllocateOrder
<1>2. CASE \E page \in held : Deallocate(page)
  BY <1>2, DeallocateOrder
<1>3. CASE Step
  BY <1>3, UnlinkOrder, AttachOrder, DescendOrder, SearchOnOrder, RefuseOrder,
     ChooseOrder, SplitOrder, TakeWholeOrder, MergeFoundOrder, MergeSearchOnOrder,
     MergeOrder, MergeDoneOrder, AttachedOrder DEF Step
<1>4. CASE UNCHANGED vars
  BY <1>4, StutterOrder
<1> QED BY <1>1, <1>2, <1>3, <1>4 DEF Next

(* For every region and every set of requests, both inductive invariants    *)
(* hold at every step of every sequence of allocate() and deallocate()      *)
(* calls: the trees are search trees, no two free blocks that wait in them  *)
(* are neighbours, and no search has passed what it looks for.              *)
THEOREM OrderHolds == Spec => [](Inv /\ OrderInv)
<1>1. Init => Inv /\ OrderInv
  BY InitInv, InitOrder
<1>2. Inv /\ OrderInv /\ [Next]_vars => (Inv /\ OrderInv)'
  BY NextInv, NextOrder
<1> QED BY <1>1, <1>2, PTL DEF Spec

-----------------------------------------------------------------------------
(* The properties. *)

(* Subtree leaves the blocks out of account that are not in the tree: none  *)
(* of them is reached.                                                      *)
LEMMA SubtreeUnder ==
  ASSUME Inv, NEW t \in Trees, NEW b \in Linked(t) \cup {nullptr}
  PROVE  Subtree(t, b) \subseteq Under(t, b)
<1>1. CASE b = nullptr
  BY <1>1 DEF Subtree
<1>2. CASE b # nullptr
  <2> PICK B, L, lf, rg : /\ B = Under(t, b) /\ L = Linked(t)
                          /\ lf = left[t] /\ rg = right[t]
    OBVIOUS
  <2>1. Closed(L, lf, rg) /\ nullptr \notin L
    BY ForestClosed DEF Inv, Forests
  <2>2. b \in B /\ B \subseteq L /\ Closed(B, lf, rg)
    <3>1. B = Below(L, lf, rg, b) /\ b \in L
      BY <1>2 DEF Under
    <3> QED BY <3>1, <2>1, BelowClosed
  <2>3. B \in SUBSET Headers
    BY <2>2, Sides
  <2>4. \A a \in B : {left[t][a], right[t][a]} \subseteq B \cup {nullptr}
    BY <2>2 DEF Closed
  <2> QED BY <2>2, <2>3, <2>4 DEF Subtree
<1> QED BY <1>1, <1>2

(* Both trees are search trees at every step of every call, and so is the   *)
(* right subtree of a removed block on its way back into the tree:          *)
(* remove_node_from_tree_by_size / _by_address may add that subtree back as *)
(* a whole, by comparing its top alone.                                     *)
THEOREM TreesKeepSearchOrder == Spec => []SearchOrder
<1>1. ASSUME Inv, OrderInv
      PROVE  SearchOrder
  <2> SUFFICES ASSUME NEW t \in Trees,
                      NEW b \in Subtree(t, root[t]) \cup
                        (IF pc = "descend" /\ t = tree THEN Subtree(t, moving) ELSE {})
               PROVE  /\ \A c \in Subtree(t, left[t][b]) :
                           IF t = "size" THEN size[c] <= size[b] ELSE c < b
                      /\ \A c \in Subtree(t, right[t][b]) :
                           IF t = "size" THEN size[c] > size[b] ELSE c > b
    BY <1>1 DEF SearchOrder
  <2>1. CASE b \in Linked(t)
    <3>1. {left[t][b], right[t][b]} \subseteq Linked(t) \cup {nullptr}
      BY <2>1, <1>1 DEF Inv, Forests, Forest
    <3>2. /\ Subtree(t, left[t][b]) \subseteq Under(t, left[t][b])
          /\ Subtree(t, right[t][b]) \subseteq Under(t, right[t][b])
      BY <3>1, <1>1, SubtreeUnder
    <3> QED BY <2>1, <3>2, <1>1, UnderSides
  <2>2. CASE b \notin Linked(t)
    <3>1. root[t] \in Linked(t) \cup {nullptr}
      BY <1>1 DEF Inv, Forests, Forest
    <3>2. pc = "descend" /\ t = tree /\ b \in Subtree(t, moving) /\ moving \notin Linked(t)
      <4>1. b \notin Subtree(t, root[t])
        BY <2>2, <3>1, <1>1, SubtreeUnder DEF Under, Below
      <4>2. pc = "descend" /\ t = tree /\ b \in Subtree(t, moving)
        BY <4>1
      <4>3. moving \notin Linked(t)
        BY <2>2, <4>2, <1>1, SubtreeUnder DEF Under, Below
      <4> QED BY <4>2, <4>3
    <3>3. moving \in Entering(t) /\ moving \in Headers
      BY <3>2, <1>1 DEF Inv, Standing, Control, Entering, Added, TypeOK
    <3>4. left[t][moving] = nullptr /\ right[t][moving] = nullptr
      BY <3>3, <1>1 DEF Inv, Fresh
    <3>5. b = moving
      <4>1. {moving} \in SUBSET Headers
        BY <3>3
      <4>2. \A a \in {moving} : {left[t][a], right[t][a]} \subseteq {moving} \cup {nullptr}
        BY <3>4
      <4> QED BY <3>2, <4>1, <4>2 DEF Subtree
    <3> QED BY <3>4, <3>5 DEF Subtree
  <2> QED BY <2>1, <2>2
<1> QED BY <1>1, OrderHolds, PTL

(* deallocate() finds both neighbours of the page it gives back, although   *)
(* it looks along one path of the tree by address only, and allocate()      *)
(* splits no block so that two free ones touch: between calls no free block *)
(* ends where another one starts.                                           *)
THEOREM FreeBlocksStayApart == Spec => []Coalesced
<1>1. ASSUME Inv, OrderInv
      PROVE  Coalesced
  <2> SUFFICES ASSUME pc = "idle", NEW b \in Headers, NEW c \in Headers
               PROVE  ~EndsAt(b, c)
    BY DEF Coalesced
  <2>1. Kept = Headers
    BY <1>1 DEF Inv, Control, Kept
  <2> QED BY <1>1, <2>1 DEF OrderInv, Apart
<1> QED BY <1>1, OrderHolds, PTL

-----------------------------------------------------------------------------
(* Every step of a call brings it closer to its end. *)

(* What the cursor of the running loop can still come to, itself included. *)
Walked == IF pc = "merge" THEN "address" ELSE tree

Ahead == Under(Walked, cursor)

(* The places of a call, the last one first: what remove_node_from_tree and *)
(* add_node_to_tree have left to do, and of a deallocate() the searches     *)
(* that its free blocks leave room for, because each restart has cost one.  *)
Stage ==
  IF pc \in {"unlink", "attach"} THEN (IF tree = "size" THEN 5 ELSE 3)
  ELSE IF pc = "descend" THEN (IF tree = "size" THEN 4 ELSE 2)
  ELSE 1

Phase ==
  IF pc = "idle" THEN 0
  ELSE IF pc \in {"search", "merge"} THEN 11
  ELSE IF activity = "remove" THEN Stage + 5 ELSE Stage

Searches == IF op = "deallocate" THEN Cardinality(Headers) ELSE 0

Width == Cardinality(Pages) + 1

(* No more steps than these are left of the running call. *)
Remaining == (12 * Searches + Phase) * Width + Cardinality(Ahead)

(* A step of a call lowers what remains of it. *)
RunsDown == pc # "idle" => Remaining' < Remaining

LEMMA WidthType ==
  Width \in Nat /\ Width > 0 /\ IsFiniteSet(Pages)
<1>1. IsFiniteSet(Pages)
  BY Region, FS_Interval
<1> QED BY <1>1, FS_CardinalityType DEF Width

LEMMA PagesCounted ==
  ASSUME NEW S, S \subseteq Pages
  PROVE  IsFiniteSet(S) /\ Cardinality(S) \in Nat /\ Cardinality(S) < Width
<1>1. IsFiniteSet(S) /\ Cardinality(S) <= Cardinality(Pages)
  BY WidthType, FS_Subset
<1> QED BY <1>1, WidthType, FS_CardinalityType DEF Width

(* A smaller set of pages has fewer pages. *)
LEMMA FewerPages ==
  ASSUME NEW S, NEW T, S \subseteq Pages, T \subseteq S, T # S
  PROVE  Cardinality(T) < Cardinality(S)
<1>1. IsFiniteSet(S) /\ Cardinality(S) \in Nat /\ Cardinality(T) \in Nat
  BY PagesCounted
<1>2. Cardinality(T) <= Cardinality(S) /\ Cardinality(T) # Cardinality(S)
  BY <1>1, FS_Subset
<1> QED BY <1>1, <1>2

(* The parts of Remaining. *)
LEMMA RemainingParts ==
  /\ Searches \in Nat /\ Searches < Width
  /\ Phase \in 0 .. 11
  /\ Ahead \subseteq Pages
  /\ Cardinality(Ahead) \in Nat /\ Cardinality(Ahead) < Width
  /\ Searches' \in Nat /\ Searches' < Width
  /\ Phase' \in 0 .. 11
  /\ Ahead' \subseteq Pages
  /\ Cardinality(Ahead') \in Nat /\ Cardinality(Ahead') < Width
<1>1. Headers \subseteq Pages /\ Headers' \subseteq Pages
  BY DEF Headers
<1>2. Ahead \subseteq Pages /\ Ahead' \subseteq Pages
  BY <1>1 DEF Ahead, Under, Below, Linked
<1>3. Searches \in Nat /\ Searches < Width /\ Searches' \in Nat /\ Searches' < Width
  <2>1. /\ Cardinality(Headers) \in Nat /\ Cardinality(Headers) < Width
        /\ Cardinality(Headers') \in Nat /\ Cardinality(Headers') < Width
    BY <1>1, PagesCounted
  <2>2. 0 \in Nat /\ 0 < Width
    BY WidthType
  <2>3. /\ Searches \in {Cardinality(Headers), 0}
        /\ Searches' \in {Cardinality(Headers'), 0}
    BY DEF Searches
  <2> QED BY <2>1, <2>2, <2>3
<1>4. Phase \in 0 .. 11 /\ Phase' \in 0 .. 11
  BY DEF Phase, Stage
<1> QED BY <1>2, <1>3, <1>4, PagesCounted

(* A number of two digits is lower when its first digit is. *)
LEMMA FirstDigitDecides ==
  ASSUME NEW w \in Nat, NEW q \in Nat, NEW r \in Nat, r < q,
         NEW a \in Nat, NEW b \in Nat, b < w
  PROVE  r * w + b < q * w + a
<1>1. PICK d \in Nat : q = r + 1 + d
  <2>1. q - r - 1 \in Nat /\ q = r + 1 + (q - r - 1)
    OBVIOUS
  <2> QED BY <2>1
<1>2. PICK m \in Nat, n \in Nat : m = r * w /\ n = d * w
  OBVIOUS
<1>3. q * w = m + w + n
  BY <1>1, <1>2
<1> QED BY <1>2, <1>3

(* The call has come to a later place, or to another search. *)
LEMMA PlaceLowers ==
  ASSUME 12 * Searches' + Phase' < 12 * Searches + Phase
  PROVE  Remaining' < Remaining
<1> PICK w, s, t, p, p2, a, b : /\ w = Width /\ s = Searches /\ t = Searches'
                                /\ p = Phase /\ p2 = Phase'
                                /\ a = Cardinality(Ahead) /\ b = Cardinality(Ahead')
  OBVIOUS
<1>1. /\ s \in Nat /\ t \in Nat /\ p \in 0 .. 11 /\ p2 \in 0 .. 11
      /\ a \in Nat /\ b \in Nat /\ b < w
  BY RemainingParts
<1>2. w \in Nat /\ 12 * t + p2 < 12 * s + p
  BY WidthType
<1>3. 12 * s + p \in Nat /\ 12 * t + p2 \in Nat
  BY ONLY <1>1
<1>4. (12 * t + p2) * w + b < (12 * s + p) * w + a
  BY <1>1, <1>2, <1>3, FirstDigitDecides
<1>5. Width' = Width
  BY DEF Width
<1> QED BY <1>4, <1>5 DEF Remaining

(* The call is at a later place, and does not count its searches from more  *)
(* free blocks.                                                             *)
LEMMA LaterPlace ==
  ASSUME Phase' < Phase,
         op' \in {op, "none"},
         op = "deallocate" => Headers' = Headers
  PROVE  Remaining' < Remaining
<1>1. Searches' <= Searches
  <2>1. CASE op' = "deallocate"
    BY <2>1, RemainingParts DEF Searches
  <2>2. CASE op' # "deallocate"
    BY <2>2, RemainingParts DEF Searches
  <2> QED BY <2>1, <2>2
<1>2. 12 * Searches' + Phase' < 12 * Searches + Phase
  <2> PICK s, t, p, q : s = Searches /\ t = Searches' /\ p = Phase /\ q = Phase'
    OBVIOUS
  <2>1. s \in Nat /\ t \in Nat /\ p \in Int /\ q \in Int /\ t <= s /\ q < p
    BY <1>1, RemainingParts
  <2>2. 12 * t + q < 12 * s + p
    BY ONLY <2>1
  <2> QED BY <2>2
<1> QED BY <1>2, PlaceLowers

(* A loop goes on to a child of the block it stands on. *)
LEMMA LoopGoesOn ==
  ASSUME Inv, UNCHANGED <<left, right, size, pc, op, activity, tree, node, hand>>,
         cursor \in Linked(Walked), Walked \in Trees,
         cursor' = left[Walked][cursor] \/ cursor' = right[Walked][cursor]
  PROVE  Remaining' < Remaining
<1> PICK t \in Trees : t = Walked
  OBVIOUS
<1>1. /\ Headers' = Headers /\ Linked(t)' = Linked(t) /\ Walked' = t
      /\ Phase' = Phase /\ Searches' = Searches /\ Width' = Width
  BY DEF Headers, Linked, Entering, Removed, Added, Walked, Phase, Stage, Searches, Width
<1> PICK L, lf, rg, c, d : /\ L = Linked(t) /\ lf = left[t] /\ rg = right[t]
                           /\ c = cursor /\ d = cursor'
  OBVIOUS
<1>2. Ahead = Below(L, lf, rg, c) /\ Ahead' = Below(L, lf, rg, d)
  BY <1>1 DEF Ahead, Under
<1>3. Below(L, lf, rg, c) = {c} \cup Below(L, lf, rg, lf[c]) \cup Below(L, lf, rg, rg[c])
  BY UnderChildren DEF Under
<1>4. c \notin Below(L, lf, rg, d)
  <2>1. Forest(L, root[t], Loose(t), pred[t], lf, rg)
    BY DEF Inv, Forests
  <2> QED BY <2>1, BelowAcyclic
<1>5. Cardinality(Ahead') < Cardinality(Ahead)
  <2>1. Ahead' \subseteq Ahead /\ Ahead' # Ahead
    BY <1>2, <1>3, <1>4
  <2> QED BY <2>1, RemainingParts, FewerPages
<1>6. PICK m : m = (12 * Searches + Phase) * Width
  OBVIOUS
<1>7. m \in Nat
  BY <1>6, RemainingParts, WidthType
<1>8. Remaining = m + Cardinality(Ahead) /\ Remaining' = m + Cardinality(Ahead')
  BY <1>1, <1>6 DEF Remaining
<1> QED BY <1>5, <1>7, <1>8, RemainingParts

(* A search goes on or ends; a block is found, and the neighbour that is    *)
(* merged is one free block less.                                           *)
LEMMA SearchesRunDown ==
  ASSUME Inv, SearchOn \/ MergeSearchOn
  PROVE  Remaining' < Remaining
<1>1. CASE SearchOn
  <2>1. /\ pc = "search" /\ cursor \in Linked("size") /\ tree = "size"
        /\ cursor' = left["size"][cursor] \/ cursor' = right["size"][cursor]
        /\ UNCHANGED <<left, right, size, pc, op, activity, tree, node, hand>>
    BY <1>1 DEF SearchOn, Inv, Standing, Control, links
  <2>2. Walked = "size" /\ "size" \in Trees
    BY <2>1 DEF Walked, Trees
  <2> QED BY <2>1, <2>2, LoopGoesOn
<1>2. CASE MergeSearchOn
  <2>1. /\ pc = "merge" /\ cursor \in Linked("address")
        /\ cursor' = left["address"][cursor] \/ cursor' = right["address"][cursor]
        /\ UNCHANGED <<left, right, size, pc, op, activity, tree, node, hand>>
    BY <1>2 DEF MergeSearchOn, Inv, Standing, links
  <2>2. Walked = "address" /\ "address" \in Trees
    BY <2>1 DEF Walked, Trees
  <2> QED BY <2>1, <2>2, LoopGoesOn
<1> QED BY <1>1, <1>2

(* The loop of add_node_to_tree goes on or links the block. *)
LEMMA DescentRunsDown ==
  ASSUME Inv, DescendLeft \/ DescendRight
  PROVE  Remaining' < Remaining
<1>1. /\ pc = "descend" /\ cursor \in Linked(tree) /\ tree \in Trees /\ Walked = tree
      /\ activity \in {"remove", "add"}
      /\ size' = size
  BY DEF DescendLeft, DescendRight, Inv, Standing, Control, TypeOK, Walked
<1>2. CASE /\ cursor' = left[tree][cursor] \/ cursor' = right[tree][cursor]
           /\ UNCHANGED <<left, right, pc, op, activity, tree, node, hand>>
  BY <1>1, <1>2, LoopGoesOn
<1>3. CASE TreeDone
  <2>1. op' = op /\ activity' = activity /\ Headers' = Headers
    BY <1>1, <1>3 DEF TreeDone, Headers
  <2>2. Phase' < Phase
    BY <1>1, <1>3 DEF TreeDone, Phase, Stage, Trees
  <2> QED BY <2>1, <2>2, LaterPlace
<1> QED BY <1>2, <1>3 DEF DescendLeft, DescendRight

LEMMA MergeRunsDown ==
  ASSUME Inv, Merge
  PROVE  Remaining' < Remaining
<1>1. PICK lower, upper \in Headers : Joins(lower, upper)
  BY MergeEffect
<1>2. /\ op = "deallocate" /\ op' = "deallocate"
      /\ Headers' = Headers \ {upper}
      /\ Phase = 6 /\ Phase' = 11
  BY <1>1 DEF Joins, Phase, Stage
<1>3. Searches' < Searches
  <2>1. Cardinality(Headers') < Cardinality(Headers)
    <3>1. Headers \subseteq Pages /\ Headers' \subseteq Headers /\ Headers' # Headers
      BY <1>2 DEF Headers
    <3> QED BY <3>1, FewerPages
  <2> QED BY <2>1, <1>2 DEF Searches
<1>4. 12 * Searches' + Phase' < 12 * Searches + Phase
  <2> PICK s, t : s = Searches /\ t = Searches'
    OBVIOUS
  <2>1. s \in Nat /\ t \in Nat /\ t < s
    BY <1>3, RemainingParts
  <2>2. 12 * t + 11 < 12 * s + 6
    BY ONLY <2>1
  <2> QED BY <2>2, <1>2
<1> QED BY <1>4, PlaceLowers

(* Removing and adding go from tree to tree, and the calls return. *)
LEMMA StepRunsDown ==
  ASSUME Inv, Step
  PROVE  Remaining' < Remaining
<1>1. CASE Unlink
  <2>1. /\ pc = "unlink" /\ activity = "remove" /\ tree \in Trees
        /\ op' = op /\ activity' = activity /\ size' = size
    BY <1>1 DEF Unlink, TreeDone, Inv, Control, TypeOK
  <2>2. TreeDone \/ (pc' = "descend" /\ tree' = tree)
    BY <1>1 DEF Unlink
  <2>3. Phase' < Phase
    BY <2>1, <2>2 DEF TreeDone, Phase, Stage, Trees
  <2> QED BY <2>1, <2>3, LaterPlace DEF Headers
<1>2. CASE Attach
  <2>1. /\ pc = "attach" /\ activity = "add" /\ tree \in Trees
        /\ op' = op /\ activity' = activity /\ size' = size
    BY <1>2 DEF Attach, TreeDone, Inv, Control, TypeOK
  <2>2. TreeDone \/ (pc' = "descend" /\ tree' = tree)
    BY <1>2 DEF Attach
  <2>3. Phase' < Phase
    BY <2>1, <2>2 DEF TreeDone, Phase, Stage, Trees
  <2> QED BY <2>1, <2>3, LaterPlace DEF Headers
<1>3. CASE Refuse
  <2>1. Phase' < Phase /\ op' = "none" /\ size' = size
    BY <1>3 DEF Refuse, Return, Phase
  <2> QED BY <2>1, LaterPlace DEF Headers
<1>4. CASE Choose \/ MergeFound
  <2>1. Phase' < Phase /\ op' = op /\ size' = size
    BY <1>4 DEF Choose, MergeFound, StartRemoving, Phase, Stage
  <2> QED BY <2>1, LaterPlace DEF Headers
<1>5. CASE MergeDone
  <2>1. Phase' < Phase /\ op' = op /\ size' = size
    BY <1>5 DEF MergeDone, StartAdding, Phase, Stage
  <2> QED BY <2>1, LaterPlace DEF Headers
<1>6. CASE Split
  <2>1. pc = "unlinked" /\ activity = "remove" /\ op = "allocate" /\ op' = op
    BY <1>6 DEF Split, Inv, Control
  <2>2. Phase' < Phase
    BY <2>1, <1>6 DEF Split, StartAdding, Phase, Stage
  <2> QED BY <2>1, <2>2, LaterPlace
<1>7. CASE TakeWhole
  <2>1. pc = "unlinked" /\ activity = "remove" /\ op = "allocate" /\ op' = "none"
    BY <1>7 DEF TakeWhole, Return, Inv, Control
  <2>2. Phase' < Phase
    BY <2>1, <1>7 DEF TakeWhole, Return, Phase, Stage
  <2> QED BY <2>1, <2>2, LaterPlace
<1>8. CASE Attached
  <2>1. pc = "attached" /\ activity = "add" /\ op' = "none" /\ pc' = "idle" /\ size' = size
    BY <1>8 DEF Attached, Return, Inv, Control
  <2>2. Phase' < Phase
    BY <2>1 DEF Phase, Stage
  <2> QED BY <2>1, <2>2, LaterPlace DEF Headers
<1> QED BY <1>1, <1>2, <1>3, <1>4, <1>5, <1>6, <1>7, <1>8,
          SearchesRunDown, DescentRunsDown, MergeRunsDown DEF Step

(* For every region and every set of requests, no call of allocate() or     *)
(* deallocate() runs forever: what remains of it is a natural number that   *)
(* each of its steps lowers, through every loop over a tree and every       *)
(* restart of the search for neighbours, and that is 0 exactly when no call *)
(* runs. It is CallReturns, but for the fairness that makes steps happen.   *)
THEOREM CallsRunDown ==
  Spec => /\ [](/\ Remaining \in 0 .. 12 * Width * Width
                /\ pc = "idle" <=> Remaining = 0)
          /\ [][RunsDown]_vars
<1>1. ASSUME Inv
      PROVE  /\ Remaining \in 0 .. 12 * Width * Width
             /\ pc = "idle" <=> Remaining = 0
  <2> PICK w, s, p, a : /\ w = Width /\ s = Searches /\ p = Phase /\ a = Cardinality(Ahead)
    OBVIOUS
  <2>1. /\ w \in Nat /\ s \in Nat /\ p \in 0 .. 11 /\ a \in Nat /\ s < w /\ a < w
        /\ Remaining = (12 * s + p) * w + a
    BY RemainingParts, WidthType DEF Remaining
  <2>2. PICK m \in Nat, n \in Nat : m = s * w /\ n = p * w
    BY <2>1
  <2>3. (12 * s + p) * w + a = 12 * m + n + a
    BY <2>1, <2>2
  <2>4. m + w <= w * w /\ n <= 11 * w
    BY <2>1, <2>2
  <2>5. Remaining \in 0 .. 12 * (w * w)
    BY <2>1, <2>2, <2>3, <2>4
  <2>6. CASE pc = "idle"
    <3>1. /\ op = "none" /\ p = 0 /\ s = 0 /\ cursor = nullptr
      BY <1>1, <2>6 DEF Inv, Control, Phase, Searches
    <3>2. Ahead = {}
      BY <3>1, BelowNothing DEF Ahead, Under
    <3>3. a = 0
      BY <3>2, FS_EmptySet
    <3> QED BY <3>1, <3>3, <2>1, <2>5, <2>6
  <2>7. CASE pc # "idle"
    <3>1. p >= 1
      BY <1>1, <2>7 DEF Phase, Stage
    <3>2. n >= w
      BY <3>1, <2>1, <2>2
    <3> QED BY <3>2, <2>1, <2>2, <2>3, <2>5, <2>7
  <2> QED BY <2>6, <2>7
<1>2. ASSUME Inv, [Next]_vars
      PROVE  [RunsDown]_vars
  <2>1. CASE \E bytes \in Requests : Allocate(bytes)
    BY <2>1 DEF Allocate, RunsDown
  <2>2. CASE \E page \in held : Deallocate(page)
    BY <2>2 DEF Deallocate, RunsDown
  <2>3. CASE Step
    BY <1>2, <2>3, StepRunsDown DEF RunsDown
  <2> QED BY <1>2, <2>1, <2>2, <2>3 DEF Next
<1> QED BY <1>1, <1>2, InvHolds, PTL DEF Spec

=============================================================================
