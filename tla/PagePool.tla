------------------------------- MODULE PagePool -------------------------------
(***************************************************************************)
(* What the kernel's page allocator promises: a pool of pages from which   *)
(* callers take runs of pages, in address order, and to which they give    *)
(* single pages back.  Nothing here says how free pages are kept.          *)
(***************************************************************************)
EXTENDS Integers

CONSTANTS
  Lengths,    \* the lengths of the runs that callers ask for
  nullptr     \* the answer to a request that is refused

VARIABLES
  pages,      \* the pages of the pool
  held,       \* the pages that callers own
  result,     \* the answer to the last call
  call,       \* the running call
  length      \* the length of the run it asks for

vars == <<pages, held, result, call, length>>

Run(first, n) == first .. (first + n - 1)

(* The first pages of the runs of n pages that nobody owns. *)
FreeRuns(n) == {first \in pages : Run(first, n) \subseteq pages \ held}

Init ==
  /\ pages \in SUBSET Nat
  /\ held = {}
  /\ result = nullptr
  /\ call = "none"
  /\ length = 0

Ask(n) ==
  /\ call = "none"
  /\ call' = "allocate"
  /\ length' = n
  /\ result' = nullptr
  /\ UNCHANGED <<pages, held>>

Grant ==
  /\ call = "allocate"
  /\ \E first \in FreeRuns(length) :
       /\ held' = held \cup Run(first, length)
       /\ result' = first
  /\ call' = "none"
  /\ length' = 0
  /\ UNCHANGED pages

Refuse ==
  /\ call = "allocate"
  /\ FreeRuns(length) = {}
  /\ call' = "none"
  /\ length' = 0
  /\ result' = nullptr
  /\ UNCHANGED <<pages, held>>

GiveBack(page) ==
  /\ call = "none"
  /\ page \in held
  /\ call' = "deallocate"
  /\ held' = held \ {page}
  /\ result' = nullptr
  /\ UNCHANGED <<pages, length>>

GivenBack ==
  /\ call = "deallocate"
  /\ call' = "none"
  /\ UNCHANGED <<pages, held, result, length>>

Answer == Grant \/ Refuse \/ GivenBack

Next ==
  \/ \E n \in Lengths : Ask(n)
  \/ \E page \in held : GiveBack(page)
  \/ Answer

Spec == Init /\ [][Next]_vars /\ WF_vars(Answer)

=============================================================================
