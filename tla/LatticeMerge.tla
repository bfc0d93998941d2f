---------------------------- MODULE LatticeMerge ----------------------------
(***************************************************************************)
(* What becomes of one name when mergePredecessorStates()                  *)
(* (passes/src/AbstractInterpretation.h) folds the out states of the       *)
(* predecessors of a block: mergeStates() copies the first element it      *)
(* meets for the name and joins every further one to it.  The order of the *)
(* predecessors is LLVM's and carries no meaning, so any element may come  *)
(* next.                                                                   *)
(***************************************************************************)
EXTENDS BasicLattice

VARIABLES
  merged,    \* the element of the name in the merged state, Bottom if absent
  seen       \* the elements the predecessors merged so far have for the name

mergeVars == <<merged, seen>>

MergeInit ==
  /\ merged = Bottom
  /\ seen = {}

Merge(x) ==
  /\ x \notin seen
  /\ merged' = LeastUpperBound(merged, x)
  /\ seen' = seen \cup {x}

MergeNext == \E x \in Elem : Merge(x)

MergeSpec == MergeInit /\ [][MergeNext]_mergeVars

-----------------------------------------------------------------------------
(* The merged element is the least upper bound of the elements merged: it  *)
(* is above each of them, and below everything that is.  Hence it does not *)
(* depend on the order of the predecessors, which is what lets the fixed   *)
(* point loop of AbstractInterpretation.h:76 compare states at all.        *)
MergeIsLeastUpperBound ==
  /\ \A x \in seen : Leq(x, merged)
  /\ \A u \in Elem : (\A x \in seen : Leq(x, u)) => Leq(merged, u)
=============================================================================
