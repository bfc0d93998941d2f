--------------------------- MODULE MCLatticeMerge ---------------------------
(* LatticeMerge on three-bit integers, with getLeastUpperBound() and       *)
(* toSameRank() written once more with the recursion of the source.        *)
EXTENDS LatticeMerge

MCMinInt == -4

RECURSIVE RecursiveBound(_, _)
RecursiveBound(a, b) ==
  IF a = Bottom THEN b
  ELSE IF b = Bottom THEN a
  ELSE IF a = b THEN a
  ELSE IF Rank(a) < Rank(b) THEN RecursiveBound(Parent(a), b)
  ELSE IF Rank(b) < Rank(a) THEN RecursiveBound(a, Parent(b))
  ELSE RecursiveBound(Parent(a), Parent(b))

(* The unrolled getLeastUpperBound() of BasicLattice is the recursion of   *)
(* MyPasses.cc:212-227, for whatever the merge holds and whatever comes.   *)
UnrolledIsRecursive ==
  \A x \in Elem : LeastUpperBound(merged, x) = RecursiveBound(merged, x)
=============================================================================
