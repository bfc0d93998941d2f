SPECIFICATION MergeSpec
CONSTANTS
  MinInt <- MCMinInt
  MaxInt = 3
INVARIANTS
  MergeIsLeastUpperBound
  UnrolledIsRecursive
\* Every element has been merged: the loop over the predecessors ends.
CHECK_DEADLOCK FALSE
