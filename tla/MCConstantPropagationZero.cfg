SPECIFICATION PassSpec
CONSTANTS
  MinInt <- MCMinInt
  MaxInt = 3
  Functions <- MCZero
INVARIANTS
  ZerosNeverMeet
