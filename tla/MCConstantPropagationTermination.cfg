SPECIFICATION PassSpec
CONSTANTS
  MinInt <- MCMinInt
  MaxInt = 3
  Functions <- MCSwap
PROPERTIES
  Termination
