SPECIFICATION Spec
CONSTANTS
  MinInt <- MCMinInt4
  MaxInt = 7
  Wraps = FALSE
  Truncates = FALSE
INVARIANTS
  ValueDescribed
  ArithmeticMonotone
