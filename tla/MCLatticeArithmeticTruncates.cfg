SPECIFICATION Spec
CONSTANTS
  MinInt <- MCMinInt
  MaxInt = 3
  Wraps = FALSE
  Truncates = TRUE
INVARIANTS
  ValueDescribed
