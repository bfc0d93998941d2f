SPECIFICATION Spec
CONSTANTS
  MinInt <- MCMinInt
  MaxInt = 3
  Functions <- MCFunctions
  Passes <- MCPasses
  Effects <- MCEffects
INVARIANTS
  DiffersOnlyMisjudged
  AbortsForACause
