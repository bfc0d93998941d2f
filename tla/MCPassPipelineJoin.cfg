SPECIFICATION Spec
CONSTANTS
  MinInt <- MCMinInt
  MaxInt = 3
  Functions <- MCOneSided
  Passes <- MCPass
  Effects <- MCEffects
INVARIANTS
  SameBehaviour
