SPECIFICATION FairSpec
CONSTANTS
  Functions <- MCFunctions
INVARIANTS
  OperandsRemain
  ErasesTheUnused
PROPERTIES
  OutStatesRise
  Termination
