SPECIFICATION FairSpec
CONSTANTS
  Name <- MCName
  Elem <- MCElem
  Leq <- MCLeq
  LeastUpperBound <- MCLeastUpperBound
  Inst <- MCInst
  FlowState <- MCFlowState
  FlowAborts <- MCFlowAborts
  Postprocess <- MCPostprocess
  Functions <- MCFunctions
INVARIANTS
  TypeOK
  FixedPoint
  RoundInv
  MergedNoFurther
PROPERTIES
  IteratesTheEquations
  Termination
