CONSTANT Modules <- MCEmptyModules
SPECIFICATION Spec
INVARIANT FinishedBodiesReturn
CONSTANT Statements <- MCStatements
CONSTANT Expressions <- MCExpressions
