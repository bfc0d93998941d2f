CONSTANT Modules <- MCModules
SPECIFICATION Spec
INVARIANT RejectsTheIllegal
INVARIANT BuildsIntoAnOpenBlock
INVARIANT InvalidOnlyByOldResult
CONSTANT Statements <- MCStatements
CONSTANT Expressions <- MCExpressions
