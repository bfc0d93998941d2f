CONSTANTS
  Commands <- MCCommands
  Texts <- MCTexts
  Writable = {"out"}
  MinInt <- MCMinInt
  MaxCol = 100
SPECIFICATION FairSpec
INVARIANTS
  TokensAreLexemes
  ParsesByTheGrammar
  PrintsTheProgram
  ExitsByTheInput
PROPERTIES
  TakesBackIdentifiers
  EndsUnlessInComment
