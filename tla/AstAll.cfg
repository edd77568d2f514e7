SPECIFICATION AstSpec
CONSTANTS
  Listings <- BothScripts
  OverflowChecks = FALSE
  MaxLength = 3
  MaxExpression = 6
INVARIANTS
  LosesNothing
  CutOnlyAtUnderflow
  OperandsOfTheStack
PROPERTIES
  ReadsOn
