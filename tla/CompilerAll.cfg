SPECIFICATION Spec
CONSTANTS
  MaxBody = 3
  Files <- AllFiles
  Encoded <- MCEncoded
  PageSize = 16
  OverflowChecks = FALSE
INVARIANTS
  TypeOK
  WholeInstructions
  JumpsLand
  CallsLinked
  ReturnValuesPushed
PROPERTIES
  LinkingOnlyFillsCalls
