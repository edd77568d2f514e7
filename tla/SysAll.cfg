SPECIFICATION Spec
CONSTANTS
  Arguments <- Stacks
  Numbers = {0, 1, 2, 255}
  Input <- Answers
  Stale = {32, 63}
INVARIANTS
  ChecksumOfByte
PROPERTIES
  Divides
  TakesItsArguments
