SPECIFICATION Spec
CONSTANTS
  Half = 2
  IntOp <- MCIntOp
  FloatOp <- MCFloatOp
  FloatOrder <- MCFloatOrder
  One = 1
  MinusOne <- MCMinusOne
  Programs <- Mixed
  Variables <- Both
  GlobalsPtr = 2
  Leftovers = {3}
  MaxStack = 2
INVARIANTS
  TypeOK
  HistoryHolds
PROPERTIES
  RightWhenTrusted
  WrongAsListed
CHECK_DEADLOCK FALSE
