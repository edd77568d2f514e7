SPECIFICATION Spec
CONSTANTS
  Half = 2
  IntOp <- MCIntOp
  FloatOp <- MCFloatOp
  FloatOrder <- MCFloatOrder
  One = 1
  MinusOne <- MCMinusOne
  Programs <- Decrement
  Variables <- Both
  GlobalsPtr = 2
  Leftovers = {3}
  MaxStack = 2
PROPERTIES
  Implements
