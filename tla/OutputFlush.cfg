SPECIFICATION Spec
CONSTANTS
  Chars = {"%", "c", "f", "5", ".", "nl"}
  Strings <- Files
  MaxArgs = 1
  MaxLength = 1
  Alphabet = {"%", "c", "5", ".", "nl"}
  Core = {"%", "c"}
  Capacity = 3
INVARIANTS
  FlushedBeforeValue
