SPECIFICATION Spec
CONSTANTS
  Chars = {"%", "c", "f", "l", "5", ".", "nl"}
  Strings <- Files
  MaxArgs = 2
  MaxLength = 4
  Alphabet = {"%", "c", "l", "5", ".", "nl"}
  Core = {"%", "c", "5", "."}
  Capacity = 3
INVARIANTS
  PrintsItsFormat
  PanicsWhenShort
  ReadsItsString
  EscapesPrinted
  FlushedOnTerminal
PROPERTIES
  Terminates
  EverythingArrives
