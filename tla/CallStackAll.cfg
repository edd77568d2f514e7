SPECIFICATION Spec
CONSTANTS
  main = main
  f = f
  Scripts = {main, f}
  Entry = main
  Signature <- TwoArguments
  Values = {v, w}
  Junk = junk
  ForeignArgs = {0, 2}
  MaxActivations = 3
  MaxEval = 2
INVARIANTS
  TypeOK
  ForeignAligned
  FramesLinked
  HostRestored
PROPERTIES
  Implements
