SPECIFICATION Spec
CONSTANTS
  Signatures <- AllSignatures
  Assigned <- EdgeVariables
  Depth = 84
  Height = 4
INVARIANTS
  TypeOK
  FrameIntact
  CallIsNeutral
PROPERTIES
  ArgumentsArrive
  ReversalArrives
