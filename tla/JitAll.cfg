SPECIFICATION Spec
CONSTANTS
  Scripts = 4
  Entries = {0, 1, 2, 3, 4}
  Links <- Chain
INVARIANTS
  TypeOK
  ReachableCodeExecutable
  FaultsExplained
  LockedIsExecutable
PROPERTIES
  RunsOrStops
