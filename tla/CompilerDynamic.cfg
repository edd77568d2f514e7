SPECIFICATION Spec
CONSTANTS
  MaxBody = 3
  Files <- DynamicFiles
  Encoded <- MCEncoded
  PageSize = 16
  OverflowChecks = TRUE
INVARIANTS
  DynamicCallsRefused
