SPECIFICATION Spec
CONSTANTS
  p1 = p1
  p2 = p2
  Procs <- TwoProcs
  NoProc = NoProc
  Settings <- SessionSettings
  MaxPairs = 4
INVARIANTS
  NoTokenReuse
  StaysSignedIn
PROPERTIES
  NoStaleSession
  OperationsEnd
