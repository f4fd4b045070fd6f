SPECIFICATION Spec
CONSTANTS
  Settings <- ReconnectSettings
  Limit = 1
  Calls <- FourCalls
INVARIANTS
  NothingLeaks
  ConnectedIsStable
  NotStranded
PROPERTIES
  WaitingResumes
CHECK_DEADLOCK FALSE
