SPECIFICATION AdapterSpec
CONSTANTS
  Size <- TwoAndOne
  Settings <- AdapterSettings
INVARIANTS
  FinishedIsWhole
  NothingLeftOpen
  SelectionIsSent
CHECK_DEADLOCK FALSE
