SPECIFICATION Spec
CONSTANTS
  Size <- Sizes
  Settings <- TestSettings
  NoHandle = NoHandle
INVARIANTS
  TransferredIsWhole
  NothingLeftBehind
PROPERTIES
  TransfersEnd
CHECK_DEADLOCK FALSE
