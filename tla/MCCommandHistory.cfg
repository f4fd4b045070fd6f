SPECIFICATION Spec
CONSTANTS
  r1 = r1
  r2 = r2
  Lower <- LowerCase
  Blank = " "
  Commands <- TwoCommands
  MinPrefix = 1
  Requests <- TwoRequests
  Settings <- HistorySettings
  NoLine = NoLine
INVARIANTS
  IndexAgrees
  ShownCompletesLine
PROPERTIES
  RequestsAnswered
CHECK_DEADLOCK FALSE
