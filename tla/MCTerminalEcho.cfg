SPECIFICATION Spec
CONSTANTS
  Chars <- TwoChars
  Blank = " "
  Text = "$"
  MaxKeys = 4
  MaxPrints = 2
INVARIANTS
  RecordedWasEchoed
  CleanIsRecorded
CHECK_DEADLOCK FALSE
