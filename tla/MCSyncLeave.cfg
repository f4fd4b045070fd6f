SPECIFICATION Spec
CONSTANTS
  o1 = o1
  o2 = o2
  Slots <- TwoSlots
  NoOp = NoOp
  NoProfile = NoProfile
  Settings <- LeavingSettings
INVARIANTS
  KeyGivenUp
CHECK_DEADLOCK FALSE
