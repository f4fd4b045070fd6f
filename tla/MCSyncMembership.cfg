SPECIFICATION FairSpec
CONSTANTS
  o1 = o1
  o2 = o2
  Slots <- TwoSlots
  NoOp = NoOp
  NoProfile = NoProfile
  Settings <- MembershipSettings
INVARIANTS
  MembershipAgrees
  CodeIsCurrent
  PairingIsPending
PROPERTIES
  BusyEnds
CHECK_DEADLOCK FALSE
