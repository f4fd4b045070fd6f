SPECIFICATION Spec
CONSTANTS
  a = a
  b = b
  c = c
  e = e
  f = f
  g = g
  r1 = r1
  r2 = r2
  Devices <- TwoDevices
  Runs <- TwoRuns
  Settings <- ReplicaSettings
  NoData = NoData
  NoHash = NoHash
  Grave = Grave
  NoClock = NoClock
INVARIANTS
  Converged
  IndependentChangesKept
  SeenIsRemembered
PROPERTIES
  PublishedBeforeForgotten
  EventuallySettled
