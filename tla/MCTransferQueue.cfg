SPECIFICATION Spec
CONSTANTS
  a = a
  b = b
  c = c
  d = d
  here = here
  there = there
  r1 = r1
  r2 = r2
  r3 = r3
  Jobs <- FourJobs
  Runs <- ThreeRuns
  Path <- Destination
  Uploads <- TwoUploads
  Overwrite <- FirstJob
  Settings <- TransferSettings
  NoRun = NoRun
  NoFile = NoFile
  OldBlock = OldBlock
  NoBlock = NoBlock
INVARIANTS
  NoneForgotten
  CancelReaches
  CompletedIsWhole
PROPERTIES
  NothingReplaced
  QueueDrains
CHECK_DEADLOCK FALSE
