SPECIFICATION SchedulerSpec
CONSTANTS
  t1 = t1
  t2 = t2
  t3 = t3
  Threads <- MCThreads
  Window = 2
  NoTimer = NoTimer
INVARIANTS
  SingleFlight
  RequestCovered
  DeadlineKept
PROPERTIES
  ImplementsPromise
