--------------------------- MODULE MCZmodemSession ---------------------------
EXTENDS ZmodemSession

Sizes == <<2, 0, 1>>

Base ==
  [programs |-> {"sz", "rz"}, perAck |-> 2, timeouts |-> {}, maxCommands |-> 1,
   maxRetries |-> 0, maxFaults |-> 0, aborts |-> FALSE, skips |-> FALSE, slow |-> FALSE,
   cancels |-> FALSE, faults |-> {}]

\* One transfer after another, either of which the user may cancel.
Cancelled == [Base EXCEPT !.cancels = TRUE, !.perAck = 1, !.maxCommands = 2]

Hasty == [Cancelled EXCEPT !.slow = TRUE]

\* The programs grow impatient, sz with the file dialog among others.
Impatient ==
  [Base EXCEPT !.timeouts = {"init", "eof", "pos", "wait"}, !.maxRetries = 1, !.cancels = TRUE]

Waiting == [Base EXCEPT !.programs = {"sz"}, !.timeouts = {"file"}, !.maxRetries = 1]

Dying == [Base EXCEPT !.aborts = TRUE, !.skips = TRUE, !.maxCommands = 2]

Failure ==
  [Base EXCEPT !.faults = {"write", "refuse"}, !.maxFaults = 1, !.maxCommands = 2]

Unreadable == [Failure EXCEPT !.faults = {"read"}]

TestSettings == {Cancelled, Hasty, Impatient, Waiting, Dying, Failure, Unreadable}

===============================================================================
