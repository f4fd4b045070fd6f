---------------------------- MODULE CoalescedSync ----------------------------
(***************************************************************************)
(* What the automatic synchronization scheduler of internal/app/app.go     *)
(* promises, without its threads, timers and flags: requests coalesce, one *)
(* run at a time serves them, a request made while a run is in progress is *)
(* served by a LATER run, and no run starts once the application is        *)
(* closed.  SyncScheduler is shown to implement this module.               *)
(***************************************************************************)

VARIABLES
  up,       \* the application has not been closed
  want,     \* a synchronization was requested after the last run started
  busy      \* a run is in progress

absVars == <<up, want, busy>>

AbsInit ==
  /\ up = TRUE
  /\ want = FALSE
  /\ busy = FALSE

\* Anybody may ask, at any time; asking twice is asking once.
Request ==
  /\ want' = TRUE
  /\ UNCHANGED <<up, busy>>

\* A run serves every request made before it starts.  A spurious run, one
\* that nobody asked for, is allowed.
Start ==
  /\ up
  /\ ~busy
  /\ busy' = TRUE
  /\ want' = FALSE
  /\ UNCHANGED up

Finish ==
  /\ busy
  /\ busy' = FALSE
  /\ UNCHANGED <<up, want>>

Shut ==
  /\ up
  /\ up' = FALSE
  /\ UNCHANGED <<want, busy>>

AbsNext == Request \/ Start \/ Finish \/ Shut

AbsSafety == AbsInit /\ [][AbsNext]_absVars

\* A run that started ends, and a request does not wait for ever.
AbsFairness ==
  /\ WF_absVars(Finish)
  /\ WF_absVars(want /\ Start)

AbsSpec == AbsSafety /\ AbsFairness

===============================================================================
