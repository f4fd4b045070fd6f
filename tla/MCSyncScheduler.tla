--------------------------- MODULE MCSyncScheduler ---------------------------
(***************************************************************************)
(* Three threads (a run in progress, a stale callback and a timer can      *)
(* coexist, and a fourth would only repeat the third) and a window of two  *)
(* ticks (a trigger can come before, within and at the end of it).         *)
(***************************************************************************)
EXTENDS SyncScheduler

CONSTANTS t1, t2, t3

MCThreads == {t1, t2, t3}

===============================================================================
