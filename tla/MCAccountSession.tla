--------------------------- MODULE MCAccountSession ---------------------------
(***************************************************************************)
(* Two operations at a time, one that refreshes and one that waits for     *)
(* refreshMu or has read the vault before (AccountSessionProofs has the    *)
(* same for any number of them).  Requests alone with four token pairs:    *)
(* that of the last login, the one it is exchanged for, and two after      *)
(* that; every operation and every failure with two.                       *)
(***************************************************************************)
EXTENDS AccountSession

CONSTANTS p1, p2

TwoProcs == {p1, p2}

OnlyRequests ==
  [ops |-> {"request"}, procs |-> TwoProcs, pairs |-> 4, lossy |-> FALSE, short |-> TRUE]

Anything ==
  [ops |-> AllOps, procs |-> TwoProcs, pairs |-> 2, lossy |-> TRUE, short |-> FALSE]

SessionSettings == {OnlyRequests, Anything}

===============================================================================
