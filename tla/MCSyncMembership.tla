-------------------------- MODULE MCSyncMembership --------------------------
EXTENDS SyncMembership

CONSTANTS o1, o2

TwoSlots == {o1, o2}

\* Joined, with a synchronization in the background.
Member ==
  [tasks |-> 3, kinds |-> Kinds, background |-> TRUE, others |-> FALSE, faults |-> FALSE,
   vault |-> TRUE, joined |-> TRUE]

\* Joins a vault that other devices use, in both ways.
Guest ==
  [tasks |-> 4, kinds |-> {"recover", "begin", "claim", "leave"}, background |-> FALSE,
   others |-> TRUE, faults |-> FALSE, vault |-> TRUE, joined |-> FALSE]

\* Makes the vault, and its recovery codes.
Founder ==
  [tasks |-> 4, kinds |-> {"initialize", "rotate", "reset", "setAuto"}, background |-> FALSE,
   others |-> TRUE, faults |-> FALSE, vault |-> FALSE, joined |-> FALSE]

\* Answers are lost, and writes fail.
Faulty ==
  [tasks |-> 3, kinds |-> {"sync", "rotate", "leave", "recover", "login", "logout"},
   background |-> TRUE, others |-> TRUE, faults |-> TRUE, vault |-> TRUE, joined |-> TRUE]

MembershipSettings == {Member, Guest, Founder, Faulty}

\* The user leaves the vault while a synchronization is in progress.
LeavingSettings == {[Member EXCEPT !.kinds = {"leave"}]}
=============================================================================
