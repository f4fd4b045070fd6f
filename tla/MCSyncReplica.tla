---------------------------- MODULE MCSyncReplica ----------------------------
(***************************************************************************)
(* Instances of SyncReplica: two devices, one record of two fields (or of  *)
(* one, where clocks of fields decide nothing), two or three user          *)
(* operations.  Credentials have three more identifiers for the copies     *)
(* that two conflicts can make.                                            *)
(***************************************************************************)
EXTENDS SyncReplica

CONSTANTS a, b, c, e, f, g, r1, r2

TwoDevices == {1, 2}

TwoRuns == {r1, r2}

EachItsOwn == [r \in TwoRuns |-> IF r = r1 THEN 1 ELSE 2]

OneDevice == [r \in TwoRuns |-> 1]

AllFaults == {"refused", "unanswered", "pull", "apply", "interrupt"}

\* Both devices change different things in a record both have, one after the other.
Conflicts ==
  [kind |-> "record", ids |-> {a}, fields |-> {f, g}, mayLack |-> {}, seeded |-> {a},
   spare |-> {}, host |-> EachItsOwn, echo |-> FALSE, alone |-> TRUE,
   editors |-> TwoDevices, midSync |-> FALSE, maxOps |-> 2, faults |-> {}, maxFaults |-> 0]

\* The same with a field that is left out while it is empty.
Optionals == [Conflicts EXCEPT !.mayLack = {g}]

Overlapping == [Conflicts EXCEPT !.alone = FALSE]

\* Settings have the same identifier on devices that know nothing of each other.
SettingsRecord == [Conflicts EXCEPT !.kind = "settings", !.seeded = {}]

\* History that one device has, or has not, been told to synchronise.
History ==
  [Overlapping EXCEPT !.kind = "history", !.seeded = {}, !.editors = {1}, !.maxOps = 3]

Credentials ==
  [Conflicts EXCEPT !.kind = "credential", !.ids = {a, b, c, e}, !.fields = {f},
                    !.spare = {b, c, e}, !.maxOps = 3]

\* One device changes things, and one of its pushes is refused.
OneEditor ==
  [Overlapping EXCEPT !.editors = {1}, !.maxOps = 3, !.faults = {"refused"}, !.maxFaults = 1]

AnyFault == [Overlapping EXCEPT !.faults = AllFaults, !.maxFaults = 1]

\* The same with a record that is new, and a server that returns to a device what it has sent.
Echoed == [OneEditor EXCEPT !.seeded = {}, !.echo = TRUE]

\* Two calls of Sync on the same device.
SameDevice == [OneEditor EXCEPT !.fields = {f}, !.host = OneDevice]

MidSyncOf(s) == [s EXCEPT !.midSync = TRUE]

ReplicaSettings ==
  {Conflicts, Optionals, Overlapping, MidSyncOf(Overlapping), MidSyncOf(SettingsRecord),
   History, Credentials, [OneEditor EXCEPT !.mayLack = {g}], MidSyncOf(OneEditor), Echoed,
   AnyFault, SameDevice, [MidSyncOf(SameDevice) EXCEPT !.maxOps = 2]}


===============================================================================
