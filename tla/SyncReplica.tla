----------------------------- MODULE SyncReplica -----------------------------
(***************************************************************************)
(* The replicated records of internal/syncclient/client.go: Sync and pull, *)
(* with makeSyncEnvelope, mergeJSONFields and the deletion journal of      *)
(* internal/store, on several devices, while users edit and delete.        *)
(*                                                                         *)
(* A record is a function from fields to values; every user operation puts *)
(* a value of its own, so that a value tells which edit it comes from, and *)
(* hashes are equal exactly where the values are.  A field tagged          *)
(* "omitempty" (internal/model) is missing from the JSON object while its  *)
(* value is 0.  The ciphertexts of the server's log stand for what they    *)
(* encrypt.  The server is external: push appends to the log, pull returns *)
(* what follows the cursor.                                                *)
(***************************************************************************)
EXTENDS VersionVector, Sequences, FiniteSets, SequencesExt

CONSTANTS
  Runs,         \* calls of Sync in progress at a time
  Settings,     \* the settings considered, one of which every behaviour has
  NoData, NoHash, Grave, NoClock

ASSUME DeviceAssumption == Devices \subseteq Nat   \* ordered, as their names are

Kinds == {"record", "settings", "history", "credential"}

VARIABLES
  setting,    \* one of Settings, the same throughout
  local,      \* local[d][i]: the record in the vault of d
  journal,    \* journal[d]: records with a "deletion:" entry in the vault
  accepts,    \* accepts[d]: the optional kinds d is set to synchronise
  state,      \* state[d]: the persisted State (records, cursor, deferred)
  run,        \* run[r]: the local variables of a call of Sync
  log,        \* server: the records pushed so far
  ops,        \* the user operations so far, in order
  faults      \* failed and interrupted runs so far

vars == <<setting, local, journal, accepts, state, run, log, ops, faults>>

Ids == setting.ids              \* record identifiers
Fields == setting.fields        \* the fields of a record
MayLack == setting.mayLack      \* those that are left out while they are empty
Kind == setting.kind            \* what the records are
Seeded == setting.seeded        \* records every device has already synchronised
Spare == setting.spare          \* identifiers for the conflict copies of credentials
Host == setting.host            \* Host[r]: the device that makes the call
EchoOwn == setting.echo         \* pull returns what this device has pushed itself
Alone == setting.alone          \* no two runs of Sync at a time, on any device
Editors == setting.editors      \* devices whose users change something
MidSync == setting.midSync      \* users edit while their device synchronises
MaxOps == setting.maxOps        \* bound on user operations
Faults == setting.faults        \* of "refused", "unanswered", "pull", "apply", "interrupt"
MaxFaults == setting.maxFaults  \* bound on the times they happen

IsSetting(s) ==
  /\ s.kind \in Kinds
  /\ IsFiniteSet(s.ids) /\ s.mayLack \subseteq s.fields
  /\ s.seeded \subseteq s.ids /\ s.spare \subseteq s.ids \ s.seeded
  /\ s.host \in [Runs -> Devices]
  /\ s.editors \subseteq Devices /\ IsFiniteSet(s.editors)
  /\ {s.echo, s.alone, s.midSync} \subseteq BOOLEAN
  /\ {s.maxOps, s.maxFaults} \subseteq Nat

ASSUME SettingAssumption == \A s \in Settings : IsSetting(s)

\* What stands for no record, and for no clock of a field, is none.
ASSUME MarkerAssumption ==
  /\ NoClock \notin [vector : Vectors, writer : Devices, val : Nat]
  /\ \A s \in Settings : \A x \in {NoData, NoHash, Grave} : x \notin [s.fields -> Nat]

\* The kinds in use that a device can be set not to synchronise.
Optional == {"history", "credential"} \cap {Kind}

NoFields == [f \in Fields |-> NoClock]

\* The zero value of such a field is no part of the object.
Omits(f, value) == f \in MayLack /\ value = 0

\* A record missing from State.Records.
Unknown == [vector |-> NoVector, hash |-> NoHash, fields |-> NoFields, tomb |-> FALSE]

\* State.Records[i] has a positive Version.
Known(entry) == entry.vector # NoVector

IdleRun == [pc |-> "idle"]

First == CHOOSE d \in Devices : \A e \in Devices : d <= e

SeedVector == [d \in {First} |-> 1]

SeedData == [f \in Fields |-> 0]

SeedEntry ==
  [vector |-> SeedVector, hash |-> SeedData, tomb |-> FALSE,
   fields |-> [f \in Fields |->
                 IF f \in MayLack THEN NoClock
                                ELSE [vector |-> SeedVector, writer |-> First, val |-> 0]]]

-------------------------------------------------------------------------------
\* Devices that have joined and synchronised the seeded records (the server's
\* clock is counted from there).
Init ==
  /\ setting \in Settings
  /\ local = [d \in Devices |-> [i \in Ids |-> IF i \in Seeded THEN SeedData ELSE NoData]]
  /\ journal = [d \in Devices |-> {}]
  /\ accepts \in [Devices -> {{}, Optional}]
  /\ state = [d \in Devices |->
                [rec |-> [i \in Ids |-> IF i \in Seeded THEN SeedEntry ELSE Unknown],
                 cursor |-> 0, deferred |-> {}]]
  /\ run = [r \in Runs |-> IdleRun]
  /\ log = <<>>
  /\ ops = <<>>
  /\ faults = 0

-------------------------------------------------------------------------------
(***************************************************************************)
(* The field clocks.                                                       *)
(***************************************************************************)

\* (Mutated form: every field of a changed record gets the new vector.)
StampAll(data, previous, vector, writer) ==
  [f \in Fields |-> [vector |-> vector, writer |-> writer, val |-> data[f]]]

\* makeSyncEnvelope: a field that has changed since it was last synchronised gets
\* the vector of this version, and so does, each time, one that is missing and that once was
\* there; a field that never was has no clock.
StampFields(data, previous, vector, writer) ==
  [f \in Fields |->
     IF \/ previous[f] = NoClock /\ Omits(f, data[f])
        \/ /\ previous[f] # NoClock /\ previous[f].val = data[f]
           /\ ~Omits(f, data[f])
       THEN previous[f]
       ELSE [vector |-> vector, writer |-> writer, val |-> data[f]]]

\* mergeJSONFields: which side a field is taken from.
UseRemote(mine, theirs) ==
  \/ mine = NoClock
  \/ /\ mine # NoClock /\ theirs # NoClock
     /\ \/ CompareVectors(mine.vector, theirs.vector) = "before"
        \/ /\ CompareVectors(mine.vector, theirs.vector) \in {"concurrent", "equal"}
           /\ theirs.writer > mine.writer

MergeClocks(mine, theirs) ==
  [f \in Fields |-> IF UseRemote(mine[f], theirs[f]) THEN theirs[f] ELSE mine[f]]

\* The field is there on the side it is taken from, if the clock has a hash.
MergeData(mine, theirs, a, b) ==
  LET clock == MergeClocks(mine, theirs)
  IN  [f \in Fields |->
         IF clock[f] = NoClock \/ Omits(f, clock[f].val) THEN 0
         ELSE IF UseRemote(mine[f], theirs[f]) THEN b[f] ELSE a[f]]

-------------------------------------------------------------------------------
(***************************************************************************)
(* Sync: what it pushes.                                                   *)
(***************************************************************************)

\* The map "allowed": history is exported and accepted only when it is enabled.
Allowed(kinds, i) == Kind = "history" => "history" \in kinds

\* credentialPayloadAllowed, as a setting of the device.
PayloadAllowed(kinds, i) == Kind = "credential" => "credential" \in kinds

Export(d, kinds) ==
  [i \in Ids |-> IF Allowed(kinds, i) THEN local[d][i] ELSE NoData]

\* A record to push, and the RecordState it will have once it is pushed.
Changed(d, i, entry, data) ==
  LET vector == IncrementVector(entry.vector, d, 0)
  IN  [id |-> i, dev |-> d, tomb |-> FALSE, vector |-> vector, data |-> data,
       fields |-> StampFields(data, entry.fields, vector, d)]

Removed(d, i, entry) ==
  [id |-> i, dev |-> d, tomb |-> TRUE, vector |-> IncrementVector(entry.vector, d, 0),
   data |-> Grave, fields |-> NoFields]

\* The entries of new, and those of old for other records.
OnTop(new, old) ==
  [i \in DOMAIN new \cup DOMAIN old |-> IF i \in DOMAIN new THEN new[i] ELSE old[i]]

EntryOf(record) ==
  [vector |-> record.vector, hash |-> record.data, fields |-> record.fields,
   tomb |-> record.tomb]

\* (Mutated form: what was deleted once stays deleted.)
UnpushedLive(entry, data) == ~entry.tomb /\ data # entry.hash

\* Has the record changed since it was last synchronised?
Unpushed(entry, data) == data # entry.hash

\* load and ExportRecords: everything that differs from what was last synchronised
\* goes out.  (In between Sync writes back what it has loaded, with the time of the attempt.)
Begin(r) ==
  LET d == Host[r]
      rec == state[d].rec
      data == Export(d, accepts[d])
      changed == {i \in Ids : /\ data[i] # NoData
                              /\ PayloadAllowed(accepts[d], i)
                              /\ Unpushed(rec[i], data[i])}
      pushed == [i \in changed |-> Changed(d, i, rec[i], data[i])]
  IN  /\ run[r].pc = "idle"
      /\ Alone => \A q \in Runs : run[q].pc = "idle"
      /\ run' = [run EXCEPT ![r] =
                   [pc |-> "collect", kinds |-> accepts[d], rec |-> rec,
                    cursor |-> state[d].cursor, deferred |-> state[d].deferred,
                    out |-> SetToSeq({pushed[i] : i \in changed}),
                    pending |-> [i \in changed |-> EntryOf(pushed[i])],
                    drops |-> {}]]
      /\ UNCHANGED <<setting, local, journal, accepts, state, log, ops, faults>>

\* (Mutated form: the journal is emptied once it has been read.)
CollectAll(r) ==
  LET d == Host[r]
      drops == {i \in journal[d] : Known(run[r].rec[i])}
      graves == [i \in drops |-> Removed(d, i, run[r].rec[i])]
      out == run[r].out \o SetToSeq({graves[i] : i \in drops})
  IN  /\ run[r].pc = "collect"
      /\ journal' = [journal EXCEPT ![d] = {}]
      /\ run' = [run EXCEPT ![r].pc = IF out = <<>> THEN "pull" ELSE "push",
                            ![r].out = out,
                            ![r].pending = OnTop([i \in drops |-> EntryOf(graves[i])], @),
                            ![r].drops = drops]
      /\ UNCHANGED <<setting, local, accepts, state, log, ops, faults>>

\* ListDeletions: the deletion of a record that was never synchronised is forgotten,
\* the others go out as tombstones.
Collect(r) ==
  LET d == Host[r]
      drops == {i \in journal[d] : Known(run[r].rec[i])}
      graves == [i \in drops |-> Removed(d, i, run[r].rec[i])]
      out == run[r].out \o SetToSeq({graves[i] : i \in drops})
  IN  /\ run[r].pc = "collect"
      /\ journal' = [journal EXCEPT ![d] = drops]
      /\ run' = [run EXCEPT ![r].pc = IF out = <<>> THEN "pull" ELSE "push",
                            ![r].out = out,
                            ![r].pending = OnTop([i \in drops |-> EntryOf(graves[i])], @),
                            ![r].drops = drops]
      /\ UNCHANGED <<setting, local, accepts, state, log, ops, faults>>

Push(r) ==
  /\ run[r].pc = "push"
  /\ log' = log \o run[r].out
  /\ run' = [run EXCEPT ![r].pc = IF run[r].drops = {} THEN "pull" ELSE "drop"]
  /\ UNCHANGED <<setting, local, journal, accepts, state, ops, faults>>

\* The request or its answer is lost, or the server refuses it.
PushFails(r) ==
  /\ run[r].pc = "push" /\ faults < MaxFaults
  /\ \/ "refused" \in Faults /\ UNCHANGED log
     \/ "unanswered" \in Faults /\ log' = log \o run[r].out
  /\ run' = [run EXCEPT ![r].pc = "failed"]
  /\ faults' = faults + 1
  /\ UNCHANGED <<setting, local, journal, accepts, state, ops>>

Drop(r) ==
  /\ run[r].pc = "drop"
  /\ journal' = [journal EXCEPT ![Host[r]] = @ \ run[r].drops]
  /\ run' = [run EXCEPT ![r].pc = "pull"]
  /\ UNCHANGED <<setting, local, accepts, state, log, ops, faults>>

-------------------------------------------------------------------------------
(***************************************************************************)
(* pull: what it applies.                                                  *)
(***************************************************************************)

\* The records that follow the cursor.
Response(r) ==
  {k \in run[r].cursor + 1..Len(log) : EchoOwn \/ log[k].dev # Host[r]}

\* The response, and the second ExportRecords.
Pull(r) ==
  LET d == Host[r]
  IN  /\ run[r].pc = "pull"
      /\ run' = [run EXCEPT ![r] =
                   [pc |-> "apply", kinds |-> run[r].kinds, rec |-> run[r].rec,
                    pending |-> run[r].pending, deferred |-> run[r].deferred,
                    cursor |-> run[r].cursor, old |-> run[r].deferred,
                    new |-> Response(r),
                    next |-> Len(log), data |-> Export(d, run[r].kinds)]]
      /\ UNCHANGED <<setting, local, journal, accepts, state, log, ops, faults>>

PullFails(r) ==
  /\ run[r].pc = "pull" /\ faults < MaxFaults /\ "pull" \in Faults
  /\ run' = [run EXCEPT ![r].pc = "failed"]
  /\ faults' = faults + 1
  /\ UNCHANGED <<setting, local, journal, accepts, state, log, ops>>

\* The deferred records come first, in the order of a Go map.
Upcoming(r) ==
  IF run[r].old # {} THEN run[r].old
                     ELSE {k \in run[r].new : \A j \in run[r].new : k <= j}

\* Is the record new to us, and does it differ from what we have changed ourselves?
Relation(r, k) == CompareVectors(run[r].rec[log[k].id].vector, log[k].vector)

LocallyChanged(r, k) ==
  LET entry == run[r].rec[log[k].id]
  IN  Known(entry) /\ ~entry.tomb /\ run[r].data[log[k].id] # entry.hash

Conflicting(r, k) == Relation(r, k) = "concurrent" \/ LocallyChanged(r, k)

Present(r, k) == run[r].data[log[k].id] # NoData

Take(r, k, deferred) ==
  [run[r] EXCEPT !.old = @ \ {k}, !.new = @ \ {k}, !.deferred = deferred]

\* (Mutated form: the record is passed over and not kept.)
PassOver(r, k) ==
  LET i == log[k].id
  IN  /\ \/ ~Allowed(run[r].kinds, i)
         \/ Relation(r, k) \in {"before", "concurrent"} /\ ~PayloadAllowed(run[r].kinds, i)
      /\ run' = [run EXCEPT ![r] = Take(r, k, run[r].deferred \ {k})]
      /\ UNCHANGED local

\* A record of a kind this device does not accept waits in State.Deferred.
Postpone(r, k) ==
  LET i == log[k].id
  IN  /\ \/ ~Allowed(run[r].kinds, i)
         \/ Relation(r, k) \in {"before", "concurrent"} /\ ~PayloadAllowed(run[r].kinds, i)
      /\ run' = [run EXCEPT ![r] = Take(r, k, run[r].deferred \cup {k})]
      /\ UNCHANGED local

Wanted(r, k) ==
  /\ Allowed(run[r].kinds, log[k].id)
  /\ PayloadAllowed(run[r].kinds, log[k].id)
  /\ Relation(r, k) \in {"before", "concurrent"}

Skip(r, k) ==
  /\ Allowed(run[r].kinds, log[k].id)
  /\ Relation(r, k) \in {"equal", "after"}
  /\ run' = [run EXCEPT ![r] = Take(r, k, run[r].deferred \ {k})]
  /\ UNCHANGED local

\* PutJSON and the new RecordState of record i; merged when both sides changed it.
Store(r, k, i) ==
  LET entry == run[r].rec[log[k].id]
      mine == run[r].data[log[k].id]
      merge == Conflicting(r, k) /\ Present(r, k) /\ Kind # "credential"
      data == IF merge THEN MergeData(entry.fields, log[k].fields, mine, log[k].data)
                       ELSE log[k].data
      fields == IF merge THEN MergeClocks(entry.fields, log[k].fields) ELSE log[k].fields
  IN  /\ local' = [local EXCEPT ![Host[r]][i] = data]
      /\ run' = [run EXCEPT ![r] =
                   [Take(r, k, run[r].deferred \ {k}) EXCEPT
                      !.data[i] = data,
                      !.rec[i] = [vector |-> MergeVectors(entry.vector, log[k].vector),
                                  hash |-> data, fields |-> fields, tomb |-> FALSE]]]

Unused(i) ==
  /\ \A d \in Devices : local[d][i] = NoData /\ ~Known(state[d].rec[i])
  /\ \A k \in DOMAIN log : log[k].id # i
  /\ \A r \in Runs : run[r].pc # "idle" => ~Known(run[r].rec[i])

Write(r, k) ==
  /\ Wanted(r, k)
  /\ ~log[k].tomb
  /\ ~(Kind = "credential" /\ Conflicting(r, k))
  /\ Store(r, k, log[k].id)

\* A credential changed on both sides is kept, and the other one stored next to it.
WriteCopy(r, k) ==
  /\ Wanted(r, k)
  /\ ~log[k].tomb
  /\ Kind = "credential" /\ Conflicting(r, k)
  /\ \E i \in Spare : Unused(i) /\ Store(r, k, i)

\* A concurrent delete does not win over a local change.
Keep(r, k) ==
  LET i == log[k].id
      entry == run[r].rec[i]
  IN  /\ Wanted(r, k)
      /\ log[k].tomb /\ Conflicting(r, k) /\ Present(r, k)
      /\ run' = [run EXCEPT ![r] =
                   [Take(r, k, run[r].deferred \ {k}) EXCEPT
                      !.rec[i] = [vector |-> MergeVectors(entry.vector, log[k].vector),
                                  hash |-> NoHash, fields |-> entry.fields, tomb |-> FALSE]]]
      /\ UNCHANGED local

Bury(r, k) ==
  LET i == log[k].id
      entry == run[r].rec[i]
  IN  /\ Wanted(r, k)
      /\ log[k].tomb /\ ~(Conflicting(r, k) /\ Present(r, k))
      /\ local' = [local EXCEPT ![Host[r]][i] = NoData]
      /\ run' = [run EXCEPT ![r] =
                   [Take(r, k, run[r].deferred \ {k}) EXCEPT
                      !.data[i] = NoData,
                      !.rec[i] = [vector |-> MergeVectors(entry.vector, log[k].vector),
                                  hash |-> Grave, fields |-> NoFields, tomb |-> TRUE]]]

\* A record that cannot be decrypted, merged or written ends the loop: it is no
\* longer among the deferred ones.
ApplyFails(r) ==
  /\ run[r].pc = "apply" /\ faults < MaxFaults /\ "apply" \in Faults
  /\ \E k \in Upcoming(r) :
       /\ Wanted(r, k)
       /\ run' = [run EXCEPT ![r].pc = "failed", ![r].deferred = @ \ {k}]
  /\ faults' = faults + 1
  /\ UNCHANGED <<setting, local, journal, accepts, state, log, ops>>

Apply(r) ==
  /\ run[r].pc = "apply"
  /\ \E k \in Upcoming(r) :
       Postpone(r, k) \/ Skip(r, k) \/ Write(r, k) \/ WriteCopy(r, k) \/ Keep(r, k) \/ Bury(r, k)
  /\ UNCHANGED <<setting, journal, accepts, state, log, ops, faults>>

-------------------------------------------------------------------------------
\* The end of Sync, and its deferred function: the pushed versions go on top of
\* what pull has made of the state.
Finish(r) ==
  /\ run[r].pc = "apply"
  /\ run[r].old = {} /\ run[r].new = {}
  /\ state' = [state EXCEPT ![Host[r]] =
                 [rec |-> OnTop(run[r].pending, run[r].rec),
                  cursor |-> run[r].next, deferred |-> run[r].deferred]]
  /\ run' = [run EXCEPT ![r] = IdleRun]
  /\ UNCHANGED <<setting, local, journal, accepts, log, ops, faults>>

\* (Mutated form: the versions that were to be pushed are saved as if they had been.)
GiveUpPushed(r) ==
  /\ run[r].pc = "failed"
  /\ state' = [state EXCEPT ![Host[r]] =
                 [rec |-> OnTop(run[r].pending, run[r].rec), cursor |-> run[r].cursor,
                  deferred |-> run[r].deferred]]
  /\ run' = [run EXCEPT ![r] = IdleRun]
  /\ UNCHANGED <<setting, local, journal, accepts, log, ops, faults>>

\* After an error the deferred function saves what it has.
GiveUp(r) ==
  /\ run[r].pc = "failed"
  /\ state' = [state EXCEPT ![Host[r]] =
                 [rec |-> run[r].rec, cursor |-> run[r].cursor,
                  deferred |-> run[r].deferred]]
  /\ run' = [run EXCEPT ![r] = IdleRun]
  /\ UNCHANGED <<setting, local, journal, accepts, log, ops, faults>>

\* The program ends, or the vault is locked: nothing more is saved.
Interrupt(r) ==
  /\ run[r].pc # "idle" /\ faults < MaxFaults /\ "interrupt" \in Faults
  /\ run' = [run EXCEPT ![r] = IdleRun]
  /\ faults' = faults + 1
  /\ UNCHANGED <<setting, local, journal, accepts, state, log, ops>>

-------------------------------------------------------------------------------
(***************************************************************************)
(* The user.                                                               *)
(***************************************************************************)

Editable(d) ==
  /\ d \in Editors
  /\ Len(ops) < MaxOps
  /\ MidSync \/ \A r \in Runs : Host[r] = d => run[r].pc = "idle"

\* A field gets another value, or is emptied.
Edit(d, i, f, value) ==
  /\ Editable(d) /\ local[d][i] # NoData
  /\ value = Len(ops) + 1 \/ (Omits(f, value) /\ local[d][i][f] # value)
  /\ local' = [local EXCEPT ![d][i][f] = value]
  /\ ops' = Append(ops, [op |-> "edit", dev |-> d, id |-> i, field |-> f, value |-> value])
  /\ UNCHANGED <<setting, journal, accepts, state, run, log, faults>>

\* Settings and history have the same identifier on every device.
Create(d, i) ==
  /\ Editable(d) /\ local[d][i] = NoData
  /\ Kind \in {"record", "credential"} => Unused(i) /\ i \notin Spare
  /\ local' = [local EXCEPT ![d][i] = [f \in Fields |-> Len(ops) + 1]]
  /\ ops' = Append(ops, [op |-> "create", dev |-> d, id |-> i])
  /\ UNCHANGED <<setting, journal, accepts, state, run, log, faults>>

\* (Mutated form: the record goes without a deletion in the journal.)
DeleteUnjournaled(d, i) ==
  /\ Editable(d) /\ local[d][i] # NoData /\ Kind # "settings"
  /\ local' = [local EXCEPT ![d][i] = NoData]
  /\ ops' = Append(ops, [op |-> "delete", dev |-> d, id |-> i])
  /\ UNCHANGED <<setting, journal, accepts, state, run, log, faults>>

Delete(d, i) ==
  /\ Editable(d) /\ local[d][i] # NoData /\ Kind # "settings"
  /\ local' = [local EXCEPT ![d][i] = NoData]
  /\ journal' = [journal EXCEPT ![d] = @ \cup {i}]
  /\ ops' = Append(ops, [op |-> "delete", dev |-> d, id |-> i])
  /\ UNCHANGED <<setting, accepts, state, run, log, faults>>

Toggle(d, kind) ==
  /\ Len(ops) < MaxOps
  /\ accepts' = [accepts EXCEPT ![d] = (@ \ {kind}) \cup ({kind} \ @)]
  /\ ops' = Append(ops, [op |-> "toggle", dev |-> d, kind |-> kind])
  /\ UNCHANGED <<setting, local, journal, state, run, log, faults>>

-------------------------------------------------------------------------------
SyncStep(r) ==
  \/ Collect(r) \/ Push(r) \/ PushFails(r) \/ Drop(r) \/ Pull(r) \/ PullFails(r)
  \/ Apply(r) \/ ApplyFails(r) \/ Finish(r) \/ GiveUp(r)

User(d) ==
  \/ \E i \in Ids, f \in Fields, value \in {0, Len(ops) + 1} : Edit(d, i, f, value)
  \/ \E i \in Ids : Create(d, i) \/ Delete(d, i)
  \/ \E kind \in Optional : Toggle(d, kind)

Next ==
  \/ \E r \in Runs : Begin(r) \/ SyncStep(r) \/ Interrupt(r)
  \/ \E d \in Devices : User(d)

Safety == Init /\ [][Next]_vars

\* The scheduler keeps starting runs (SyncScheduler), and requests end.
Fairness == \A r \in Runs : WF_vars(Begin(r) \/ SyncStep(r))

Spec == Safety /\ Fairness

-------------------------------------------------------------------------------
(***************************************************************************)
(* Properties                                                              *)
(***************************************************************************)

\* At most the push of a run fails, and the server has not taken it.
Unbroken == Faults \subseteq {"refused"}

\* Nothing is under way, nothing is left to push, to pull or to decide.
Quiet ==
  /\ \A r \in Runs : run[r].pc = "idle"
  /\ \A d \in Devices :
       /\ journal[d] = {}
       /\ \A i \in Ids : local[d][i] # NoData => local[d][i] = state[d].rec[i].hash
       /\ \A k \in state[d].cursor + 1..Len(log) : log[k].dev = d
       /\ state[d].deferred = {}
       /\ accepts[d] = Optional

\* The user's changes come between two runs of Sync of the device, no other device has both
\* changes of its own and a run in progress, and no run is cut short once it has pushed.
Calm == ~MidSync /\ Unbroken /\ (Alone \/ Cardinality(Editors) = 1)

\* Every device synchronises, one run at a time (the scheduler and the button "sync" together
\* can start two runs on one device).
OwnRuns == \A q, r \in Runs : Host[q] = Host[r] => q = r

\* When the devices have nothing more to tell each other they hold the same records.  Of
\* credentials each may have copies of its own, but no version in use on one of them is
\* missing on another: where a credential differs, there is a copy (makeCredentialConflict).
Converged ==
  Quiet /\ Calm =>
    \A d \in Devices, e \in Devices :
      IF Kind = "credential"
      THEN \A i \in Ids \ Spare :
             /\ local[e][i] # NoData
             /\ \A n \in DOMAIN ops : ops[n].op = "toggle" \/ ops[n].id \notin Spare
             => \E j \in Ids : local[d][j] = local[e][i]
      ELSE local[d] = local[e]

\* The operations that gave field f of record i a value.
Writes(i, f) ==
  {n \in DOMAIN ops : /\ ops[n].op \in {"edit", "create"} /\ ops[n].id = i
                      /\ ops[n].op = "edit" => ops[n].field = f}

\* Changes of record i, by the users of device e.
Changes(e, i) ==
  {n \in DOMAIN ops : ops[n].op # "toggle" /\ ops[n].dev = e /\ ops[n].id = i}

\* Where one device makes all the changes there is nothing to merge.  Where several do, each of
\* them has changed the record once only (two versions of one device that arrive in one pull
\* overwrite a change made here), the field is one that is never left out (a merge drops one
\* that this device has just set for the first time), and the changes are made between the runs
\* of their devices.
Mergeable(i, f) ==
  \/ Cardinality(Editors) = 1
  \/ ~MidSync /\ f \notin MayLack /\ \A e \in Devices : Cardinality(Changes(e, i)) <= 1

\* Independent changes are merged: when a field was only ever changed on one device, its last
\* value is what every device ends up with (as far as changes are mergeable, and if no run has
\* been cut short once it has pushed).
IndependentChangesKept ==
  Quiet /\ Unbroken =>
    \A i \in Ids, f \in Fields :
      Mergeable(i, f) =>
        \A d \in Devices, n \in Writes(i, f) :
          /\ \A m \in Writes(i, f) : m <= n /\ ops[m].dev = ops[n].dev
          /\ \A m \in DOMAIN ops : ops[m].op = "delete" => ops[m].id # i
          => /\ local[d][i] # NoData
             /\ local[d][i][f] = (IF ops[n].op = "edit" THEN ops[n].value ELSE n)

\* As long as one device alone makes changes, in one run at a time and none of them cut short,
\* what the cursor of a device has passed is known to the vector of the record, or deferred.
SeenIsRemembered ==
  Cardinality(Editors) = 1 /\ OwnRuns /\ Unbroken =>
    \A d \in Devices : \A k \in 1..state[d].cursor :
      k \in state[d].deferred \/ Leq(log[k].vector, state[d].rec[log[k].id].vector)

\* What a device takes for synchronised has been sent by somebody, or it is an edit made during
\* a run which that run has merged: its clock is still the one of the value before, so that the
\* next change of the record takes it along.
Published(d, i) ==
  local[d][i] # NoData /\ local[d][i] = state[d].rec[i].hash =>
    \A f \in Fields :
      \/ i \in Seeded /\ local[d][i][f] = 0
      \/ \E k \in DOMAIN log : log[k].id = i /\ ~log[k].tomb /\ log[k].data[f] = local[d][i][f]
      \/ /\ MidSync /\ state[d].rec[i].fields[f] # NoClock
         /\ state[d].rec[i].fields[f].val # local[d][i][f]

\* A device keeps sending what the server has not seen, whatever fails: it never takes a
\* change for synchronised before it is in the log, and the deletion of a synchronised record
\* stays in the journal until its tombstone is (Sync and its deferred function; not so for the
\* copies that conflicts of credentials make, which stay on the device that made them).
PublishedBeforeForgotten ==
  [][\A d \in Devices :
       /\ \A i \in Ids : (Kind = "credential" => i \notin Spare) => Published(d, i)'
       /\ ~MidSync \/ OwnRuns =>
            \A i \in journal[d] \ journal'[d] :
              Known(state[d].rec[i]) =>
                \E k \in DOMAIN log : log[k].id = i /\ log[k].tomb /\ log[k].dev = d]_vars

\* Everything has been pushed and pulled.
Settled ==
  \A d \in Devices :
    /\ journal[d] = {}
    /\ \A i \in Ids : local[d][i] # NoData => local[d][i] = state[d].rec[i].hash
    /\ \A k \in state[d].cursor + 1..Len(log) : log[k].dev = d

\* The devices stop sending each other versions once their users stop changing things
\* (what is synchronised at all, and where the runs do not wait for each other), whatever
\* has failed before.
EventuallySettled == Kind = "record" /\ ~Alone /\ OwnRuns => <>[]Settled

===============================================================================
