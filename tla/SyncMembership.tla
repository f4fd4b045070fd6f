--------------------------- MODULE SyncMembership ---------------------------
(***************************************************************************)
(* How a device joins and leaves the synchronization vault of an account:  *)
(* the panel "sync" of the settings (App.tsx), the operations of the       *)
(* client behind it (client.go) and the server, which is external.  Every  *)
(* operation is a sequence of steps: it loads what the vault of the device *)
(* holds, asks the server, saves, and its answer reaches the panel, which  *)
(* then reloads what it shows.  Sync writes the profile it has loaded back *)
(* at its end, and runs in the background too.                             *)
(*                                                                         *)
(* Devices, root keys, recovery codes and pairing requests are numbers,    *)
(* made in one order; the device a pairing request is for has the number   *)
(* of the request.  Tokens are in AccountSession, records in SyncReplica,  *)
(* and when the background synchronization runs in SyncScheduler; the      *)
(* second factor is left out.                                              *)
(***************************************************************************)
EXTENDS Naturals

CONSTANTS
  Slots,      \* operations that may be in progress at a time
  Settings,   \* the situations considered, one of which every behaviour has
  NoOp, NoProfile

VARIABLES
  setting,    \* one of Settings, the same throughout
  tasks,      \* operations, and acts of other devices, still to come
  made,       \* the last number made
  server,     \* its vault: the key, the recovery code it accepts, its devices
  expelled,   \* devices that others have removed
  replaced,   \* recovery codes that others have replaced, or reset the vault of
  left,       \* devices with which this program has left, or reset, the vault
  session,    \* signed in, and the device that the tokens are of
  profile,    \* the synchronization profile in the vault of the device
  pending,    \* the pairing request in the vault of the device, or 0
  ops,        \* operations in progress
  panel,      \* what is shown: dialogs, codes, and what the last reload has read
  busy,       \* syncBusy, which is of the window and not of the dialog
  noted,      \* the recovery code the user has written down, or 0
  stale       \* a profile has been saved over one that was not the one loaded

backend == <<server, expelled, replaced, left, session, profile, pending>>
vars == <<setting, tasks, made, backend, ops, panel, busy, noted, stale>>

-----------------------------------------------------------------------------
Background == {"auto"}
Syncs == {"auto", "sync"}
Joins == {"initialize", "recover", "claim"}
Leaves == {"leave", "reset"}
Unguarded == {"logout", "name", "setAuto"}
Kinds == Syncs \cup Joins \cup Leaves \cup Unguarded \cup {"login", "begin", "rotate", "approve"}

\* Operations that fail without a profile, which they load first and save last.
LoadsProfile == Syncs \cup {"rotate", "approve", "setAuto"}
Reloads == Kinds \ {"begin", "approve"}

Busy(kind) == kind \notin Unguarded \cup Background

FirstStep(kind) == IF kind \in LoadsProfile THEN "load" ELSE "ask"

Profiles == [device : Nat, key : Nat, auto : BOOLEAN]
Sessions == [in : BOOLEAN, device : Nat]
Summaries == [in : BOOLEAN, init : BOOLEAN, configured : BOOLEAN]

Operations ==
  [kind : Kinds, step : {"load", "ask", "save", "arrive", "fetch", "show"},
   old : Profiles \cup {NoProfile}, new : Profiles \cup {NoProfile}, in : Sessions,
   ok : BOOLEAN, mounted : BOOLEAN, number : Nat, seen : Summaries]

ASSUME OpAssumption == NoOp \notin Operations

\* A device that has joined has done so in a vault.
ASSUME SettingsAssumption ==
  \A s \in Settings :
    /\ s.tasks \in Nat /\ s.kinds \subseteq Kinds
    /\ {s.background, s.others, s.faults, s.vault, s.joined} \subseteq BOOLEAN
    /\ s.joined => s.vault

NoPackage == [pairing |-> 0, key |-> 0]
NoVault == [key |-> 0, code |-> 0, members |-> {}, package |-> NoPackage]
Closed == [open |-> FALSE, join |-> FALSE, pairing |-> 0, code |-> 0]

\* Client.Summary: a local profile is not shown where the server has no vault.
Snapshot(reached) ==
  [in |-> session.in, init |-> reached /\ server.key # 0,
   configured |-> profile # NoProfile /\ (reached => server.key # 0)]

-----------------------------------------------------------------------------
(***************************************************************************)
(* The panel.  Dialogs cover what is below them.                           *)
(***************************************************************************)
Show(fields) == [f \in DOMAIN panel |-> IF f \in DOMAIN fields THEN fields[f] ELSE panel[f]]

Offered(kind) ==
  LET sum == panel.summary IN
  /\ panel.open /\ panel.code = 0
  /\ panel.join = (kind \in {"recover", "claim"})
  /\ CASE kind = "login" -> ~sum.in
       [] kind \in {"logout", "name"} -> sum.in
       [] kind = "initialize" -> sum.in /\ ~sum.init
       [] kind = "begin" -> sum.in /\ sum.init /\ ~sum.configured
       [] kind = "recover" -> noted # 0
       [] kind = "claim" -> panel.pairing # 0
       [] kind = "leave" -> sum.in /\ sum.init /\ sum.configured
       [] kind = "reset" -> sum.in /\ sum.init
       [] OTHER -> sum.in /\ sum.configured

Starts(kind) ==
  /\ tasks > 0
  /\ tasks' = tasks - 1
  /\ \E s \in Slots :
       /\ ops[s] = NoOp
       /\ ops' = [ops EXCEPT ![s] =
                    [kind |-> kind, step |-> FirstStep(kind), old |-> NoProfile,
                     new |-> NoProfile, in |-> session, ok |-> TRUE, mounted |-> TRUE,
                     number |-> IF kind = "recover" THEN noted ELSE 0,
                     seen |-> panel.summary]]

\* A bug in the panel: its buttons are enabled while an operation is in progress.
Free(kind) == TRUE

Enabled(kind) == Busy(kind) => ~busy

UserStarts(kind) ==
  /\ kind \in setting.kinds \ Background
  /\ Offered(kind) /\ Enabled(kind)
  /\ Starts(kind)
  /\ busy' = (busy \/ Busy(kind))
  /\ UNCHANGED <<setting, made, backend, panel, noted, stale>>

\* runSyncOnce; SyncScheduler says when, and that there is one at a time.
AutoSync ==
  /\ setting.background
  /\ \A s \in Slots : ops[s] # NoOp => ops[s].kind # "auto"
  /\ session.in /\ profile # NoProfile /\ server.key # 0
  /\ profile.auto
  /\ Starts("auto")
  /\ UNCHANGED <<setting, made, backend, panel, busy, noted, stale>>

\* Closing the settings forgets what they show; answers on their way reach nobody.
CloseSettings ==
  /\ panel.open /\ ~panel.join /\ panel.code = 0
  /\ panel' = Show(Closed)
  /\ ops' = [s \in Slots |-> IF ops[s] = NoOp THEN NoOp ELSE [ops[s] EXCEPT !.mounted = FALSE]]
  /\ UNCHANGED <<setting, tasks, made, backend, busy, noted, stale>>

OpenSettings ==
  /\ ~panel.open /\ tasks > 0
  /\ panel' = Show([open |-> TRUE])
  /\ UNCHANGED <<setting, tasks, made, backend, ops, busy, noted, stale>>

OpenJoin ==
  /\ panel.open /\ ~panel.join /\ panel.code = 0 /\ ~busy
  /\ panel.summary.in /\ panel.summary.init /\ ~panel.summary.configured
  /\ panel' = Show([join |-> TRUE])
  /\ UNCHANGED <<setting, tasks, made, backend, ops, busy, noted, stale>>

CloseJoin ==
  /\ panel.join /\ panel.code = 0
  /\ panel' = Show([join |-> FALSE])
  /\ UNCHANGED <<setting, tasks, made, backend, ops, busy, noted, stale>>

\* "I have saved it."
CodeSaved ==
  /\ panel.code # 0
  /\ noted' = panel.code
  /\ panel' = Show([code |-> 0])
  /\ UNCHANGED <<setting, tasks, made, backend, ops, busy, stale>>

-----------------------------------------------------------------------------
(***************************************************************************)
(* The server, and the other devices of the account.                       *)
(***************************************************************************)
Accepts(op) ==
  CASE op.kind \in Syncs \cup {"rotate", "approve"} -> op.in.in /\ op.old.device \in server.members
    [] op.kind = "initialize" -> op.in.in /\ server.key = 0
    [] op.kind = "recover" -> server.key # 0 /\ op.number = server.code
    [] op.kind = "claim" -> pending # 0 /\ server.package.pairing = pending
    [] op.kind = "leave" -> op.in.in /\ op.in.device \in server.members
    [] op.kind = "reset" -> op.in.in /\ server.key # 0
    [] OTHER -> TRUE

Makes(kind) == kind \in {"initialize", "recover", "begin", "rotate"}

\* A vault that has just been set up: key, code and the first device are made at once.
NewVault(number) ==
  [key |-> number, code |-> number, members |-> {number}, package |-> NoPackage]

\* What a request does to the server, where number is the one it makes.
Answered(op, number) ==
  CASE op.kind = "initialize" -> NewVault(number)
    [] op.kind = "recover" -> [server EXCEPT !.members = @ \cup {number}]
    [] op.kind = "rotate" -> [server EXCEPT !.code = number]
    [] op.kind = "leave" -> [server EXCEPT !.members = @ \ {op.in.device}]
    [] op.kind = "reset" -> NoVault
    [] OTHER -> server

\* The profile that an operation is going to save.
NewProfile(op, number) ==
  CASE op.kind = "initialize" -> [device |-> number, key |-> number, auto |-> TRUE]
    [] op.kind = "recover" -> [device |-> number, key |-> server.key, auto |-> TRUE]
    [] op.kind = "claim" -> [device |-> pending, key |-> server.package.key, auto |-> TRUE]
    [] OTHER -> op.old

\* An act of theirs, after which number is the last one made.
Others(change, number) ==
  /\ setting.others /\ tasks > 0
  /\ tasks' = tasks - 1
  /\ made' = number
  /\ server' = change
  /\ expelled' = expelled \cup (server.members \ change.members)
  /\ replaced' = replaced \cup ({server.code} \ {change.code})
  /\ UNCHANGED <<setting, left, session, profile, pending, ops, panel, busy, noted, stale>>

OtherMembers == server.members \ {IF profile = NoProfile THEN 0 ELSE profile.device}

\* Another device approves the request that is pending, and hands the key over.
OthersApprove ==
  /\ pending # 0 /\ server.package.pairing # pending
  /\ OtherMembers # {}
  /\ Others([server EXCEPT !.package = [pairing |-> pending, key |-> server.key],
                           !.members = @ \cup {pending}], made)

OthersRevoke ==
  \E device \in server.members : Others([server EXCEPT !.members = @ \ {device}], made)

OthersReset == server.key # 0 /\ Others(NoVault, made)

OthersRotate == OtherMembers # {} /\ Others([server EXCEPT !.code = made + 1], made + 1)

OthersInitialize == server.key = 0 /\ Others(NewVault(made + 1), made + 1)

-----------------------------------------------------------------------------
(***************************************************************************)
(* The steps of an operation.                                              *)
(***************************************************************************)
Goes(s, op) == ops' = [ops EXCEPT ![s] = op]
PanelOf(s) == UNCHANGED <<setting, tasks, panel, noted>>

\* A bug in an operation: a return before its end leaves syncBusy set.
EndsBusy(s) == Goes(s, NoOp) /\ UNCHANGED busy

\* Its end: finally, syncBusy is cleared.
Ends(s) ==
  /\ Goes(s, NoOp)
  /\ busy' = (busy /\ ~Busy(ops[s].kind))

Fails(s) == Ends(s)

Load(s) ==
  /\ ops[s].step = "load"
  /\ LET op == ops[s] IN
       IF op.kind = "name"
       THEN Goes(s, [op EXCEPT !.old = profile, !.new = profile, !.step = "save"]) /\ UNCHANGED busy
       ELSE IF profile = NoProfile THEN Fails(s)
       ELSE /\ Goes(s, [op EXCEPT !.old = profile, !.in = session,
                          !.new = IF op.kind = "setAuto" THEN [profile EXCEPT !.auto = ~@]
                                  ELSE profile,
                          !.step = IF op.kind = "setAuto" THEN "save" ELSE "ask"])
            /\ UNCHANGED busy
  /\ PanelOf(s) /\ UNCHANGED <<made, backend, stale>>

\* These go on to save, whatever they are answered; others give up.
Persists == Syncs \cup {"logout"}

FailsToAsk(s) ==
  IF ops[s].kind \in Persists
  THEN Goes(s, [ops[s] EXCEPT !.step = "save", !.ok = @ /\ ops[s].kind \notin Syncs]) /\ UNCHANGED busy
  ELSE Fails(s)

Ask(s) ==
  /\ ops[s].step = "ask"
  /\ LET op == ops[s]
         number == made + 1
         next == IF op.kind = "name" THEN "load" ELSE "save"
     IN \/ /\ Accepts(op)
           /\ server' = Answered(op, number)
           /\ made' = IF Makes(op.kind) THEN number ELSE made
           /\ left' = IF op.kind \in Leaves THEN left \cup (server.members \ server'.members) ELSE left
           /\ \/ Goes(s, [op EXCEPT !.step = next, !.new = NewProfile(op, number),
                                    !.number = number]) /\ UNCHANGED busy
              \/ setting.faults /\ FailsToAsk(s)
        \/ /\ FailsToAsk(s)
           /\ UNCHANGED <<server, made, left>>
  /\ PanelOf(s) /\ UNCHANGED <<expelled, replaced, session, profile, pending, stale>>

\* saveProfile, or clearSyncConfiguration.  Which session it leaves, and which request.
SavesProfile == LoadsProfile \cup Joins \cup {"name"}

\* A bug in clearSyncConfiguration: the profile stays.
ProfileKept(op) == IF op.kind \in SavesProfile /\ op.new # NoProfile THEN op.new ELSE profile

ProfileAfter(op) ==
  IF op.kind \in Leaves THEN NoProfile
  ELSE IF op.kind \in SavesProfile /\ op.new # NoProfile THEN op.new
  ELSE profile

SessionAfter(op) ==
  CASE op.kind \in Joins -> [in |-> TRUE, device |-> op.new.device]
    [] op.kind \in Leaves -> [session EXCEPT !.device = 0]
    [] op.kind = "login" -> [session EXCEPT !.in = TRUE]
    [] op.kind = "logout" -> [op.in EXCEPT !.in = FALSE]
    [] op.kind \in Syncs \cup {"name"} -> op.in
    [] OTHER -> session

PendingAfter(op) ==
  IF op.kind = "begin" THEN op.number ELSE IF op.kind \in Leaves \cup {"claim"} THEN 0 ELSE pending

Save(s) ==
  /\ ops[s].step = "save"
  /\ LET op == ops[s] IN
       \/ /\ profile' = ProfileAfter(op)
          /\ session' = SessionAfter(op)
          /\ pending' = PendingAfter(op)
          /\ stale' = (stale \/ (profile' # profile /\ op.kind \notin Joins \cup Leaves
                                 /\ op.old # profile))
          /\ Goes(s, [op EXCEPT !.step = "arrive"])
          /\ UNCHANGED busy
       \/ setting.faults /\ Fails(s) /\ UNCHANGED <<profile, session, pending, stale>>
  /\ PanelOf(s) /\ UNCHANGED <<made, server, expelled, replaced, left>>

\* What an answer makes the dialogs show.
Result(op) ==
  CASE op.kind = "initialize" -> [code |-> op.number]
    [] op.kind = "rotate" -> [code |-> op.number]
    [] op.kind = "begin" -> [pairing |-> op.number, join |-> TRUE]
    [] op.kind \in {"recover", "claim"} -> [pairing |-> 0, join |-> FALSE]
    [] op.kind = "leave" -> [pairing |-> 0]
    [] op.kind = "reset" -> [pairing |-> 0, code |-> 0]
    [] OTHER -> [open |-> panel.open]

Arrive(s) ==
  /\ ops[s].step = "arrive"
  /\ LET op == ops[s] IN
       /\ panel' = IF op.ok /\ op.mounted /\ op.kind \notin Background THEN Show(Result(op)) ELSE panel
       /\ IF op.ok /\ op.kind \in Reloads \ Background
          THEN Goes(s, [op EXCEPT !.step = "fetch"]) /\ UNCHANGED busy
          ELSE Ends(s)
  /\ UNCHANGED <<setting, tasks, made, backend, noted, stale>>

\* reload: what it has read is shown when it arrives, whatever has been shown meanwhile.
Fetch(s) ==
  /\ ops[s].step = "fetch"
  /\ \E reached \in {TRUE} \cup {~setting.faults} :
       Goes(s, [ops[s] EXCEPT !.step = "show", !.seen = Snapshot(reached)])
  /\ PanelOf(s) /\ UNCHANGED <<made, backend, busy, stale>>

Reload(s) ==
  /\ ops[s].step = "show"
  /\ panel' = Show([summary |-> ops[s].seen])
  /\ Ends(s)
  /\ UNCHANGED <<setting, tasks, made, backend, noted, stale>>

-----------------------------------------------------------------------------
Init ==
  /\ setting \in Settings
  /\ tasks = setting.tasks
  /\ made = 2
  /\ server = IF setting.vault
              THEN [key |-> 1, code |-> 1, members |-> {2} \cup IF setting.joined THEN {1} ELSE {},
                    package |-> NoPackage]
              ELSE NoVault
  /\ expelled = {} /\ replaced = {} /\ left = {}
  /\ session = [in |-> TRUE, device |-> 1]
  /\ profile = IF setting.joined THEN [device |-> 1, key |-> 1, auto |-> TRUE] ELSE NoProfile
  /\ pending = 0
  /\ ops = [s \in Slots |-> NoOp]
  /\ panel = [open |-> TRUE, join |-> FALSE, pairing |-> 0, code |-> 0, summary |-> Snapshot(TRUE)]
  /\ busy = FALSE
  /\ noted = IF setting.vault THEN 1 ELSE 0
  /\ stale = FALSE

Step(s) == ops[s] # NoOp /\ (Load(s) \/ Ask(s) \/ Save(s) \/ Arrive(s) \/ Fetch(s) \/ Reload(s))

Next ==
  \/ \E kind \in Kinds : UserStarts(kind)
  \/ AutoSync
  \/ CloseSettings \/ OpenSettings \/ OpenJoin \/ CloseJoin \/ CodeSaved
  \/ OthersApprove \/ OthersRevoke \/ OthersReset \/ OthersRotate \/ OthersInitialize
  \/ \E s \in Slots : Step(s)

Spec == Init /\ [][Next]_vars

\* Requests end, if need be by their timeout (client.go:264).
FairSpec == Spec /\ \A s \in Slots : WF_vars(Step(s))
-----------------------------------------------------------------------------
Leaving == \E s \in Slots : ops[s] # NoOp /\ ops[s].kind \in Leaves /\ ops[s].step = "save"

\* A device that takes itself for a member is one, and has the key of the vault; unless the
\* others have removed it, or a profile was saved over one that had changed (client.go:1831).
MembershipAgrees ==
  profile # NoProfile /\ ~Leaving /\ ~stale /\ ~setting.faults =>
    \/ profile.device \in expelled
    \/ profile.device \in server.members /\ profile.key = server.key

\* The recovery code on the screen is the one the server accepts, unless another device has
\* replaced it, or has reset the vault it is for: whatever this program does, and in whatever
\* order it is answered, it is none that a later rotation, initialization or reset of its own
\* has made invalid (App.tsx:2823, 2943).  What other devices do is not told to the panel.
CodeIsCurrent == panel.code # 0 => panel.code = server.code \/ panel.code \in replaced

\* The pairing request that is shown is the one whose keys are kept: otherwise an approval of
\* it could not be claimed (App.tsx:2864-2880, client.go:545-597).
PairingIsPending == ~busy /\ ~setting.faults => panel.pairing \in {0, pending}

\* The buttons of the panel come back, whatever fails and even when the settings are closed.
BusyEnds == busy ~> ~busy

\* "After leaving, this machine no longer holds the synchronization root key, and the device
\* is revoked" (App.tsx:3896).  Not so if a Sync began before: it saves its profile at its end.
KeyGivenUp == profile # NoProfile /\ ~Leaving => profile.device \notin left
=============================================================================
