# NyaTerminal Desktop in TLA+

This directory specifies the parts of NyaTerminal Desktop in which several
goroutines, devices, callbacks or failures meet: TLA+ modules translated from the
source, TLC configurations that check them on small instances, and proofs that the
TLA+ proof system checks for every value of the constants. `PROJECT.json` lists the
components, the runs, the lines each definition stands for, the hazards of the code
and the theorems.

## 1. Inventory

The desktop is a Go backend (Wails) with a TypeScript frontend. The bound methods
of `App` (`internal/app/app.go`) are called by the frontend, each in a goroutine
of its own, and forward to services that share one encrypted vault.

| Component | State | Operations | Hard behaviour | What makes it correct |
|---|---|---|---|---|
| Automatic sync scheduler (`app.go` 898-980) | `syncRunning`, `syncPending`, `syncTimer`, `syncLastTrigger`, `syncStop` under `syncMu` | `triggerSyncSoon`, timer callback, `runSyncOnce`, `syncLoop`, `Close` | timers replaced while they fire, notes cleared in two places, Close against everything | one run at a time; no request lost; no starvation; silence after Close |
| Account session (`syncclient/client.go` 522-543, 1184-1242, 1628-1859) | `account:session` in the vault, a copy in every operation, `refreshMu` | `authorizedRequest`, `ensureFreshToken`, `clearSessionOnUnauthorized`, `Login`, `Logout`, `Sync`, `SetDeviceName` | concurrent refreshes of a rotating token, stale copies written back, lost answers, final and transient 401 | a refresh token is spent once; no needless sign-out; the stored session never goes back |
| Version vectors (`client.go` 1415-1500) | none (pure) | increment, clone, merge, compare | missing devices, zero counters, legacy versions | causal order, least upper bound, new versions are new |
| Record synchronization (`client.go` 888-1042, 1244-1381, 1502-1619; `store.go` 282-304; `vault.go` 439-535) | records, deletion journal, `State` (record states, cursor, deferred) per device; the server's log | `Sync`, `pull`, envelopes and field clocks, field merge, edits and deletes | edits during a run, conflicts, optional kinds, failures between any two steps, two runs at a time | replicas converge; independent changes survive; nothing unpublished counts as published; deletions are not lost |
| Set-up, recovery, reset, pairing, leaving (`client.go` 301-806, 1861-2020; the panel "sync" of `App.tsx` 2672-3943) | profile, session, pending pairing in the vault; dialogs, `syncBusy` and the summary in the panel | `InitializeSync`, `Recover`, `ResetSync`, `RotateRecoveryCode`, `BeginPairing`, `ApprovePairing`, `ClaimPairing`, `LeaveSync`, `SetAutoSyncEnabled` | a Sync in progress writes the profile back, answers cross, answers are lost | who believes to be a member is one; the recovery code shown is valid unless another device has replaced it; the pairing shown can be claimed |
| Devices, second factor (`client.go` 808-886) | none | single requests | none of their own | as account session |
| SFTP transfer queue (`sftpclient/transfer.go`, `service.go` 20-67) | `Service.transfers`, `slots`, `wg`; per job status and cancel function; `.nyapart` files | start, pause, resume, cancel, `runTransfer`, `Close` | overlapping runs of one transfer, cancellation, shared slots, resumption from files | a transfer neither hangs nor runs away; what is completed is whole; Close returns |
| SFTP browsing (`service.go` 69-580, `app/sftp_paths.go`, `SftpPanel.tsx`, `SftpWorkspace.tsx`, `sftpPaths.ts`) | grants; per column path, entries, selection; stored paths | listing, grants, directories, rename, delete, transfers with an overwrite question | each operation is a closure over the path, grant and connection of its beginning; answers overtake each other | entries are those of the path shown; a file is replaced only when the user saw it; listings are fresh |
| Application facade (`app.go`) | services, challenges, unlock throttle | about 90 bound methods | `Lock` replaces services while others use them | locked means locked; the throttle counts every failure |
| Vault (`vault/`) | database, master key in memory, keyring entry | initialize, unlock, change password, lock, quick unlock, records | two stores for quick unlock; lock against calls in progress | no key without a way back; no write after lock |
| Record store (`store/store.go`) | records in the vault | groups, tags, connections, credentials, history, settings, host keys | check-then-act across records | no dangling references, no cycles |
| SSH sessions (`sshclient/manager.go`), challenges (`app.go` 572-586, 871-896) | sessions, pending host keys, attach tokens | start, attach, resize, close, accept host key, keep-alive | start against close, answers against timeouts | a session is attached once and always released |
| ZMODEM in the backend (`sshclient/zmodem.go`, `zmodemproto`, `zmodemstore`) | a transfer per session, protocol automata, temporary files | detect, choose, send, receive, cancel | protocol errors, cancellation, output while a dialog is open | a file is whole or absent; the terminal gets its output back |
| ZMODEM in the webview (`frontend/src/zmodem.ts`) | receiver, handle, batch, generation; sender, selection, `sending`; detector | `consume`, flushes, `completeFile`, `selectAndSend`, `cancel` | every step is awaited while output, cancellation and the next session go on | as above; and a selection is sent as a whole |
| Terminal tabs (`frontend/src/App.tsx`, `TerminalView.tsx`) | per tab attempt, timer, flags | connect, disconnect, retry, lock, unlock, close | timers against user actions | no reconnection of a closed tab, none while locked, bounded attempts |
| Echo guard (`terminalEchoGuard.ts`) | the current line, the lines submitted | key and output handlers | input runs ahead of its echo, echo off, output cut anywhere | what was not seen in the output is not recorded |
| Command history (`commandHistorySuggestions.ts`, `commandHistorySearch.ts`, `commandHistoryWorker.ts`, `TerminalView.tsx`) | a queue of operations, an index, a worker's copy of it, hidden suggestions | record, delete, load, suggest | failing calls, a failing worker, stale answers | index, worker and backend agree; a suggestion begins like the line as it is now; requests are answered |
| Update checker (`updatecheck/`), RDP (`rdp_windows.go`), Hello helper (`hellohelper/`) | none | check, download, launch | external processes | verified before launched |

How they interact: every change of a record (`store`) is followed by
`triggerSyncSoon`; the scheduler calls `Client.Sync`, which takes its token from
the account session, reads and writes the vault, and talks to the server; the
frontend calls `SyncNow`, which calls `Client.Sync` directly. `Lock` closes the
SFTP queue and the SSH sessions; `Close` stops the scheduler, the queue, the
sessions and the vault, in this order. The output of a terminal session goes through
the backend's ZMODEM session to the webview, whose adapter looks at it before the
terminal and the echo guard do; what the guard confirms is handed to the command
history. The file panels begin transfers in the queue. Shared state is the vault (no
transaction spans two calls of it) and the fields of `App`.

`PROJECT.json` lists the hazards one by one, at the line where each bites.

## 2. Plan

In the order of what can go wrong most and is tested least. Done:

1. `SyncScheduler` with the abstract `CoalescedSync`
2. `AccountSession`
3. `VersionVector`, then `SyncReplica` which extends it
4. `TransferQueue`
5. `ZmodemSession`, and `ZmodemAdapter` for the second implementation in the webview
6. `TerminalReconnect`: a tab, its view and its SSH session
7. `SyncMembership`: set-up, reset, leaving and pairing against a Sync in progress
8. `TerminalEcho`: what is recorded as a command
9. `CommandHistory`: what is suggested
10. `SftpBrowser`: the file panels

What remains, and is small or mostly calls of the operating system: quick unlock over
two stores (`Vault`), attach tokens and challenges (`SshSession`), references between
records (`RecordStore`), the comparison of versions in the update checker.

Runs: one per component, two processes, devices, operations or goroutines, two to four
user operations. A module whose question has several sides takes a set of settings
(section 3) rather than a run for each.

Theorems: the invariants of 1, 2, 4, 6, 7, 8, 9, 10 and of `ZmodemAdapter` by induction, the
refinement of 1, the laws of 3, `PublishedBeforeForgotten` and `SeenIsRemembered`, and of 5
that nothing is left behind and that received files are whole. Next would
be `Converged` of `SyncReplica`, and what `ZmodemSession` says of the files that are sent.

## 3. Modules

Most modules have a variable `setting`, chosen by `Init` from the constant `Settings`
and never changed: a behaviour has one setting, and a run covers all of them. A setting
says which operations are used and how often, which failures happen, and where the
instance is restricted to what a property is claimed for. Properties that hold in some
circumstances only name them as a condition on the setting.

### SyncScheduler, CoalescedSync

One action per section under `syncMu` (`NotePending`, `ArmTimer`, `StartNow`,
`Callback`, `RunBegin`, `RunRefused`, `RunEnd`, `Retrigger`, `Close`) and the steps
between them that others can see (`Fire`, `LoopSelect`, `LoopTick`, `LoopReturn`).
A thread is a goroutine or a timer. `syncStop = nil` is `~open`. `time.Timer.Stop`
removes a timer that has not started its callback and leaves one that has. Time is
counted since `syncLastTrigger` only, up to the 20 seconds (`Window`). `requested`
is a history variable: somebody asked after the last run began.

`CoalescedSync` says what is promised, without threads, timers and flags:
`up`, `want`, `busy` and four actions. `ImplementsPromise` is the refinement, with
the fairness of `CoalescedSync`: after Close nothing begins, and what was wanted is done.

### AccountSession

A session is the number of the token pair it holds; 0 is none. `Begin` reads the
vault, `Authorize` to `Clear` are `authorizedRequest` with its two calls of
`ensureFreshToken`, cut at every access to the vault, to the server and to
`refreshMu`; `End` is what the operations write when they return (for `Sync` its
deferred function). `Expire` makes all tokens issued so far come within
`tokenRefreshLeeway`. The server is external: one valid refresh token, replaced
when used; another is answered 401. The setting says which operations are used (`ops`),
how many goroutines (`procs`) and token pairs (`pairs`) there are, whether messages can
be lost (`lossy`) and whether no operation outlives an access token (`short`). In a
`lossy` setting the vault may also be locked whenever it is read or written: an operation
then loads the empty session (0), finds nothing to adopt, or has tokens that it could not
save.

### VersionVector

Functions whose domain is any set of devices, as Go maps are. The operators follow
the loops of the code. What they are for is proved for every value (section 6), so no
run checks it; `SyncReplica` extends the module and is checked.

### SyncReplica

Per device: records, deletion journal, `State`; per call of `Sync`: its local
variables. One action per access to the vault or the server: `Begin` (load and
export), `Collect` (journal), `Push`, `Drop`, `Pull` (answer and second export),
`Apply` (one record: `Postpone`, `Skip`, `Write`, `WriteCopy`, `Keep`, `Bury`),
`Finish`, `GiveUp` (the deferred function after an error) and `Interrupt` (the
program ends). `Begin` stands for the loading of the state and for its being written
back with a new time of the attempt (895): the two are one step, in which nothing changes
but that time. The two deviations of the code from an ideal protocol are kept: the
version pushed in a run replaces what `pull` made of the state (`Finish`), and the
copy of a credential is stored under the remote vector.

Values are the numbers of the user operations that wrote them, so hashes are equal
exactly where values are. A field tagged `omitempty` (`mayLack`) is missing from the JSON
object while it has its zero value, 0: it has no clock until it is first set, a clock
without a hash when it is emptied, and a new clock in each version that is pushed without
it (1502-1537); `MergeClocks` and `MergeData` drop it where the clock chosen has no hash
(1590-1617). A record that gets back the values it was last synchronised with counts as
unchanged; in the program its `updatedAt` tells the two apart, so the settings with such
fields have two operations where two devices edit. Ciphertexts stand for their contents. The server is
external: an append-only log. Whether it returns a device's own records is not
visible in `src/`; `echo` selects it, and the run assumes that it does not. The settings
and history records have the same identifier on every device; the others have
identifiers of their own. The setting says what the records are (`kind`), the
identifiers, fields and records known to all at the start, which device makes which call
(`host`), who edits and when (`editors`, `midSync`, `maxOps`), which failures happen
(`faults`, `maxFaults`), and whether the runs of all devices wait for each other
(`alone`: a restriction of the instance; nothing in the code makes them wait).

### TransferQueue

One action per section under `job.mu` and per access to a file. A file is a
sequence of blocks that remember their source, an open handle follows its file when
it is renamed or removed (POSIX). `ResumeTransfer` sets the status and launches
the goroutine in one step: the code unlocks in between, which no other operation on
the job can tell, because a new goroutine first waits for a slot. `BytesDone` is
not modelled: nothing but the display reads it. A `.nyapart` file may be there from an
earlier session and be longer than the source (`left`), which an upload ignores and a
download truncates. Other programs may create a file at a destination at any time
(`Appear`); they remove none. `late` is a history variable: the runs that had looked for a
file before it came to be there. In `Sharing` two transfers share a slot; in `Intruded`
other programs create files; in `Meeting` two uploads, or two downloads, have one
destination; in `Overlapping` one transfer may be resumed while its previous run still
winds up (`impatient`), which the code allows.

### ZmodemSession

`handleOutput` with one action per item of the remote's output (a header, a
subpacket, text) and state of the `Receiver` or `Sender` it meets, the dialogs as
states in which `zmodemMu` is held, `fail` and `cancelZmodem`. The items stand for
bytes that are split into chunks anywhere: the code that drops the rest of a chunk
drops any number of items (`ConsumeChunk`). A subpacket is one block of its file. A
receiver in the middle of a subpacket takes everything for a part of it, so that
text and headers make it `dirty`. The discard window closes when the remote has come
to rest, or at any time in a `slow` setting. sz, rz and the shell are external; they
are modelled with what the code must cope with: sz may ask for an acknowledgement
after any block, both repeat themselves when they lose patience, skip files, and die.

### ZmodemAdapter

`ZmodemAdapter` and `ZmodemHeaderDetector` of `zmodem.ts`, cut at every `await`: the
flush of the receiver (`FlushItem`, `BeginReturns`, `Encoded`, `Written`,
`FinishReturns` and their failures), the flush of the sender (`FlushSender`,
`BlockRead`, `AfterBlock`), the dialogs (`FilesChosen`, `BeginDeclined`), and what comes
from outside: output (`consume`), the end of the discard window, `cancel`. `flush.pc`
and `sflush.pc` say which await a flush is at; a flush that resumes compares the
generation, or the sender object, with the current one as the code does (`IsStale`,
`BatchStale`). The package `zmodem2`, the programs and the dialogs are external; the
`Receiver` is taken to stop at each item. What sz sends next follows from what it has sent
last (`After`). `orphans`, and `whole` of a sender, are history variables.

### TerminalReconnect

A tab (`SessionTab` of `App.tsx`), its view (`TerminalView.tsx`), and behind the bridge
`StartSSH`, `CloseSSH`, `Lock`, `Unlock` and `Bootstrap` with the sessions of
`manager.go`. What the user sees is decided in four places that do not change
together, and the module keeps them apart: the vault (`locked`), what the program
believes of it (`screen`, `lockedRef`), the tab (`tab`) and what the effects have copied
from it (`seen`, which is `sessionsRef`), and the view (`view`).

React is external. `setSessions` and `setBootstrap` take effect at once, as their
updaters see the newest state; `Render` shows it, mounts or unmounts the view, starts
the next attempt and runs the effects. Callbacks of the view read `seen` where the code
reads `sessionsRef` and `tab` where it passes a function to `setSessions`;
`handleTerminalDisconnect` does both (`Disconnected`).

A call of `StartSSH` goes through `Read` (the connection and its credential, from the
vault), `Dial` (with `hostKeyCallback`, which reads the vault again) and `Authenticate`;
its answer waits in `call` until the view takes it (`TakeSession`, `TakePrompt`,
`TakeError`) or drops it because the attempt or the view is gone (`DropStale`). A session
has the number of its call and lives in the manager `App.ssh` was when the call began.
`Lock` is the sequence of `lock()` in the frontend, `App.Lock` in three steps and the
rest of `lock()`. A WebSocket lives and dies with its session. The handling of a failed
`NewManager`, Bootstraps that fail because the vault is locked in the middle of them, and
several Bootstraps or calls of `lock()` at a time are left out. Tabs do not act on each
other, so there is one.

### SyncMembership

An operation (`ops[s]`) goes through the steps `load`, `ask`, `save`, `arrive`,
`fetch` and `show`: it loads what the vault of the device holds, asks the server, saves,
its answer reaches the panel, and the panel reloads what it shows. What differs between
the operations is in tables: what the server answers (`Accepts`, `Answered`), what is
saved (`ProfileAfter`, `SessionAfter`, `PendingAfter`) and what is shown (`Result`).
`Offered` and `Enabled` are the conditions under which the panel shows a button and
enables it: `syncBusy` is of the window and outlives the dialog. Root keys, recovery
codes, devices and pairing requests are numbers made in one order. Other devices of the
account approve pairings, revoke devices, rotate the recovery code, reset the vault and set
it up anew; `replaced` is a history variable, the codes they have made invalid. The background
synchronization (`AutoSync`) saves its profile as the others do. The writes of one
operation are one step; the second factor and the handling of 401 are left out.

### TerminalEcho

The guard with its current line and the lines submitted, a method of the class per
operator (`AppendInput`, `Backspace`, `Submit`, `CurrentChar`, `SubmittedChar`,
`LineBoundary`, `MarkUnsafe`, `MarkUnreliable`), called by the keys of the user (`Type`)
and by the output (`See`). Keys travel to the remote and output back in two queues; the
remote terminal takes keys, echoes them unless a program has switched that off, and
programs print. Output arrives cut anywhere: the end of a line may be cut in two
(`ObserveCutEnd`), and so may an escape sequence or the erasure of a character, of which
the guard then sees a character (`ObserveInvisible`). Programs print any character, also
one that is awaited as an echo. `logs`, `echoed`, `read` and `clean` are history variables:
for each line of the guard the characters that have arrived since its first key, and how
many there were at each key; the commands that had been seen in this way when their line
ended (`Seen`: all characters, in their order, each after its key); what the program has
read; and whether nothing has come between user and terminal.

### CommandHistory

The queue of `commandHistorySuggestions.ts`: the first task is in progress, and `step`
says how far (`Call` the backend, `UpdateIndex`, wait for the worker's `mirror`,
`TaskEnds`). A request for suggestions waits for the queue, loads the records if that has
not been done, waits again and asks the worker (`Proceed`, `Ask`, `Answered`), which may
fail at any time, and then for good (`WorkerFails`). The view is a line, its timer, what
is shown and what is hidden. Lines are sequences of characters, because matching takes the
blanks off the line and ignores upper and lower case (`Trim`, `BeginsLike`), while a
suggestion is cut at the length of the line (`Suffix`). The settings list loads and deletes. The records are those
of the backend, which is external: calls fail, return something else than what was asked
(`CallDiffers`), and synchronization changes records behind the queue's back (`Outside`).

### SftpBrowser

An operation is a job with the path, grant and connection that were shown when it was
begun. It changes files one after the other (`Change`), asks for a grant (`Grant`), reads
a directory (`List`), and its answer is shown when it arrives (`Arrive`), unless the code
drops it. When the stored directory of a connection cannot be read, the panel asks for the
working directory, and says in between that it is not busy (`Ask`). A path is the sequence
of names it resolves to, which is what users type here; `Relative` and `CurrentRelative`
are the functions of `sftpPaths.ts` that decide about grants. The panel beside a terminal and the two-column workspace are
situations (`Situations`) of one module. Transfers are over at once here; how they go is `TransferQueue`.

## 4. Runs

All use `tlc -workers 2`. The bounds name the smallest instance in which the
situation of the question happens.

| Run | Instance | Checks |
|---|---|---|
| `sync_scheduler` | three threads, window of two ticks | `SingleFlight`, `RequestCovered`, `DeadlineKept`, `ImplementsPromise` |
| `token_sessions` | `OnlyRequests`: two requests, four pairs; `Anything`: two operations of all kinds, two pairs, lost messages | `NoTokenReuse`, `StaysSignedIn`, `NoStaleSession` (requests only), `OperationsEnd` (always) |
| `replica` | two devices, two or three user operations; thirteen settings: changes one after the other, with and without a field that may be left out, and at the same time, the same with edits during the runs, a settings record created twice, history toggled, conflicting credentials, one editor and a refused push, with a field that may be left out, with edits during its runs, the same with a new record and a server that returns what a device has sent, any of five faults, two runs on one device | `Converged`, `IndependentChangesKept`, `SeenIsRemembered`, `PublishedBeforeForgotten`, `EventuallySettled` |
| `transfer_queue` | `Sharing`: an upload and a download of two blocks, one slot; `Intruded`: one transfer and other programs; `Meeting`: two uploads, or two downloads, to one destination; `Overlapping`: one transfer, three runs, two slots | `NoneForgotten`, `CancelReaches`, `CompletedIsWhole`, `NothingReplaced`, `QueueDrains` |
| `zmodem_session` | three files of two, no and one block; seven settings: two transfers with cancelling, the same with a hasty user, impatient programs, sz impatient in front of the dialog, programs that skip and die, refusals and failing writes, files that cannot be read | `TransferredIsWhole`, `NothingLeftBehind`, `TransfersEnd` |
| `terminal_reconnect` | one automatic attempt in a row, three or four calls of `StartSSH`, one or two locks; five settings: `Automatic`, `Manual`, `Disconnecting`, `Late` (events in front of renders, late answers to dialogs), `Overlapping` (Bootstraps that cross a lock) | `NothingLeaks`, `ConnectedIsStable`, `NotStranded`, `WaitingResumes` |
| `echo_guard` | a letter and the space, what is printed besides, four keys, two outputs | `RecordedWasEchoed`, `CleanIsRecorded` |
| `command_history` | two commands that begin alike but for the case of a letter, lines in both cases and with blanks; `Typing`: two requests, no operations; `Repeating`: two operations, one request; `Managing`: two operations of the settings and one change from outside | `IndexAgrees`, `ShownCompletesLine`, `RequestsAnswered` |
| `zmodem_adapter` | files of two blocks and of one; `Receiving`: sz with two files and cancelling; `Sending`: rz twice, with failures; `Mixed`: both, with failures; `Dialogs`: two dialogs of rz open at once | `FinishedIsWhole`, `NothingLeftOpen`, `SelectionIsSent` |
| `sftp_browser` | `Panel`: two connections, failing calls; `Workspace`: one connection, two local directories that can be granted; two operations at a time, three in all | `ShownTogether`, `OverwriteConfirmed`, `Fresh` |
| `sync_membership` | two operations at a time, three or four in all; `Member`, `Guest`, `Founder`, `Faulty` | `MembershipAgrees`, `CodeIsCurrent`, `PairingIsPending`, `BusyEnds` |
| `sync_leave` | a member that leaves during a synchronization | **violated**: `KeyGivenUp` |

Type correctness is proved for `SyncScheduler`, `AccountSession` and `ZmodemSession`, and
as a part of the inductive invariants of `SyncMembership` and `TerminalReconnect` (section 6); the other
modules state no type invariant of their own, as their properties read every variable
that matters to them.

Why the bounds suffice: a fourth scheduler thread can only be a second stale
callback, which has no effect of its own; a fourth token pair is the one after the
refresh that follows a refresh; vectors are compared counter by counter, and two
devices give all four relations; two devices and two operations give every pair of
concurrent changes, and three give the shortest behaviours in which one side has
pushed twice; two blocks let a copy stop in the middle; three runs are an old one,
a new one, and one that waits for a slot. `Limit = 1` (the code has 5) lets a tab reach
the limit after one automatic attempt; four calls are one that fails, one that succeeds,
and the two that a lost timer or an answered dialog adds. Four keys are a line, its end
and a second line typed ahead; two characters, so that one can be taken for the other. Two
requests overtake each other, and a third would be dropped as the older of them is. Two
operations of a panel cross in every order, and the third is begun by what they have left.
Two files, the first of two blocks, separate the ends of a block, a file and a selection.

Two processes suffice for `AccountSession`: one refreshes, the other waits for
`refreshMu` or read the vault before. The safety properties are proved for any number.

`CHECK_DEADLOCK FALSE` is used for `TransferQueue`, where nothing is left to do once
Close has returned; for `ZmodemSession`, `ZmodemAdapter`, `TerminalEcho`,
`CommandHistory`, `SftpBrowser` and `SyncMembership`, where the user, or the remote
program, does finitely many things and all of them may have been done; and for
`TerminalReconnect`, where a tab can be closed, and the calls of `StartSSH` are used up in
the end. The liveness properties say that what has begun ends before that.

### What the properties are claimed for

Each condition stands for a behaviour of the code in which TLC finds the property
violated without it, except where noted (see the observations below).

`AccountSession`
* `NoTokenReuse`, `StaysSignedIn`, `NoStaleSession`: operations that only make requests,
  nothing lost, none longer than the life of an access token.

`SyncReplica`
* `Converged`: quiet states (nothing to push, pull or decide) of `Calm` settings, in
  which users change things between the runs of their device, no two devices with
  changes run at the same time, and no run is cut short once it has pushed. Of
  credentials each device may have copies of its own; what is claimed of them is that
  every version in use is on all devices, as long as nobody edits a copy.
* `IndependentChangesKept`: no failure but a refused push, and either one device makes all
  the changes, or each device has changed the record once, between its runs, and the field
  is none of those that may be left out (`Mergeable`). Two versions of one device in one
  pull, an edit during a run and a field set for the first time are lost by the code, as
  the observations show: the property does not cover them.
* `SeenIsRemembered`: a single device makes changes, one run at a time, none of them cut
  short. Otherwise `Finish` may put a pushed vector over a merged one, a version in the
  log may be unknown to the device that has sent it, and a deferred record that cannot be
  applied is gone.
* `PublishedBeforeForgotten`: but for the copies of credentials. An edit made during a run
  that merges may be recorded as synchronised unsent, and goes along with the next change
  of its record. What it says of the journal: changes between runs, or one run at a time
  on each device.
* `EventuallySettled`: plain records, one run at a time on each device, whatever fails.

`TransferQueue`
* `CancelReaches`, `CompletedIsWhole`: a transfer is resumed after its previous run has
  ended; `CompletedIsWhole`: transfers that share their destination with no other, and a
  file left by an earlier session only if it is longer than the source. The others: always.
  `NothingReplaced` names the ways in which a file may be replaced (`MayReplace`): a
  transfer that overwrites, the rename of a download that had looked before the file came,
  and the copying of a run that has the file open because another has renamed it.

`ZmodemSession`
* `TransferredIsWhole`: what is received always, also when sz goes back, repeats itself
  or dies; what is sent, for an rz that is there to the end of its transfer.
* `NothingLeftBehind`: that no file is open without a transfer, always; that no handle is
  forgotten and no transfer shown as running for ever, unless sz repeats a ZFILE.
* `TransfersEnd`: programs that neither die silently nor skip a file, a user who waits
  for the prompt, files that can be read; the programs repeat themselves once.

`ZmodemAdapter`
* `FinishedIsWhole`: always. `NothingLeftOpen`: but for the `orphans` named there.
  `SelectionIsSent`: unless the session before has failed, or is still under way when files
  are chosen in the dialog of an earlier one.

`TerminalReconnect`
* `NothingLeaks`: always, but for the sessions of a manager that has been closed.
* `ConnectedIsStable`: a webview that renders before the next event (`prompt`), users who
  answer a dialog before they lock the vault and before another attempt is made
  (`careful`), and no Bootstrap that crosses a lock (`~overlaps`).
* `NotStranded`: `prompt` and `careful`. `WaitingResumes`: no Bootstrap that crosses a lock, a user
  who unlocks, and either a vault that is locked once or `prompt` and `careful`: the formula says so.

`TerminalEcho`
* `RecordedWasEchoed`: always; it says that all of a recorded line was displayed after it
  was typed, not that it was displayed as its echo. `CleanIsRecorded`: as long as no program
  prints into a line, or what might be typed, switches the echo, or the connection is replaced, and the user does not type ahead
  of an empty line or erase what has not been echoed (`Disturbs`).

`CommandHistory`
* `IndexAgrees`: records the backend changed in a way the index cannot know (`drift`) are
  left out. `ShownCompletesLine`: always; what it says of applying a suggestion, for a line
  without blanks around it, and but for upper and lower case. `RequestsAnswered`: always.

`SftpBrowser`
* The local column: as long as no listing has crossed the grant of another directory
  (`crossed`). `Fresh`: columns in which no operation has failed or met another one. None
  of them says that the entries are of the connection in front (see below).

`SyncMembership`
* `MembershipAgrees`: devices that others have not removed, where no operation has saved a
  profile over one that had changed since it was loaded (`stale`), and no write fails.
  `PairingIsPending`: no failures. `BusyEnds`: always. `CodeIsCurrent`: always, but for a
  code that another device has replaced, or whose vault it has reset.

### What the violated run shows

`sync_leave`: a Sync loads the profile; the user leaves the vault, which revokes the
device and deletes the profile; the Sync ends and saves what it had loaded
(`client.go` 913). The device is shown as set up, and holds the root key, although the
panel has promised the opposite (`App.tsx` 3896).

### Observations without a run of their own

Account session and synchronization
* `Sync` saves the session it loaded over a pair refreshed meanwhile (`client.go` 916).
  The next operation spends the old refresh token again, gets 401 and signs the device
  out.
* Device 1 pushes two versions, device 2 has changed another field. In device 2's pull
  the first version is merged and the result recorded as synchronised (1374); the second
  then looks newer than an unchanged record and replaces it: device 2's change is gone.
* A record has a field that is left out while it is empty, and was never set. Device 1
  sets it for the first time; device 2 changes another field. Device 1 pushes, and pulls the
  change of device 2 in the same run: the merge uses the field clocks of before the push
  (1340), which have none of that field, takes the other side, where it is missing, and
  drops it (1592, 1604). `Finish` then records the pushed version as synchronised, so that
  the record without the field goes out as the next change, and the field is gone
  everywhere. (Without the condition on `MayLack`, TLC finds this after 25 steps, with two
  changes and one device synchronising at a time.)
* Device 2 pulls and takes its second export; its user changes another field; the record
  that arrives is written over the edit (1348) and recorded as synchronised.
* Device 1 edits, device 2 deletes. The run of device 1 pushes the edit, pulls the
  tombstone and keeps the edit, and ends by putting the pushed version over the merged
  one (1035): its version stays concurrent with the tombstone. When both runs overlap
  the devices stay different for good; this is why `Calm` is a condition of `Converged`.
* A run pushes and fails afterwards, or the answer to its push is lost: the server has the
  versions, and the deferred function saves `state.Records` without them (910).
  When the record is edited again before the next run, a second version goes out with the
  vector of the first (947), which every device that has pulled the first takes for known
  (1293): they keep the old value for good, unless the server refuses a second record of
  the same version. When the record was new and is deleted, its
  entry in the journal finds no state and is dropped (983): the deletion is never sent.
  This was found when `SeenIsRemembered` was to be proved for every fault; `Converged` and
  it had only been run with refused pushes before.
* An edit between the two exports of a run (931, 1261), of a record that this run then
  merges, is recorded as synchronised with the merged hash (1374) although it was not in
  the push, and with the clock of the old value: it stays on the device until the record
  is changed again, and the other devices do not have it until then.
* Two runs on one device: the second takes over a record that the first does not know,
  its user deletes it, and the first finds no state for the entry of the journal and drops
  it (983). The deletion is never sent.
* A record deleted between `ExportRecords` and `ListDeletions` of a run is pushed twice
  under the same vector, changed and as a tombstone; a receiver takes the second for
  known.
* A conflict copy of a credential is stored under the remote vector and is never
  pushed: it equals its recorded hash.

Membership
* While a recovery code is on the screen another device may rotate it, or reset the vault
  and set it up anew: nothing tells the panel, and the user writes down a code that is no
  longer accepted.
* A Sync, a rotation or an approval in progress also undoes a change of
  `AutoSyncEnabled`, and can replace the profile of a vault joined meanwhile.
* A recovery code whose answer finds the settings closed, or is lost, is shown to nobody;
  after `InitializeSync` only a reset helps when the profile could not be saved either.
* When `clearSyncConfiguration` fails halfway the device is revoked and the profile stays.
  Two reloads may cross and show an older summary; a reload that does not reach the
  server shows no vault, and offers to create one.

Transfers and file panels
* Pause, resume, and the first run ends after the second has begun: it sets
  `job.cancel = nil` (`transfer.go` 235), and a cancel reaches nobody.
* Two downloads to one destination share the `.nyapart` file: the second continues
  what the first left (354).
* A download that may not overwrite looks for its destination when a run begins (343) and
  renames when it ends; `os.Rename` replaces (385). A file that another program, or another
  download, puts there in between is replaced without a question. An upload is safe: the
  rename of SFTP refuses.
* A `.nyapart` file that is not longer than the source is continued, whatever source it is
  of.
* Renaming a local file to the name of another replaces it without a question.
* After a change of the tab in front, the panel shows the old entries with the new
  connection until a listing arrives. A local listing that crosses a grant makes the path
  shown lie outside of it; `currentLocalRelative` is then `.`, and a download goes to,
  and replaces files in, another directory than the one shown.
* Operations list the path they were begun in, and bring the panel back there. `busy` is
  cleared by the first of two listings in progress; a delete of several entries that
  fails in the middle leaves an old listing, and so does the end of a transfer.

Locking and terminals
* With `disconnectOnLock`: a `StartSSH` that the lock overtakes enters its session
  in the manager that has just been closed. The tab is gone, `CloseSSH` asks the new
  manager, which knows nothing of it: the connection outlives the lock.
* A host key or credential dialog outlives its attempt when the vault is locked and
  unlocked. The resumed attempt fails and sets a timer; the old dialog is then
  accepted, which starts an attempt without clearing the timer (`App.tsx` 1654-1667,
  1710-1725); `onReady` drops its handle, and the timer replaces the live connection.
* The same dialog may be answered while the vault is being locked a second time, after the
  resumed attempt has connected: the attempt it starts leaves `sshSessionId` in place, so
  `lock` does not take the tab for one that connects and does not park it. Its call meets
  the locked vault, the error is taken after the unlock, and the tab waits for an unlock
  that has already happened. (The attempt to prove `NotStranded` without `careful` failed
  at this step; with two locks and three calls TLC finds it after 32 steps.) A render that
  comes late does the same without a dialog: the unlock makes a waiting tab try again, the
  vault is locked once more before that is rendered, the render starts the attempt under the
  lock, and its `vault is locked` is taken after the second unlock (24 steps).
* `hostKeyCallback` takes every error of `GetHostTrust` for an unknown key (413-423): when
  the vault is locked while it dials, a key that is trusted, or has changed, is
  presented as new.
* A Bootstrap that read an unlocked vault before a lock and is applied after it shows the
  program unlocked over a locked vault. Tabs that then lose their connection wait for
  an unlock that nothing offers.
* A Bootstrap read while the vault is locked has no settings; the program then shows the
  lock screen only (1308), the views unmount, and their sessions are closed although
  `disconnectOnLock` is off.
* `handleTerminalDisconnect` counts the attempts of the tab and, for the timer, those in
  `sessionsRef` (1106), which are older until the effects have run. A connection lost
  right after it was made can be left with neither a timer nor a button; an error that
  arrives between the unlock and its render leaves a timer that replaces the connection.

ZMODEM in the backend
* sz repeats ZFILE while the file dialog is open; the second `FileStart` opens
  another dialog and replaces `receiveFile`, and the first handle and its `.nyapart`
  file are left to themselves until the program ends (`zmodem.go` 245).
* The same repetition can leave a transfer in the list as running: the answer to the second
  ZFILE may be taken by sz for that to its next file, which it then passes over, and the ZFIN
  that follows meets an open file. `ReceiverSessionComplete` cancels it without a
  notification (262-271). (`NothingLeftBehind` had left out the forgotten handles only; the
  attempt to prove it found this.)
* At the end of a reception `cancelLocal` comes before `DrainOutgoing`
  (`zmodem.go` 262-271): the answer to ZFIN is not sent, and sz waits for it until it
  gives up. `frontend/src/zmodem.ts` sends it first.
* An error of `senderConsume` is returned by `handleOutput` (128, 334) and ends
  the goroutine that copies the output, where every other error goes through `fail`.
* Neither the CAN of a program that is aborted nor ZSKIP is known to the
  protocol: the session keeps the output from the terminal until the user cancels. The
  ZRINIT of the next rz is taken for the acknowledgement of the previous file.
* Refusing the upload opens no discard window (108-117), so a ZRINIT that rz has
  repeated meanwhile opens the dialog again.

ZMODEM in the webview
* A save dialog answered after `cancel` leaves its handle open. A flush that fails after
  its transfer was cancelled clears the receiver, or sender, of the next one. `sendIndex`
  is not reset after a failed send: the next selection begins in the middle. A cancelled
  sender may still write one block into the shell (`zmodem.ts` 24 says the adapter keeps
  the protocol from the terminal). A dialog answered after `cancel` starts a sender; when a
  session of another dialog is under way by then, that one is replaced where its `sendIndex`
  is (263-274), and the files before it are skipped. (The attempt to prove `SelectionIsSent`
  failed at this step; the run has a setting that reaches it.)
* Input left over when a receiver ends goes to the next one. The discard window is
  prolonged by every output; the detector withholds an asterisk at the end of a chunk
  until more arrives. When the connection is lost the adapter is dropped without
  cancelling the file in the backend. There is nothing to cancel with while files are
  selected.

Command history
* A record made anew since the settings list was read has an id of the index ("local:"),
  which `deleteRecords` does not find: the command stays suggested until the next load.
  `hiddenSuggestionCommands` is never cleared.
* `applySuggestion` cuts the command at the length of the line (`TerminalView.tsx` 480),
  while matching trims the line and ignores case (`commandHistorySearch.ts` 59-63): `LS` and
  the suggestion `ls -la` give `LS -la`, and a line with a blank in front loses a character
  of the command; `lineRef` then says it is the command.
* The guard takes what is displayed for an echo whatever has displayed it. The keys `a`,
  erase, `a`, enter: the remote echoes and erases the first `a`, a program switches the echo
  off, and the second `a` is read in silence; the late echo of the first stands for it,
  and the line is recorded. The same happens when a program prints what is awaited. A
  password can be recorded only if its characters are displayed in this way.
* What is typed ahead of an empty line, an erasure that overtakes its echo, or an end of
  line cut in two lose a recording: the guard errs on the safe side.

## 5. Fairness

Goroutines that can run do (the Go scheduler); HTTP requests end (30 second timeout
of `Client.http`, `client.go` 264); `refreshMu` is granted to each waiter (Go mutexes hand
over after a millisecond, hence strong fairness of `Acquire`); time passes and the ticker
ticks; reads and writes of a connection end. `Sync` makes finitely many requests
(the second strong fairness of `AccountSession`). In `ZmodemSession` output is read,
dialogs are answered in the end, the programs run and the discard window passes. In
`TerminalReconnect` the webview handles its events and renders, bridge calls return,
timers fire, and the user of a locked program unlocks it. In `CommandHistory` the event
loop runs what is ready, the backend answers each call, if with an error, and the worker
takes its messages or fails. In `SyncMembership` every operation in progress goes on, as
its requests end. `ZmodemAdapter`, `SftpBrowser` and `TerminalEcho` state no fairness and
no liveness: what they wait for is a user, or a remote program.
Otherwise nothing is assumed of users, of the server's answers or of faults.

## 6. Proofs

| Module | Theorems | Argument |
|---|---|---|
| `SyncProofs` | Of `SyncScheduler`: `TypeCorrect`, `OneRunAtATime`, `NoRequestLost`, `NoPostponement`, `KeepsPromise` | `SchedulerInv`: the type invariant, `SingleFlight`, `RequestCovered`, `DeadlineKept` and `NotedWhileRunning`. `RequestCovered` alone is not inductive: a run that is refused because another is in progress takes its thread away, and the request is safe only because it has been noted. `KeepsPromise` maps every action to an action of `CoalescedSync` or a stutter |
| `AccountSessionProofs` | `TypeCorrect`, `NoTokenSpentTwice`, `NobodySignedOut`, `SessionAdvances` | Who holds `refreshMu` has a copy of the stored session, which is the server's current pair: the second reading of the vault under the lock is what makes this inductive. The properties hold in `Quiet` settings (requests only, nothing lost, no operation longer than a token's life), and the invariant is `Quiet => IInv` |
| | Of `SyncReplica`: `CompareIsCausalOrder`, `MergeIsLeastUpperBound`, `IncrementIsNew`; `Inductive`, `PublishedFirst`; `InductiveSeen`, `NothingSeenIsForgotten` | The laws of the vectors directly from the definitions, for any set of devices and any counters. `IInv` follows a change from the request to the log: what a run is about to record is in its request, and in the log once the push has been answered (`Sends`), and between two edits all that a device has is in one of them (`Ships`), so that a merge takes nothing over that was not sent; hence every entry of `State.Records`, and of the copies of runs, has its values in the log (`Recorded`). For the journal a run has to know the records its device knows (`Remembers`), which a second run of the device can break. Two conditions of the property, on edits during runs, were found by this proof. For `NothingSeenIsForgotten`, `SInv` says what one editor among any number of devices makes of the log: its versions follow one another, the editor's memory is its state and what a run has pushed, and what any other device remembers of a record is one of these versions or older than all of them, so that a run of another device has nothing to push; between the steps of a run its copy is behind by what it has not applied |
| `SftpProofs` | Of `TransferQueue`: `NoTransferForgotten`; `CancelStops`, whose property has the condition `~Impatient`; `CompletedAreWhole`, `NothingIsReplaced` | `NoneForgotten` with the types of what controls a run; for `CancelReaches` also that an active run of a transfer is unique and is the one `job.cancel` names, which overlapping runs break. From that uniqueness, `FInv`: the `.nyapart` file is a prefix of the source (`Intact`), what a run has copied is what the file holds (`RunFiles`), and a run that cleans up is the last one (`Cleaning`); this is claimed of transfers that are `Alone` with their destination, as two downloads to one place share a `.nyapart` file. `NothingIsReplaced` has no such condition: `Looks` says that a run past its look that may not overwrite finds nothing there still, or is `late`, and `Contents` that what is written and renamed is a file |
| | Of `SftpBrowser`: `InductiveBrowser`, `ListedWhereShown`, `NothingUnseenReplaced`, `ListedIsThere` | `BrowserInv`: the directory of a local operation lies under the grant it was asked for, and is the path shown under the grant shown, until a listing crosses the grant of another directory (`UnderGrant`); an operation that nothing has disturbed is the only one of its column and brings what is there, and every other one has marked its column (`LoneJobs`); a file the user saw is the destination of the transfer, as `Relative` takes off what `CurrentRelative` has put in front (`RelativeToGrant`) |
| `TerminalViewProofs` | Of `TerminalEcho`: `UnseenIsNotRecorded`; `InductiveClean`, `NoLineIsMissed` | What a line of the guard still awaits is a suffix of the line (`LineOK`, `GuardOK`), and of the rest there are characters in its log that are the same, in their order, each after its key (`LogOK`, with `SeenTo`); this holds of the current line and of each line submitted (`LogsOK`), and an erasure takes a key from the log and, if its echo has come, leaves the log's characters alone. A line is recorded only when nothing is awaited any more. One lemma per method of the guard, and one per method for the logs. For the lines that are not missed the output and the keys under way are one flow, and `Course` says of every point of it which line it is in, how much of that line has gone by and what the remote has collected: each item is the next one its line awaits, each key edits the remote's line as it edited the guard's, and the ends on their way back are those of the lines read and not yet recorded. A key adds a point at one end, an observation takes one from the other |
| | Of `ZmodemAdapter`: `InductiveAdapter`, `FilesAreWhole`, `OpenFilesBelong`, `SelectionsAreSent` | At each place of the input of the receiver an item is due, such that what sz has sent is the one due before it (`Stream`), and after the last one that which sz sends next (`InSync`); other items may stand anywhere. What the file of the backend, the flush under way and the batch hold, together, is what comes before the item due at the head (`At`, with a clause for each await). A flush that resumes late is told by its generation, or by the number of its receiver, and then nothing is due any more. Two more facts keep others out: the ZFIN of rz is not answered while something is received (`Quiet`), nor is anything received while output is dropped (`Muted`). Of the sender, `OnItsWay`: a session that has begun afresh has sent the files before the index |
| `CommandHistoryProofs` | `IndexNeverStrays`, `SuggestionsFit` | `IndexAgrees` speaks of the time between two operations; `IInv` says at each step of the one in progress what the index will be when it is over (`Coming`), which records it will not know (`Missed`), and that the worker's copy is behind by one message at most, which is that operation's (`InboxOK`, `CopyOK`). `Fits` adds that what is shown and what requests have found begins like its line, trimmed and in lower case: an answer is taken only for the line it was asked for, and whatever changes the line makes the answers under way stale |
| `SyncMembershipProofs` | `MembersAgree`, `CodesAreCurrent`, `PairingsArePending` | `syncBusy` lets one operation that changes the vault of the server be in progress at a time (`OneBusy`). `OpsOK` says of each operation what it has been answered so far; `ServerOK`, `CodeOK`, `PairingOK` and `MemberOK` relate that to the server, the profile and what the panel shows, so that an answer still holds when it is saved and when it is displayed, or the others have replaced what it brings (`replaced`). The settings panel may be closed and opened in between; until `syncBusy` is cleared, the operation in progress may still have to settle which request is shown (`Settles`) |
| `TerminalReconnectProofs` | `SessionsAreHeld`, `ConnectionsAreStable`, `TabsAreNotStranded` | Three invariants, each on top of the last. `CallInv`, in all settings: the managers are numbered by the locks; a call of `StartSSH` belongs to the attempt of the view or to an earlier one, no two to the same one; only such a call enters a session. `CalmInv`, where dialogs are answered in time and no Bootstrap crosses a lock: what is on the screen agrees with the vault, a timer is the tab's and alone, and a view that is connected has neither timer, nor question, nor call. `KeptInv` adds, for each state without a connection, what makes the tab go on |
| `ZmodemSessionProofs` | `TypesAreRight`; `NothingStaysBehind`, `ReceivedFilesAreWhole` | That a file is open only while something is received needs nothing else (`OpenWhileReceiving`). For the rest, what sz has said and the desktop has not read is a sequence that sz can say: which kinds may come after one another, and that headers, subpackets and ends of one file count on from each other (`WellFormed`). Each of the next headers continues what the handle holds, or is one that is refused (`Inbound`: `Opened` for the file being received, `ClosedIs` between two files, `Told1` for the first answer sz will take). Sz listens for one answer at a time, which the desktop has given or owes (`Settled`): this is what fails when sz repeats a ZFILE, and the theorem about received files, and the second half of `NothingLeftBehind`, are about settings in which it does not (`Patient`). The headers of the model carry, for these proofs only, the file they are about |

The proofs assume of the constants what the `ASSUME`s of the modules say: that markers
such as `NoTimer`, `NoProc` or `Text` are not among what they are distinguished from, and
that bounds are natural numbers; of `TerminalEcho`, that what stands for a key or a control
sequence is not a character; of `CommandHistory`, that commands are sequences of
characters that are not empty; of `TransferQueue`, that no file is something else than a
file; of `SyncMembership`, that an operation is not the marker for none and that
the settings are records of Booleans and bounds; of `SftpBrowser`, that the local machine is
none of the servers; of `ZmodemAdapter`, that each file has a block, that sz is given a file,
and that the files chosen exist; of `ZmodemSession`, that the marker for no handle is not the
content of a file; of `SyncReplica`, that devices are
ordered as numbers, that records are finitely many, and that the markers for no data, no
hash, a tombstone and no clock are none.

Only model-checked: liveness and fairness (out of the prover's reach); `Converged` and
`IndependentChangesKept` of `SyncReplica`, which compare what several editors have written,
so that their invariants have to say how the merges of all devices come to agree; and of
`TransferredIsWhole` what it says of sent files, and of received ones when sz repeats a
ZFILE.

## 7. Not modelled

The components marked `not_modelled` in `PROJECT.json`, with reasons. Within modelled
components: encryption (a ciphertext is its content), formats and messages, `SyncStatus`
for the display, the limit of 1000 records per pull (a longer log is pulled by the next
run), the migration of a legacy profile, edits of other programs to local files, the
expiry of grants and symbolic links, the ranking of suggestions, closing a terminal
session during a ZMODEM transfer (nothing then cancels the open file), what `Lock` does to
the SFTP service, and a second window of the program. The vault, the record store,
challenges and the presence check are calls to a database, a keyring or the operating
system under one mutex; the one hazard of theirs that is listed is the check over several
records in the store (84).
