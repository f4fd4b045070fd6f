-------------------------- MODULE TerminalReconnect --------------------------
(***************************************************************************)
(* A terminal tab and its SSH session: the tab in frontend/src/App.tsx     *)
(* (reconnection, closing, locking), its view in TerminalView.tsx, and     *)
(* behind the bridge StartSSH, CloseSSH and Lock of internal/app/app.go    *)
(* with the sessions of internal/sshclient/manager.go.                     *)
(*                                                                         *)
(* React is external: setSessions and setBootstrap change the state at     *)
(* once, Render shows it later and runs the effects, and the callbacks of  *)
(* the views see what was rendered last.  Tabs know nothing of each other, *)
(* so there is one.  A call of StartSSH and the session it makes have the  *)
(* same number; a tab's WebSocket lives and dies with the session.         *)
(***************************************************************************)
EXTENDS Naturals, FiniteSets

CONSTANTS
  Settings,   \* the settings considered, one of which every behaviour has
  Limit,      \* AUTO_RECONNECT_LIMIT
  Calls       \* 1 to the number of calls of StartSSH that there can be (a bound)

ASSUME LimitAssumption == Limit \in Nat \ {0}
ASSUME CallsAssumption == Calls \subseteq Nat \ {0}

None == 0     \* no session, no timer

VARIABLES
  setting,    \* one of Settings, the same throughout
  locked,     \* Vault: the key is gone
  manager,    \* the manager that App.ssh is
  shut,       \* the last manager that has been closed, or 0
  call,       \* call[n]: a call of StartSSH, until its answer has been taken
  open,       \* sessions whose SSH connection lives
  closing,    \* sessions for which a CloseSSH is under way
  tab,        \* the tab in the state of App
  gone,       \* closedTabsRef has the tab
  timers,     \* timeouts that have been set and not cleared
  screen,     \* bootstrap: vault.locked, and whether it has settings
  lockedRef,  \* vaultLockedRef
  seen,       \* sessionsRef: the tab when the effects ran last
  painted,    \* the screen when the effects ran last
  view,       \* the mounted TerminalView: attemptRef and sessionId
  dialog,     \* the question about a host key or a password
  lock,       \* the call of lock() in progress
  reload,     \* the call of Bootstrap in progress
  locks       \* calls of lock() so far

go == <<locked, manager, shut, open>>
bridge == <<call, closing>>
app == <<tab, gone, timers>>
shell == <<screen, lockedRef>>
react == <<seen, painted, view>>
asked == <<lock, reload, locks>>
vars == <<setting, go, bridge, app, shell, react, dialog, asked>>

(***************************************************************************)
(* A setting says whether locking disconnects (disconnectOnLock), whether  *)
(* the tab reconnects by itself (resolvesAutoReconnect), whether Bootstrap *)
(* is also called for other reasons than an unlock, and while the vault is *)
(* being locked (overlaps), whether React renders before anything else     *)
(* happens in the webview (prompt), and whether questions are answered     *)
(* before the vault is locked, and not once another attempt has been made  *)
(* (careful); and it bounds the calls of lock() and of StartSSH.           *)
(***************************************************************************)
IsSetting(s) ==
  /\ {s.disconnect, s.resumes, s.overlaps, s.prompt, s.careful} \subseteq BOOLEAN
  /\ s.maxLocks \in Nat /\ s.maxCalls \in Calls

ASSUME SettingAssumption == \A s \in Settings : IsSetting(s)

NoCall == [st |-> "none", attempt |-> 0, mount |-> 0, mgr |-> 0]

(***************************************************************************)
(*   read  dial  auth     where StartSSH is                                *)
(*   session  prompt  error  final  vault     its answer: a session, a     *)
(*            host key or credential to ask for, an error that a retry may *)
(*            cure, one it cannot, and "vault is locked"                   *)
(***************************************************************************)
Working == {"read", "dial", "auth"}
Answers == {"session", "prompt", "error", "final", "vault"}

Unlocked == [locked |-> FALSE, settings |-> TRUE]

\* What the effects of a render copy from the tab: sessionsRef.
Snapshot(t) == [present |-> t.present, tries |-> t.tries, timer |-> t.timer]

\* A tab as openConnection makes it.
NewTab ==
  [present |-> TRUE, attempt |-> 0, tries |-> 0, timer |-> None, busy |-> FALSE,
   waiting |-> FALSE, retry |-> FALSE, ssh |-> None]

NoDialog == [st |-> "none", attempt |-> 0]

NoView == [mounted |-> FALSE, mount |-> 0, attempt |-> 0, sid |-> None]

Init ==
  /\ setting \in Settings
  /\ locked = FALSE /\ manager = 1 /\ shut = 0
  /\ call = [n \in Calls |-> NoCall]
  /\ open = {} /\ closing = {} /\ timers = {} /\ gone = FALSE
  /\ tab = NewTab
  /\ screen = Unlocked /\ painted = Unlocked /\ lockedRef = FALSE
  /\ seen = [Snapshot(NewTab) EXCEPT !.present = FALSE]
  /\ view = NoView
  /\ dialog = NoDialog /\ reload = "none" /\ locks = 0
  /\ lock = [st |-> "idle", disconnect |-> FALSE]

-------------------------------------------------------------------------------
(***************************************************************************)
(* Render and its effects.                                                 *)
(***************************************************************************)

\* A locked App without settings shows only the lock screen.
Wanted == tab.present /\ (screen.locked => screen.settings)

Starting == Wanted /\ (~view.mounted \/ view.attempt # tab.attempt)
Leaving == view.mounted /\ ~Wanted

Dirty == Starting \/ Leaving \/ seen # Snapshot(tab) \/ painted # screen

\* Something else happens in the webview.
Idle == setting.prompt => ~Dirty

\* The tab makes another attempt, and the automatic ones are counted anew.
Again(t) ==
  [t EXCEPT !.attempt = @ + 1, !.tries = 0, !.busy = FALSE, !.timer = None,
            !.waiting = FALSE, !.retry = FALSE]

\* (Mutated form: only a tab that has a timer goes on.)
ResumedTimed(t) == IF t.waiting /\ t.busy THEN [Again(t) EXCEPT !.ssh = None] ELSE t

\* The effect of an unlock on a tab that has waited for it.
Resumed(t) == IF t.waiting THEN [Again(t) EXCEPT !.ssh = None] ELSE t

\* The effect that follows bootstrap.vault.locked.
LockEffect ==
  IF painted.locked # screen.locked
    THEN /\ lockedRef' = screen.locked
         /\ tab' = IF lockedRef /\ ~screen.locked THEN Resumed(tab) ELSE tab
    ELSE UNCHANGED <<lockedRef, tab>>

\* CloseSSH for the session of the view, if it has one.
CloseOwn == closing' = closing \cup ({view.sid} \ {None})

\* connect: of a view that is mounted, or of the next attempt of a mounted one.
Connect(n) ==
  LET mount == IF view.mounted THEN view.mount ELSE view.mount + 1
  IN  /\ n <= setting.maxCalls
      /\ call[n].st = "none" /\ \A k \in 1..n - 1 : call[k].st # "none"
      /\ CloseOwn
      /\ view' = [mounted |-> TRUE, mount |-> mount, attempt |-> tab.attempt, sid |-> None]
      /\ call' = [call EXCEPT ![n] = [@ EXCEPT !.st = "read", !.attempt = tab.attempt,
                                               !.mount = mount]]

Unmount ==
  /\ CloseOwn
  /\ view' = [view EXCEPT !.mounted = FALSE, !.sid = None]
  /\ UNCHANGED call

Render ==
  /\ Dirty
  /\ seen' = Snapshot(tab)
  /\ painted' = screen
  /\ \/ Starting /\ \E n \in Calls : Connect(n)
     \/ Leaving /\ Unmount
     \/ ~Starting /\ ~Leaving /\ UNCHANGED <<view, bridge>>
  /\ LockEffect
  /\ UNCHANGED <<setting, go, gone, timers, screen, dialog, asked>>

-------------------------------------------------------------------------------
(***************************************************************************)
(* What becomes of a tab that has lost its connection.                     *)
(***************************************************************************)

\* It waits for the vault, if it reconnects by itself.
Parked(t) ==
  [t EXCEPT !.busy = FALSE, !.timer = None, !.waiting = setting.resumes,
            !.retry = ~setting.resumes, !.ssh = None]

\* (Mutated form: without the button.)
OfferedSilently(t) == [t EXCEPT !.busy = FALSE, !.timer = None, !.waiting = FALSE, !.ssh = None]

\* It has a button to try again.
Offered(t) ==
  [t EXCEPT !.busy = FALSE, !.timer = None, !.waiting = FALSE, !.retry = TRUE, !.ssh = None]

\* It counts the attempt, if there are any left.
Counted(t) ==
  IF t.tries + 1 > Limit
    THEN Offered(t)
    ELSE [t EXCEPT !.tries = @ + 1, !.waiting = FALSE, !.retry = FALSE, !.ssh = None]

\* It has a timer.
Timed(t, n) ==
  [t EXCEPT !.busy = TRUE, !.timer = n, !.waiting = FALSE, !.retry = FALSE, !.ssh = None]

\* setSessions: nothing happens to a tab that has been closed.
SetTab(t) == tab' = IF tab.present THEN t ELSE tab

\* handleTerminalDisconnect.  How many attempts there have been is read from the tab,
\* and once more from what has been rendered.
Disconnected(n, retryable, vaultError) ==
  IF gone \/ ~seen.present THEN UNCHANGED <<tab, timers>>
  ELSE IF lockedRef \/ vaultError
    THEN SetTab(Parked(tab)) /\ timers' = timers \ {tab.timer}
  ELSE IF ~(retryable /\ setting.resumes)
    THEN SetTab(Offered(tab)) /\ timers' = timers \ {tab.timer}
  ELSE IF seen.tries + 1 > Limit
    THEN SetTab(Counted(tab)) /\ UNCHANGED timers
    ELSE /\ SetTab(Timed(Counted(tab), n))
         /\ timers' = IF tab.present THEN (timers \ {Counted(tab).timer}) \cup {n} ELSE timers

\* The callback of retrySessionConnection.
TimerFires(t) ==
  /\ Idle /\ t \in timers
  /\ timers' = timers \ {t}
  /\ SetTab(IF lockedRef THEN Parked(tab)
            ELSE [Again(tab) EXCEPT !.tries = tab.tries, !.ssh = None])
  /\ UNCHANGED <<setting, go, bridge, gone, shell, react, dialog, asked>>

\* retrySessionConnectionNow.
Retry ==
  /\ Idle /\ tab.present /\ tab.retry /\ ~painted.locked
  /\ timers' = timers \ {tab.timer}
  /\ tab' = IF lockedRef THEN Offered(tab) ELSE [Again(tab) EXCEPT !.ssh = None]
  /\ UNCHANGED <<setting, go, bridge, gone, shell, react, dialog, asked>>

-------------------------------------------------------------------------------
(***************************************************************************)
(* StartSSH, CloseSSH and the end of sessions, in Go.                      *)
(***************************************************************************)

Goto(n, st) == call' = [call EXCEPT ![n].st = st]

Failure == {"prompt", "error", "final"}

\* App.ssh, GetConnection and GetCredential, for which the vault must be open.
Read(n) ==
  /\ call[n].st = "read"
  /\ \E st \in IF locked THEN {"vault"} ELSE {"dial", "prompt"} :
       call' = [call EXCEPT ![n].st = st, ![n].mgr = manager]
  /\ UNCHANGED <<setting, go, closing, app, shell, react, dialog, asked>>

\* The connection, and hostKeyCallback: a key it cannot read the trust of is unknown.
Dial(n) ==
  /\ call[n].st = "dial"
  /\ \E st \in Failure \cup (IF locked THEN {} ELSE {"auth"}) : Goto(n, st)
  /\ UNCHANGED <<setting, go, closing, app, shell, react, dialog, asked>>

\* Authentication and the shell.  The session is entered in the manager of the call,
\* whether or not that has been closed.
Authenticate(n) ==
  /\ call[n].st = "auth"
  /\ \/ /\ Goto(n, "session")
        /\ open' = open \cup {n}
     \/ /\ \E st \in Failure : Goto(n, st)
        /\ UNCHANGED open
  /\ UNCHANGED <<setting, locked, manager, shut, closing, app, shell, react, dialog, asked>>

\* The server ends the session, or a keepalive finds it dead.
SessionEnds(n) ==
  /\ n \in open
  /\ open' = open \ {n}
  /\ UNCHANGED <<setting, locked, manager, shut, bridge, app, shell, react, dialog, asked>>

\* CloseSSH: CloseSession of the manager that App.ssh is by now.
CloseSession(n) ==
  /\ n \in closing
  /\ closing' = closing \ {n}
  /\ open' = IF call[n].mgr = manager THEN open \ {n} ELSE open
  /\ UNCHANGED <<setting, locked, manager, shut, call, app, shell, react, dialog, asked>>

-------------------------------------------------------------------------------
(***************************************************************************)
(* The view: the answer of StartSSH and the end of the WebSocket.          *)
(***************************************************************************)

\* Not disposed, and attemptRef.current = attemptValue.
Current(n) ==
  view.mounted /\ call[n].mount = view.mount /\ call[n].attempt = view.attempt

Taken(n) == call' = [call EXCEPT ![n] = [NoCall EXCEPT !.st = "done", !.mgr = call[n].mgr]]

\* (Mutated form: a session nobody waits for is forgotten.)
ForgetStale(n) ==
  /\ Idle /\ call[n].st \in Answers /\ ~Current(n)
  /\ Taken(n)
  /\ UNCHANGED <<setting, go, closing, app, shell, react, dialog, asked>>

\* An answer nobody waits for: its session is closed.
DropStale(n) ==
  /\ Idle /\ call[n].st \in Answers /\ ~Current(n)
  /\ Taken(n)
  /\ closing' = IF call[n].st = "session" THEN closing \cup {n} ELSE closing
  /\ UNCHANGED <<setting, go, app, shell, react, dialog, asked>>

\* (Mutated form: the tab goes on waiting for the vault.)
ReadyWaiting(t, n) ==
  [t EXCEPT !.tries = 0, !.busy = FALSE, !.timer = None, !.retry = FALSE, !.ssh = n]

\* onReady.
Ready(t, n) ==
  [t EXCEPT !.tries = 0, !.busy = FALSE, !.timer = None, !.waiting = FALSE,
            !.retry = FALSE, !.ssh = n]

TakeSession(n) ==
  /\ Idle /\ call[n].st = "session" /\ Current(n)
  /\ Taken(n)
  /\ view' = [view EXCEPT !.sid = n]
  /\ SetTab(Ready(tab, n))
  /\ UNCHANGED <<setting, go, closing, gone, timers, shell, seen, painted, dialog, asked>>

\* onHostKey and onAuthPrompt.
TakePrompt(n) ==
  /\ Idle /\ call[n].st = "prompt" /\ Current(n)
  /\ Taken(n)
  /\ SetTab([tab EXCEPT !.busy = FALSE, !.timer = None, !.waiting = FALSE, !.retry = FALSE])
  /\ dialog' = [st |-> "shown", attempt |-> view.attempt]
  /\ UNCHANGED <<setting, go, closing, gone, timers, shell, react, asked>>

TakeError(n) ==
  /\ Idle /\ call[n].st \in {"error", "final", "vault"} /\ Current(n)
  /\ Taken(n)
  /\ CloseOwn
  /\ view' = [view EXCEPT !.sid = None]
  /\ Disconnected(n, call[n].st # "final", call[n].st = "vault")
  /\ UNCHANGED <<setting, go, gone, shell, seen, painted, dialog, asked>>

\* The WebSocket of a session that has ended, or whose manager has been closed before it
\* could be opened.
SocketCloses ==
  /\ Idle /\ view.sid # None
  /\ view.sid \notin open \/ call[view.sid].mgr <= shut
  /\ view' = [view EXCEPT !.sid = None]
  /\ Disconnected(view.sid, TRUE, FALSE)
  /\ UNCHANGED <<setting, go, bridge, gone, shell, seen, painted, dialog, asked>>

-------------------------------------------------------------------------------
(***************************************************************************)
(* The user: closing the tab, the dialogs, locking and unlocking.          *)
(***************************************************************************)

Removed == [tab EXCEPT !.present = FALSE]

\* closeSession
CloseTab ==
  /\ gone' = TRUE
  /\ timers' = timers \ {tab.timer}
  /\ closing' = closing \cup ({tab.ssh} \ {None})
  /\ tab' = Removed

Close ==
  /\ Idle /\ tab.present /\ ~painted.locked
  /\ CloseTab
  /\ UNCHANGED <<setting, go, call, shell, react, dialog, asked>>

Cancel ==
  /\ Idle /\ tab.present /\ ~painted.locked /\ dialog.st = "shown"
  /\ CloseTab
  /\ dialog' = NoDialog
  /\ UNCHANGED <<setting, go, call, shell, react, asked>>

\* onAccept, onSubmit: the key or the password goes to the vault first.
Accept ==
  /\ Idle /\ ~painted.locked /\ dialog.st = "shown"
  /\ setting.careful => lock.st = "idle" /\ dialog.attempt = tab.attempt
  /\ dialog' = [dialog EXCEPT !.st = "accepted"]
  /\ UNCHANGED <<setting, go, bridge, app, shell, react, asked>>

AcceptDone ==
  /\ Idle /\ dialog.st = "accepted"
  /\ IF locked
       THEN dialog' = [dialog EXCEPT !.st = "shown"] /\ UNCHANGED tab
       ELSE dialog' = NoDialog /\ SetTab(Again(tab))
  /\ UNCHANGED <<setting, go, bridge, gone, timers, shell, react, asked>>

\* lock(), from the keyboard, the button or a timer for inactivity; one at a time.
Lock ==
  /\ Idle /\ lock.st = "idle" /\ locks < setting.maxLocks
  /\ setting.careful => dialog.st # "accepted"
  /\ setting.overlaps \/ reload = "none"
  /\ lock' = [st |-> "called", disconnect |-> painted.settings => setting.disconnect]
  /\ locks' = locks + 1
  /\ UNCHANGED <<setting, go, bridge, app, shell, react, dialog, reload>>

\* App.Lock and Manager.Close: the settings cannot be read in a locked vault.
LockCloses ==
  /\ lock.st = "called"
  /\ IF ~locked /\ setting.disconnect
       THEN /\ open' = {n \in open : call[n].mgr # manager}
            /\ shut' = manager
            /\ lock' = [lock EXCEPT !.st = "closed"]
       ELSE lock' = [lock EXCEPT !.st = "wiping"] /\ UNCHANGED <<open, shut>>
  /\ UNCHANGED <<setting, locked, manager, bridge, app, shell, react, dialog, reload, locks>>

LockReplaces ==
  /\ lock.st = "closed"
  /\ manager' = manager + 1
  /\ lock' = [lock EXCEPT !.st = "wiping"]
  /\ UNCHANGED <<setting, locked, shut, open, bridge, app, shell, react, dialog, reload, locks>>

LockWipes ==
  /\ lock.st = "wiping"
  /\ locked' = TRUE
  /\ lock' = [lock EXCEPT !.st = "returned"]
  /\ UNCHANGED <<setting, manager, shut, open, bridge, app, shell, react, dialog, reload, locks>>

\* A tab that is connecting, or about to.
Pending(t) == t.timer # None \/ t.busy \/ (t.ssh = None /\ ~t.retry)

\* What lock() does when it comes back.
LockReturns ==
  /\ Idle /\ lock.st = "returned"
  /\ lock' = [st |-> "idle", disconnect |-> FALSE]
  /\ lockedRef' = TRUE
  /\ screen' = [screen EXCEPT !.locked = TRUE]
  /\ IF lock.disconnect
       THEN /\ gone' = (gone \/ seen.present)
            /\ timers' = IF seen.present THEN timers \ {seen.timer} ELSE timers
            /\ tab' = Removed
       ELSE /\ timers' = timers \ {tab.timer}
            /\ SetTab(IF Pending(tab) THEN Parked(tab) ELSE [tab EXCEPT !.timer = None])
            /\ UNCHANGED gone
  /\ UNCHANGED <<setting, go, bridge, react, dialog, reload, locks>>

\* Unlock, followed by reload().
Unlock ==
  /\ Idle /\ painted.locked /\ reload = "none"
  /\ setting.overlaps \/ lock.st = "idle"
  /\ locked' = FALSE
  /\ reload' = "called"
  /\ UNCHANGED <<setting, manager, shut, open, bridge, app, shell, react, dialog, lock, locks>>

\* reload() after something else.
Reload ==
  /\ Idle /\ setting.overlaps /\ reload = "none"
  /\ reload' = "called"
  /\ UNCHANGED <<setting, go, bridge, app, shell, react, dialog, lock, locks>>

Bootstrap ==
  /\ reload = "called"
  /\ reload' = IF locked THEN "locked" ELSE "unlocked"
  /\ UNCHANGED <<setting, go, bridge, app, shell, react, dialog, lock, locks>>

ReloadReturns ==
  /\ Idle /\ reload \in {"locked", "unlocked"}
  /\ screen' = [locked |-> reload = "locked", settings |-> reload = "unlocked"]
  /\ reload' = "none"
  /\ UNCHANGED <<setting, go, bridge, app, lockedRef, react, dialog, lock, locks>>

-------------------------------------------------------------------------------
Backend(n) == Read(n) \/ Dial(n) \/ Authenticate(n) \/ CloseSession(n)

Take(n) == DropStale(n) \/ TakeSession(n) \/ TakePrompt(n) \/ TakeError(n)

Locking == LockCloses \/ LockReplaces \/ LockWipes \/ LockReturns

Reloading == Bootstrap \/ ReloadReturns

User == Retry \/ Close \/ Cancel \/ Accept \/ Lock \/ Unlock \/ Reload

Next ==
  \/ Render \/ SocketCloses \/ AcceptDone
  \/ \E n \in Calls : Backend(n) \/ Take(n) \/ TimerFires(n) \/ SessionEnds(n)
  \/ Locking \/ Reloading \/ User

Safety == Init /\ [][Next]_vars

\* The webview works off its events, calls return, timers fire; the user of a locked
\* program unlocks it.
Fairness ==
  /\ WF_vars(Render) /\ WF_vars(SocketCloses) /\ WF_vars(AcceptDone)
  /\ \A n \in Calls : WF_vars(Backend(n)) /\ WF_vars(Take(n)) /\ WF_vars(TimerFires(n))
  /\ WF_vars(Locking) /\ WF_vars(Reloading) /\ WF_vars(Unlock)

Spec == Safety /\ Fairness

-------------------------------------------------------------------------------
(***************************************************************************)
(* Properties                                                              *)
(***************************************************************************)

\* An SSH session that lives belongs to somebody: its answer is under way, the view
\* has it, or it is being closed.  (Sessions of a manager that has been closed are out
\* of reach.)
NothingLeaks ==
  \A n \in open :
    \/ call[n].st = "session" \/ view.sid = n \/ n \in closing
    \/ call[n].mgr <= shut

\* A tab that shows a connection keeps it: nothing that is still to happen by itself
\* will replace it.
ConnectedIsStable ==
  setting.prompt /\ setting.careful /\ ~setting.overlaps /\ ~Dirty /\ view.sid \in open =>
    /\ timers = {} /\ ~tab.waiting /\ ~tab.retry
    /\ tab.ssh = view.sid

Exhausted == call[setting.maxCalls].st # "none"

\* A tab without a connection is connecting, will try again, waits for the vault to be
\* unlocked, or asks the user; as long as events find it rendered and questions are
\* answered in time.  (An old one sets off a new attempt of a tab that is connected and
\* keeps its sshSessionId, by which lock() takes it for a tab that need not wait.)
NotStranded ==
  setting.prompt /\ setting.careful /\ ~Dirty /\ view.mounted =>
    \/ view.sid # None
    \/ \E n \in Calls : call[n].st \in Working \cup Answers /\ Current(n)
    \/ tab.timer \in timers
    \/ tab.waiting /\ (screen.locked \/ lock.st # "idle" \/ setting.overlaps)
    \/ tab.retry
    \/ dialog.st # "none"

\* A tab that waits for the vault goes on when it has been unlocked (App.tsx:652-676), if no
\* Bootstrap crosses a lock: where the vault is locked once, or events find the webview
\* rendered and questions are answered in time.  (With a second lock, a late render starts an
\* attempt under it, and an old question answered during it starts one of a tab that lock()
\* does not park; the error comes after the unlock, and the tab waits for one that is over.)
WaitingResumes ==
  ~setting.overlaps /\ (setting.maxLocks = 1 \/ (setting.prompt /\ setting.careful)) /\ tab.waiting
    ~> ~tab.waiting \/ ~tab.present \/ Exhausted

===============================================================================
