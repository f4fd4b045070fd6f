----------------------- MODULE TerminalReconnectProofs -----------------------
(***************************************************************************)
(* No SSH session is forgotten, a tab that shows a connection keeps it,    *)
(* and one that has none is not left standing: for any number of calls of  *)
(* StartSSH, of locks and of automatic attempts, and for all settings.     *)
(***************************************************************************)
EXTENDS TerminalReconnect, TLAPS

CallRecords ==
  [st : Working \cup Answers \cup {"none", "done"}, attempt : Nat, mount : Nat, mgr : Nat]

Tabs ==
  [present : BOOLEAN, attempt : Nat, tries : Nat, timer : Calls \cup {None}, busy : BOOLEAN,
   waiting : BOOLEAN, retry : BOOLEAN, ssh : Calls \cup {None}]

Snapshots == [present : BOOLEAN, tries : Nat, timer : Calls \cup {None}]

Screens == [locked : BOOLEAN, settings : BOOLEAN]

Views == [mounted : BOOLEAN, mount : Nat, attempt : Nat, sid : Calls \cup {None}]

Dialogs == [st : {"none", "shown", "accepted"}, attempt : Nat]

Locks == [st : {"idle", "called", "closed", "wiping", "returned"}, disconnect : BOOLEAN]

GoTypes ==
  /\ locked \in BOOLEAN /\ manager \in Nat /\ shut \in Nat
  /\ call \in [Calls -> CallRecords]
  /\ open \subseteq Calls /\ closing \subseteq Calls

AppTypes ==
  /\ tab \in Tabs /\ gone \in BOOLEAN /\ timers \subseteq Calls
  /\ screen \in Screens /\ lockedRef \in BOOLEAN
  /\ seen \in Snapshots /\ painted \in Screens
  /\ view \in Views

AskedTypes ==
  /\ dialog \in Dialogs /\ lock \in Locks
  /\ reload \in {"none", "called", "locked", "unlocked"}
  /\ locks \in Nat

TypeOK == setting \in Settings /\ GoTypes /\ AppTypes /\ AskedTypes

-------------------------------------------------------------------------------
(***************************************************************************)
(* Types.                                                                  *)
(***************************************************************************)

\* What a setting is made of.
LEMMA SettingBits ==
  ASSUME setting \in Settings
  PROVE  /\ setting.disconnect \in BOOLEAN /\ setting.resumes \in BOOLEAN
         /\ setting.overlaps \in BOOLEAN
         /\ setting.prompt \in BOOLEAN /\ setting.careful \in BOOLEAN
         /\ setting.maxLocks \in Nat /\ setting.maxCalls \in Calls
BY SettingAssumption DEF IsSetting

\* What becomes of a tab is a tab.
LEMMA TabsStay ==
  ASSUME setting \in Settings, NEW t \in Tabs
  PROVE  /\ Again(t) \in Tabs /\ [Again(t) EXCEPT !.ssh = None] \in Tabs
         /\ [Again(t) EXCEPT !.tries = t.tries, !.ssh = None] \in Tabs
         /\ Parked(t) \in Tabs /\ Offered(t) \in Tabs /\ Counted(t) \in Tabs
         /\ Resumed(t) \in Tabs /\ Snapshot(t) \in Snapshots
<1>1. t.attempt + 1 \in Nat /\ t.tries + 1 \in Nat /\ t.tries \in Nat
  BY DEF Tabs
<1>2. Again(t) \in Tabs
  BY <1>1 DEF Again, Tabs
<1>3. [Again(t) EXCEPT !.ssh = None] \in Tabs
  BY <1>2 DEF Tabs
<1>4. [Again(t) EXCEPT !.tries = t.tries, !.ssh = None] \in Tabs
  BY <1>1, <1>2 DEF Tabs
<1>5. Parked(t) \in Tabs
  BY SettingBits DEF Parked, Tabs
<1>6. Offered(t) \in Tabs
  BY DEF Offered, Tabs
<1>7. Counted(t) \in Tabs
  BY <1>1, <1>6 DEF Counted, Tabs
<1>8. Snapshot(t) \in Snapshots
  BY DEF Snapshot, Snapshots, Tabs
<1> QED
  BY <1>2, <1>3, <1>4, <1>5, <1>6, <1>7, <1>8 DEF Resumed

LEMMA TabsGo ==
  ASSUME NEW t \in Tabs, NEW n \in Calls
  PROVE  Timed(t, n) \in Tabs /\ Ready(t, n) \in Tabs
BY DEF Timed, Ready, Tabs

\* A connection that is lost leaves a tab and timers.
LEMMA DisconnectedTypes ==
  ASSUME setting \in Settings, AppTypes, NEW n \in Calls, NEW r, NEW v, Disconnected(n, r, v)
  PROVE  tab' \in Tabs /\ timers' \subseteq Calls
<1>1. /\ Parked(tab) \in Tabs /\ Offered(tab) \in Tabs /\ Counted(tab) \in Tabs
      /\ Timed(Counted(tab), n) \in Tabs
  BY TabsStay, TabsGo DEF AppTypes
<1> QED
  BY <1>1 DEF Disconnected, SetTab, AppTypes

\* The types hold, at first and from step to step.
LEMMA InitTypes == Init => TypeOK
<1> SUFFICES ASSUME Init PROVE TypeOK
  OBVIOUS
<1>1. GoTypes
  BY DEF Init, GoTypes, NoCall, CallRecords
<1>2. tab \in Tabs /\ seen \in Snapshots /\ view \in Views
  BY DEF Init, NewTab, Tabs, Snapshot, Snapshots, NoView, Views
<1>3. AppTypes
  BY <1>2 DEF Init, AppTypes, Unlocked, Screens
<1>4. AskedTypes
  BY DEF Init, AskedTypes, NoDialog, Dialogs, Locks
<1> QED
  BY <1>1, <1>3, <1>4 DEF Init, TypeOK

LEMMA TypesStay ==
  ASSUME TypeOK, [Next]_vars
  PROVE  TypeOK'
<1> USE DEF TypeOK, go, bridge, app, shell, react, asked
<1>1. CASE UNCHANGED vars
  BY <1>1 DEF vars, GoTypes, AppTypes, AskedTypes
<1>2. CASE Render
  <2>1. PICK n \in Calls : Connect(n) \/ Unmount \/ UNCHANGED <<view, bridge>>
    BY <1>2, SettingBits DEF Render
  <2>2. view' \in Views /\ call' \in [Calls -> CallRecords] /\ closing' \subseteq Calls
    <3>1. CASE Connect(n)
      <4> DEFINE mount == IF view.mounted THEN view.mount ELSE view.mount + 1
      <4>1. mount \in Nat /\ tab.attempt \in Nat /\ view.sid \in Calls \cup {None}
        BY DEF AppTypes, Views, Tabs
      <4>2. call[n] \in CallRecords
        BY DEF GoTypes
      <4>3. [call[n] EXCEPT !.st = "read", !.attempt = tab.attempt, !.mount = mount] \in CallRecords
        BY <4>1, <4>2 DEF CallRecords, Working
      <4> HIDE DEF mount
      <4> QED
        BY <3>1, <4>1, <4>3 DEF Connect, mount, CloseOwn, GoTypes, Views
    <3>2. CASE Unmount
      BY <3>2 DEF Unmount, CloseOwn, GoTypes, AppTypes, Views
    <3>3. CASE UNCHANGED <<view, bridge>>
      BY <3>3 DEF GoTypes, AppTypes
    <3> QED
      BY <2>1, <3>1, <3>2, <3>3
  <2>3. tab' \in Tabs /\ lockedRef' \in BOOLEAN
    BY <1>2, TabsStay DEF Render, LockEffect, AppTypes, Screens
  <2>4. seen' \in Snapshots
    BY <1>2, TabsStay DEF Render, AppTypes
  <2> QED
    BY <1>2, <2>2, <2>3, <2>4 DEF Render, GoTypes, AppTypes, AskedTypes
<1>3. CASE SocketCloses
  <2>1. view.sid \in Calls
    BY <1>3 DEF SocketCloses, AppTypes, Views
  <2>2. tab' \in Tabs /\ timers' \subseteq Calls
    BY <1>3, <2>1, DisconnectedTypes DEF SocketCloses
  <2> QED
    BY <1>3, <2>2 DEF SocketCloses, GoTypes, AppTypes, AskedTypes, Views
<1>4. CASE AcceptDone
  <2>1. dialog' \in Dialogs
    BY <1>4 DEF AcceptDone, AskedTypes, Dialogs, NoDialog
  <2>2. tab' \in Tabs
    BY <1>4, TabsStay DEF AcceptDone, SetTab, AppTypes
  <2> QED
    BY <1>4, <2>1, <2>2 DEF AcceptDone, GoTypes, AppTypes, AskedTypes
<1>5. ASSUME NEW n \in Calls, Backend(n) PROVE TypeOK'
  <2>1. CASE Read(n)
    <3>1. PICK st \in {"vault", "dial", "prompt"} :
            call' = [call EXCEPT ![n].st = st, ![n].mgr = manager]
      BY <2>1 DEF Read
    <3>2. [call[n] EXCEPT !.st = st, !.mgr = manager] \in CallRecords
      BY DEF GoTypes, CallRecords, Working, Answers
    <3>3. call' = [call EXCEPT ![n] = [call[n] EXCEPT !.st = st, !.mgr = manager]]
      BY <3>1 DEF GoTypes, CallRecords
    <3> QED
      BY <2>1, <3>2, <3>3 DEF Read, GoTypes, AppTypes, AskedTypes
  <2>2. CASE Dial(n)
    BY <2>2 DEF Dial, Goto, Failure, GoTypes, AppTypes, AskedTypes, CallRecords, Working, Answers
  <2>3. CASE Authenticate(n)
    BY <2>3 DEF Authenticate, Goto, Failure, GoTypes, AppTypes, AskedTypes, CallRecords, Answers
  <2>4. CASE CloseSession(n)
    BY <2>4 DEF CloseSession, GoTypes, AppTypes, AskedTypes
  <2> QED
    BY <1>5, <2>1, <2>2, <2>3, <2>4 DEF Backend
<1>6. ASSUME NEW n \in Calls, Take(n) PROVE TypeOK'
  <2>1. CASE DropStale(n)
    BY <1>6, <2>1 DEF DropStale, Taken, NoCall, GoTypes, AppTypes, AskedTypes, CallRecords
  <2>2. CASE TakeSession(n)
    BY <1>6, <2>2, TabsGo DEF TakeSession, SetTab, Taken, NoCall, GoTypes, AppTypes, AskedTypes,
       CallRecords, Views
  <2>3. CASE TakePrompt(n)
    <3>1. [tab EXCEPT !.busy = FALSE, !.timer = None, !.waiting = FALSE, !.retry = FALSE] \in Tabs
      BY DEF AppTypes, Tabs
    <3>2. [st |-> "shown", attempt |-> view.attempt] \in Dialogs
      BY DEF AppTypes, Views, Dialogs
    <3> QED
      BY <1>6, <2>3, <3>1, <3>2 DEF TakePrompt, SetTab, Taken, NoCall, GoTypes, AppTypes,
         AskedTypes, CallRecords
  <2>4. CASE TakeError(n)
    <3>1. tab' \in Tabs /\ timers' \subseteq Calls
      BY <1>6, <2>4, DisconnectedTypes DEF TakeError
    <3> QED
      BY <1>6, <2>4, <3>1 DEF TakeError, Taken, CloseOwn, NoCall, GoTypes, AppTypes, AskedTypes,
         CallRecords, Views
  <2> QED
    BY <1>6, <2>1, <2>2, <2>3, <2>4 DEF Take
<1>7. ASSUME NEW n \in Calls, TimerFires(n) PROVE TypeOK'
  BY <1>7, TabsStay DEF TimerFires, SetTab, GoTypes, AppTypes, AskedTypes
<1>8. ASSUME NEW n \in Calls, SessionEnds(n) PROVE TypeOK'
  BY <1>8 DEF SessionEnds, GoTypes, AppTypes, AskedTypes
<1>9. CASE Locking
  <2>1. CASE LockCloses
    BY <2>1 DEF LockCloses, GoTypes, AppTypes, AskedTypes, Locks
  <2>2. CASE LockReplaces
    BY <2>2 DEF LockReplaces, GoTypes, AppTypes, AskedTypes, Locks
  <2>3. CASE LockWipes
    BY <2>3 DEF LockWipes, GoTypes, AppTypes, AskedTypes, Locks
  <2>4. CASE LockReturns
    <3>1. Removed \in Tabs /\ [tab EXCEPT !.timer = None] \in Tabs
      BY DEF Removed, AppTypes, Tabs
    <3>3. Parked(tab) \in Tabs
      BY TabsStay DEF AppTypes
    <3>2. gone' \in BOOLEAN
      BY <2>4 DEF LockReturns, AppTypes, Snapshots
    <3> QED
      BY <2>4, <3>1, <3>2, <3>3
         DEF LockReturns, SetTab, GoTypes, AppTypes, AskedTypes, Screens, Locks
  <2> QED
    BY <1>9, <2>1, <2>2, <2>3, <2>4 DEF Locking
<1>10. CASE Reloading
  <2>1. CASE Bootstrap
    BY <2>1 DEF Bootstrap, GoTypes, AppTypes, AskedTypes
  <2>2. CASE ReloadReturns
    BY <2>2 DEF ReloadReturns, GoTypes, AppTypes, AskedTypes, Screens
  <2> QED
    BY <1>10, <2>1, <2>2 DEF Reloading
<1>11. CASE User
  <2>1. CASE Retry
    BY <2>1, TabsStay DEF Retry, GoTypes, AppTypes, AskedTypes
  <2>2. CASE Close \/ Cancel
    <3>1. Removed \in Tabs /\ tab.ssh \in Calls \cup {None}
      BY DEF Removed, AppTypes, Tabs
    <3>2. NoDialog \in Dialogs
      BY DEF NoDialog, Dialogs
    <3> QED
      BY <2>2, <3>1, <3>2 DEF Close, Cancel, CloseTab, GoTypes, AppTypes, AskedTypes
  <2>3. CASE Accept
    BY <2>3 DEF Accept, GoTypes, AppTypes, AskedTypes, Dialogs
  <2>4. CASE Lock
    <3>1. (painted.settings => setting.disconnect) \in BOOLEAN
      OBVIOUS
    <3> QED
      BY <2>4, <3>1 DEF Lock, GoTypes, AppTypes, AskedTypes, Locks
  <2>5. CASE Unlock \/ Reload
    BY <2>5 DEF Unlock, Reload, GoTypes, AppTypes, AskedTypes
  <2> QED
    BY <1>11, <2>1, <2>2, <2>3, <2>4, <2>5 DEF User
<1> QED
  BY <1>1, <1>2, <1>3, <1>4, <1>5, <1>6, <1>7, <1>8, <1>9, <1>10, <1>11 DEF Next

-------------------------------------------------------------------------------
(***************************************************************************)
(* Calls and sessions.                                                     *)
(***************************************************************************)

\* A call that is under way, or whose answer has not been taken.
Flying(n) == call[n].st \in Working \cup Answers

\* What the view waits for.
Connecting == \E n \in Calls : Flying(n) /\ Current(n)

Managers ==
  /\ shut <= manager /\ manager <= shut + 1
  /\ lock.st = "closed" <=> shut = manager
  /\ \A n \in Calls : call[n].mgr <= manager

\* A call is of the attempt of the view or of an earlier one, and no two are of the same;
\* while the view waits for one, it has no session.
Attempts ==
  /\ view.attempt <= tab.attempt
  /\ view.sid # None => view.mounted
  /\ \A n \in Calls : Flying(n) =>
       /\ call[n].mount <= view.mount
       /\ call[n].mount = view.mount => call[n].attempt <= view.attempt
       /\ Current(n) => view.sid = None
  /\ \A m, n \in Calls :
       /\ Flying(m) /\ Flying(n)
       /\ call[m].mount = call[n].mount /\ call[m].attempt = call[n].attempt
       => m = n

Entered == \A n \in open : call[n].st \in {"session", "done"}

CallInv == Managers /\ Attempts /\ Entered /\ NothingLeaks

\* A step that begins no call and mounts no view.
NoneBegins ==
  /\ tab'.attempt >= tab.attempt
  /\ view'.attempt = view.attempt /\ view'.mount = view.mount
  /\ view'.mounted => view.mounted
  /\ view'.sid # None => view'.mounted
  /\ \A n \in Calls : Flying(n)' =>
       Flying(n) /\ call'[n].mount = call[n].mount /\ call'[n].attempt = call[n].attempt
  /\ \/ view'.sid \in {view.sid, None}
     \/ \A n \in Calls : Flying(n)' => ~Current(n)

\* The attempts of a tab are counted upwards.
LEMMA AttemptsOf ==
  ASSUME NEW t \in Tabs
  PROVE  /\ t.attempt \in Nat
         /\ Again(t).attempt = t.attempt + 1
         /\ [Again(t) EXCEPT !.ssh = None].attempt = t.attempt + 1
         /\ [Again(t) EXCEPT !.tries = t.tries, !.ssh = None].attempt = t.attempt + 1
         /\ Resumed(t).attempt \in {t.attempt, t.attempt + 1}
         /\ Parked(t).attempt = t.attempt /\ Offered(t).attempt = t.attempt
         /\ Counted(t).attempt = t.attempt
         /\ \A n : Timed(t, n).attempt = t.attempt /\ Ready(t, n).attempt = t.attempt
<1>1. t.attempt \in Nat
  BY DEF Tabs
<1>2. Again(t).attempt = t.attempt + 1
  BY DEF Again, Tabs
<1>3. DOMAIN Again(t) = DOMAIN t
  BY DEF Again
<1>4. /\ [Again(t) EXCEPT !.ssh = None].attempt = t.attempt + 1
      /\ [Again(t) EXCEPT !.tries = t.tries, !.ssh = None].attempt = t.attempt + 1
  BY <1>2, <1>3 DEF Tabs
<1>5. /\ Parked(t).attempt = t.attempt /\ Offered(t).attempt = t.attempt
      /\ \A n : Timed(t, n).attempt = t.attempt /\ Ready(t, n).attempt = t.attempt
  BY DEF Parked, Offered, Timed, Ready, Tabs
<1>6. Counted(t).attempt = t.attempt
  BY <1>5 DEF Counted, Tabs
<1> QED
  BY <1>1, <1>2, <1>4, <1>5, <1>6 DEF Resumed

LEMMA DisconnectedAttempts ==
  ASSUME setting \in Settings, AppTypes, NEW n \in Calls, NEW r, NEW v, Disconnected(n, r, v)
  PROVE  tab'.attempt = tab.attempt
<1>1. Counted(tab) \in Tabs /\ tab \in Tabs
  BY TabsStay DEF AppTypes
<1> QED
  BY <1>1, AttemptsOf DEF Disconnected, SetTab

\* The steps that begin a call.
Begins == Render /\ Starting

\* Every step but the render that begins a call begins none.
LEMMA NoneBeginsElse ==
  ASSUME TypeOK, Attempts, Next, ~Begins
  PROVE  NoneBegins
<1> USE DEF go, bridge, app, shell, react, asked
<1>0. /\ tab \in Tabs /\ tab.attempt \in Nat /\ view \in Views /\ setting \in Settings
      /\ call \in [Calls -> CallRecords] /\ AppTypes
      /\ view.sid # None => view.mounted
  BY AttemptsOf DEF TypeOK, AppTypes, GoTypes, Attempts
<1>a. ASSUME tab'.attempt >= tab.attempt, UNCHANGED <<view, call>>  PROVE NoneBegins
  BY <1>0, <1>a DEF NoneBegins, Flying
<1>1. CASE Render
  <2>1. tab'.attempt >= tab.attempt
    BY <1>0, <1>1, AttemptsOf DEF Render, LockEffect
  <2>2. (Leaving /\ Unmount) \/ UNCHANGED <<view, bridge>>
    BY <1>1 DEF Render, Begins
  <2> QED
    BY <1>0, <2>1, <2>2 DEF NoneBegins, Unmount, Flying, Views
<1>2. CASE SocketCloses
  <2>1. view.sid \in Calls
    BY <1>0, <1>2 DEF SocketCloses, Views
  <2>2. tab'.attempt = tab.attempt
    BY <1>0, <1>2, <2>1, DisconnectedAttempts DEF SocketCloses
  <2> QED
    BY <1>0, <1>2, <2>2 DEF SocketCloses, NoneBegins, Flying, Views
<1>3. CASE AcceptDone
  BY <1>0, <1>3, <1>a, AttemptsOf DEF AcceptDone, SetTab
<1>4. ASSUME NEW n \in Calls, Backend(n) PROVE NoneBegins
  <2>1. CASE Read(n)
    BY <1>0, <2>1 DEF Read, NoneBegins, Flying, Working, CallRecords
  <2>2. CASE Dial(n)
    BY <1>0, <2>2 DEF Dial, Goto, NoneBegins, Flying, Working, CallRecords
  <2>3. CASE Authenticate(n)
    BY <1>0, <2>3 DEF Authenticate, Goto, NoneBegins, Flying, Working, CallRecords
  <2>4. CASE CloseSession(n)
    BY <1>0, <2>4, <1>a DEF CloseSession
  <2> QED
    BY <1>4, <2>1, <2>2, <2>3, <2>4 DEF Backend
<1>5. ASSUME NEW n \in Calls, Take(n) PROVE NoneBegins
  <2>1. Taken(n) /\ Flying(n)
    BY <1>5 DEF Take, DropStale, TakeSession, TakePrompt, TakeError, Flying, Answers
  <2>2. /\ ~Flying(n)'
        /\ \A k \in Calls : Flying(k)' =>
             Flying(k) /\ call'[k].mount = call[k].mount /\ call'[k].attempt = call[k].attempt
    BY <1>0, <2>1 DEF Taken, NoCall, Flying, Working, Answers
  <2>3. CASE DropStale(n)
    BY <1>0, <2>2, <2>3 DEF DropStale, NoneBegins
  <2>4. CASE TakeSession(n)
    <3>1. tab'.attempt = tab.attempt
      BY <1>0, <2>4, AttemptsOf DEF TakeSession, SetTab
    <3>2. \A k \in Calls : Flying(k)' => ~Current(k)
      <4>1. Current(n)
        BY <2>4 DEF TakeSession
      <4>2. ASSUME NEW k \in Calls, Flying(k), Current(k) PROVE k = n
        BY <2>1, <4>1, <4>2 DEF Current, Attempts
      <4> QED
        BY <2>2, <4>2
    <3> QED
      BY <1>0, <2>2, <2>4, <3>1, <3>2 DEF TakeSession, NoneBegins, Views, Current
  <2>5. CASE TakePrompt(n)
    <3>1. tab'.attempt = tab.attempt
      BY <1>0, <2>5 DEF TakePrompt, SetTab, Tabs
    <3> QED
      BY <1>0, <2>2, <2>5, <3>1 DEF TakePrompt, NoneBegins
  <2>6. CASE TakeError(n)
    <3>1. tab'.attempt = tab.attempt
      BY <1>0, <2>6, DisconnectedAttempts DEF TakeError
    <3> QED
      BY <1>0, <2>2, <2>6, <3>1 DEF TakeError, NoneBegins, Views
  <2> QED
    BY <1>5, <2>3, <2>4, <2>5, <2>6 DEF Take
<1>6. ASSUME NEW n \in Calls, TimerFires(n) PROVE NoneBegins
  BY <1>0, <1>6, <1>a, AttemptsOf DEF TimerFires, SetTab
<1>7. ASSUME NEW n \in Calls, SessionEnds(n) PROVE NoneBegins
  BY <1>0, <1>7, <1>a DEF SessionEnds
<1>8. CASE Locking
  <2>1. CASE LockCloses \/ LockReplaces \/ LockWipes
    BY <1>0, <2>1, <1>a DEF LockCloses, LockReplaces, LockWipes
  <2>2. CASE LockReturns
    <3>1. Removed.attempt = tab.attempt /\ [tab EXCEPT !.timer = None].attempt = tab.attempt
      BY <1>0 DEF Removed, Tabs
    <3>2. tab' \in {tab, Removed, Parked(tab), [tab EXCEPT !.timer = None]}
      BY <2>2 DEF LockReturns, SetTab
    <3>3. Parked(tab).attempt = tab.attempt
      BY <1>0, AttemptsOf
    <3>4. tab'.attempt = tab.attempt
      BY <3>1, <3>2, <3>3
    <3>5. UNCHANGED <<view, call>>
      BY <2>2 DEF LockReturns
    <3> QED
      BY <1>0, <1>a, <3>4, <3>5
  <2> QED
    BY <1>8, <2>1, <2>2 DEF Locking
<1>9. CASE Reloading
  BY <1>0, <1>9, <1>a DEF Reloading, Bootstrap, ReloadReturns
<1>10. CASE User
  <2>1. CASE Retry
    BY <1>0, <2>1, <1>a, AttemptsOf DEF Retry
  <2>2. CASE Close \/ Cancel
    BY <1>0, <2>2, <1>a DEF Close, Cancel, CloseTab, Removed, Tabs
  <2>3. CASE Accept \/ Lock \/ Unlock \/ Reload
    BY <1>0, <2>3, <1>a DEF Accept, Lock, Unlock, Reload
  <2> QED
    BY <1>10, <2>1, <2>2, <2>3 DEF User
<1> QED
  BY <1>1, <1>2, <1>3, <1>4, <1>5, <1>6, <1>7, <1>8, <1>9, <1>10 DEF Next

\* The new call is the only one the view waits for.
LEMMA BeginsOne ==
  ASSUME TypeOK, Attempts, Begins
  PROVE  /\ Attempts'
         /\ \A k \in Calls : Flying(k)' /\ Current(k)' => call'[k].st = "read" /\ ~Flying(k)
         /\ \A k \in open : call'[k] = call[k] \/ call[k].st = "none"
         /\ \A k \in Calls : call'[k].mgr = call[k].mgr
         /\ view'.sid = None /\ view'.mounted /\ view'.attempt = tab.attempt
         /\ Connecting' /\ closing' = closing \cup ({view.sid} \ {None})
<1> DEFINE mount == IF view.mounted THEN view.mount ELSE view.mount + 1
<1>1. PICK n \in Calls : Starting /\ Connect(n)
  BY DEF Begins, Render, Leaving, Starting
<1>2. /\ tab.attempt \in Nat /\ view \in Views /\ mount \in Nat /\ view.attempt \in Nat
      /\ call \in [Calls -> CallRecords] /\ tab \in Tabs
  BY AttemptsOf DEF TypeOK, AppTypes, GoTypes, Views
<1>3. /\ call' = [call EXCEPT ![n] = [call[n] EXCEPT !.st = "read", !.attempt = tab.attempt,
                                                     !.mount = mount]]
      /\ view' = [mounted |-> TRUE, mount |-> mount, attempt |-> tab.attempt, sid |-> None]
      /\ call[n].st = "none"
  BY <1>1 DEF Connect
<1>4. mount = view.mount => view.attempt < tab.attempt
  BY <1>1, <1>2 DEF Starting, Attempts, Views
<1>5. mount >= view.mount /\ (mount = view.mount => view.mounted)
  BY <1>2 DEF Views
<1> HIDE DEF mount
<1>6. /\ call'[n].st = "read" /\ call'[n].attempt = tab.attempt /\ call'[n].mount = mount
      /\ call'[n].mgr = call[n].mgr
      /\ \A k \in Calls \ {n} : call'[k] = call[k]
  BY <1>2, <1>3 DEF CallRecords
<1>7. \A k \in Calls \ {n} : Flying(k)' <=> Flying(k)
  BY <1>6 DEF Flying
<1>8. Flying(n)' /\ ~Flying(n)
  BY <1>3, <1>6 DEF Flying, Working, Answers
<1>9. \A k \in Calls \ {n} : Flying(k) =>
        call[k].mount <= mount /\ (call[k].mount = mount => call[k].attempt < tab.attempt)
  <2> SUFFICES ASSUME NEW k \in Calls \ {n}, Flying(k)
               PROVE  /\ call[k].mount <= mount
                      /\ call[k].mount = mount => call[k].attempt < tab.attempt
    OBVIOUS
  <2>1. call[k].mount \in Nat /\ call[k].attempt \in Nat /\ view.mount \in Nat
    BY <1>2 DEF CallRecords, Views
  <2>2. /\ call[k].mount <= view.mount
        /\ call[k].mount = view.mount => call[k].attempt <= view.attempt
    BY DEF Attempts
  <2> QED
    BY <1>2, <1>4, <1>5, <2>1, <2>2
<1>10. tab'.attempt >= tab.attempt /\ tab'.attempt \in Nat
  BY <1>2, AttemptsOf DEF Begins, Render, LockEffect
<1>11. view'.mount = mount /\ view'.attempt = tab.attempt /\ view'.sid = None /\ view'.mounted
  BY <1>3
<1>12. \A k \in Calls : Flying(k)' /\ Current(k)' => k = n
  BY <1>2, <1>6, <1>7, <1>9, <1>11 DEF Current, CallRecords
<1>13. Attempts'
  <2>1. \A k \in Calls : Flying(k)' =>
          /\ call'[k].mount <= view'.mount
          /\ call'[k].mount = view'.mount => call'[k].attempt <= view'.attempt
    BY <1>2, <1>6, <1>7, <1>9, <1>11 DEF CallRecords
  <2>2. \A k, m \in Calls :
          /\ Flying(k)' /\ Flying(m)'
          /\ call'[k].mount = call'[m].mount /\ call'[k].attempt = call'[m].attempt
          => k = m
    <3> SUFFICES ASSUME NEW k \in Calls, NEW m \in Calls, Flying(k)', Flying(m)',
                        call'[k].mount = call'[m].mount, call'[k].attempt = call'[m].attempt
                 PROVE  k = m
      OBVIOUS
    <3>1. CASE k = n \/ m = n
      BY <3>1, <1>2, <1>6, <1>7, <1>9 DEF CallRecords
    <3>2. CASE k # n /\ m # n
      BY <3>2, <1>6, <1>7 DEF Attempts
    <3> QED
      BY <3>1, <3>2
  <2> QED
    BY <1>2, <1>10, <1>11, <2>1, <2>2 DEF Attempts
<1>14. Connecting'
  BY <1>6, <1>8, <1>11 DEF Connecting, Current
<1>15. closing' = closing \cup ({view.sid} \ {None})
  BY <1>1 DEF Connect, CloseOwn
<1> QED
  BY <1>3, <1>6, <1>8, <1>11, <1>12, <1>13, <1>14, <1>15 DEF TypeOK, GoTypes

\* A step that begins no call leaves the calls in order, and the view waits for no new one.
LEMMA AttemptsStay ==
  ASSUME TypeOK, Attempts, NoneBegins, TypeOK'
  PROVE  /\ Attempts'
         /\ \A n \in Calls : Flying(n)' /\ Current(n)' => Flying(n) /\ Current(n)
         /\ Connecting' => Connecting
<1>1. /\ tab.attempt \in Nat /\ tab'.attempt \in Nat /\ view.attempt \in Nat
  BY AttemptsOf DEF TypeOK, AppTypes, Views
<1>2. \A n \in Calls : Flying(n)' /\ Current(n)' => Flying(n) /\ Current(n)
  BY DEF NoneBegins, Current
<1>3. view'.attempt <= tab'.attempt
  BY <1>1 DEF NoneBegins, Attempts
<1>4. \A n \in Calls : Flying(n)' /\ Current(n)' => view'.sid = None
  BY <1>2 DEF NoneBegins, Attempts
<1>5. \A n \in Calls : Flying(n)' =>
        /\ call'[n].mount <= view'.mount
        /\ call'[n].mount = view'.mount => call'[n].attempt <= view'.attempt
  BY DEF NoneBegins, Attempts
<1>6. \A m, n \in Calls :
        /\ Flying(m)' /\ Flying(n)'
        /\ call'[m].mount = call'[n].mount /\ call'[m].attempt = call'[n].attempt
        => m = n
  BY DEF NoneBegins, Attempts
<1>7. Attempts'
  BY <1>3, <1>4, <1>5, <1>6 DEF Attempts, NoneBegins
<1> QED
  BY <1>2, <1>7 DEF Connecting

\* One manager at a time: it is closed, and only then replaced.
LEMMA ManagersStay ==
  ASSUME TypeOK, Managers, Attempts, [Next]_vars, TypeOK'
  PROVE  Managers'
<1> USE DEF go, bridge, app, shell, react, asked
<1>0. manager \in Nat /\ shut \in Nat /\ call \in [Calls -> CallRecords] /\ lock \in Locks
  BY DEF TypeOK, GoTypes, AskedTypes
<1>a. ASSUME UNCHANGED <<manager, shut, call>>, lock'.st = lock.st PROVE Managers'
  BY <1>a DEF Managers
<1>b. ASSUME UNCHANGED <<manager, shut, lock>>,
             \A n \in Calls : call'[n].mgr \in {call[n].mgr, manager}
      PROVE  Managers'
  BY <1>0, <1>b DEF Managers
<1>1. CASE UNCHANGED vars
  BY <1>1, <1>a DEF vars
<1>2. CASE Begins
  BY <1>2, <1>b, BeginsOne DEF Begins, Render
<1>3. CASE Render /\ ~Begins
  BY <1>3, <1>a DEF Begins, Render, Unmount
<1>4. CASE SocketCloses \/ AcceptDone
  BY <1>4, <1>a DEF SocketCloses, AcceptDone
<1>5. ASSUME NEW n \in Calls, Backend(n) PROVE Managers'
  <2>1. CASE Read(n)
    BY <1>0, <2>1, <1>b DEF Read, CallRecords
  <2>2. CASE Dial(n) \/ Authenticate(n)
    BY <1>0, <2>2, <1>b DEF Dial, Authenticate, Goto, CallRecords
  <2>3. CASE CloseSession(n)
    BY <2>3, <1>a DEF CloseSession
  <2> QED
    BY <1>5, <2>1, <2>2, <2>3 DEF Backend
<1>6. ASSUME NEW n \in Calls, Take(n) PROVE Managers'
  <2>1. Taken(n) /\ UNCHANGED <<manager, shut, lock>>
    BY <1>6 DEF Take, DropStale, TakeSession, TakePrompt, TakeError
  <2>2. \A k \in Calls : call'[k].mgr = call[k].mgr
    BY <1>0, <2>1 DEF Taken, NoCall
  <2> QED
    BY <2>1, <2>2, <1>b
<1>7. ASSUME NEW n \in Calls, TimerFires(n) \/ SessionEnds(n) PROVE Managers'
  BY <1>7, <1>a DEF TimerFires, SessionEnds
<1>8. CASE Locking
  <2>1. CASE LockCloses
    BY <1>0, <2>1 DEF LockCloses, Managers, Locks
  <2>2. CASE LockReplaces
    <3>1. shut = manager
      BY <2>2 DEF LockReplaces, Managers
    <3> QED
      BY <1>0, <2>2, <3>1 DEF LockReplaces, Managers, Locks, CallRecords
  <2>3. CASE LockWipes \/ LockReturns
    BY <1>0, <2>3 DEF LockWipes, LockReturns, Managers, Locks
  <2> QED
    BY <1>8, <2>1, <2>2, <2>3 DEF Locking
<1>9. CASE Reloading
  BY <1>9, <1>a DEF Reloading, Bootstrap, ReloadReturns
<1>10. CASE User
  <2>1. CASE Lock
    BY <1>0, <2>1 DEF Lock, Managers, Locks
  <2>2. CASE Retry \/ Close \/ Cancel \/ Accept \/ Unlock \/ Reload
    BY <2>2, <1>a DEF Retry, Close, Cancel, CloseTab, Accept, Unlock, Reload
  <2> QED
    BY <1>10, <2>1, <2>2 DEF User
<1> QED
  BY <1>1, <1>2, <1>3, <1>4, <1>5, <1>6, <1>7, <1>8, <1>9, <1>10 DEF Next

\* No session is let go of.
LEMMA SessionsStay ==
  ASSUME TypeOK, CallInv, [Next]_vars, TypeOK'
  PROVE  Entered' /\ NothingLeaks'
<1> USE DEF go, bridge, app, shell, react, asked
<1>0. /\ manager \in Nat /\ shut \in Nat /\ call \in [Calls -> CallRecords] /\ lock \in Locks
      /\ open \subseteq Calls /\ view \in Views
      /\ Managers /\ Attempts /\ Entered /\ NothingLeaks
  BY DEF TypeOK, GoTypes, AppTypes, AskedTypes, CallInv
<1>a. ASSUME UNCHANGED <<shut, call, view>>, closing \subseteq closing', open' \subseteq open
      PROVE  Entered' /\ NothingLeaks'
  BY <1>0, <1>a DEF Entered, NothingLeaks
<1>b. ASSUME UNCHANGED <<shut, call, open>>, closing \subseteq closing',
             view.sid # None => view'.sid = view.sid \/ view.sid \in closing'
                                \/ view.sid \notin open \/ call[view.sid].mgr <= shut
      PROVE  Entered' /\ NothingLeaks'
  BY <1>0, <1>b, CallsAssumption DEF Entered, NothingLeaks, None
<1>1. CASE UNCHANGED vars
  BY <1>1, <1>a DEF vars
<1>2. CASE Begins
  <2>1. /\ \A k \in open : call'[k] = call[k]
        /\ view'.sid = None /\ closing' = closing \cup ({view.sid} \ {None})
    BY <1>0, <1>2, BeginsOne DEF Entered
  <2>2. UNCHANGED <<shut, open>>
    BY <1>2 DEF Begins, Render
  <2> QED
    BY <1>0, <2>1, <2>2, CallsAssumption DEF Entered, NothingLeaks, None
<1>3. CASE Render /\ ~Begins
  BY <1>3, <1>b DEF Begins, Render, Unmount, CloseOwn, Views
<1>4. CASE SocketCloses
  BY <1>0, <1>4, <1>b DEF SocketCloses, Views
<1>5. CASE AcceptDone
  BY <1>5, <1>a DEF AcceptDone
<1>6. ASSUME NEW n \in Calls, Backend(n) PROVE Entered' /\ NothingLeaks'
  <2>1. CASE Read(n)
    <3>1. n \notin open /\ \A k \in Calls \ {n} : call'[k] = call[k]
      BY <1>0, <2>1 DEF Read, Entered
    <3> QED
      BY <1>0, <2>1, <3>1 DEF Read, Entered, NothingLeaks
  <2>2. CASE Dial(n)
    <3>1. n \notin open /\ \A k \in Calls \ {n} : call'[k] = call[k]
      BY <1>0, <2>2 DEF Dial, Goto, Entered
    <3> QED
      BY <1>0, <2>2, <3>1 DEF Dial, Entered, NothingLeaks
  <2>3. CASE Authenticate(n)
    <3>1. n \notin open /\ \A k \in Calls \ {n} : call'[k] = call[k]
      BY <1>0, <2>3 DEF Authenticate, Goto, Entered
    <3>2. open' \subseteq open \/ (open' = open \cup {n} /\ call'[n].st = "session")
      BY <1>0, <2>3 DEF Authenticate, Goto, CallRecords
    <3> QED
      BY <1>0, <2>3, <3>1, <3>2 DEF Authenticate, Entered, NothingLeaks
  <2>4. CASE CloseSession(n)
    <3>1. call[n].mgr # manager => call[n].mgr <= shut
      BY <1>0 DEF Managers, CallRecords
    <3> QED
      BY <1>0, <2>4, <3>1 DEF CloseSession, Entered, NothingLeaks
  <2> QED
    BY <1>6, <2>1, <2>2, <2>3, <2>4 DEF Backend
<1>7. ASSUME NEW n \in Calls, Take(n) PROVE Entered' /\ NothingLeaks'
  <2>1. Taken(n) /\ Flying(n) /\ UNCHANGED <<shut, open>>
    BY <1>7 DEF Take, DropStale, TakeSession, TakePrompt, TakeError, Flying, Answers
  <2>2. /\ \A k \in Calls \ {n} : call'[k] = call[k]
        /\ call'[n].st = "done" /\ call'[n].mgr = call[n].mgr
    BY <1>0, <2>1 DEF Taken, NoCall
  <2>3. Entered'
    BY <1>0, <2>1, <2>2 DEF Entered
  <2>4. n \in open => call[n].st = "session"
    BY <1>0, <2>1 DEF Entered, Flying, Working, Answers
  <2>5. CASE DropStale(n)
    BY <1>0, <2>1, <2>2, <2>3, <2>4, <2>5 DEF DropStale, NothingLeaks
  <2>6. CASE TakeSession(n)
    <3>1. view.sid = None /\ view'.sid = n
      BY <1>0, <2>1, <2>6 DEF TakeSession, Attempts, Views
    <3>2. closing' = closing
      BY <2>6 DEF TakeSession
    <3> QED
      BY <1>0, <2>1, <2>2, <2>3, <3>1, <3>2, CallsAssumption DEF NothingLeaks, None
  <2>7. CASE TakePrompt(n)
    BY <1>0, <2>1, <2>2, <2>3, <2>4, <2>7 DEF TakePrompt, NothingLeaks
  <2>8. CASE TakeError(n)
    <3>1. closing' = closing \cup ({view.sid} \ {None}) /\ n \notin open
      BY <2>4, <2>8 DEF TakeError, CloseOwn
    <3> QED
      BY <1>0, <2>1, <2>2, <2>3, <3>1, CallsAssumption DEF NothingLeaks, None
  <2> QED
    BY <1>7, <2>5, <2>6, <2>7, <2>8 DEF Take
<1>8. ASSUME NEW n \in Calls, TimerFires(n) PROVE Entered' /\ NothingLeaks'
  BY <1>8, <1>a DEF TimerFires
<1>9. ASSUME NEW n \in Calls, SessionEnds(n) PROVE Entered' /\ NothingLeaks'
  BY <1>9, <1>a DEF SessionEnds
<1>10. CASE Locking
  <2>1. CASE LockCloses
    <3>1. CASE UNCHANGED <<open, shut>>
      BY <1>a, <2>1, <3>1 DEF LockCloses
    <3>2. CASE shut' = manager /\ open' = {n \in open : call[n].mgr # manager}
      <4>1. \A n \in open' : n \in open /\ call[n].mgr <= manager
        BY <1>0, <3>2 DEF Managers
      <4> QED
        BY <1>0, <2>1, <3>2, <4>1 DEF LockCloses, Entered, NothingLeaks
    <3> QED
      BY <2>1, <3>1, <3>2 DEF LockCloses
  <2>2. CASE LockReplaces \/ LockWipes \/ LockReturns
    BY <2>2, <1>a DEF LockReplaces, LockWipes, LockReturns
  <2> QED
    BY <1>10, <2>1, <2>2 DEF Locking
<1>11. CASE Reloading
  BY <1>11, <1>a DEF Reloading, Bootstrap, ReloadReturns
<1>12. CASE User
  BY <1>12, <1>a DEF User, Retry, Close, Cancel, CloseTab, Accept, Lock, Unlock, Reload
<1> QED
  BY <1>1, <1>2, <1>3, <1>4, <1>5, <1>6, <1>7, <1>8, <1>9, <1>10, <1>11, <1>12 DEF Next

LEMMA CallInvStays ==
  ASSUME TypeOK, CallInv, [Next]_vars
  PROVE  TypeOK' /\ CallInv'
<1>1. TypeOK'
  BY TypesStay
<1>2. Managers' /\ Entered' /\ NothingLeaks'
  BY <1>1, ManagersStay, SessionsStay DEF CallInv
<1>3. Attempts'
  <2>1. CASE UNCHANGED vars
    BY <2>1 DEF vars, bridge, app, react, CallInv, Attempts, Flying, Current
  <2>2. CASE Begins
    BY <2>2, BeginsOne DEF CallInv
  <2>3. CASE Next /\ ~Begins
    BY <2>3, <1>1, NoneBeginsElse, AttemptsStay DEF CallInv
  <2> QED
    BY <2>1, <2>2, <2>3
<1> QED
  BY <1>1, <1>2, <1>3 DEF CallInv

LEMMA CallInvInit == Init => TypeOK /\ CallInv
<1> SUFFICES ASSUME Init PROVE CallInv
  BY InitTypes
<1>1. Managers
  BY DEF Init, Managers, NoCall
<1>2. Attempts
  BY DEF Init, Attempts, Flying, Working, Answers, NoCall, NoView, NewTab
<1>3. Entered /\ NothingLeaks
  BY DEF Init, Entered, NothingLeaks
<1> QED
  BY <1>1, <1>2, <1>3 DEF CallInv

\* The invariant: calls in order, sessions entered by their call, and none forgotten.
THEOREM CallsInductive == Safety => [](TypeOK /\ CallInv)
BY CallInvInit, CallInvStays, PTL DEF Safety

\* Every session that lives is waited for, shown, or being closed, or its manager has been
\* closed (NothingLeaks).
THEOREM SessionsAreHeld == Spec => []NothingLeaks
<1>1. TypeOK /\ CallInv => NothingLeaks
  BY DEF CallInv
<1> QED
  BY <1>1, CallsInductive, PTL DEF Spec

-------------------------------------------------------------------------------
(***************************************************************************)
(* A tab that shows a connection keeps it.                                 *)
(***************************************************************************)

Attended == setting.prompt /\ setting.careful

Calm == Attended /\ ~setting.overlaps

\* The view has been rendered for the attempt the tab is at.
Fresh == view.mounted /\ view.attempt = tab.attempt

\* A question of that attempt has not been answered.
Asking == dialog.st # "none" /\ dialog.attempt = tab.attempt

\* A vault that has been locked shows as locked, and no Bootstrap crosses a lock.
ScreenOK ==
  /\ screen.settings
  /\ lockedRef <=> screen.locked \/ painted.locked
  /\ reload # "locked"
  /\ reload # "none" => lock.st = "idle" /\ ~locked /\ screen.locked
  /\ lock.st = "returned" => locked
  /\ locked /\ lock.st = "idle" => screen.locked /\ (tab.present => Fresh)

\* A timer that runs is the tab's, and nothing else is under way.
TimerAlone ==
  timers # {} =>
    /\ timers = {tab.timer}
    /\ tab.present /\ ~tab.waiting /\ setting.resumes
    /\ Fresh /\ view.sid = None /\ ~Connecting
    /\ ~Asking

Connected ==
  Fresh /\ view.sid # None =>
    /\ tab.ssh = view.sid
    /\ ~tab.waiting /\ ~tab.retry /\ ~tab.busy /\ tab.timer = None

Questions ==
  /\ dialog.st # "none" => dialog.attempt <= view.attempt
  /\ ~view.mounted /\ tab.present => dialog.st = "none"
  /\ Fresh /\ Asking => view.sid = None /\ ~Connecting

Accepted ==
  dialog.st = "accepted" =>
    /\ lock.st = "idle" /\ ~screen.locked /\ ~painted.locked
    /\ setting.resumes => dialog.attempt = tab.attempt

\* A tab that is connecting, or about to, is one lock() sees as such (Pending).
Unconnected ==
  setting.resumes /\ tab.present /\ (~Fresh \/ Connecting \/ Asking) =>
    tab.ssh = None /\ ~tab.retry

\* So a call that has met a locked vault is one of a tab that waits, or will when lock()
\* comes back.
Refused ==
  setting.resumes /\ tab.present /\ Fresh =>
    \A n \in Calls : Flying(n) /\ Current(n) =>
      /\ locked /\ lock.st = "idle" => tab.waiting
      /\ call[n].st = "vault" =>
           lock.st # "idle" \/ (tab.waiting /\ (screen.locked \/ painted.locked))

CalmInv ==
  ScreenOK /\ TimerAlone /\ Connected /\ Questions /\ Accepted /\ Unconnected /\ Refused

\* What becomes of a tab, field by field.
LEMMA AgainFields ==
  ASSUME NEW t \in Tabs, NEW u \in {Again(t), [Again(t) EXCEPT !.ssh = None],
                                    [Again(t) EXCEPT !.tries = t.tries, !.ssh = None]}
  PROVE  /\ u.present = t.present /\ u.attempt = t.attempt + 1 /\ u.timer = None
         /\ ~u.waiting /\ ~u.retry /\ u.ssh \in {t.ssh, None}
<1>1. DOMAIN Again(t) = DOMAIN t
  BY DEF Again
<1>2. /\ Again(t).present = t.present /\ Again(t).attempt = t.attempt + 1
      /\ Again(t).timer = None /\ ~Again(t).waiting /\ ~Again(t).retry /\ Again(t).ssh = t.ssh
  BY DEF Again, Tabs
<1> HIDE DEF Again
<1>3. CASE u = Again(t)
  BY <1>2, <1>3
<1>4. CASE u = [Again(t) EXCEPT !.ssh = None]
  BY <1>1, <1>2, <1>4 DEF Tabs
<1>5. CASE u = [Again(t) EXCEPT !.tries = t.tries, !.ssh = None]
  BY <1>1, <1>2, <1>5 DEF Tabs
<1> QED
  BY <1>3, <1>4, <1>5

LEMMA AgainSsh ==
  ASSUME NEW t \in Tabs
  PROVE  /\ Again(t).ssh = t.ssh
         /\ [Again(t) EXCEPT !.ssh = None].ssh = None
         /\ [Again(t) EXCEPT !.tries = t.tries, !.ssh = None].ssh = None
<1>1. DOMAIN Again(t) = DOMAIN t
  BY DEF Again
<1>2. Again(t).ssh = t.ssh
  BY DEF Again, Tabs
<1> QED
  BY <1>1, <1>2 DEF Tabs

LEMMA LostFields ==
  ASSUME setting \in Settings, NEW t \in Tabs
  PROVE  /\ Parked(t).present = t.present /\ Parked(t).attempt = t.attempt
         /\ Parked(t).timer = None /\ Parked(t).ssh = None
         /\ Parked(t).waiting = setting.resumes /\ Parked(t).retry = ~setting.resumes
         /\ Offered(t).present = t.present /\ Offered(t).attempt = t.attempt
         /\ Offered(t).timer = None /\ Offered(t).ssh = None
         /\ ~Offered(t).waiting /\ Offered(t).retry
BY SettingBits DEF Parked, Offered, Tabs

LEMMA TimedFields ==
  ASSUME setting \in Settings, NEW t \in Tabs, NEW n \in Calls
  PROVE  /\ Timed(t, n).present = t.present /\ Timed(t, n).attempt = t.attempt
         /\ Timed(t, n).timer = n /\ Timed(t, n).ssh = None
         /\ ~Timed(t, n).waiting /\ ~Timed(t, n).retry
BY DEF Timed, Tabs

LEMMA ReadyFields ==
  ASSUME NEW t \in Tabs, NEW n \in Calls
  PROVE  /\ Ready(t, n).present = t.present /\ Ready(t, n).attempt = t.attempt
         /\ Ready(t, n).timer = None /\ Ready(t, n).ssh = n /\ ~Ready(t, n).busy
         /\ ~Ready(t, n).waiting /\ ~Ready(t, n).retry
BY DEF Ready, Tabs

LEMMA CountedFields ==
  ASSUME NEW t \in Tabs
  PROVE  /\ Counted(t).present = t.present
         /\ t.tries + 1 > Limit => Counted(t) = Offered(t)
BY DEF Counted, Offered, Tabs

LEMMA ResumedFields ==
  ASSUME NEW t \in Tabs
  PROVE  /\ Resumed(t).present = t.present
         /\ t.waiting => /\ Resumed(t).attempt = t.attempt + 1 /\ Resumed(t).timer = None
                         /\ ~Resumed(t).waiting /\ ~Resumed(t).retry /\ Resumed(t).ssh = None
         /\ ~t.waiting => Resumed(t) = t
BY AgainFields, AgainSsh DEF Resumed

\* A tab that has lost its connection: parked, offered or timed.
LEMMA DisconnectedTab ==
  ASSUME setting \in Settings, AppTypes, NEW n \in Calls, NEW r, NEW v, Disconnected(n, r, v),
         seen.tries = tab.tries, seen.present = tab.present, gone => ~tab.present,
         timers = {}, tab.present
  PROVE  \/ tab' = Parked(tab) /\ timers' = {} /\ (lockedRef \/ v)
         \/ tab' = Offered(tab) /\ timers' = {}
         \/ tab' = Timed(Counted(tab), n) /\ timers' = {n} /\ setting.resumes
BY SettingBits, CountedFields DEF Disconnected, SetTab, AppTypes

LEMMA DisconnectedPresent ==
  ASSUME setting \in Settings, AppTypes, NEW n \in Calls, NEW r, NEW v, Disconnected(n, r, v)
  PROVE  tab'.present = tab.present
<1>1. tab \in Tabs /\ Counted(tab) \in Tabs
  BY TabsStay DEF AppTypes
<1> QED
  BY <1>1, LostFields, CountedFields, TimedFields DEF Disconnected, SetTab

\* closedTabsRef has only tabs that have been closed.
LEMMA GoneStays ==
  ASSUME TypeOK, gone => ~tab.present, [Next]_vars
  PROVE  (gone => ~tab.present)'
<1> USE DEF go, bridge, app, shell, react, asked
<1>0. tab \in Tabs /\ setting \in Settings /\ view \in Views /\ AppTypes
  BY DEF TypeOK, AppTypes
<1>a. ASSUME gone' = gone, tab'.present = tab.present PROVE (gone => ~tab.present)'
  BY <1>a
<1>1. CASE UNCHANGED vars
  BY <1>1, <1>a DEF vars
<1>2. CASE Render
  BY <1>0, <1>2, <1>a, ResumedFields DEF Render, LockEffect
<1>3. CASE SocketCloses
  <2>1. view.sid \in Calls
    BY <1>0, <1>3 DEF SocketCloses, Views
  <2>2. tab'.present = tab.present
    BY <1>0, <1>3, <2>1, DisconnectedPresent DEF SocketCloses
  <2> QED
    BY <1>3, <1>a, <2>2 DEF SocketCloses
<1>4. CASE AcceptDone
  BY <1>0, <1>4, <1>a, AgainFields DEF AcceptDone, SetTab
<1>5. ASSUME NEW n \in Calls, Backend(n) PROVE (gone => ~tab.present)'
  BY <1>5, <1>a DEF Backend, Read, Dial, Authenticate, CloseSession
<1>6. ASSUME NEW n \in Calls, Take(n) PROVE (gone => ~tab.present)'
  <2>1. CASE DropStale(n)
    BY <2>1, <1>a DEF DropStale
  <2>2. CASE TakeSession(n)
    BY <1>0, <2>2, <1>a, ReadyFields DEF TakeSession, SetTab
  <2>3. CASE TakePrompt(n)
    BY <1>0, <2>3, <1>a DEF TakePrompt, SetTab, Tabs
  <2>4. CASE TakeError(n)
    BY <1>0, <2>4, <1>a, DisconnectedPresent DEF TakeError
  <2> QED
    BY <1>6, <2>1, <2>2, <2>3, <2>4 DEF Take
<1>7. ASSUME NEW n \in Calls, TimerFires(n) PROVE (gone => ~tab.present)'
  BY <1>0, <1>7, <1>a, AgainFields, LostFields DEF TimerFires, SetTab
<1>8. ASSUME NEW n \in Calls, SessionEnds(n) PROVE (gone => ~tab.present)'
  BY <1>8, <1>a DEF SessionEnds
<1>9. CASE Locking
  <2>1. CASE LockCloses \/ LockReplaces \/ LockWipes
    BY <2>1, <1>a DEF LockCloses, LockReplaces, LockWipes
  <2>2. CASE LockReturns
    <3>1. ~Removed.present /\ [tab EXCEPT !.timer = None].present = tab.present
      BY <1>0 DEF Removed, Tabs
    <3>2. Parked(tab).present = tab.present
      BY <1>0, LostFields
    <3> QED
      BY <2>2, <3>1, <3>2 DEF LockReturns, SetTab
  <2> QED
    BY <1>9, <2>1, <2>2 DEF Locking
<1>10. CASE Reloading
  BY <1>10, <1>a DEF Reloading, Bootstrap, ReloadReturns
<1>11. CASE User
  <2>1. CASE Retry
    BY <1>0, <2>1, <1>a, AgainFields, LostFields DEF Retry
  <2>2. CASE Close \/ Cancel
    BY <1>0, <2>2 DEF Close, Cancel, CloseTab, Removed, Tabs
  <2>3. CASE Accept \/ Lock \/ Unlock \/ Reload
    BY <2>3, <1>a DEF Accept, Lock, Unlock, Reload
  <2> QED
    BY <1>11, <2>1, <2>2, <2>3 DEF User
<1> QED
  BY <1>1, <1>2, <1>3, <1>4, <1>5, <1>6, <1>7, <1>8, <1>9, <1>10, <1>11 DEF Next

\* The types the steps rest on.
LEMMA CalmTypes ==
  ASSUME TypeOK
  PROVE  /\ tab \in Tabs /\ tab.attempt \in Nat /\ tab.ssh \in Calls \cup {None}
         /\ screen.locked \in BOOLEAN /\ painted.locked \in BOOLEAN /\ lockedRef \in BOOLEAN
         /\ view.attempt \in Nat /\ view.sid \in Calls \cup {None}
         /\ dialog.attempt \in Nat /\ AppTypes /\ setting \in Settings
         /\ call \in [Calls -> CallRecords] /\ lock \in Locks
         /\ setting.resumes \in BOOLEAN /\ None \notin Calls
BY SettingBits, CallsAssumption
   DEF TypeOK, AppTypes, GoTypes, AskedTypes, Tabs, Screens, Views, Dialogs, None

\* What is the case before an event of the webview.
LEMMA WhenIdle ==
  ASSUME TypeOK, Calm, ScreenOK, Idle
  PROVE  /\ tab.present => Fresh
         /\ view.mounted => tab.present
         /\ painted = screen /\ lockedRef = screen.locked
         /\ seen.tries = tab.tries /\ seen.timer = tab.timer /\ seen.present = tab.present
<1>1. ~Dirty
  BY DEF Calm, Attended, Idle
<1>2. Wanted <=> tab.present
  BY DEF Wanted, ScreenOK
<1> QED
  BY <1>1, <1>2, CalmTypes DEF Dirty, Starting, Leaving, Snapshot, Fresh, ScreenOK

\* A step of a call.
LEMMA CalmFrame ==
  ASSUME CalmInv,
         UNCHANGED <<setting, locked, tab, timers, screen, painted, lockedRef, view, dialog, lock,
                     reload>>,
         \A n \in Calls : Flying(n)' /\ Current(n)' =>
           /\ Flying(n) /\ Current(n)
           /\ call'[n].st = "vault" =>
                \/ call[n].st = "vault"
                \/ locked /\ (lock.st = "idle" => screen.locked)
  PROVE  CalmInv'
<1>1. Connecting' => Connecting
  BY DEF Connecting
<1>2. ScreenOK'
  BY DEF CalmInv, ScreenOK, Fresh
<1>3. TimerAlone' /\ Connected'
  BY <1>1 DEF CalmInv, TimerAlone, Connected, Fresh, Asking
<1>4. Questions' /\ Accepted' /\ Unconnected'
  BY <1>1 DEF CalmInv, Questions, Accepted, Unconnected, Fresh, Asking
<1>5. Refused'
  BY DEF CalmInv, Refused, Fresh
<1> QED
  BY <1>2, <1>3, <1>4, <1>5 DEF CalmInv

\* A call in Go: one that meets a locked vault is of a tab that waits, or soon will.
LEMMA CalmBackend ==
  ASSUME TypeOK, Attempts, CalmInv, TypeOK', NEW n \in Calls, Backend(n), NoneBegins
  PROVE  CalmInv'
<1> USE DEF go, bridge, app, shell, react, asked
<1>1. \A k \in Calls : Flying(k)' /\ Current(k)' => Flying(k) /\ Current(k)
  BY AttemptsStay
<1>2. UNCHANGED <<setting, locked, tab, timers, screen, painted, lockedRef, view, dialog, lock,
                  reload>>
  BY DEF Backend, Read, Dial, Authenticate, CloseSession
<1>3. \A k \in Calls : call'[k].st = "vault" =>
        \/ call[k].st = "vault"
        \/ locked /\ (lock.st = "idle" => screen.locked)
  <2>1. CASE Read(n)
    BY <2>1, CalmTypes DEF Read, CalmInv, ScreenOK, CallRecords
  <2>2. CASE Dial(n) \/ Authenticate(n)
    BY <2>2, CalmTypes DEF Dial, Authenticate, Goto, Failure, CallRecords
  <2>3. CASE CloseSession(n)
    BY <2>3 DEF CloseSession
  <2> QED
    BY <2>1, <2>2, <2>3 DEF Backend
<1> QED
  BY <1>1, <1>2, <1>3, CalmFrame

\* The render that begins a call.
LEMMA CalmStarts ==
  ASSUME TypeOK, Attempts, CalmInv, Begins
  PROVE  CalmInv'
<1> USE DEF go, bridge, app, shell, react, asked
<1>1. /\ Render /\ tab.present /\ ~Fresh /\ timers = {} /\ ~(locked /\ lock.st = "idle")
      /\ view.mounted => view.attempt < tab.attempt
  BY CalmTypes DEF Begins, Starting, Wanted, CalmInv, TimerAlone, ScreenOK, Fresh, Attempts
<1>2. /\ view'.sid = None /\ view'.mounted /\ view'.attempt = tab.attempt
      /\ \A k \in Calls : Flying(k)' /\ Current(k)' => call'[k].st = "read"
  BY <1>1, BeginsOne
<1>3. /\ UNCHANGED <<setting, locked, timers, screen, dialog, lock, reload>> /\ painted' = screen
      /\ lockedRef' = IF painted.locked # screen.locked THEN screen.locked ELSE lockedRef
      /\ tab' = tab \/ (tab' = Resumed(tab) /\ painted.locked # screen.locked)
  BY <1>1 DEF Render, LockEffect
<1>4. /\ tab'.present /\ tab'.attempt \in {tab.attempt, tab.attempt + 1}
      /\ setting.resumes => tab'.ssh = None /\ ~tab'.retry
  <2>1. setting.resumes => tab.ssh = None /\ ~tab.retry
    BY <1>1 DEF CalmInv, Unconnected
  <2> QED
    BY <1>1, <1>3, <2>1, CalmTypes, ResumedFields
<1>5. ScreenOK'
  BY <1>1, <1>3, CalmTypes DEF CalmInv, ScreenOK
<1>6. TimerAlone' /\ Connected'
  BY <1>1, <1>2, <1>3 DEF TimerAlone, Connected
<1>7. dialog.st # "none" => dialog.attempt < tab.attempt
  BY <1>1, CalmTypes DEF CalmInv, Questions
<1>8. Questions'
  BY <1>2, <1>3, <1>4, <1>7, CalmTypes DEF Questions, Asking
<1>9. Accepted'
  BY <1>3, CalmTypes DEF CalmInv, Accepted
<1>10. Unconnected'
  BY <1>3, <1>4 DEF Unconnected
<1>11. Refused'
  BY <1>1, <1>2, <1>3 DEF Refused
<1> QED
  BY <1>5, <1>6, <1>8, <1>9, <1>10, <1>11 DEF CalmInv

\* Any other render.
LEMMA CalmRender ==
  ASSUME TypeOK, Attempts, CalmInv, TypeOK', Render, ~Begins, NoneBegins
  PROVE  CalmInv'
<1> USE DEF go, bridge, app, shell, react, asked
<1>1. /\ UNCHANGED <<setting, locked, timers, screen, dialog, lock, reload>> /\ painted' = screen
      /\ lockedRef' = IF painted.locked # screen.locked THEN screen.locked ELSE lockedRef
      /\ tab' = IF painted.locked # screen.locked /\ lockedRef /\ ~screen.locked
                  THEN Resumed(tab) ELSE tab
  BY DEF Render, LockEffect
<1>2. /\ view'.attempt = view.attempt
      /\ \/ view'.mounted = view.mounted /\ view'.sid = view.sid /\ UNCHANGED call
         \/ view'.mounted = FALSE /\ view'.sid = None /\ ~tab.present
  <2>1. (Leaving /\ Unmount) \/ UNCHANGED <<view, call>>
    BY DEF Render, Begins
  <2>2. Leaving => ~tab.present
    BY DEF Leaving, Wanted, CalmInv, ScreenOK
  <2> QED
    BY <2>1, <2>2, CalmTypes DEF Unmount, AppTypes, Views
<1>3. /\ Connecting' => Connecting
      /\ \A k \in Calls : Flying(k)' /\ Current(k)' => Flying(k) /\ Current(k)
  BY AttemptsStay
<1>4. tab'.present = tab.present
  BY <1>1, CalmTypes, ResumedFields
<1>5. \/ /\ tab' = tab
         /\ ~(tab.waiting /\ painted.locked # screen.locked /\ lockedRef /\ ~screen.locked)
      \/ /\ tab.waiting /\ tab'.attempt = tab.attempt + 1 /\ ~Fresh'
         /\ painted.locked # screen.locked
         /\ tab'.ssh = None /\ ~tab'.retry /\ ~screen.locked
  <2>1. Resumed(tab) = tab \/ Resumed(tab).attempt = tab.attempt + 1
    BY CalmTypes, ResumedFields
  <2>2. tab'.attempt = tab.attempt + 1 => ~Fresh'
    BY <1>2, CalmTypes DEF Fresh, Attempts
  <2> QED
    BY <1>1, <2>2, CalmTypes, ResumedFields
<1>6. Fresh' => Fresh /\ tab' = tab
  BY <1>2, <1>5 DEF Fresh
<1>7. ScreenOK'
  BY <1>1, <1>2, <1>4, <1>5, CalmTypes DEF CalmInv, ScreenOK, Fresh
<1>8. TimerAlone'
  BY <1>1, <1>2, <1>3, <1>4, <1>5 DEF CalmInv, TimerAlone, Fresh, Asking
<1>9. Connected'
  BY <1>2, <1>6 DEF CalmInv, Connected, Fresh
<1>10. Questions'
  BY <1>1, <1>2, <1>3, <1>4, <1>6 DEF CalmInv, Questions, Fresh, Asking
<1>11. Accepted'
  BY <1>1, <1>5, CalmTypes DEF CalmInv, Accepted
<1>12. Unconnected'
  BY <1>1, <1>2, <1>3, <1>4, <1>5 DEF CalmInv, Unconnected, Fresh, Asking
<1>13. Refused'
  BY <1>1, <1>2, <1>3, <1>4, <1>5, <1>6 DEF CalmInv, Refused, ScreenOK
<1> QED
  BY <1>7, <1>8, <1>9, <1>10, <1>11, <1>12, <1>13 DEF CalmInv

\* A connection is lost while nothing else is under way.
LEMMA CalmLoses ==
  ASSUME TypeOK, Calm, CalmInv, Idle, gone => ~tab.present,
         NEW n \in Calls, NEW r, NEW v, Disconnected(n, r, v),
         UNCHANGED <<setting, locked, screen, painted, lockedRef, dialog, lock, reload>>,
         view' = [view EXCEPT !.sid = None],
         tab.present => ~Asking, timers = {}, ~Connecting'
  PROVE  CalmInv'
<1>0. /\ tab.present => Fresh
      /\ painted = screen /\ seen.tries = tab.tries /\ seen.present = tab.present
  BY WhenIdle DEF CalmInv
<1>1. /\ view'.attempt = view.attempt /\ view'.mounted = view.mounted /\ view'.sid = None
  BY CalmTypes DEF AppTypes, Views
<1>2. /\ tab'.present = tab.present /\ tab'.attempt = tab.attempt
      /\ timers' # {} =>
           /\ timers' = {tab'.timer} /\ tab.present /\ ~tab'.waiting /\ setting.resumes
      /\ ~tab.present => tab' = tab
  <2>1. CASE ~tab.present
    BY <1>0, <2>1 DEF Disconnected
  <2>2. CASE tab.present
    <3>1. Counted(tab) \in Tabs
      BY CalmTypes, TabsStay
    <3>2. Counted(tab).present = tab.present /\ Counted(tab).attempt = tab.attempt
      BY CalmTypes, CountedFields, AttemptsOf
    <3>3. \/ tab' = Parked(tab) /\ timers' = {}
          \/ tab' = Offered(tab) /\ timers' = {}
          \/ tab' = Timed(Counted(tab), n) /\ timers' = {n} /\ setting.resumes
      BY <1>0, <2>2, CalmTypes, DisconnectedTab
    <3>4. CASE tab' = Parked(tab) /\ timers' = {}
      BY <2>2, <3>4, CalmTypes, LostFields
    <3>5. CASE tab' = Offered(tab) /\ timers' = {}
      BY <2>2, <3>5, CalmTypes, LostFields
    <3>6. CASE tab' = Timed(Counted(tab), n) /\ timers' = {n} /\ setting.resumes
      BY <2>2, <3>1, <3>2, <3>6, CalmTypes, TimedFields
    <3> QED
      BY <3>3, <3>4, <3>5, <3>6
  <2> QED
    BY <2>1, <2>2
<1>3. ScreenOK'
  BY <1>0, <1>1, <1>2 DEF CalmInv, ScreenOK, Fresh
<1>4. TimerAlone'
  BY <1>0, <1>1, <1>2 DEF TimerAlone, Fresh, Asking
<1>5. Connected'
  BY <1>1 DEF Connected
<1>6. Questions'
  BY <1>0, <1>1, <1>2 DEF CalmInv, Questions, Fresh, Asking
<1>7. Accepted'
  BY <1>2 DEF CalmInv, Accepted
<1>8. Unconnected' /\ Refused'
  BY <1>0, <1>1, <1>2 DEF Unconnected, Refused, Connecting, Fresh, Asking
<1> QED
  BY <1>3, <1>4, <1>5, <1>6, <1>7, <1>8 DEF CalmInv

\* The WebSocket closes.
LEMMA CalmSocket ==
  ASSUME TypeOK, Attempts, Calm, CalmInv, gone => ~tab.present, SocketCloses, TypeOK', NoneBegins
  PROVE  CalmInv'
<1> USE DEF go, bridge, app, shell, react, asked
<1>1. view.sid \in Calls /\ Idle /\ view.sid # None
  BY CalmTypes DEF SocketCloses
<1>2. tab.present => Fresh
  BY <1>1, WhenIdle DEF CalmInv
<1>3. ~Connecting /\ ~Connecting'
  BY <1>1, AttemptsStay DEF Connecting, Attempts
<1>4. timers = {} /\ (tab.present => ~Asking)
  BY <1>1, <1>2 DEF CalmInv, TimerAlone, Questions
<1>5. /\ Disconnected(view.sid, TRUE, FALSE) /\ view' = [view EXCEPT !.sid = None]
      /\ UNCHANGED <<setting, locked, screen, painted, lockedRef, dialog, lock, reload>>
  BY DEF SocketCloses
<1> QED
  BY <1>1, <1>3, <1>4, <1>5, CalmLoses

\* The answer the view waits for.
LEMMA Answered ==
  ASSUME TypeOK, Attempts, Calm, CalmInv, NEW n \in Calls, Idle, Current(n),
         call[n].st \in Answers, Taken(n), TypeOK', NoneBegins
  PROVE  /\ Connecting /\ ~Connecting' /\ tab.present /\ Fresh
         /\ view.sid = None /\ timers = {} /\ ~Asking
         /\ setting.resumes => tab.ssh = None /\ ~tab.retry
<1>1. Flying(n)
  BY DEF Flying
<1>2. Connecting /\ view.sid = None
  BY <1>1 DEF Connecting, Attempts
<1>3. tab.present /\ Fresh
  BY WhenIdle DEF CalmInv, Current
<1>4. \A k \in Calls : Flying(k) /\ Current(k) => k = n
  BY <1>1 DEF Attempts, Current
<1>5. ~Flying(n)'
  BY CalmTypes DEF Taken, NoCall, Flying, Working, Answers
<1>6. ~Connecting'
  BY <1>4, <1>5, AttemptsStay DEF Connecting
<1>7. timers = {} /\ ~Asking
  BY <1>2, <1>3 DEF CalmInv, TimerAlone, Questions
<1>8. setting.resumes => tab.ssh = None /\ ~tab.retry
  BY <1>2, <1>3 DEF CalmInv, Unconnected
<1> QED
  BY <1>2, <1>3, <1>6, <1>7, <1>8

\* An answer of StartSSH.
LEMMA CalmTakes ==
  ASSUME TypeOK, Attempts, Calm, CalmInv, gone => ~tab.present, NEW n \in Calls, Take(n),
         TypeOK', NoneBegins
  PROVE  CalmInv'
<1> USE DEF go, bridge, app, shell, react, asked
<1>1. /\ call[n].st \in Answers /\ Idle /\ Taken(n)
      /\ UNCHANGED <<setting, locked, screen, painted, lockedRef, lock, reload>>
  BY DEF Take, DropStale, TakeSession, TakePrompt, TakeError, Answers
<1>2. CASE DropStale(n)
  <2>1. \A k \in Calls : call'[k].st = "vault" => call[k].st = "vault"
    BY <1>1, CalmTypes DEF Taken, NoCall
  <2>2. UNCHANGED <<tab, timers, view, dialog>>
    BY <1>2 DEF DropStale
  <2>3. \A k \in Calls : Flying(k)' /\ Current(k)' => Flying(k) /\ Current(k)
    BY AttemptsStay
  <2> QED
    BY <1>1, <2>1, <2>2, <2>3, CalmFrame
<1>3. ASSUME Current(n)
      PROVE  /\ Connecting /\ ~Connecting' /\ tab.present /\ Fresh
             /\ view.sid = None /\ timers = {} /\ ~Asking
             /\ setting.resumes => tab.ssh = None /\ ~tab.retry
  BY <1>1, <1>3, Answered
<1>4. CASE TakeSession(n)
  <2>0. Current(n)
    BY <1>4 DEF TakeSession
  <2>1. /\ Connecting /\ ~Connecting' /\ tab.present /\ Fresh
        /\ view.sid = None /\ timers = {} /\ ~Asking
    BY <1>3, <2>0
  <2>2. /\ view'.sid = n /\ view'.attempt = view.attempt /\ view'.mounted
        /\ UNCHANGED <<dialog, timers>> /\ tab' = Ready(tab, n)
    BY <1>4, <2>0, <2>1, CalmTypes DEF TakeSession, SetTab, AppTypes, Views, Current
  <2>3. /\ tab'.present /\ tab'.attempt = tab.attempt /\ tab'.timer = None /\ tab'.ssh = n
        /\ ~tab'.busy /\ ~tab'.waiting /\ ~tab'.retry
    BY <2>1, <2>2, CalmTypes, ReadyFields
  <2>4. Fresh' /\ ~Asking'
    BY <2>1, <2>2, <2>3 DEF Fresh, Asking
  <2>5. ScreenOK'
    BY <1>1, <2>3, <2>4 DEF CalmInv, ScreenOK
  <2>6. TimerAlone' /\ Connected'
    BY <2>1, <2>2, <2>3 DEF TimerAlone, Connected
  <2>7. Questions'
    BY <2>2, <2>3, <2>4 DEF CalmInv, Questions
  <2>8. Accepted'
    BY <1>1, <2>2, <2>3 DEF CalmInv, Accepted
  <2>9. Unconnected' /\ Refused'
    BY <2>1, <2>4 DEF Unconnected, Refused, Connecting
  <2> QED
    BY <2>5, <2>6, <2>7, <2>8, <2>9 DEF CalmInv
<1>5. CASE TakePrompt(n)
  <2>0. Current(n)
    BY <1>5 DEF TakePrompt
  <2>1. /\ Connecting /\ ~Connecting' /\ tab.present /\ Fresh
        /\ view.sid = None /\ timers = {} /\ ~Asking
        /\ setting.resumes => tab.ssh = None
    BY <1>3, <2>0
  <2>2. /\ UNCHANGED <<view, timers>> /\ dialog'.st = "shown" /\ dialog'.attempt = view.attempt
        /\ tab' = [tab EXCEPT !.busy = FALSE, !.timer = None, !.waiting = FALSE, !.retry = FALSE]
    BY <1>5, <2>1 DEF TakePrompt, SetTab
  <2>3. /\ tab'.present /\ tab'.attempt = tab.attempt /\ tab'.ssh = tab.ssh /\ ~tab'.retry
    BY <2>1, <2>2, CalmTypes DEF Tabs
  <2>4. Fresh' /\ view.mounted
    BY <2>1, <2>2, <2>3 DEF Fresh
  <2>5. ScreenOK'
    BY <1>1, <2>3, <2>4 DEF CalmInv, ScreenOK
  <2>6. TimerAlone' /\ Connected'
    BY <2>1, <2>2, <2>3 DEF TimerAlone, Connected
  <2>7. Questions'
    BY <2>1, <2>2, <2>4, CalmTypes DEF Questions
  <2>8. Accepted'
    BY <2>2 DEF Accepted
  <2>9. Unconnected' /\ Refused'
    BY <1>1, <2>1, <2>3 DEF Unconnected, Refused, Connecting
  <2> QED
    BY <2>5, <2>6, <2>7, <2>8, <2>9 DEF CalmInv
<1>6. CASE TakeError(n)
  <2>0. Current(n)
    BY <1>6 DEF TakeError
  <2>1. ~Connecting' /\ timers = {} /\ ~Asking
    BY <1>3, <2>0
  <2>2. /\ Disconnected(n, call[n].st # "final", call[n].st = "vault")
        /\ view' = [view EXCEPT !.sid = None] /\ dialog' = dialog
    BY <1>6 DEF TakeError
  <2> QED
    BY <1>1, <2>1, <2>2, CalmLoses
<1> QED
  BY <1>2, <1>4, <1>5, <1>6 DEF Take

\* A timer: it was alone, and is gone.
LEMMA CalmTimer ==
  ASSUME TypeOK, Attempts, Calm, CalmInv, NEW n \in Calls, TimerFires(n), TypeOK', NoneBegins
  PROVE  CalmInv'
<1> USE DEF go, bridge, app, shell, react, asked
<1>1. /\ timers = {n} /\ tab.present /\ setting.resumes /\ Fresh /\ view.sid = None
      /\ ~Connecting /\ ~Asking
  BY DEF TimerFires, CalmInv, TimerAlone
<1>2. /\ painted = screen /\ lockedRef = screen.locked
  BY WhenIdle DEF TimerFires, CalmInv
<1>3. /\ timers' = {}
      /\ UNCHANGED <<setting, locked, screen, painted, lockedRef, view, dialog, lock, reload>>
      /\ \/ tab' = Parked(tab) /\ lockedRef
         \/ tab' = [Again(tab) EXCEPT !.tries = tab.tries, !.ssh = None] /\ ~lockedRef
  BY <1>1 DEF TimerFires, SetTab
<1>4. /\ tab'.present /\ tab'.ssh = None /\ ~tab'.retry
      /\ tab'.attempt = tab.attempt \/ (tab'.attempt = tab.attempt + 1 /\ ~lockedRef)
  <2>1. CASE tab' = Parked(tab) /\ lockedRef
    BY <1>1, <2>1, CalmTypes, LostFields
  <2>2. CASE tab' = [Again(tab) EXCEPT !.tries = tab.tries, !.ssh = None] /\ ~lockedRef
    BY <1>1, <2>2, CalmTypes, AgainFields, AgainSsh
  <2> QED
    BY <1>3, <2>1, <2>2
<1>5. ~Connecting'
  BY <1>1, AttemptsStay
<1>6. ScreenOK'
  BY <1>1, <1>2, <1>3, <1>4 DEF CalmInv, ScreenOK, Fresh
<1>7. TimerAlone' /\ Connected'
  BY <1>1, <1>3 DEF TimerAlone, Connected
<1>8. Questions'
  BY <1>1, <1>3, <1>5 DEF CalmInv, Questions, Fresh
<1>9. Accepted'
  BY <1>1, <1>3 DEF CalmInv, Accepted, Asking
<1>10. Unconnected' /\ Refused'
  BY <1>4, <1>5 DEF Unconnected, Refused, Connecting
<1> QED
  BY <1>6, <1>7, <1>8, <1>9, <1>10 DEF CalmInv

\* A question has been answered: it was of the attempt the tab is at.
LEMMA CalmAnswer ==
  ASSUME TypeOK, Attempts, Calm, CalmInv, AcceptDone, TypeOK', NoneBegins
  PROVE  CalmInv'
<1> USE DEF go, bridge, app, shell, react, asked
<1>1. /\ Idle /\ dialog.st = "accepted"
      /\ UNCHANGED <<setting, locked, timers, screen, painted, lockedRef, view, lock, reload>>
  BY DEF AcceptDone
<1>2. /\ tab.present => Fresh
      /\ dialog.st # "none" /\ (setting.resumes => Asking)
  BY <1>1, WhenIdle DEF CalmInv, Accepted, Asking
<1>3. Connecting' => Connecting
  BY AttemptsStay
<1>4. CASE locked
  <2>1. tab' = tab /\ dialog'.st = "shown" /\ dialog'.attempt = dialog.attempt
    BY <1>4, CalmTypes DEF AcceptDone, TypeOK, AskedTypes, Dialogs
  <2>2. ScreenOK'
    BY <1>1, <2>1 DEF CalmInv, ScreenOK, Fresh
  <2>3. TimerAlone' /\ Connected'
    BY <1>1, <1>2, <1>3, <2>1 DEF CalmInv, TimerAlone, Connected, Fresh, Asking
  <2>4. Questions' /\ Accepted' /\ Unconnected'
    BY <1>1, <1>2, <1>3, <2>1 DEF CalmInv, Questions, Accepted, Unconnected, Fresh, Asking
  <2>5. Refused'
    BY <1>1, <2>1, AttemptsStay DEF AcceptDone, CalmInv, Refused, Fresh
  <2> QED
    BY <2>2, <2>3, <2>4, <2>5 DEF CalmInv
<1>5. CASE ~locked /\ tab.present
  <2>1. /\ dialog'.st = "none" /\ tab' = Again(tab)
    BY <1>5 DEF AcceptDone, NoDialog, SetTab
  <2>2. timers = {}
    BY <1>2, <1>5 DEF CalmInv, TimerAlone
  <2>3. /\ tab'.present /\ tab'.attempt = tab.attempt + 1 /\ ~tab'.retry /\ tab'.ssh = tab.ssh
    BY <1>5, <2>1, CalmTypes, AgainFields, AgainSsh
  <2>4. ~Fresh'
    BY <1>1, <1>2, <1>5, <2>3, CalmTypes DEF Fresh
  <2>5. ScreenOK'
    BY <1>1, <1>5 DEF CalmInv, ScreenOK
  <2>6. TimerAlone' /\ Connected' /\ Questions' /\ Accepted' /\ Refused'
    BY <1>1, <2>1, <2>2, <2>4 DEF TimerAlone, Connected, Questions, Accepted, Refused
  <2>7. Unconnected'
    BY <1>1, <1>2, <1>5, <2>3 DEF CalmInv, Unconnected
  <2> QED
    BY <2>5, <2>6, <2>7 DEF CalmInv
<1>6. CASE ~locked /\ ~tab.present
  <2>1. dialog'.st = "none" /\ tab' = tab
    BY <1>6 DEF AcceptDone, NoDialog, SetTab
  <2>2. ScreenOK'
    BY <1>1, <2>1 DEF CalmInv, ScreenOK, Fresh
  <2>3. TimerAlone' /\ Connected'
    BY <1>1, <1>6, <2>1 DEF CalmInv, TimerAlone, Connected, Fresh, Asking
  <2>4. Questions' /\ Accepted' /\ Unconnected' /\ Refused'
    BY <1>6, <2>1 DEF Questions, Accepted, Unconnected, Refused, Asking
  <2> QED
    BY <2>2, <2>3, <2>4 DEF CalmInv
<1> QED
  BY <1>4, <1>5, <1>6

\* The steps of lock().
LEMMA CalmLocking ==
  ASSUME TypeOK, Attempts, Calm, CalmInv, Locking, TypeOK', NoneBegins
  PROVE  CalmInv'
<1> USE DEF go, bridge, app, shell, react, asked
<1>1. Connecting' => Connecting
  BY AttemptsStay
<1>2. CASE LockCloses \/ LockReplaces \/ LockWipes
  <2>1. /\ lock.st \notin {"idle", "returned"} /\ lock'.st # "idle"
        /\ lock'.st = "returned" => locked'
        /\ UNCHANGED <<setting, tab, timers, screen, painted, lockedRef, view, dialog, reload>>
    BY <1>2, CalmTypes DEF LockCloses, LockReplaces, LockWipes, Locks
  <2>2. reload = "none" /\ dialog.st # "accepted"
    BY <2>1 DEF CalmInv, ScreenOK, Accepted
  <2>3. ScreenOK'
    BY <2>1, <2>2 DEF CalmInv, ScreenOK
  <2>4. TimerAlone' /\ Connected'
    BY <1>1, <2>1 DEF CalmInv, TimerAlone, Connected, Fresh, Asking
  <2>5. Questions' /\ Accepted' /\ Unconnected'
    BY <1>1, <2>1, <2>2 DEF CalmInv, Questions, Accepted, Unconnected, Fresh, Asking
  <2>6. Refused'
    BY <2>1 DEF Refused
  <2> QED
    BY <2>3, <2>4, <2>5, <2>6 DEF CalmInv
<1>3. CASE LockReturns
  <2>1. /\ tab.present => Fresh
        /\ view.mounted => tab.present
        /\ seen.timer = tab.timer /\ seen.present = tab.present
    BY <1>3, WhenIdle DEF LockReturns, CalmInv
  <2>2. /\ lock.st = "returned" /\ lock'.st = "idle" /\ lockedRef' = TRUE
        /\ screen'.locked = TRUE /\ screen'.settings = screen.settings
        /\ UNCHANGED <<setting, locked, painted, view, dialog, reload, call>>
    BY <1>3, CalmTypes DEF LockReturns, AppTypes, Screens
  <2>3. locked /\ reload = "none" /\ dialog.st # "accepted"
    BY <2>2 DEF CalmInv, ScreenOK, Accepted
  <2>4. timers' = {}
    BY <1>3, <2>1 DEF LockReturns, CalmInv, TimerAlone
  <2>5. \/ tab'.present = FALSE
        \/ /\ tab.present /\ tab'.present /\ tab' = Parked(tab) /\ Pending(tab)
        \/ /\ tab.present /\ tab'.present /\ ~Pending(tab)
           /\ tab' = [tab EXCEPT !.timer = None]
    <3>1. ~Removed.present /\ [tab EXCEPT !.timer = None].present = tab.present
      BY CalmTypes DEF Removed, Tabs
    <3>2. Parked(tab).present = tab.present
      BY CalmTypes, LostFields
    <3>3. tab.present \in BOOLEAN
      BY CalmTypes DEF Tabs
    <3> QED
      BY <1>3, <3>1, <3>2, <3>3 DEF LockReturns, SetTab
  <2>6. CASE tab'.present = FALSE
    <3>1. Fresh' => tab.present
      BY <2>1, <2>2 DEF Fresh
    <3>2. tab' \in {tab, Removed}
      <4>1. [tab EXCEPT !.timer = None].present = tab.present /\ Parked(tab).present = tab.present
        BY CalmTypes, LostFields DEF Tabs
      <4> QED
        BY <1>3, <2>6, <4>1 DEF LockReturns, SetTab
    <3>3. /\ tab'.attempt = tab.attempt /\ tab'.ssh = tab.ssh /\ tab'.timer = tab.timer
          /\ tab'.waiting = tab.waiting /\ tab'.retry = tab.retry /\ tab'.busy = tab.busy
      BY <3>2, CalmTypes DEF Removed, Tabs
    <3>4. ScreenOK'
      BY <2>2, <2>3, <2>6 DEF CalmInv, ScreenOK
    <3>5. TimerAlone' /\ Connected'
      BY <2>2, <2>4, <3>3 DEF CalmInv, TimerAlone, Connected, Fresh
    <3>6. Questions'
      BY <1>1, <2>2, <2>6, <3>3 DEF CalmInv, Questions, Fresh, Asking
    <3>7. Accepted' /\ Unconnected' /\ Refused'
      BY <2>2, <2>3, <2>6 DEF Accepted, Unconnected, Refused
    <3> QED
      BY <3>4, <3>5, <3>6, <3>7 DEF CalmInv
  <2>7. CASE /\ tab.present /\ tab'.present /\ tab' = Parked(tab) /\ Pending(tab)
    <3>1. /\ tab'.attempt = tab.attempt /\ tab'.ssh = None
          /\ setting.resumes => tab'.waiting /\ ~tab'.retry
      BY <2>7, CalmTypes, LostFields
    <3>2. Fresh /\ Fresh'
      BY <2>1, <2>2, <2>7, <3>1 DEF Fresh
    <3>3. view.sid = None
      BY <2>7, <3>2, CalmTypes DEF CalmInv, Connected, Pending
    <3>4. ScreenOK'
      BY <2>2, <2>3, <3>2 DEF CalmInv, ScreenOK
    <3>5. TimerAlone' /\ Connected'
      BY <2>2, <2>4, <3>3 DEF TimerAlone, Connected
    <3>6. Questions'
      BY <1>1, <2>2, <3>1, <3>2 DEF CalmInv, Questions, Fresh, Asking
    <3>7. Accepted' /\ Unconnected'
      BY <2>2, <2>3, <3>1 DEF Accepted, Unconnected
    <3>8. Refused'
      BY <2>2, <3>1 DEF Refused
    <3> QED
      BY <3>4, <3>5, <3>6, <3>7, <3>8 DEF CalmInv
  <2>8. CASE /\ tab.present /\ tab'.present /\ ~Pending(tab)
             /\ tab' = [tab EXCEPT !.timer = None]
    <3>1. /\ tab'.attempt = tab.attempt /\ tab'.ssh = tab.ssh /\ tab'.timer = None
          /\ tab'.waiting = tab.waiting /\ tab'.retry = tab.retry /\ tab'.busy = tab.busy
      BY <2>8, CalmTypes DEF Tabs
    <3>2. Fresh /\ Fresh'
      BY <2>1, <2>2, <2>8, <3>1 DEF Fresh
    <3>3. setting.resumes => ~Connecting /\ ~Asking
      BY <2>8, <3>2 DEF CalmInv, Unconnected, Pending
    <3>4. ScreenOK'
      BY <2>2, <2>3, <3>2 DEF CalmInv, ScreenOK
    <3>5. TimerAlone' /\ Connected'
      BY <2>2, <2>4, <3>1, <3>2 DEF CalmInv, TimerAlone, Connected
    <3>6. Questions'
      BY <1>1, <2>2, <3>1, <3>2 DEF CalmInv, Questions, Fresh, Asking
    <3>7. Accepted'
      BY <2>2, <2>3 DEF Accepted
    <3>8. Unconnected' /\ Refused'
      BY <1>1, <2>2, <3>1, <3>2, <3>3 DEF Unconnected, Refused, Asking, Connecting
    <3> QED
      BY <3>4, <3>5, <3>6, <3>7, <3>8 DEF CalmInv
  <2> QED
    BY <2>5, <2>6, <2>7, <2>8
<1> QED
  BY <1>2, <1>3 DEF Locking

\* The steps of reload(): the vault is not locked in the meantime.
LEMMA CalmReloading ==
  ASSUME TypeOK, Attempts, Calm, CalmInv, Reloading, TypeOK', NoneBegins
  PROVE  CalmInv'
<1> USE DEF go, bridge, app, shell, react, asked
<1>1. /\ lock.st = "idle" /\ ~locked /\ screen.locked /\ reload # "locked"
      /\ dialog.st # "accepted"
  BY DEF Reloading, Bootstrap, ReloadReturns, CalmInv, ScreenOK, Accepted
<1>2. CASE Bootstrap
  <2>1. /\ UNCHANGED <<setting, locked, call, tab, timers, screen, painted, lockedRef, view,
                       dialog, lock>>
        /\ reload' = "unlocked"
    BY <1>1, <1>2 DEF Bootstrap
  <2>2. ScreenOK'
    BY <1>1, <2>1 DEF CalmInv, ScreenOK
  <2>3. TimerAlone' /\ Connected'
    BY <2>1, AttemptsStay DEF CalmInv, TimerAlone, Connected, Fresh, Asking
  <2>4. Questions' /\ Accepted' /\ Unconnected'
    BY <2>1, AttemptsStay DEF CalmInv, Questions, Accepted, Unconnected, Fresh, Asking
  <2>5. Refused'
    BY <2>1, AttemptsStay DEF CalmInv, Refused, Fresh
  <2> QED
    BY <2>2, <2>3, <2>4, <2>5 DEF CalmInv
<1>3. CASE ReloadReturns
  <2>1. painted = screen /\ lockedRef = screen.locked
    BY <1>3, WhenIdle DEF ReloadReturns, CalmInv
  <2>2. /\ UNCHANGED <<setting, locked, call, tab, timers, painted, lockedRef, view, dialog,
                       lock>>
        /\ reload' = "none" /\ screen' = [locked |-> FALSE, settings |-> TRUE]
    BY <1>1, <1>3 DEF ReloadReturns
  <2>3. ScreenOK'
    BY <1>1, <2>1, <2>2 DEF ScreenOK
  <2>4. TimerAlone' /\ Connected'
    BY <2>2, AttemptsStay DEF CalmInv, TimerAlone, Connected, Fresh, Asking
  <2>5. Questions' /\ Unconnected'
    BY <2>2, AttemptsStay DEF CalmInv, Questions, Unconnected, Fresh, Asking
  <2>6. Accepted'
    BY <1>1, <2>2 DEF Accepted
  <2>7. Refused'
    BY <1>1, <2>1, <2>2, AttemptsStay DEF CalmInv, Refused, Fresh
  <2> QED
    BY <2>3, <2>4, <2>5, <2>6, <2>7 DEF CalmInv
<1> QED
  BY <1>2, <1>3 DEF Reloading

\* The user.
LEMMA CalmUser ==
  ASSUME TypeOK, Attempts, Calm, CalmInv, User, TypeOK', NoneBegins
  PROVE  CalmInv'
<1> USE DEF go, bridge, app, shell, react, asked
<1>1. /\ Idle
      /\ tab.present => Fresh
      /\ painted = screen /\ lockedRef = screen.locked
  <2>1. Idle
    BY DEF User, Retry, Close, Cancel, Accept, Lock, Unlock, Reload
  <2> QED
    BY <2>1, WhenIdle DEF CalmInv
<1>2. Connecting' => Connecting
  BY AttemptsStay
<1>3. CASE Retry
  <2>1. /\ tab.present /\ tab.retry /\ Fresh /\ ~screen.locked /\ ~lockedRef
        /\ UNCHANGED <<setting, locked, screen, painted, lockedRef, view, dialog, lock, reload>>
        /\ tab' = [Again(tab) EXCEPT !.ssh = None] /\ timers' = timers \ {tab.timer}
    BY <1>1, <1>3, CalmTypes DEF Retry
  <2>2. timers' = {}
    BY <2>1 DEF CalmInv, TimerAlone
  <2>3. /\ tab'.present /\ tab'.attempt = tab.attempt + 1 /\ ~tab'.retry /\ tab'.ssh = None
    BY <2>1, CalmTypes, AgainFields, AgainSsh
  <2>4. ~Fresh' /\ view'.mounted
    BY <2>1, <2>3, CalmTypes DEF Fresh
  <2>5. setting.resumes => ~Asking
    BY <2>1 DEF CalmInv, Unconnected
  <2>6. ScreenOK'
    BY <2>1 DEF CalmInv, ScreenOK
  <2>7. TimerAlone' /\ Connected' /\ Unconnected' /\ Refused'
    BY <2>2, <2>3, <2>4 DEF TimerAlone, Connected, Unconnected, Refused
  <2>8. Questions'
    BY <2>1, <2>4 DEF CalmInv, Questions
  <2>9. Accepted'
    BY <2>1, <2>5 DEF CalmInv, Accepted, Asking
  <2> QED
    BY <2>6, <2>7, <2>8, <2>9 DEF CalmInv
<1>4. CASE Close \/ Cancel
  <2>1. /\ tab.present /\ Fresh
        /\ UNCHANGED <<setting, locked, screen, painted, lockedRef, view, lock, reload>>
        /\ tab' = Removed /\ timers' = timers \ {tab.timer}
        /\ dialog' = dialog \/ dialog'.st = "none"
    BY <1>1, <1>4 DEF Close, Cancel, CloseTab, NoDialog
  <2>2. timers' = {}
    BY <2>1 DEF CalmInv, TimerAlone
  <2>3. /\ ~tab'.present /\ tab'.attempt = tab.attempt /\ tab'.ssh = tab.ssh
        /\ tab'.timer = tab.timer
        /\ tab'.waiting = tab.waiting /\ tab'.retry = tab.retry /\ tab'.busy = tab.busy
    BY <2>1, CalmTypes DEF Removed, Tabs
  <2>4. ScreenOK'
    BY <2>1, <2>3 DEF CalmInv, ScreenOK
  <2>5. TimerAlone' /\ Connected'
    BY <2>1, <2>2, <2>3 DEF CalmInv, TimerAlone, Connected, Fresh
  <2>6. Questions' /\ Accepted'
    BY <1>2, <2>1, <2>3 DEF CalmInv, Questions, Accepted, Fresh, Asking
  <2>7. Unconnected' /\ Refused'
    BY <2>3 DEF Unconnected, Refused
  <2> QED
    BY <2>4, <2>5, <2>6, <2>7 DEF CalmInv
<1>5. CASE Accept
  <2>1. /\ ~screen.locked /\ lock.st = "idle" /\ dialog.st = "shown" /\ dialog.attempt = tab.attempt
        /\ dialog'.st = "accepted" /\ dialog'.attempt = dialog.attempt
        /\ UNCHANGED <<setting, locked, call, tab, timers, screen, painted, lockedRef, view, lock,
                       reload>>
    BY <1>1, <1>5 DEF Accept, Calm, Attended, TypeOK, AskedTypes, Dialogs
  <2>2. ScreenOK'
    BY <2>1 DEF CalmInv, ScreenOK, Fresh
  <2>3. TimerAlone' /\ Connected'
    BY <1>2, <2>1 DEF CalmInv, TimerAlone, Connected, Fresh, Asking
  <2>4. Questions' /\ Unconnected'
    BY <1>2, <2>1 DEF CalmInv, Questions, Unconnected, Fresh, Asking
  <2>5. Accepted'
    BY <1>1, <2>1 DEF Accepted
  <2>6. Refused'
    BY <2>1, AttemptsStay DEF CalmInv, Refused, Fresh
  <2> QED
    BY <2>2, <2>3, <2>4, <2>5, <2>6 DEF CalmInv
<1>6. CASE Lock
  <2>1. /\ reload = "none" /\ dialog.st # "accepted" /\ lock'.st = "called"
        /\ UNCHANGED <<setting, locked, call, tab, timers, screen, painted, lockedRef, view, dialog,
                       reload>>
    BY <1>6 DEF Lock, Calm, Attended
  <2>2. ScreenOK'
    BY <2>1 DEF CalmInv, ScreenOK, Fresh
  <2>3. TimerAlone' /\ Connected'
    BY <1>2, <2>1 DEF CalmInv, TimerAlone, Connected, Fresh, Asking
  <2>4. Questions' /\ Accepted' /\ Unconnected'
    BY <1>2, <2>1 DEF CalmInv, Questions, Accepted, Unconnected, Fresh, Asking
  <2>5. Refused'
    BY <2>1 DEF Refused
  <2> QED
    BY <2>2, <2>3, <2>4, <2>5 DEF CalmInv
<1>7. CASE Unlock
  <2>1. /\ lock.st = "idle" /\ screen.locked /\ ~locked' /\ reload' = "called"
        /\ UNCHANGED <<setting, call, tab, timers, screen, painted, lockedRef, view, dialog, lock>>
    BY <1>1, <1>7 DEF Unlock, Calm
  <2>2. ScreenOK'
    BY <2>1 DEF CalmInv, ScreenOK
  <2>3. TimerAlone' /\ Connected'
    BY <1>2, <2>1 DEF CalmInv, TimerAlone, Connected, Fresh, Asking
  <2>4. Questions' /\ Accepted' /\ Unconnected'
    BY <1>2, <2>1 DEF CalmInv, Questions, Accepted, Unconnected, Fresh, Asking
  <2>5. Refused'
    BY <2>1, AttemptsStay DEF CalmInv, Refused, Fresh
  <2> QED
    BY <2>2, <2>3, <2>4, <2>5 DEF CalmInv
<1>8. ~Reload
  BY DEF Reload, Calm
<1> QED
  BY <1>3, <1>4, <1>5, <1>6, <1>7, <1>8 DEF User

\* The setting stays.
LEMMA SettingStays == [Next]_vars => setting' = setting
BY DEF Next, vars, Render, SocketCloses, AcceptDone, Backend, Read, Dial, Authenticate,
       CloseSession, Take, DropStale, TakeSession, TakePrompt, TakeError, TimerFires, SessionEnds,
       Locking, LockCloses, LockReplaces, LockWipes, LockReturns,
       Reloading, Bootstrap, ReloadReturns, User, Retry, Close, Cancel, Accept, Lock, Unlock, Reload

\* The invariant of all steps; the calm part is claimed for the settings it is about.
CalmStrong == TypeOK /\ CallInv /\ (gone => ~tab.present) /\ (Calm => CalmInv)

LEMMA CalmStays ==
  ASSUME CalmStrong, [Next]_vars
  PROVE  CalmStrong'
<1>1. TypeOK' /\ CallInv' /\ (gone => ~tab.present)' /\ (Calm' => Calm)
  BY CallInvStays, GoneStays, SettingStays DEF CalmStrong, Calm, Attended
<1> SUFFICES ASSUME Calm, CalmInv PROVE CalmInv'
  BY <1>1 DEF CalmStrong
<1>2. TypeOK /\ Attempts /\ (gone => ~tab.present)
  BY DEF CalmStrong, CallInv
<1>3. CASE UNCHANGED vars
  BY <1>3, CalmFrame DEF vars, go, bridge, app, shell, react, asked, Flying, Current
<1>4. CASE Begins
  BY <1>2, <1>4, CalmStarts
<1>5. CASE Next /\ ~Begins
  <2>1. NoneBegins
    BY <1>2, <1>5, NoneBeginsElse
  <2>2. CASE Render
    BY <1>1, <1>2, <1>5, <2>1, <2>2, CalmRender
  <2>3. CASE SocketCloses
    BY <1>1, <1>2, <2>1, <2>3, CalmSocket
  <2>4. CASE AcceptDone
    BY <1>1, <1>2, <2>1, <2>4, CalmAnswer
  <2>5. ASSUME NEW n \in Calls, Backend(n) PROVE CalmInv'
    BY <1>1, <1>2, <2>1, <2>5, CalmBackend
  <2>6. ASSUME NEW n \in Calls, Take(n) PROVE CalmInv'
    BY <1>1, <1>2, <2>1, <2>6, CalmTakes
  <2>7. ASSUME NEW n \in Calls, TimerFires(n) PROVE CalmInv'
    BY <1>1, <1>2, <2>1, <2>7, CalmTimer
  <2>8. ASSUME NEW n \in Calls, SessionEnds(n) PROVE CalmInv'
    BY <2>8, CalmFrame DEF SessionEnds, go, bridge, app, shell, react, asked, Flying, Current
  <2>9. CASE Locking
    BY <1>1, <1>2, <2>1, <2>9, CalmLocking
  <2>10. CASE Reloading
    BY <1>1, <1>2, <2>1, <2>10, CalmReloading
  <2>11. CASE User
    BY <1>1, <1>2, <2>1, <2>11, CalmUser
  <2> QED
    BY <1>5, <2>2, <2>3, <2>4, <2>5, <2>6, <2>7, <2>8, <2>9, <2>10, <2>11 DEF Next
<1> QED
  BY <1>3, <1>4, <1>5

\* The invariant behind a connection that is stable.
THEOREM CalmInductive == Safety => []CalmStrong
<1>1. Init => CalmStrong
  <2> SUFFICES ASSUME Init PROVE CalmStrong
    OBVIOUS
  <2>1. TypeOK /\ CallInv
    BY CallInvInit
  <2>2. ScreenOK /\ TimerAlone /\ Connected
    BY DEF Init, ScreenOK, TimerAlone, Connected, Unlocked, NewTab, NoView
  <2>3. Questions /\ Accepted
    BY DEF Init, Questions, Accepted, Asking, NoDialog
  <2>4. Unconnected /\ Refused
    BY DEF Init, Unconnected, Refused, NewTab, NoView, Fresh
  <2>5. gone => ~tab.present
    BY DEF Init
  <2> QED
    BY <2>1, <2>2, <2>3, <2>4, <2>5 DEF CalmStrong, CalmInv
<1> QED
  BY <1>1, CalmStays, PTL DEF Safety

\* A tab that shows a connection, in front of a user who answers questions in time, has no
\* timer and waits for nothing that would replace it (ConnectedIsStable).
THEOREM ConnectionsAreStable == Spec => []ConnectedIsStable
<1>1. CalmStrong => ConnectedIsStable
  <2> SUFFICES ASSUME CalmStrong, Calm, ~Dirty, view.sid \in open
               PROVE  /\ timers = {} /\ ~tab.waiting /\ ~tab.retry
                      /\ tab.ssh = view.sid
    BY DEF ConnectedIsStable, Calm, Attended
  <2>1. TypeOK /\ CalmInv /\ ScreenOK
    BY DEF CalmStrong, CalmInv
  <2>2. view.sid # None
    BY <2>1, CalmTypes DEF TypeOK, GoTypes
  <2>3. tab.present => Fresh
    BY <2>1, WhenIdle DEF Idle
  <2>4. CASE tab.present
    BY <2>1, <2>2, <2>3, <2>4 DEF CalmInv, TimerAlone, Connected
  <2>5. CASE ~tab.present
    <3>1. ~view.mounted
      BY <2>1, <2>5, WhenIdle DEF Idle
    <3> QED
      BY <2>2, <3>1 DEF CalmStrong, CallInv, Attempts
  <2> QED
    BY <2>4, <2>5
<1> QED
  BY <1>1, CalmInductive, PTL DEF Spec

-------------------------------------------------------------------------------
(***************************************************************************)
(* A tab without a connection is not left standing.                        *)
(***************************************************************************)

\* What keeps a tab going.  A tab that waits does so while the vault is locked, is being
\* locked, or the effect of its unlock is still to run.
Kept ==
  \/ view.sid # None
  \/ Connecting
  \/ tab.timer \in timers
  \/ tab.waiting /\ (setting.overlaps \/ screen.locked \/ painted.locked \/ lock.st # "idle")
  \/ tab.retry
  \/ dialog.st # "none"

KeptInv == Attended /\ tab.present /\ Fresh => Kept

\* What is the case before an event of the webview.
LEMMA SeenWhenIdle ==
  ASSUME Attended, Idle
  PROVE  /\ painted = screen
         /\ seen.tries = tab.tries /\ seen.timer = tab.timer /\ seen.present = tab.present
BY DEF Attended, Idle, Dirty, Snapshot

\* A vault that has been locked still shows as locked, or Bootstraps cross locks.
LEMMA LockedShows ==
  ASSUME TypeOK, Attended, Calm => CalmInv, lockedRef
  PROVE  setting.overlaps \/ screen.locked \/ painted.locked
BY SettingBits DEF TypeOK, Calm, CalmInv, ScreenOK

\* A step of somebody else.
LEMMA KeptFrame ==
  ASSUME KeptInv,
         UNCHANGED <<setting, tab, timers, screen, painted, view, dialog>>,
         lock'.st = lock.st \/ lock'.st # "idle",
         Connecting => Connecting'
  PROVE  KeptInv'
BY DEF KeptInv, Kept, Attended, Fresh

\* A tab that has lost its connection is kept.
LEMMA KeptLoses ==
  ASSUME TypeOK, Attended, Idle, gone => ~tab.present, Calm => CalmInv, tab.present,
         NEW n \in Calls, NEW r, NEW v \in BOOLEAN, Disconnected(n, r, v),
         UNCHANGED <<setting, screen, painted, lock>>,
         v /\ setting.resumes =>
           setting.overlaps \/ screen.locked \/ painted.locked \/ lock.st # "idle"
  PROVE  Kept'
<1>1. /\ ~gone /\ seen.present /\ seen.tries = tab.tries
  BY SeenWhenIdle
<1>2. \/ tab' = Parked(tab) /\ (lockedRef \/ v)
      \/ tab' = Offered(tab)
      \/ tab' = Timed(Counted(tab), n) /\ n \in timers'
  BY <1>1, CountedFields, CalmTypes DEF Disconnected, SetTab
<1>3. CASE tab' = Parked(tab) /\ (lockedRef \/ v)
  <2>1. tab'.waiting = setting.resumes /\ tab'.retry = ~setting.resumes
    BY <1>3, CalmTypes, LostFields
  <2> QED
    BY <1>3, <2>1, CalmTypes, LockedShows DEF Kept
<1>4. CASE tab' = Offered(tab)
  BY <1>4, CalmTypes, LostFields DEF Kept
<1>5. CASE tab' = Timed(Counted(tab), n) /\ n \in timers'
  BY <1>5, CalmTypes, TabsStay, TimedFields DEF Kept
<1> QED
  BY <1>2, <1>3, <1>4, <1>5

KeptStrong == CalmStrong /\ KeptInv

\* A call goes on until it has an answer.
LEMMA KeptBackend ==
  ASSUME TypeOK, KeptInv, NEW n \in Calls, Backend(n)
  PROVE  KeptInv'
<1> USE DEF go, bridge, app, shell, react, asked
<1>1. UNCHANGED <<setting, tab, timers, screen, painted, view, dialog, lock>>
  BY DEF Backend, Read, Dial, Authenticate, CloseSession
<1>2. \A k \in Calls : Flying(k) =>
        Flying(k)' /\ call'[k].mount = call[k].mount /\ call'[k].attempt = call[k].attempt
  <2>1. CASE Read(n)
    BY <2>1, CalmTypes DEF Read, Flying, Working, Answers, CallRecords
  <2>2. CASE Dial(n) \/ Authenticate(n)
    BY <2>2, CalmTypes DEF Dial, Authenticate, Goto, Failure, Flying, Working, Answers, CallRecords
  <2>3. CASE CloseSession(n)
    BY <2>3 DEF CloseSession, Flying
  <2> QED
    BY <2>1, <2>2, <2>3 DEF Backend
<1>3. Connecting => Connecting'
  BY <1>1, <1>2 DEF Connecting, Current
<1> QED
  BY <1>1, <1>3, KeptFrame

\* A render that begins no call: an unlock sets the tab that waits going again.
LEMMA KeptRender ==
  ASSUME TypeOK, Attempts, KeptInv, Calm => CalmInv, Render, ~Begins, NoneBegins
  PROVE  KeptInv'
<1> USE DEF go, bridge, app, shell, react, asked
<1> SUFFICES ASSUME Attended, tab'.present, Fresh' PROVE Kept'
  BY DEF KeptInv, Attended, Render
<1>1. UNCHANGED <<setting, timers, screen, view, call, dialog, lock>> /\ painted' = screen
  <2>1. (Leaving /\ Unmount) \/ UNCHANGED <<view, call>>
    BY DEF Render, Begins
  <2>2. ~Unmount
    BY CalmTypes DEF Unmount, Fresh, AppTypes, Views
  <2> QED
    BY <2>1, <2>2 DEF Render
<1>2. tab' = IF painted.locked # screen.locked /\ lockedRef /\ ~screen.locked
               THEN Resumed(tab) ELSE tab
  BY DEF Render, LockEffect
<1>3. /\ tab' = tab
      /\ ~(tab.waiting /\ painted.locked # screen.locked /\ lockedRef /\ ~screen.locked)
  <2>1. tab'.attempt # tab.attempt + 1
    BY <1>1, CalmTypes DEF Fresh, Attempts
  <2> QED
    BY <1>2, <2>1, CalmTypes, ResumedFields
<1>4. Kept
  BY <1>1, <1>3 DEF KeptInv, Fresh
<1>5. tab.waiting /\ painted.locked => setting.overlaps \/ screen.locked
  <2>1. Calm => (painted.locked => lockedRef)
    BY DEF CalmInv, ScreenOK
  <2> QED
    BY <1>3, <2>1, CalmTypes DEF Calm
<1>6. Connecting' <=> Connecting
  BY <1>1 DEF Connecting, Flying, Current
<1> QED
  BY <1>1, <1>3, <1>4, <1>5, <1>6 DEF Kept

\* An answer: a session, a question, or what becomes of a tab without.
LEMMA KeptTakes ==
  ASSUME TypeOK, Attempts, KeptInv, Calm => CalmInv, gone => ~tab.present, NEW n \in Calls, Take(n),
         Attempts'
  PROVE  KeptInv'
<1> USE DEF go, bridge, app, shell, react, asked
<1>1. /\ Idle /\ Taken(n)
      /\ UNCHANGED <<setting, screen, painted, lock>>
  BY DEF Take, DropStale, TakeSession, TakePrompt, TakeError
<1>2. CASE DropStale(n)
  <2>1. \A k \in Calls : Flying(k) /\ Current(k) => Flying(k)' /\ call'[k] = call[k]
    BY <1>1, <1>2, CalmTypes DEF DropStale, Taken, Flying
  <2>2. UNCHANGED <<tab, timers, view, dialog>>
    BY <1>2 DEF DropStale
  <2>3. Connecting => Connecting'
    BY <2>1, <2>2 DEF Connecting, Current
  <2> QED
    BY <1>1, <2>2, <2>3, KeptFrame
<1>3. CASE TakeSession(n)
  <2>1. view'.sid = n
    BY <1>3, CalmTypes DEF TakeSession, AppTypes, Views
  <2> QED
    BY <2>1, CalmTypes DEF KeptInv, Kept
<1>4. CASE TakePrompt(n)
  BY <1>4 DEF TakePrompt, KeptInv, Kept
<1>5. CASE TakeError(n)
  <2> SUFFICES ASSUME Attended, tab'.present, Fresh' PROVE Kept'
    BY <1>1 DEF KeptInv, Attended
  <2>1. /\ Disconnected(n, call[n].st # "final", call[n].st = "vault")
        /\ view' = [view EXCEPT !.sid = None] /\ Current(n) /\ Flying(n)
    BY <1>5 DEF TakeError, Flying, Answers
  <2>2. tab'.present = tab.present /\ tab'.attempt = tab.attempt
    BY <2>1, CalmTypes, DisconnectedPresent, DisconnectedAttempts
  <2>3. Fresh
    BY <2>1, <2>2, CalmTypes DEF Fresh, AppTypes, Views
  <2>4. call[n].st = "vault" /\ setting.resumes =>
          setting.overlaps \/ screen.locked \/ painted.locked \/ lock.st # "idle"
    <3>1. Calm /\ call[n].st = "vault" /\ setting.resumes =>
            screen.locked \/ painted.locked \/ lock.st # "idle"
      BY <2>1, <2>2, <2>3 DEF CalmInv, Refused
    <3> QED
      BY <3>1 DEF Calm
  <2> QED
    BY <1>1, <2>1, <2>2, <2>4, KeptLoses
<1> QED
  BY <1>2, <1>3, <1>4, <1>5 DEF Take

\* The steps of lock(): a tab that is connecting waits from now on.
LEMMA KeptLocking ==
  ASSUME TypeOK, KeptInv, Locking
  PROVE  KeptInv'
<1> USE DEF go, bridge, app, shell, react, asked
<1>0. Connecting => Connecting'
  BY DEF Locking, LockCloses, LockReplaces, LockWipes, LockReturns, Connecting, Flying, Current
<1>1. CASE LockCloses \/ LockReplaces \/ LockWipes
  <2>1. /\ UNCHANGED <<setting, tab, timers, screen, painted, view, dialog>>
        /\ lock'.st # "idle"
    BY <1>1, CalmTypes DEF LockCloses, LockReplaces, LockWipes, Locks
  <2> QED
    BY <1>0, <2>1, KeptFrame
<1>2. CASE LockReturns
  <2> SUFFICES ASSUME Attended, tab'.present, Fresh' PROVE Kept'
    BY <1>2 DEF KeptInv, Attended, LockReturns
  <2>1. /\ UNCHANGED <<setting, painted, view, dialog>> /\ screen'.locked
    BY <1>2, CalmTypes DEF LockReturns, AppTypes, Screens
  <2>2. /\ tab.present /\ timers' = timers \ {tab.timer}
        /\ tab' = IF Pending(tab) THEN Parked(tab) ELSE [tab EXCEPT !.timer = None]
    <3>1. ~Removed.present
      BY CalmTypes DEF Removed, Tabs
    <3> QED
      BY <1>2, <3>1 DEF LockReturns, SetTab
  <2>3. CASE Pending(tab)
    <3>1. tab'.waiting = setting.resumes /\ tab'.retry = ~setting.resumes
      BY <2>2, <2>3, CalmTypes, LostFields
    <3> QED
      BY <2>1, <3>1, CalmTypes DEF Kept
  <2>4. CASE ~Pending(tab)
    <3>1. /\ tab'.attempt = tab.attempt /\ tab'.waiting = tab.waiting /\ tab'.retry = tab.retry
      BY <2>2, <2>4, CalmTypes DEF Tabs
    <3>2. tab.timer \notin timers
      BY <2>4, CalmTypes DEF Pending, AppTypes
    <3>3. Kept
      BY <2>1, <2>2, <3>1 DEF KeptInv, Fresh
    <3> QED
      BY <1>0, <2>1, <3>1, <3>2, <3>3 DEF Kept
  <2> QED
    BY <2>3, <2>4
<1> QED
  BY <1>1, <1>2 DEF Locking

\* The webview, the timers and the user.
LEMMA KeptElse ==
  ASSUME TypeOK, Attempts, KeptInv, Calm => CalmInv, gone => ~tab.present, NoneBegins,
         \/ SocketCloses \/ AcceptDone \/ Reloading \/ User
         \/ \E n \in Calls : TimerFires(n)
  PROVE  KeptInv'
<1> USE DEF go, bridge, app, shell, react, asked
<1>1. CASE SocketCloses
  <2> SUFFICES ASSUME Attended, tab'.present, Fresh' PROVE Kept'
    BY <1>1 DEF KeptInv, Attended, SocketCloses
  <2>1. view.sid \in Calls /\ Idle /\ UNCHANGED <<setting, screen, painted, lock>>
    BY <1>1, CalmTypes DEF SocketCloses
  <2>2. Disconnected(view.sid, TRUE, FALSE)
    BY <1>1 DEF SocketCloses
  <2>3. tab'.present = tab.present
    BY <2>1, <2>2, CalmTypes, DisconnectedPresent
  <2> QED
    BY <2>1, <2>2, <2>3, KeptLoses
<1>2. CASE AcceptDone
  <2>1. CASE locked
    <3>1. dialog'.st = "shown"
      BY <1>2, <2>1 DEF AcceptDone, TypeOK, AskedTypes, Dialogs
    <3> QED
      BY <3>1 DEF KeptInv, Kept
  <2>2. CASE ~locked
    <3>1. view' = view /\ (tab.present => tab' = Again(tab)) /\ (~tab.present => tab' = tab)
      BY <1>2, <2>2 DEF AcceptDone, SetTab
    <3>2. tab.present => ~Fresh'
      BY <3>1, CalmTypes, AgainFields DEF Fresh, Attempts
    <3> QED
      BY <3>1, <3>2 DEF KeptInv
  <2> QED
    BY <2>1, <2>2
<1>3. CASE Bootstrap
  BY <1>3, KeptFrame DEF Bootstrap, Connecting, Flying, Current
<1>4. CASE ReloadReturns
  <2> SUFFICES ASSUME Attended, tab'.present, Fresh' PROVE Kept'
    BY <1>4 DEF KeptInv, Attended, ReloadReturns
  <2>1. /\ UNCHANGED <<setting, tab, timers, painted, view, call, dialog, lock>>
        /\ painted = screen
    BY <1>4, SeenWhenIdle DEF ReloadReturns
  <2>2. Kept /\ (Connecting => Connecting')
    BY <2>1 DEF KeptInv, Fresh, Connecting, Flying, Current
  <2> QED
    BY <2>1, <2>2 DEF Kept
<1>5. ASSUME NEW n \in Calls, TimerFires(n) PROVE KeptInv'
  <2> SUFFICES ASSUME Attended, tab'.present, Fresh' PROVE Kept'
    BY <1>5 DEF KeptInv, Attended, TimerFires
  <2>1. /\ UNCHANGED <<setting, screen, painted, view, lock>>
        /\ \/ ~tab.present /\ tab' = tab
           \/ lockedRef /\ tab' = Parked(tab)
           \/ tab' = [Again(tab) EXCEPT !.tries = tab.tries, !.ssh = None]
    BY <1>5 DEF TimerFires, SetTab
  <2>2. tab' # [Again(tab) EXCEPT !.tries = tab.tries, !.ssh = None]
    <3>1. [Again(tab) EXCEPT !.tries = tab.tries, !.ssh = None].attempt = tab.attempt + 1
      BY CalmTypes, AttemptsOf
    <3>2. tab'.attempt # tab.attempt + 1
      BY <2>1, CalmTypes DEF Fresh, Attempts
    <3> QED
      BY <3>1, <3>2
  <2>3. lockedRef /\ tab'.waiting = setting.resumes /\ tab'.retry = ~setting.resumes
    BY <2>1, <2>2, CalmTypes, LostFields
  <2> QED
    BY <2>1, <2>3, CalmTypes, LockedShows DEF Kept
<1>6. CASE Retry
  <2>1. tab' = Offered(tab) \/ tab' = [Again(tab) EXCEPT !.ssh = None]
    BY <1>6 DEF Retry
  <2>2. view' = view
    BY <1>6 DEF Retry
  <2>3. CASE tab' = Offered(tab)
    BY <2>3, CalmTypes, LostFields DEF KeptInv, Kept
  <2>4. CASE tab' = [Again(tab) EXCEPT !.ssh = None]
    BY <2>2, <2>4, CalmTypes, AgainFields DEF KeptInv, Fresh, Attempts
  <2> QED
    BY <2>1, <2>3, <2>4
<1>7. CASE Close \/ Cancel
  <2>1. ~tab'.present
    BY <1>7, CalmTypes DEF Close, Cancel, CloseTab, Removed, Tabs
  <2> QED
    BY <2>1 DEF KeptInv
<1>8. CASE Accept
  BY <1>8 DEF Accept, KeptInv, Kept, TypeOK, AskedTypes, Dialogs
<1>9. CASE Lock \/ Unlock \/ Reload
  BY <1>9, KeptFrame DEF Lock, Unlock, Reload, Connecting, Flying, Current
<1> QED
  BY <1>1, <1>2, <1>3, <1>4, <1>5, <1>6, <1>7, <1>8, <1>9 DEF Reloading, User

LEMMA KeptStays ==
  ASSUME KeptStrong, [Next]_vars
  PROVE  KeptStrong'
<1>1. /\ TypeOK /\ TypeOK' /\ Attempts /\ Attempts' /\ (Calm => CalmInv)
      /\ (gone => ~tab.present) /\ KeptInv /\ CalmStrong'
  BY CalmStays DEF KeptStrong, CalmStrong, CallInv
<1> SUFFICES KeptInv'
  BY <1>1 DEF KeptStrong
<1>2. CASE UNCHANGED vars
  BY <1>1, <1>2, KeptFrame DEF vars, bridge, app, shell, react, asked, Connecting, Flying, Current
<1>3. CASE Begins
  <2>1. Connecting'
    BY <1>1, <1>3, BeginsOne
  <2> QED
    BY <2>1 DEF KeptInv, Kept
<1>4. CASE Next /\ ~Begins
  <2>1. NoneBegins
    BY <1>1, <1>4, NoneBeginsElse
  <2>2. CASE Render
    BY <1>1, <1>4, <2>1, <2>2, KeptRender
  <2>3. ASSUME NEW n \in Calls, Backend(n) PROVE KeptInv'
    BY <1>1, <2>3, KeptBackend
  <2>4. ASSUME NEW n \in Calls, Take(n) PROVE KeptInv'
    BY <1>1, <2>4, KeptTakes
  <2>5. ASSUME NEW n \in Calls, SessionEnds(n) PROVE KeptInv'
    BY <1>1, <2>5, KeptFrame
       DEF SessionEnds, bridge, app, shell, react, asked, Connecting, Flying, Current
  <2>6. CASE Locking
    BY <1>1, <2>6, KeptLocking
  <2>7. ASSUME \/ SocketCloses \/ AcceptDone \/ Reloading \/ User
               \/ \E n \in Calls : TimerFires(n)
        PROVE  KeptInv'
    BY <1>1, <2>1, <2>7, KeptElse
  <2> QED
    BY <1>4, <2>2, <2>3, <2>4, <2>5, <2>6, <2>7 DEF Next
<1> QED
  BY <1>2, <1>3, <1>4

\* The invariant behind a tab that goes on.
THEOREM KeptInductive == Safety => []KeptStrong
<1>1. Init => KeptInv
  BY DEF Init, KeptInv, Fresh, NoView
<1> QED
  BY <1>1, CalmInductive, KeptStays, PTL DEF Safety, KeptStrong

\* A tab that is shown without a connection, to a user who answers questions in time, is
\* connecting, has a timer or a button, asks, or waits for a vault that is locked
\* (NotStranded).
THEOREM TabsAreNotStranded == Spec => []NotStranded
<1>1. KeptStrong => NotStranded
  <2> SUFFICES ASSUME KeptStrong, Attended, ~Dirty, view.mounted
               PROVE  \/ view.sid # None
                      \/ Connecting
                      \/ tab.timer \in timers
                      \/ tab.waiting /\ (screen.locked \/ lock.st # "idle" \/ setting.overlaps)
                      \/ tab.retry
                      \/ dialog.st # "none"
    BY DEF NotStranded, Attended, Connecting, Flying
  <2>1. tab.present /\ Fresh /\ painted = screen
    BY DEF Dirty, Starting, Leaving, Wanted, Fresh
  <2>2. Kept
    BY <2>1 DEF KeptStrong, KeptInv
  <2> QED
    BY <2>1, <2>2 DEF Kept
<1> QED
  BY <1>1, KeptInductive, PTL DEF Spec
===============================================================================
