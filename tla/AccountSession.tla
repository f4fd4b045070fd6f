---------------------------- MODULE AccountSession ----------------------------
(***************************************************************************)
(* The account session of internal/syncclient/client.go: authorizedRequest,*)
(* ensureFreshToken and clearSessionOnUnauthorized as run by concurrent    *)
(* operations, and the operations that write the persisted session         *)
(* themselves (Sync, SetDeviceName, Logout, Login).                        *)
(*                                                                         *)
(* A session is the pair of tokens the server issued together, and is      *)
(* represented by the number of that pair: a later pair has a larger       *)
(* number and a later AccessExpiresAt; 0 is a session without tokens.  The *)
(* server is external: it keeps one valid refresh token, replaces it each  *)
(* time it is used, and answers 401 to any other.                          *)
(***************************************************************************)
EXTENDS Naturals

CONSTANTS
  Procs,      \* operations that can be in progress at a time
  NoProc,     \* refreshMu is free
  Settings,   \* the settings considered, one of which every behaviour has
  MaxPairs    \* bound on the token pairs the server issues

AllOps == {"request", "sync", "rename", "login", "logout"}

(***************************************************************************)
(* A setting says which operations are used, how many goroutines there are *)
(* (procs), how many token pairs the server issues, whether requests and   *)
(* responses can be lost and the vault be locked when it is read or        *)
(* written (lossy), and whether no operation outlives the access token     *)
(* issued after it began (short).                                          *)
(***************************************************************************)
SettingSet ==
  [ops : SUBSET AllOps, procs : SUBSET Procs, pairs : 1..MaxPairs,
   lossy : BOOLEAN, short : BOOLEAN]

ASSUME SettingAssumption == Settings \subseteq SettingSet
ASSUME BoundAssumption == MaxPairs \in Nat \ {0}
ASSUME ProcAssumption == NoProc \notin Procs

VARIABLES
  setting,    \* one of Settings, the same throughout
  stored,     \* the session in the vault (account:session)
  copy,       \* each operation's own AccountSession
  op,         \* what each operation is
  pc,         \* where it is
  last,       \* a 401 to its next request is final
  born,       \* the number of pairs issued when it began
  mutex,      \* who holds refreshMu
  near,       \* pairs up to this one are within tokenRefreshLeeway of expiry
  current,    \* server: the pair whose refresh token is valid, 0 if none
  issued,     \* server: the number of pairs issued so far
  spent,      \* server: pairs whose refresh token was exchanged for a new one
  reused      \* server: a spent refresh token was presented again

client == <<stored, copy, op, pc, last, born, mutex>>
server == <<current, issued, spent, reused>>
vars == <<setting, client, near, server>>

Pairs == 1..MaxPairs
Sessions == 0..MaxPairs

(***************************************************************************)
(*   idle      no operation                                                *)
(*   request   about to call authorizedRequest                             *)
(*   wait      in ensureFreshToken, waiting for refreshMu                  *)
(*   refresh   holding it, about to present the refresh token              *)
(*   save      holding it, with the new tokens, about to persist them      *)
(*   send      about to make the request itself                            *)
(*   clear     about to clear the session after a 401                      *)
(*   finish    the operation succeeded      abort   it failed              *)
(*   write     Login and Logout, about to write the session                *)
(***************************************************************************)
Points == {"idle", "request", "wait", "refresh", "save", "send", "clear",
           "finish", "abort", "login", "logout", "write"}

TypeOK ==
  /\ setting \in Settings
  /\ stored \in Sessions
  /\ copy \in [Procs -> Sessions]
  /\ op \in [Procs -> AllOps]
  /\ pc \in [Procs -> Points]
  /\ last \in [Procs -> BOOLEAN]
  /\ born \in [Procs -> Sessions]
  /\ mutex \in Procs \cup {NoProc}
  /\ near \in Sessions
  /\ current \in Sessions
  /\ issued \in Pairs
  /\ spent \subseteq Sessions
  /\ reused \in BOOLEAN

\* A device that has logged in once.
Init ==
  /\ setting \in Settings
  /\ stored = 1
  /\ copy = [p \in Procs |-> 0]
  /\ op = [p \in Procs |-> "request"]
  /\ pc = [p \in Procs |-> "idle"]
  /\ last = [p \in Procs |-> FALSE]
  /\ born = [p \in Procs |-> 0]
  /\ mutex = NoProc
  /\ near = 0
  /\ current = 1
  /\ issued = 1
  /\ spent = {}
  /\ reused = FALSE

Goto(p, point) == pc' = [pc EXCEPT ![p] = point]

\* The operation returns; its local variables are gone.
Return(p) ==
  /\ Goto(p, "idle")
  /\ copy' = [copy EXCEPT ![p] = 0]
  /\ op' = [op EXCEPT ![p] = "request"]
  /\ last' = [last EXCEPT ![p] = FALSE]
  /\ born' = [born EXCEPT ![p] = 0]

-------------------------------------------------------------------------------
\* Every operation begins by loading the persisted session; it is empty when the vault is locked
\* (loadAccountSession; Sync, which loads the profile first, does not begin).
Begin(p, o) ==
  /\ pc[p] = "idle"
  /\ op' = [op EXCEPT ![p] = o]
  /\ \E loaded \in {stored} \cup IF setting.lossy /\ o # "sync" THEN {0} ELSE {} :
       copy' = [copy EXCEPT ![p] = loaded]
  /\ born' = [born EXCEPT ![p] = issued]
  /\ Goto(p, IF o \in {"login", "logout"} THEN o ELSE "request")
  /\ UNCHANGED <<stored, last, mutex, setting, near, server>>

\* The head of authorizedRequest, up to the first check of ensureFreshToken.
\* SetDeviceName makes no request when it is not logged in.
Authorize(p) ==
  /\ pc[p] = "request"
  /\ Goto(p, IF copy[p] = 0 THEN (IF op[p] = "rename" THEN "finish" ELSE "abort")
             ELSE IF copy[p] > near THEN "send" ELSE "wait")
  /\ last' = [last EXCEPT ![p] = FALSE]
  /\ UNCHANGED <<stored, copy, op, born, mutex, setting, near, server>>

\* (Mutated form: the vault is not read again.)
AdoptNothing(p) == FALSE

\* ensureFreshToken: is the session in the vault newer than ours?
Adoptable(p) == stored # 0 /\ stored > copy[p]

\* ensureFreshToken takes refreshMu, reads the vault again, and adopts what it
\* finds if somebody else has refreshed; a locked vault has nothing to adopt.  (The second
\* look at the expiry that follows in the code decides nothing: our own copy has not changed.)
Acquire(p) ==
  /\ pc[p] = "wait"
  /\ mutex = NoProc
  /\ \/ /\ Adoptable(p)
        /\ copy' = [copy EXCEPT ![p] = stored]
        /\ Goto(p, "send")
        /\ UNCHANGED mutex
     \/ /\ ~Adoptable(p) \/ setting.lossy
        /\ mutex' = p
        /\ Goto(p, "refresh")
        /\ UNCHANGED copy
  /\ UNCHANGED <<stored, op, last, born, setting, near, server>>

\* The server exchanges the refresh token of its current pair for a new pair (at the
\* bound setting.pairs it has ended the session instead, as after a revocation).
Served(g) == g = current /\ issued < setting.pairs

\* What the server does with the refresh token of pair g: it answers with a new
\* pair, or with 401.
Exchange(g) ==
  /\ reused' = (reused \/ g \in spent)
  /\ IF Served(g)
       THEN /\ issued' = issued + 1
            /\ current' = issued + 1
            /\ spent' = spent \cup {g}
       ELSE UNCHANGED <<issued, current, spent>>

Refresh(p) ==
  /\ pc[p] = "refresh"
  /\ Exchange(copy[p])
  /\ IF Served(copy[p])
       THEN /\ copy' = [copy EXCEPT ![p] = issued + 1]
            /\ Goto(p, "save")
            /\ UNCHANGED mutex
       ELSE /\ Goto(p, "clear")
            /\ mutex' = NoProc
            /\ UNCHANGED copy
  /\ UNCHANGED <<stored, op, last, born, setting, near>>

\* (Mutated form: the error path keeps refreshMu.)
RefreshLostLocked(p) ==
  /\ setting.lossy
  /\ pc[p] = "refresh"
  /\ Exchange(copy[p]) \/ UNCHANGED server
  /\ Goto(p, "abort")
  /\ UNCHANGED <<stored, copy, op, last, born, mutex, setting, near>>

\* The request does not reach the server, or its answer does not reach us.
RefreshLost(p) ==
  /\ setting.lossy
  /\ pc[p] = "refresh"
  /\ Exchange(copy[p]) \/ UNCHANGED server
  /\ mutex' = NoProc
  /\ Goto(p, "abort")
  /\ UNCHANGED <<stored, copy, op, last, born, setting, near>>

\* The new tokens are persisted; if that fails, the operation has them and the vault has not.
SaveRefreshed(p) ==
  /\ pc[p] = "save"
  /\ mutex' = NoProc
  /\ \/ /\ stored' = copy[p]
        /\ last' = [last EXCEPT ![p] = TRUE]
        /\ Goto(p, "send")
     \/ /\ setting.lossy
        /\ Goto(p, "abort")
        /\ UNCHANGED <<stored, last>>
  /\ UNCHANGED <<copy, op, born, setting, near, server>>

\* The request is accepted.  Sync makes several, one after the other.
Accepted(p) ==
  /\ pc[p] = "send"
  /\ \/ Goto(p, "finish")
     \/ op[p] = "sync" /\ Goto(p, "request")
  /\ UNCHANGED <<stored, copy, op, last, born, mutex, setting, near, server>>

\* (Mutated form: any 401 is final.)
ClearAtOnce(p) == TRUE

\* After the first 401 the token is refreshed, by force, and the request made once
\* more; a 401 to a request made with a token just refreshed is final.
Final(p) == last[p]

\* The server may refuse an access token that is not its latest, or has expired.
Unauthorized(p) ==
  /\ pc[p] = "send"
  /\ copy[p] # current \/ copy[p] <= near
  /\ last' = [last EXCEPT ![p] = TRUE]
  /\ Goto(p, IF Final(p) THEN "clear" ELSE "wait")
  /\ UNCHANGED <<stored, copy, op, born, mutex, setting, near, server>>

SendLost(p) ==
  /\ setting.lossy
  /\ pc[p] = "send"
  /\ Goto(p, "abort")
  /\ UNCHANGED <<stored, copy, op, last, born, mutex, setting, near, server>>

\* What a write leaves in the vault, which may be locked.
Written(value) == {value} \cup IF setting.lossy THEN {stored} ELSE {}

\* clearSessionOnUnauthorized overwrites whatever session the vault holds by now.
Clear(p) ==
  /\ pc[p] = "clear"
  /\ copy' = [copy EXCEPT ![p] = 0]
  /\ stored' \in Written(0)
  /\ Goto(p, "abort")
  /\ UNCHANGED <<op, last, born, mutex, setting, near, server>>

\* (Mutated form: every operation persists its copy.)
EndSaves(p) ==
  /\ pc[p] \in {"finish", "abort"}
  /\ stored' = copy[p]
  /\ Return(p)
  /\ UNCHANGED <<mutex, setting, near, server>>

\* The end: Sync's deferred function persists its copy of the session whatever
\* happened, SetDeviceName (and InitializeSync) only after a success.
End(p) ==
  /\ pc[p] \in {"finish", "abort"}
  /\ stored' \in IF op[p] = "sync" \/ (op[p] = "rename" /\ pc[p] = "finish")
                   THEN Written(copy[p]) ELSE {stored}
  /\ Return(p)
  /\ UNCHANGED <<mutex, setting, near, server>>

-------------------------------------------------------------------------------
\* Logout tells the server if it can, and forgets the tokens in any case.
Logout(p) ==
  /\ pc[p] = "logout"
  /\ \/ copy[p] # 0 /\ copy[p] = current /\ current' = 0
     \/ (copy[p] # current \/ copy[p] <= near \/ setting.lossy) /\ UNCHANGED current
  /\ copy' = [copy EXCEPT ![p] = 0]
  /\ Goto(p, "write")
  /\ UNCHANGED <<stored, op, last, born, mutex, setting, near, issued, spent, reused>>

Login(p) ==
  /\ pc[p] = "login"
  /\ \/ /\ issued < setting.pairs
        /\ issued' = issued + 1
        /\ current' = issued + 1
        /\ copy' = [copy EXCEPT ![p] = issued + 1]
        /\ Goto(p, "write")
     \/ /\ Goto(p, "abort")          \* wrong password, no connection
        /\ UNCHANGED <<issued, current, copy>>
  /\ UNCHANGED <<stored, op, last, born, mutex, setting, near, spent, reused>>

WriteSession(p) ==
  /\ pc[p] = "write"
  /\ stored' \in Written(copy[p])
  /\ Return(p)
  /\ UNCHANGED <<mutex, setting, near, server>>

\* The access tokens issued so far come within a minute of their expiry.
Expire ==
  /\ near < issued
  /\ issued < setting.pairs
  /\ setting.short => \A p \in Procs : pc[p] # "idle" => born[p] = issued
  /\ near' = issued
  /\ UNCHANGED <<setting, client, server>>

-------------------------------------------------------------------------------
Step(p) ==
  \/ Authorize(p) \/ Acquire(p) \/ Refresh(p) \/ RefreshLost(p) \/ SaveRefreshed(p)
  \/ Accepted(p) \/ Unauthorized(p) \/ SendLost(p) \/ Clear(p) \/ End(p)
  \/ Logout(p) \/ Login(p) \/ WriteSession(p)

Next ==
  \/ \E p \in setting.procs, o \in setting.ops : Begin(p, o)
  \/ \E p \in Procs : Step(p)
  \/ Expire

Safety == Init /\ [][Next]_vars

\* A request ends within the 30 seconds of Client.http, refreshMu is granted to
\* every goroutine that waits for it (Go's mutex hands over to a waiter after a
\* millisecond), and Sync makes finitely many requests.
Fairness ==
  \A p \in Procs :
    /\ WF_vars(Step(p))
    /\ SF_vars(Acquire(p))
    /\ SF_vars(pc[p] = "send" /\ Step(p) /\ pc'[p] # "request")

Spec == Safety /\ Fairness

-------------------------------------------------------------------------------
(***************************************************************************)
(* Properties                                                              *)
(***************************************************************************)

\* Only operations that neither write the session nor lose a message, and an unlocked vault.
Quiet == setting.ops = {"request"} /\ ~setting.lossy /\ setting.short

\* When operations only make requests, no rotating refresh token is spent twice
\* (Client.refreshMu and the second reading of the vault in ensureFreshToken).
NoTokenReuse == Quiet => ~reused

\* Operations that only make requests never sign the device out while the server
\* would still serve it (clearSessionOnUnauthorized after a single, transient 401).
StaysSignedIn == Quiet => stored # 0

\* Nor does the persisted session go back to tokens that have been replaced.
NoStaleSession ==
  [][Quiet => stored' >= stored \/ stored' = 0]_stored

\* Every operation ends, whatever is lost, and however many wait for refreshMu.
OperationsEnd == \A p \in Procs : pc[p] # "idle" ~> pc[p] = "idle"

===============================================================================
