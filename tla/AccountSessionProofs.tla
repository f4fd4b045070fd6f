------------------------- MODULE AccountSessionProofs -------------------------
(***************************************************************************)
(* Proofs about AccountSession: type correctness in every setting, and,    *)
(* for any number of operations that only make requests (Quiet), that no   *)
(* refresh token is spent twice and that nobody is signed out.             *)
(*                                                                         *)
(* Neither of the two is inductive.  Whoever is about to refresh must hold *)
(* the server's latest pair (Locking, Waiting), which depends on the vault *)
(* being behind the server only while refreshMu is held for the save       *)
(* (Vault); and that a 401 after a refresh cannot happen depends on the    *)
(* operation having begun before that pair was issued, hence (short) on    *)
(* its being fresh still (Fresh).                                          *)
(***************************************************************************)
EXTENDS AccountSession, TLAPS

Requests ==
  \A p \in Procs :
    /\ op[p] = "request"
    /\ pc[p] \notin {"login", "logout", "write", "clear"}

Locking == \A p \in Procs : pc[p] \in {"refresh", "save"} <=> mutex = p

Server ==
  /\ current = issued
  /\ \A g \in spent : g < issued
  /\ issued <= near + 1
  /\ near <= issued
  /\ near = issued => issued < setting.pairs

Vault ==
  /\ stored # 0
  /\ stored <= issued
  /\ stored # issued => \E p \in Procs : pc[p] = "save"

Waiting ==
  \A p \in Procs :
    /\ pc[p] = "wait" => copy[p] <= near
    /\ pc[p] = "refresh" => copy[p] = issued /\ near = issued
    /\ pc[p] = "send" => copy[p] >= born[p]
    /\ pc[p] = "wait" /\ last[p] => copy[p] >= born[p]

Fresh ==
  \A p \in Procs :
    /\ copy[p] <= issued
    /\ born[p] <= issued
    /\ pc[p] # "idle" => born[p] = issued \/ near < issued
    /\ pc[p] = "save" \/ (pc[p] = "send" /\ last[p]) =>
         copy[p] = issued /\ near < issued /\ born[p] < issued

Unspent == ~reused

IInv ==
  /\ TypeOK
  /\ Requests
  /\ Locking
  /\ Server
  /\ Vault
  /\ Waiting
  /\ Fresh
  /\ Unspent

-------------------------------------------------------------------------------
\* What a setting consists of.
LEMMA SettingTypes ==
  ASSUME TypeOK
  PROVE  /\ setting.ops \subseteq AllOps
         /\ setting.procs \subseteq Procs
         /\ setting.pairs \in 1..MaxPairs
BY SettingAssumption DEF TypeOK, SettingSet

LEMMA InitTypeOK == Init => TypeOK
<1> USE BoundAssumption DEF Init
<1>1. Init => last \in [Procs -> BOOLEAN] /\ reused \in BOOLEAN
  BY Zenon
<1>2. Init => 1 \in Pairs /\ Pairs \subseteq Sessions /\ 0 \in Sessions
  BY DEF Pairs, Sessions
<1>. QED
  BY <1>1, <1>2, Zenon DEF TypeOK, Points, AllOps

\* What the server answers stays within its bound.
LEMMA ExchangeTypes ==
  ASSUME TypeOK, NEW g, Exchange(g) \/ UNCHANGED server
  PROVE  /\ issued' \in Pairs
         /\ current' \in Sessions
         /\ spent' \subseteq Sessions
         /\ Served(g) => issued + 1 \in Sessions
<1>1. Pairs \subseteq Sessions
  BY DEF Pairs, Sessions
<1>2. ASSUME Served(g) PROVE issued + 1 \in Pairs /\ g \in Sessions
  BY <1>2, BoundAssumption, SettingTypes DEF Served, TypeOK, Pairs, Sessions
<1>. QED
  BY <1>1, <1>2, Zenon DEF Exchange, TypeOK, server

\* The types of the two flags, and of everything else.
LEMMA NextTypeOK == TypeOK /\ [Next]_vars => TypeOK'
<1> USE BoundAssumption, SettingAssumption, ProcAssumption
<1> SUFFICES ASSUME TypeOK, [Next]_vars PROVE TypeOK'
  OBVIOUS
<1> USE DEF TypeOK
<1>0. Pairs \subseteq Sessions /\ 0 \in Sessions
  BY DEF Pairs, Sessions
<1>1. last' \in [Procs -> BOOLEAN] /\ reused' \in BOOLEAN
  <2>1. ASSUME NEW p \in Procs, Step(p)
        PROVE  last' \in [Procs -> BOOLEAN] /\ reused' \in BOOLEAN
    BY <2>1, Zenon
    DEF Step, Authorize, Acquire, Refresh, RefreshLost, SaveRefreshed, Accepted,
        Unauthorized, SendLost, Clear, End, Logout, Login, WriteSession, Exchange,
        Return, server
  <2>2. ASSUME NEW p \in Procs, NEW o \in AllOps, Begin(p, o)
        PROVE  last' \in [Procs -> BOOLEAN] /\ reused' \in BOOLEAN
    BY <2>2, Zenon DEF Begin, server
  <2>3. CASE Expire
    BY <2>3, Zenon DEF Expire, client, server
  <2>4. CASE UNCHANGED vars
    BY <2>4, Zenon DEF vars, client, server
  <2>. QED
    BY <2>1, <2>2, <2>3, <2>4, SettingTypes, Zenon DEF Next
<1>2. ASSUME NEW p \in Procs, NEW o \in AllOps, Begin(p, o) PROVE TypeOK'
  <2>0. PICK loaded \in {stored, 0} : copy' = [copy EXCEPT ![p] = loaded]
    BY <1>2 DEF Begin
  <2>1. copy' \in [Procs -> Sessions] /\ op' \in [Procs -> AllOps]
        /\ born' \in [Procs -> Sessions]
    BY <1>0, <1>2, <2>0, Zenon DEF Begin
  <2>2. pc' \in [Procs -> Points]
    BY <1>2, Zenon DEF Begin, Goto, Points
  <2>. QED
    BY <1>1, <1>2, <2>1, <2>2, Zenon DEF Begin, server
<1>3. ASSUME NEW p \in Procs, Authorize(p) PROVE TypeOK'
  BY <1>1, <1>3 DEF Authorize, Goto, server, Points
<1>4. ASSUME NEW p \in Procs, Acquire(p) PROVE TypeOK'
  BY <1>1, <1>4 DEF Acquire, Goto, server, Points
<1>5. ASSUME NEW p \in Procs, Refresh(p) PROVE TypeOK'
  <2>1. pc' \in [Procs -> Points] /\ mutex' \in Procs \cup {NoProc}
    BY <1>5, Zenon DEF Refresh, Goto, Points
  <2>2. copy' \in [Procs -> Sessions]
    BY <1>5, ExchangeTypes, Zenon DEF Refresh
  <2>. QED
    BY <1>1, <1>5, <2>1, <2>2, ExchangeTypes, Zenon DEF Refresh
<1>6. ASSUME NEW p \in Procs, RefreshLost(p) PROVE TypeOK'
  <2>1. pc' \in [Procs -> Points] /\ mutex' \in Procs \cup {NoProc}
    BY <1>6, Zenon DEF RefreshLost, Goto, Points
  <2>. QED
    BY <1>1, <1>6, <2>1, ExchangeTypes, Zenon DEF RefreshLost
<1>7. ASSUME NEW p \in Procs, SaveRefreshed(p) PROVE TypeOK'
  BY <1>1, <1>7 DEF SaveRefreshed, Goto, server, Points
<1>8. ASSUME NEW p \in Procs, Accepted(p) \/ Unauthorized(p) \/ SendLost(p)
      PROVE  TypeOK'
  BY <1>1, <1>8 DEF Accepted, Unauthorized, SendLost, Goto, server, Points
<1>9. ASSUME NEW p \in Procs, Clear(p) PROVE TypeOK'
  BY <1>1, <1>9 DEF Clear, Written, Goto, server, Points, Sessions
<1>10. ASSUME NEW p \in Procs, End(p) \/ WriteSession(p) PROVE TypeOK'
  <2>0. Return(p)
    BY <1>10 DEF End, WriteSession
  <2>1. /\ pc' \in [Procs -> Points] /\ copy' \in [Procs -> Sessions]
        /\ op' \in [Procs -> AllOps] /\ born' \in [Procs -> Sessions]
    <3>1. "idle" \in Points /\ "request" \in AllOps
      BY DEF Points, AllOps
    <3>. QED
      BY <1>0, <2>0, <3>1, Zenon DEF Return, Goto
  <2>2. stored' \in Sessions
    BY <1>10 DEF End, WriteSession, Written
  <2>. QED
    BY <1>1, <1>10, <2>1, <2>2, Zenon DEF End, WriteSession, server
<1>11. ASSUME NEW p \in Procs, Logout(p) PROVE TypeOK'
  BY <1>1, <1>11 DEF Logout, Goto, Points, Sessions
<1>12. ASSUME NEW p \in Procs, Login(p) PROVE TypeOK'
  BY <1>1, <1>12, SettingTypes DEF Login, Goto, Points, Sessions, Pairs
<1>13. CASE Expire
  BY <1>1, <1>13 DEF Expire, client, server, Sessions, Pairs
<1>14. CASE UNCHANGED vars
  BY <1>1, <1>14 DEF vars, client, server
<1>. QED
  BY <1>2, <1>3, <1>4, <1>5, <1>6, <1>7, <1>8, <1>9, <1>10, <1>11, <1>12, <1>13,
     <1>14, SettingTypes
  DEF Next, Step

\* Type correctness, whatever the operations and the network do.
THEOREM TypeCorrect == Safety => []TypeOK
BY InitTypeOK, NextTypeOK, PTL DEF Safety

-------------------------------------------------------------------------------
(***************************************************************************)
(* Operations that only make requests, over a network that loses nothing.  *)
(***************************************************************************)

LEMMA InitIInv == Init => IInv
<1>. SUFFICES ASSUME Init PROVE IInv
  OBVIOUS
<1>1. TypeOK
  BY InitTypeOK
<1>2. Locking
  BY ProcAssumption DEF Init, Locking
<1>3. Server
  BY BoundAssumption DEF Init, Server
<1>4. Fresh /\ Vault /\ Waiting
  BY DEF Init, Fresh, Vault, Waiting
<1>. QED
  BY <1>1, <1>2, <1>3, <1>4 DEF Init, IInv, Requests, Unspent

\* When nobody holds refreshMu the vault has the server's latest pair.
LEMMA VaultCurrent ==
  ASSUME IInv, mutex = NoProc
  PROVE  stored = issued
BY ProcAssumption DEF IInv, Locking, Vault

\* Whoever is about to refresh holds that pair, and the server will take it.
LEMMA RefreshServed ==
  ASSUME IInv, NEW p \in Procs, pc[p] = "refresh"
  PROVE  Served(copy[p]) /\ copy[p] \notin spent
<1>1. issued \in Nat
  BY DEF IInv, TypeOK, Pairs
<1>2. copy[p] = issued /\ near = issued
  BY DEF IInv, Waiting
<1>. QED
  BY <1>1, <1>2 DEF IInv, Server, Served

\* A request made with a token that was just refreshed is not refused.
LEMMA FirstRefusal ==
  ASSUME IInv, NEW p \in Procs, Unauthorized(p)
  PROVE  ~last[p] /\ copy[p] <= near
<1>1. copy[p] \in Nat /\ issued \in Nat /\ near \in Nat /\ last[p] \in BOOLEAN
  BY DEF IInv, TypeOK, Sessions, Pairs
<1>2. copy[p] # issued \/ copy[p] <= near
  BY DEF IInv, Server, Unauthorized
<1>3. copy[p] <= near
  BY <1>1, <1>2 DEF IInv, Fresh, Server
<1>4. pc[p] = "send"
  BY DEF Unauthorized
<1>5. ~last[p]
  <2>. SUFFICES ASSUME last[p] PROVE FALSE
    OBVIOUS
  <2>1. copy[p] = issued /\ near < issued
    BY <1>4, Zenon DEF IInv, Fresh
  <2>. QED
    BY <1>1, <1>3, <2>1
<1>. QED
  BY <1>3, <1>5


\* The setting is the same throughout.
LEMMA QuietKept ==
  ASSUME [Next]_vars
  PROVE  Quiet' = Quiet
<1>1. setting' = setting
  BY Zenon
  DEF Next, Begin, Step, Authorize, Acquire, Refresh, RefreshLost, SaveRefreshed, Accepted,
      Unauthorized, SendLost, Clear, End, Logout, Login, WriteSession, Expire, vars
<1>. QED
  BY <1>1, Zenon DEF Quiet

LEMMA NextIInv ==
  ASSUME Quiet, IInv, [Next]_vars
  PROVE  IInv'
<1> USE ProcAssumption, BoundAssumption
<1>0. TypeOK'
  BY NextTypeOK DEF IInv
<1>n. /\ stored \in Nat /\ near \in Nat /\ issued \in Nat
      /\ \A q \in Procs : copy[q] \in Nat /\ born[q] \in Nat
  BY DEF IInv, TypeOK, Sessions, Pairs
<1>t. /\ pc \in [Procs -> Points] /\ op \in [Procs -> AllOps]
      /\ copy \in [Procs -> Sessions] /\ born \in [Procs -> Sessions]
      /\ last \in [Procs -> BOOLEAN] /\ mutex \in Procs \cup {NoProc}
  BY DEF IInv, TypeOK
<1> DEFINE Kept == /\ Requests' /\ Locking' /\ Server' /\ Vault' /\ Waiting' /\ Fresh'
                   /\ Unspent'
<1>1. ASSUME NEW p \in Procs, NEW o \in setting.ops, Begin(p, o) PROVE Kept
  <2>1. Requests' /\ Locking'
    BY <1>n, <1>t, <1>1 DEF IInv, Requests, Locking, Quiet, Begin, Goto, server
  <2>2. Server' /\ Unspent'
    BY <1>n, <1>t, <1>1 DEF IInv, Server, Unspent, Begin, Goto, server
  <2>3. Vault'
    BY <1>n, <1>t, <1>1 DEF IInv, Vault, Begin, Goto, server
  <2>4. Waiting'
    BY <1>n, <1>t, <1>1 DEF IInv, Waiting, Server, Begin, Goto, server
  <2>5. Fresh'
    BY <1>n, <1>t, <1>1 DEF IInv, Fresh, Server, Vault, Quiet, Begin, Goto, server
  <2>. QED
    BY <2>1, <2>2, <2>3, <2>4, <2>5
<1>2. ASSUME NEW p \in Procs, Authorize(p) PROVE Kept
  <2>1. Requests' /\ Locking'
    BY <1>n, <1>t, <1>2 DEF IInv, Requests, Locking, Quiet, Authorize, Goto, server
  <2>2. Server' /\ Unspent'
    BY <1>n, <1>t, <1>2 DEF IInv, Server, Unspent, Authorize, Goto, server
  <2>3. Vault'
    BY <1>n, <1>t, <1>2 DEF IInv, Vault, Authorize, Goto, server
  <2>4. Waiting'
    BY <1>n, <1>t, <1>2 DEF IInv, Waiting, Fresh, Server, Authorize, Goto, server
  <2>5. Fresh'
    BY <1>n, <1>t, <1>2 DEF IInv, Fresh, Server, Authorize, Goto, server
  <2>. QED
    BY <2>1, <2>2, <2>3, <2>4, <2>5
<1>3. ASSUME NEW p \in Procs, Acquire(p) PROVE Kept
  <2>1. Requests' /\ Locking'
    BY <1>n, <1>t, <1>3 DEF IInv, Requests, Locking, Quiet, Acquire, Goto, server
  <2>2. Server' /\ Unspent'
    BY <1>n, <1>t, <1>3 DEF IInv, Server, Unspent, Acquire, Goto, server
  <2>3. Vault'
    BY <1>n, <1>t, <1>3 DEF IInv, Vault, Acquire, Goto, server
  <2>4. Waiting'
    BY <1>n, <1>t, <1>3, VaultCurrent
    DEF IInv, Waiting, Fresh, Vault, Server, Adoptable, Quiet, Acquire, Goto, server
  <2>5. Fresh'
    BY <1>n, <1>t, <1>3, VaultCurrent
    DEF IInv, Fresh, Waiting, Vault, Server, Adoptable, Quiet, Acquire, Goto, server
  <2>. QED
    BY <2>1, <2>2, <2>3, <2>4, <2>5
<1>4. ASSUME NEW p \in Procs, Refresh(p) PROVE Kept
  <2>1. Requests' /\ Locking'
    BY <1>n, <1>t, <1>4, RefreshServed DEF IInv, Requests, Locking, Quiet, Refresh, Exchange, Served, Goto, server
  <2>2. Server' /\ Unspent'
    <3>1. /\ copy[p] = issued /\ near = issued
          /\ issued' = issued + 1 /\ current' = issued + 1 /\ near' = near
          /\ spent' = spent \cup {issued} /\ issued + 1 \in Pairs
      BY <1>0, <1>4, RefreshServed DEF IInv, Waiting, TypeOK, Refresh, Exchange, Served
    <3>2. reused' = (reused \/ copy[p] \in spent)
      BY <1>4 DEF Refresh, Exchange
    <3>3. Unspent'
      <4>1. copy[p] \notin spent
        BY <1>4, RefreshServed DEF Refresh
      <4>. QED
        BY <3>2, <4>1, Zenon DEF IInv, Unspent
    <3>4. \A g \in spent' : g < issued'
      BY <1>n, <3>1 DEF IInv, Server, TypeOK, Sessions
    <3>5. setting'.pairs \in Nat /\ issued' <= setting'.pairs
      BY <1>n, <1>4, <3>1, RefreshServed, SettingTypes DEF IInv, Served, Refresh
    <3>. QED
      BY <1>n, <3>1, <3>3, <3>4, <3>5 DEF Server
  <2>3. Vault'
    BY <1>n, <1>t, <1>4, RefreshServed DEF IInv, Vault, Refresh, Exchange, Served, Goto, server
  <2>4. Waiting'
    BY <1>n, <1>t, <1>4, RefreshServed DEF IInv, Waiting, Fresh, Locking, Server, Refresh, Exchange, Served, Goto, server
  <2>5. Fresh'
    BY <1>n, <1>t, <1>4, RefreshServed DEF IInv, Waiting, Fresh, Locking, Server, Refresh, Exchange, Served, Goto, server
  <2>. QED
    BY <2>1, <2>2, <2>3, <2>4, <2>5
<1>5. ASSUME NEW p \in Procs, SaveRefreshed(p) PROVE Kept
  <2>1. Requests' /\ Locking'
    BY <1>n, <1>t, <1>5 DEF IInv, Requests, Locking, Quiet, SaveRefreshed, Goto, server
  <2>2. Server' /\ Unspent'
    BY <1>n, <1>t, <1>5 DEF IInv, Server, Unspent, Quiet, SaveRefreshed, Goto, server
  <2>3. Vault'
    BY <1>n, <1>t, <1>5 DEF IInv, Vault, Fresh, TypeOK, Pairs, Quiet, SaveRefreshed, Goto, server
  <2>4. Waiting'
    BY <1>n, <1>t, <1>5 DEF IInv, Waiting, Fresh, Server, Quiet, SaveRefreshed, Goto, server
  <2>5. Fresh'
    BY <1>n, <1>t, <1>5 DEF IInv, Fresh, Server, Quiet, SaveRefreshed, Goto, server
  <2>. QED
    BY <2>1, <2>2, <2>3, <2>4, <2>5
<1>6. ASSUME NEW p \in Procs, Accepted(p) PROVE Kept
  <2>1. Requests' /\ Locking'
    BY <1>n, <1>t, <1>6 DEF IInv, Requests, Locking, Quiet, Accepted, Goto, server
  <2>2. Server' /\ Unspent'
    BY <1>n, <1>t, <1>6 DEF IInv, Server, Unspent, Accepted, Goto, server
  <2>3. Vault'
    BY <1>n, <1>t, <1>6 DEF IInv, Vault, Accepted, Goto, server
  <2>4. Waiting'
    BY <1>n, <1>t, <1>6 DEF IInv, Waiting, Server, Accepted, Goto, server
  <2>5. Fresh'
    BY <1>n, <1>t, <1>6 DEF IInv, Fresh, Server, Accepted, Goto, server
  <2>. QED
    BY <2>1, <2>2, <2>3, <2>4, <2>5
<1>7. ASSUME NEW p \in Procs, Unauthorized(p) PROVE Kept
  <2>1. Requests' /\ Locking'
    BY <1>n, <1>t, <1>7, FirstRefusal DEF IInv, Requests, Locking, Quiet, Unauthorized, Final, Goto, server
  <2>2. Server' /\ Unspent'
    BY <1>n, <1>t, <1>7, FirstRefusal DEF IInv, Server, Unspent, Unauthorized, Final, Goto, server
  <2>3. Vault'
    BY <1>n, <1>t, <1>7, FirstRefusal DEF IInv, Vault, Unauthorized, Final, Goto, server
  <2>4. Waiting'
    BY <1>n, <1>t, <1>7, FirstRefusal DEF IInv, Waiting, Server, Unauthorized, Final, Goto, server
  <2>5. Fresh'
    BY <1>n, <1>t, <1>7, FirstRefusal DEF IInv, Fresh, Server, Unauthorized, Final, Goto, server
  <2>. QED
    BY <2>1, <2>2, <2>3, <2>4, <2>5
<1>8. ASSUME NEW p \in Procs, End(p) PROVE Kept
  <2>1. Requests' /\ Locking'
    BY <1>n, <1>t, <1>8 DEF IInv, Requests, Locking, Quiet, End, Return, Goto, server
  <2>2. Server' /\ Unspent'
    BY <1>n, <1>t, <1>8 DEF IInv, Server, Unspent, End, Return, Goto, server
  <2>3. Vault'
    BY <1>n, <1>t, <1>8 DEF IInv, Vault, Requests, Written, End, Return, Goto, server
  <2>4. Waiting'
    BY <1>n, <1>t, <1>8 DEF IInv, Waiting, Server, End, Return, Goto, server
  <2>5. Fresh'
    BY <1>n, <1>t, <1>8 DEF IInv, Fresh, Server, End, Return, Goto, server
  <2>. QED
    BY <2>1, <2>2, <2>3, <2>4, <2>5
<1>9. ASSUME Expire PROVE Kept
  <2>1. Requests' /\ Locking'
    BY <1>n, <1>t, <1>9 DEF IInv, Requests, Locking, Quiet, Expire, client, Quiet, Goto, server
  <2>2. Server' /\ Unspent'
    BY <1>n, <1>t, <1>9 DEF IInv, Server, Unspent, Expire, client, Quiet, Goto, server
  <2>3. Vault'
    BY <1>n, <1>t, <1>9 DEF IInv, Vault, Expire, client, Quiet, Goto, server
  <2>4. Waiting'
    BY <1>n, <1>t, <1>9 DEF IInv, Waiting, Server, Expire, client, Quiet, Goto, server
  <2>5. Fresh'
    BY <1>n, <1>t, <1>9 DEF IInv, Fresh, Server, Expire, client, Quiet, Goto, server
  <2>. QED
    BY <2>1, <2>2, <2>3, <2>4, <2>5
<1>10. CASE UNCHANGED vars
  BY <1>0, <1>10, Zenon
  DEF IInv, Requests, Locking, Server, Vault, Waiting, Fresh, Unspent,
      vars, client, server
<1>11. ASSUME NEW p \in Procs,
              \/ RefreshLost(p) \/ SendLost(p) \/ Clear(p)
              \/ Logout(p) \/ Login(p) \/ WriteSession(p)
       PROVE  FALSE
  BY <1>11
  DEF Quiet, IInv, Requests, RefreshLost, SendLost, Clear, Logout, Login, WriteSession
<1>. QED
  <2>1. ASSUME Kept PROVE IInv'
    BY <1>0, <2>1 DEF IInv
  <2>. QED
    BY <1>1, <1>2, <1>3, <1>4, <1>5, <1>6, <1>7, <1>8, <1>9, <1>10, <1>11, <2>1, SettingTypes, Zenon
    DEF IInv, Next, Step

-------------------------------------------------------------------------------
LEMMA Inductive == Safety => [](Quiet => IInv)
<1>1. Init => (Quiet => IInv)
  BY InitIInv
<1>2. (Quiet => IInv) /\ [Next]_vars => (Quiet => IInv)'
  BY NextIInv, QuietKept
<1>. QED
  BY <1>1, <1>2, PTL DEF Safety

\* No rotating refresh token is spent twice, however many requests race for it
\* (Client.refreshMu and ensureFreshToken).
THEOREM NoTokenSpentTwice == Safety => []NoTokenReuse
<1>1. (Quiet => IInv) => NoTokenReuse
  BY DEF IInv, Unspent, NoTokenReuse
<1>. QED  BY <1>1, Inductive, PTL

\* A 401 to a request whose token expired in flight signs nobody out
\* (clearSessionOnUnauthorized).
THEOREM NobodySignedOut == Safety => []StaysSignedIn
<1>1. (Quiet => IInv) => StaysSignedIn
  BY DEF IInv, Vault, StaysSignedIn
<1>. QED  BY <1>1, Inductive, PTL

\* The persisted pair is only ever replaced by the pair it was exchanged for
\* (the save at the end of ensureFreshToken).
THEOREM SessionAdvances == Safety => NoStaleSession
<1> DEFINE Advances == Quiet => stored' >= stored \/ stored' = 0
<1>1. ASSUME Quiet, IInv, [Next]_vars PROVE stored' >= stored
  <2>1. stored' = stored \/ stored' = issued
    <3>1. ASSUME NEW p \in Procs, Step(p) PROVE stored' = stored \/ stored' = issued
      BY <1>1, <3>1
      DEF Quiet, IInv, Requests, Fresh, Step, Authorize, Acquire, Refresh,
          RefreshLost, SaveRefreshed, Accepted, Unauthorized, SendLost, Clear, End,
          Logout, Login, WriteSession
    <3>. QED
      BY <1>1, <3>1, SettingTypes DEF IInv, Next, Begin, Expire, vars, client
  <2>. QED
    BY <1>1, <2>1 DEF IInv, Vault, TypeOK, Sessions, Pairs
<1>2. (Quiet => IInv) /\ [Next]_vars => [Advances]_stored
  BY <1>1
<1>. QED
  BY <1>2, Inductive, PTL DEF Safety, NoStaleSession

===============================================================================
