------------------------- MODULE SyncMembershipProofs -------------------------
(***************************************************************************)
(* What the panel shows and the device believes agrees with the server,    *)
(* for any number of operations, of any kinds, in any order.  All three    *)
(* invariants rest on syncBusy: of the operations that change the vault of *)
(* the server, one is in progress at a time, so that what it has been      *)
(* answered still holds when it saves it and when it is shown.             *)
(***************************************************************************)
EXTENDS SyncMembership, TLAPS

Servers ==
  [key : Nat, code : Nat, members : SUBSET Nat, package : [pairing : Nat, key : Nat]]

Panels ==
  [open : BOOLEAN, join : BOOLEAN, pairing : Nat, code : Nat, summary : Summaries]

TypeOK ==
  /\ setting \in Settings
  /\ made \in Nat
  /\ server \in Servers
  /\ session \in Sessions
  /\ profile \in Profiles \cup {NoProfile}
  /\ pending \in Nat
  /\ ops \in [Slots -> Operations \cup {NoOp}]
  /\ panel \in Panels
  /\ busy \in BOOLEAN
  /\ noted \in Nat
  /\ stale \in BOOLEAN

\* An operation in progress for which syncBusy is set.
BusyOp(s) == ops[s] # NoOp /\ Busy(ops[s].kind)

OneBusy ==
  \A s \in Slots : BusyOp(s) => busy /\ \A t \in Slots : BusyOp(t) => t = s

\* An operation that does not join leaves the profile with the device and the key it had.
OpOK(op) ==
  /\ op.kind \notin Syncs => op.ok
  /\ op.kind \in Joins /\ op.step = "save" => op.new \in Profiles
  /\ op.kind \notin Joins /\ op.new # NoProfile =>
       /\ op.old # NoProfile
       /\ op.new.device = op.old.device /\ op.new.key = op.old.key

OpsOK == \A s \in Slots : ops[s] # NoOp => OpOK(ops[s])

ServerOK ==
  /\ server.key = 0 => server.members = {} /\ server.package.pairing = 0
  /\ server.package.pairing # 0 => server.package.key = server.key
  /\ server.package.pairing <= made /\ pending <= made

CodeOK ==
  /\ \A s \in Slots :
       BusyOp(s) /\ ops[s].step \in {"load", "ask", "save", "arrive"} => panel.code = 0
  /\ \A s \in Slots :
       BusyOp(s) /\ ops[s].kind \in {"initialize", "rotate"} /\ ops[s].step \in {"save", "arrive"} =>
         ops[s].number = server.code \/ ops[s].number \in replaced
  /\ CodeIsCurrent

\* The answer that is going to bring the panel up to date.
Settles(s) ==
  /\ BusyOp(s) /\ ops[s].step = "arrive" /\ ops[s].mounted
  /\ ops[s].kind \in {"begin", "claim", "leave", "reset"}

PairingOK ==
  /\ \A s \in Slots : BusyOp(s) /\ ~ops[s].mounted => panel.pairing = 0
  /\ \A s \in Slots :
       BusyOp(s) /\ ops[s].kind = "begin" =>
         /\ ops[s].step = "save" =>
              pending < ops[s].number /\ server.package.pairing < ops[s].number /\ ops[s].number <= made
         /\ ops[s].step = "arrive" => pending = ops[s].number
  /\ ~setting.faults => panel.pairing \in {0, pending} \/ \E s \in Slots : Settles(s)

IsMember(p) ==
  \/ p.device \in expelled
  \/ p.device \in server.members /\ p.key = server.key

\* What an operation that joins is going to save, and what a claim would be given.
MemberOK ==
  ~setting.faults =>
    /\ profile # NoProfile /\ ~Leaving /\ ~stale => IsMember(profile)
    /\ \A s \in Slots :
         BusyOp(s) /\ ops[s].kind \in Joins /\ ops[s].step = "save" => IsMember(ops[s].new)
    /\ pending # 0 /\ server.package.pairing = pending /\ ~Leaving =>
         pending \in expelled \cup server.members

IInv ==
  /\ TypeOK /\ OneBusy /\ OpsOK /\ ServerOK /\ CodeOK /\ PairingOK /\ MemberOK

-------------------------------------------------------------------------------
(***************************************************************************)
(* How the operations in progress change.                                  *)
(***************************************************************************)
LEMMA GoesKeeps ==
  ASSUME TypeOK, OneBusy, NEW s \in Slots, ops[s] # NoOp, NEW op \in Operations,
         op.kind = ops[s].kind, Goes(s, op), busy' = busy
  PROVE  /\ ops' \in [Slots -> Operations \cup {NoOp}]
         /\ ops'[s] = op /\ op # NoOp
         /\ \A t \in Slots \ {s} : ops'[t] = ops[t]
         /\ \A t \in Slots : BusyOp(t)' <=> BusyOp(t)
         /\ OneBusy'
<1>1. /\ ops' \in [Slots -> Operations \cup {NoOp}] /\ ops'[s] = op /\ op # NoOp
      /\ \A t \in Slots \ {s} : ops'[t] = ops[t]
  BY OpAssumption DEF Goes, TypeOK
<1>2. \A t \in Slots : BusyOp(t)' <=> BusyOp(t)
  BY <1>1 DEF BusyOp
<1> QED
  BY <1>1, <1>2 DEF OneBusy

LEMMA EndsKeeps ==
  ASSUME TypeOK, OneBusy, NEW s \in Slots, ops[s] # NoOp, Ends(s)
  PROVE  /\ ops' \in [Slots -> Operations \cup {NoOp}] /\ busy' \in BOOLEAN
         /\ ops'[s] = NoOp
         /\ \A t \in Slots \ {s} : ops'[t] = ops[t]
         /\ \A t \in Slots : BusyOp(t)' <=> t # s /\ BusyOp(t)
         /\ OneBusy'
<1>1. /\ ops' \in [Slots -> Operations \cup {NoOp}] /\ ops'[s] = NoOp
      /\ \A t \in Slots \ {s} : ops'[t] = ops[t]
      /\ busy' = (busy /\ ~Busy(ops[s].kind))
  BY DEF Ends, Goes, TypeOK
<1>2. \A t \in Slots : BusyOp(t)' <=> t # s /\ BusyOp(t)
  BY <1>1 DEF BusyOp
<1>3. ASSUME NEW t \in Slots, BusyOp(t)' PROVE busy'
  BY <1>1, <1>2, <1>3 DEF OneBusy, BusyOp, TypeOK
<1>4. busy' \in BOOLEAN
  BY <1>1
<1> QED
  BY <1>1, <1>2, <1>3, <1>4 DEF OneBusy

LEMMA OpsStay ==
  ASSUME OpsOK, NEW s \in Slots, \A t \in Slots \ {s} : ops'[t] = ops[t],
         ops'[s] = NoOp \/ OpOK(ops'[s])
  PROVE  OpsOK'
BY DEF OpsOK, OpOK

\* The end of an operation, other than by its answer: what is shown may be brought up to date.
LEMMA EndKeeps ==
  ASSUME IInv, NEW s \in Slots, ops[s] # NoOp, Ends(s), ops[s].step # "arrive",
         ops[s].step = "save" => setting.faults,
         panel' \in Panels, panel'.pairing = panel.pairing, panel'.code = panel.code,
         UNCHANGED <<setting, made, server, expelled, replaced, session, profile, pending, noted, stale>>
  PROVE  IInv'
<1>1. /\ ops' \in [Slots -> Operations \cup {NoOp}] /\ busy' \in BOOLEAN
      /\ ops'[s] = NoOp
      /\ \A t \in Slots \ {s} : ops'[t] = ops[t]
      /\ \A t \in Slots : BusyOp(t)' <=> t # s /\ BusyOp(t)
      /\ OneBusy'
  BY EndsKeeps DEF IInv
<1>2. TypeOK'
  BY <1>1 DEF IInv, TypeOK
<1>3. OpsOK'
  BY <1>1, OpsStay DEF IInv
<1>4. ServerOK'
  BY DEF IInv, ServerOK
<1>5. CodeOK'
  BY <1>1 DEF IInv, CodeOK, CodeIsCurrent
<1>6. PairingOK'
  <2>1. \A t \in Slots : Settles(t) => Settles(t)'
    BY <1>1 DEF Settles
  <2> QED
    BY <1>1, <2>1 DEF IInv, PairingOK
<1>7. MemberOK'
  <2>1. CASE setting.faults
    BY <2>1 DEF MemberOK
  <2>2. CASE ~setting.faults
    <3>1. Leaving => Leaving'
      BY <1>1, <2>2 DEF Leaving
    <3> QED
      BY <1>1, <3>1 DEF IInv, MemberOK, IsMember
  <2> QED
    BY <2>1, <2>2
<1> QED
  BY <1>1, <1>2, <1>3, <1>4, <1>5, <1>6, <1>7 DEF IInv

LEMMA StartsKeeps ==
  ASSUME IInv, NEW kind \in Kinds, Starts(kind), Busy(kind) => ~busy /\ panel.code = 0,
         busy' = (busy \/ Busy(kind)), UNCHANGED <<setting, made, backend, panel, noted, stale>>
  PROVE  IInv'
<1>1. PICK s \in Slots :
        /\ ops[s] = NoOp
        /\ ops' = [ops EXCEPT ![s] =
                     [kind |-> kind, step |-> FirstStep(kind), old |-> NoProfile,
                      new |-> NoProfile, in |-> session, ok |-> TRUE, mounted |-> TRUE,
                      number |-> IF kind = "recover" THEN noted ELSE 0,
                      seen |-> panel.summary]]
  BY DEF Starts
<1>2. /\ ops'[s] \in Operations /\ ops'[s] # NoOp
      /\ ops'[s].kind = kind /\ ops'[s].step \in {"load", "ask"} /\ ops'[s].ok
      /\ ops'[s].mounted /\ ops'[s].new = NoProfile
      /\ \A t \in Slots \ {s} : ops'[t] = ops[t]
  <2>1. ops'[s] = [kind |-> kind, step |-> FirstStep(kind), old |-> NoProfile,
                   new |-> NoProfile, in |-> session, ok |-> TRUE, mounted |-> TRUE,
                   number |-> IF kind = "recover" THEN noted ELSE 0, seen |-> panel.summary]
    BY <1>1 DEF IInv, TypeOK
  <2>2. session \in Sessions /\ noted \in Nat /\ panel.summary \in Summaries
    BY DEF IInv, TypeOK, Panels
  <2>3. FirstStep(kind) \in {"load", "ask"}
    BY DEF FirstStep
  <2> HIDE DEF FirstStep
  <2>4. ops'[s] \in Operations
    BY <2>1, <2>2, <2>3 DEF Operations
  <2> QED
    BY <1>1, <2>1, <2>3, <2>4, OpAssumption DEF IInv, TypeOK
<1>3. ops' \in [Slots -> Operations \cup {NoOp}] /\ busy' \in BOOLEAN
  BY <1>1, <1>2 DEF IInv, TypeOK, Busy
<1>4. \A t \in Slots : BusyOp(t)' <=> BusyOp(t) \/ (t = s /\ Busy(kind))
  BY <1>1, <1>2 DEF BusyOp
<1>5. OneBusy'
  BY <1>4 DEF IInv, OneBusy
<1>6. TypeOK'
  BY <1>3 DEF IInv, TypeOK, backend
<1>7. OpsOK'
  BY <1>2, OpsStay DEF IInv, OpOK
<1>8. ServerOK'
  BY DEF IInv, ServerOK, backend
<1>9. CodeOK'
  BY <1>1, <1>2, <1>4 DEF IInv, CodeOK, CodeIsCurrent, BusyOp, backend
<1>10. PairingOK'
  <2>1. \A t \in Slots : Settles(t) => Settles(t)'
    BY <1>1, <1>2, <1>4 DEF Settles, BusyOp
  <2> QED
    BY <1>1, <1>2, <1>4, <2>1 DEF IInv, PairingOK, BusyOp, backend
<1>11. MemberOK'
  <2>1. Leaving' <=> Leaving
    BY <1>1, <1>2 DEF Leaving
  <2> QED
    BY <1>1, <1>2, <1>4, <2>1 DEF IInv, MemberOK, IsMember, BusyOp, backend
<1> QED
  BY <1>5, <1>6, <1>7, <1>8, <1>9, <1>10, <1>11 DEF IInv

\* What an action may do with the panel between two answers.
LEMMA PanelKeeps ==
  ASSUME IInv, panel' \in Panels, noted' \in Nat,
         panel'.pairing \in {0, panel.pairing}, panel'.code \in {0, panel.code},
         \/ ops' = ops
         \/ /\ panel'.pairing = 0
            /\ ops' = [s \in Slots |-> IF ops[s] = NoOp THEN NoOp
                                       ELSE [ops[s] EXCEPT !.mounted = FALSE]],
         UNCHANGED <<setting, made, backend, busy, stale>>
  PROVE  IInv'
<1>1. ops' \in [Slots -> Operations \cup {NoOp}]
  <2>1. ops \in [Slots -> Operations \cup {NoOp}]
    BY DEF IInv, TypeOK
  <2>2. \A s \in Slots : ops[s] # NoOp => [ops[s] EXCEPT !.mounted = FALSE] \in Operations
    BY <2>1 DEF Operations
  <2> QED
    BY <2>1, <2>2
<1>2. ASSUME NEW s \in Slots, ops'[s] # NoOp
      PROVE  /\ ops[s] # NoOp
             /\ ops'[s].kind = ops[s].kind /\ ops'[s].step = ops[s].step /\ ops'[s].ok = ops[s].ok
             /\ ops'[s].old = ops[s].old /\ ops'[s].new = ops[s].new
             /\ ops'[s].number = ops[s].number
             /\ ops'[s].mounted = ops[s].mounted \/ panel'.pairing = 0
  BY <1>2 DEF IInv, TypeOK, Operations
<1>3. ASSUME NEW s \in Slots, ops[s] # NoOp
      PROVE  ops'[s] # NoOp
  <2>1. ops \in [Slots -> Operations \cup {NoOp}]
    BY DEF IInv, TypeOK
  <2>2. [ops[s] EXCEPT !.mounted = FALSE] \in Operations
    BY <1>3, <2>1 DEF Operations
  <2> QED
    BY <1>3, <2>2, OpAssumption
<1>4. \A s \in Slots : BusyOp(s)' <=> BusyOp(s)
  BY <1>2, <1>3 DEF BusyOp
<1>5. TypeOK'
  BY <1>1 DEF IInv, TypeOK, backend
<1>6. OneBusy'
  BY <1>4 DEF IInv, OneBusy
<1>7. OpsOK'
  BY <1>2 DEF IInv, OpsOK, OpOK
<1>8. ServerOK'
  BY DEF IInv, ServerOK, backend
<1>9. CodeOK'
  BY <1>2, <1>4 DEF IInv, CodeOK, CodeIsCurrent, BusyOp, backend
<1>10. PairingOK'
  <2>1. panel'.pairing = 0 \/ \A s \in Slots : Settles(s) => Settles(s)'
    BY <1>2, <1>3, <1>4 DEF Settles, BusyOp
  <2>2. pending' = pending /\ server' = server /\ setting' = setting
    BY DEF backend
  <2> QED
    BY <1>2, <1>4, <2>1, <2>2 DEF IInv, PairingOK, BusyOp
<1>11. MemberOK'
  <2>1. Leaving' <=> Leaving
    BY <1>2, <1>3 DEF Leaving
  <2> QED
    BY <1>2, <1>4, <2>1 DEF IInv, MemberOK, IsMember, BusyOp, backend
<1> QED
  BY <1>5, <1>6, <1>7, <1>8, <1>9, <1>10, <1>11 DEF IInv

\* Show changes the fields it is given, and no other.
LEMMA ShowIs ==
  ASSUME panel \in Panels
  PROVE  /\ Show(Closed) = [panel EXCEPT !.open = FALSE, !.join = FALSE, !.pairing = 0, !.code = 0]
         /\ \A b \in BOOLEAN : Show([open |-> b]) = [panel EXCEPT !.open = b]
         /\ \A b \in BOOLEAN : Show([join |-> b]) = [panel EXCEPT !.join = b]
         /\ \A n \in Nat : Show([code |-> n]) = [panel EXCEPT !.code = n]
         /\ \A n \in Nat : Show([pairing |-> n]) = [panel EXCEPT !.pairing = n]
         /\ \A sum \in Summaries : Show([summary |-> sum]) = [panel EXCEPT !.summary = sum]
<1>1. DOMAIN panel = {"open", "join", "pairing", "code", "summary"}
      /\ panel = [f \in DOMAIN panel |-> panel[f]]
  BY DEF Panels
<1>2. Show(Closed) = [panel EXCEPT !.open = FALSE, !.join = FALSE, !.pairing = 0, !.code = 0]
  <2>1. /\ DOMAIN Closed = {"open", "join", "pairing", "code"}
        /\ Closed.open = FALSE /\ Closed.join = FALSE /\ Closed.pairing = 0 /\ Closed.code = 0
    BY DEF Closed
  <2> QED
    BY <1>1, <2>1 DEF Show
<1>3. \A b \in BOOLEAN : Show([open |-> b]) = [panel EXCEPT !.open = b]
  BY <1>1 DEF Show
<1>4. \A b \in BOOLEAN : Show([join |-> b]) = [panel EXCEPT !.join = b]
  BY <1>1 DEF Show
<1>5. \A n \in Nat : Show([code |-> n]) = [panel EXCEPT !.code = n]
  BY <1>1 DEF Show
<1>6. \A n \in Nat : Show([pairing |-> n]) = [panel EXCEPT !.pairing = n]
  BY <1>1 DEF Show
<1>7. \A sum \in Summaries : Show([summary |-> sum]) = [panel EXCEPT !.summary = sum]
  BY <1>1 DEF Show
<1> QED
  BY <1>2, <1>3, <1>4, <1>5, <1>6, <1>7

LEMMA ShowBothIs ==
  ASSUME panel \in Panels, NEW fields
  PROVE  /\ DOMAIN fields = {"pairing", "join"} =>
              Show(fields) = [panel EXCEPT !.pairing = fields.pairing, !.join = fields.join]
         /\ DOMAIN fields = {"pairing", "code"} =>
              Show(fields) = [panel EXCEPT !.pairing = fields.pairing, !.code = fields.code]
<1>1. DOMAIN panel = {"open", "join", "pairing", "code", "summary"}
      /\ panel = [f \in DOMAIN panel |-> panel[f]]
  BY DEF Panels
<1>2. ASSUME DOMAIN fields = {"pairing", "join"}
      PROVE  Show(fields) = [panel EXCEPT !.pairing = fields.pairing, !.join = fields.join]
  BY <1>1, <1>2 DEF Show
<1>3. ASSUME DOMAIN fields = {"pairing", "code"}
      PROVE  Show(fields) = [panel EXCEPT !.pairing = fields.pairing, !.code = fields.code]
  BY <1>1, <1>3 DEF Show
<1> QED
  BY <1>2, <1>3

LEMMA PanelActionKeeps ==
  ASSUME IInv, CloseSettings \/ OpenSettings \/ OpenJoin \/ CloseJoin \/ CodeSaved
  PROVE  IInv'
<1>1. panel \in Panels /\ noted \in Nat
  BY DEF IInv, TypeOK
<1>2. CASE CloseSettings
  <2>1. panel' = [panel EXCEPT !.open = FALSE, !.join = FALSE, !.pairing = 0, !.code = 0]
    BY <1>1, <1>2, ShowIs DEF CloseSettings
  <2> QED
    BY <1>1, <1>2, <2>1, PanelKeeps DEF CloseSettings, Panels
<1>3. CASE OpenSettings
  <2>1. panel' = [panel EXCEPT !.open = TRUE]
    BY <1>1, <1>3, ShowIs DEF OpenSettings
  <2> QED
    BY <1>1, <1>3, <2>1, PanelKeeps DEF OpenSettings, Panels
<1>4. CASE OpenJoin \/ CloseJoin
  <2>1. PICK b \in BOOLEAN : panel' = [panel EXCEPT !.join = b]
    BY <1>1, <1>4, ShowIs DEF OpenJoin, CloseJoin
  <2> QED
    BY <1>1, <1>4, <2>1, PanelKeeps DEF OpenJoin, CloseJoin, Panels
<1>5. CASE CodeSaved
  <2>1. panel' = [panel EXCEPT !.code = 0] /\ noted' = panel.code
    BY <1>1, <1>5, ShowIs DEF CodeSaved
  <2> QED
    BY <1>1, <1>5, <2>1, PanelKeeps DEF CodeSaved, Panels
<1> QED
  BY <1>2, <1>3, <1>4, <1>5

LEMMA StartKeeps ==
  ASSUME IInv, AutoSync \/ \E kind \in Kinds : UserStarts(kind)
  PROVE  IInv'
<1>1. CASE AutoSync
  <2>1. ~Busy("auto") /\ "auto" \in Kinds
    BY DEF Busy, Background, Kinds, Syncs
  <2>2. busy' = (busy \/ Busy("auto")) /\ UNCHANGED backend
    BY <1>1, <2>1 DEF AutoSync, IInv, TypeOK
  <2> QED
    BY <1>1, <2>1, <2>2, StartsKeeps DEF AutoSync
<1>2. ASSUME NEW kind \in Kinds, UserStarts(kind)
      PROVE  IInv'
  BY <1>2, StartsKeeps DEF UserStarts, Offered, Enabled
<1> QED
  BY <1>1, <1>2

-------------------------------------------------------------------------------
(***************************************************************************)
(* The server, by the acts of others: those that they remove are expelled. *)
(***************************************************************************)
LEMMA OthersKeep ==
  ASSUME IInv, NEW number \in Nat, NEW change \in Servers, Others(change, number),
         made <= number, server.key # 0 => change.key \in {0, server.key},
         change.key = 0 => change.members = {} /\ change.package.pairing = 0,
         change.package.pairing # 0 => change.package.key = change.key,
         \/ change.package.pairing \in {0, server.package.pairing}
         \/ change.package.pairing = pending /\ pending \in change.members
  PROVE  IInv'
<1>1. /\ server' = change /\ expelled' = expelled \cup (server.members \ change.members)
      /\ made' = number /\ replaced' = replaced \cup ({server.code} \ {change.code})
      /\ UNCHANGED <<setting, session, profile, pending, ops, panel, busy, noted, stale>>
  BY DEF Others
<1>2. TypeOK' /\ OneBusy' /\ OpsOK'
  BY <1>1 DEF IInv, TypeOK, OneBusy, BusyOp, OpsOK, OpOK
<1>3. ServerOK'
  <2>1. made \in Nat /\ number \in Nat /\ pending \in Nat /\ server.package.pairing \in Nat
    BY DEF IInv, TypeOK, Servers
  <2> QED
    BY <1>1, <2>1 DEF IInv, ServerOK
<1>4. CodeOK'
  <2>1. ASSUME NEW code, code = server.code \/ code \in replaced
        PROVE  code = server'.code \/ code \in replaced'
    BY <1>1, <2>1
  <2> QED
    BY <1>1, <2>1 DEF IInv, CodeOK, CodeIsCurrent, BusyOp
<1>5. PairingOK'
  <2>1. \A s \in Slots : Settles(s)' <=> Settles(s)
    BY <1>1 DEF Settles, BusyOp
  <2> QED
    <3>1. made \in Nat /\ number \in Nat /\ pending \in Nat /\ server.package.pairing \in Nat
      BY DEF IInv, TypeOK, Servers
    <3>2. \A s \in Slots : BusyOp(s) => ops[s] \in Operations /\ ops[s].number \in Nat
      BY DEF IInv, TypeOK, BusyOp, Operations
    <3> QED
      BY <1>1, <2>1, <3>1, <3>2 DEF IInv, PairingOK, BusyOp
<1>6. MemberOK'
  <2>1. \A device \in expelled \cup server.members : device \in expelled' \cup server'.members
    BY <1>1
  <2>2. server.members # {} /\ server'.members # {} => server'.key = server.key
    BY <1>1 DEF IInv, ServerOK
  <2>3. ASSUME NEW p, IsMember(p)
        PROVE  IsMember(p)'
    BY <1>1, <2>1, <2>2, <2>3 DEF IsMember
  <2>4. Leaving' <=> Leaving
    BY <1>1 DEF Leaving
  <2>5. profile # NoProfile /\ ~Leaving' /\ ~stale' /\ ~setting'.faults => IsMember(profile)'
    BY <1>1, <2>3, <2>4 DEF IInv, MemberOK
  <2>6. ASSUME ~setting'.faults, NEW s \in Slots, BusyOp(s)', ops'[s].kind \in Joins,
               ops'[s].step = "save"
        PROVE  IsMember(ops[s].new)'
    BY <1>1, <2>3, <2>6 DEF IInv, MemberOK, BusyOp
  <2>7. ASSUME ~setting'.faults, pending # 0, server'.package.pairing = pending, ~Leaving'
        PROVE  pending \in expelled' \cup server'.members
    BY <1>1, <2>1, <2>4, <2>7 DEF IInv, MemberOK
  <2> QED
    BY <1>1, <2>5, <2>6, <2>7 DEF MemberOK
<1> QED
  BY <1>2, <1>3, <1>4, <1>5, <1>6 DEF IInv

LEMMA OtherActionKeeps ==
  ASSUME IInv,
         OthersApprove \/ OthersRevoke \/ OthersReset \/ OthersRotate \/ OthersInitialize
  PROVE  IInv'
<1>1. server \in Servers /\ pending \in Nat /\ made \in Nat
  BY DEF IInv, TypeOK
<1>2. CASE OthersApprove
  <2> DEFINE change == [server EXCEPT !.package = [pairing |-> pending, key |-> server.key],
                                      !.members = @ \cup {pending}]
  <2>1. Others(change, made)
    BY <1>2 DEF OthersApprove
  <2>2. server.key # 0
    BY <1>2 DEF OthersApprove, OtherMembers, IInv, ServerOK
  <2>3. /\ change \in Servers /\ change.key = server.key
        /\ change.package.pairing = pending /\ change.package.key = server.key
        /\ pending \in change.members
    BY <1>1 DEF Servers
  <2> HIDE DEF change
  <2> QED
    BY <1>1, <2>1, <2>2, <2>3, OthersKeep
<1>3. CASE OthersRevoke
  <2>1. PICK device \in server.members : Others([server EXCEPT !.members = @ \ {device}], made)
    BY <1>3 DEF OthersRevoke
  <2> DEFINE change == [server EXCEPT !.members = @ \ {device}]
  <2>2. Others(change, made) /\ server.key # 0
    BY <2>1 DEF IInv, ServerOK
  <2>3. /\ change \in Servers /\ change.key = server.key /\ change.package = server.package
    BY <1>1 DEF Servers
  <2> HIDE DEF change
  <2> QED
    BY <1>1, <2>2, <2>3, OthersKeep DEF IInv, ServerOK
<1>4. CASE OthersReset
  <2>1. Others(NoVault, made)
    BY <1>4 DEF OthersReset
  <2>2. /\ NoVault \in Servers /\ NoVault.key = 0 /\ NoVault.members = {}
        /\ NoVault.package.pairing = 0
    BY DEF NoVault, NoPackage, Servers
  <2> HIDE DEF NoVault
  <2> QED
    BY <1>1, <2>1, <2>2, OthersKeep
<1>5. CASE OthersRotate
  <2> DEFINE change == [server EXCEPT !.code = made + 1]
  <2>1. Others(change, made + 1) /\ made + 1 \in Nat /\ made <= made + 1
    BY <1>1, <1>5 DEF OthersRotate
  <2>2. server.key # 0
    BY <1>5 DEF OthersRotate, OtherMembers, IInv, ServerOK
  <2>3. /\ change \in Servers /\ change.key = server.key /\ change.package = server.package
    BY <1>1 DEF Servers
  <2> HIDE DEF change
  <2> QED
    BY <2>1, <2>2, <2>3, OthersKeep DEF IInv, ServerOK
<1>6. CASE OthersInitialize
  <2> DEFINE number == made + 1
             change == NewVault(number)
  <2>1. Others(change, number) /\ number \in Nat /\ made <= number /\ number # 0
    BY <1>1, <1>6 DEF OthersInitialize
  <2>2. server.key = 0
    BY <1>6 DEF OthersInitialize
  <2> HIDE DEF number
  <2>3. change \in Servers /\ change.key # 0 /\ change.package.pairing = 0
    BY <2>1 DEF NewVault, NoPackage, Servers
  <2> HIDE DEF change
  <2> QED
    BY <2>1, <2>2, <2>3, OthersKeep
<1> QED
  BY <1>2, <1>3, <1>4, <1>5, <1>6

-------------------------------------------------------------------------------
(***************************************************************************)
(* The steps of an operation.                                              *)
(***************************************************************************)

\* A step that changes nothing but how far its operation has come.
LEMMA MoveKeeps ==
  ASSUME IInv, NEW s \in Slots, ops[s] # NoOp, NEW op \in Operations, Goes(s, op), busy' = busy,
         op.kind = ops[s].kind, op.mounted = ops[s].mounted, OpOK(op),
         \/ /\ ops[s].step \in {"load", "ask"} /\ op.step \in {"load", "ask", "save"}
            /\ op.step = "save" => op.kind \notin Joins \cup Leaves \cup {"begin", "rotate"}
         \/ ops[s].step = "fetch" /\ op.step = "show",
         UNCHANGED <<setting, made, server, expelled, replaced, session, profile, pending, panel, noted, stale>>
  PROVE  IInv'
<1>1. /\ ops' \in [Slots -> Operations \cup {NoOp}]
      /\ ops'[s] = op /\ op # NoOp
      /\ \A t \in Slots \ {s} : ops'[t] = ops[t]
      /\ \A t \in Slots : BusyOp(t)' <=> BusyOp(t)
      /\ OneBusy'
  BY GoesKeeps DEF IInv
<1>2. TypeOK'
  BY <1>1 DEF IInv, TypeOK
<1>3. OpsOK'
  BY <1>1, OpsStay DEF IInv
<1>4. ServerOK'
  BY DEF IInv, ServerOK
<1>5. CodeOK'
  BY <1>1 DEF IInv, CodeOK, CodeIsCurrent, Joins
<1>6. PairingOK'
  <2>1. \A t \in Slots : Settles(t) => Settles(t)'
    BY <1>1 DEF Settles
  <2> QED
    BY <1>1, <2>1 DEF IInv, PairingOK
<1>7. MemberOK'
  <2>1. Leaving => Leaving'
    BY <1>1 DEF Leaving
  <2> QED
    BY <1>1, <2>1 DEF IInv, MemberOK, IsMember
<1> QED
  BY <1>1, <1>2, <1>3, <1>4, <1>5, <1>6, <1>7 DEF IInv

LEMMA LoadKeeps ==
  ASSUME IInv, NEW s \in Slots, ops[s] # NoOp, Load(s)
  PROVE  IInv'
<1>1. /\ ops[s] \in Operations /\ OpOK(ops[s]) /\ session \in Sessions /\ panel \in Panels
      /\ profile \in Profiles \cup {NoProfile}
  BY DEF IInv, TypeOK, OpsOK
<1>2. /\ ops[s].step = "load"
      /\ UNCHANGED <<setting, made, server, expelled, replaced, session, profile, pending, panel, noted, stale>>
  BY DEF Load, PanelOf, backend
<1>3. CASE Ends(s)
  BY <1>1, <1>2, <1>3, EndKeeps
<1>4. CASE ops[s].kind = "name" /\ ~Ends(s)
  <2> DEFINE op == [ops[s] EXCEPT !.old = profile, !.new = profile, !.step = "save"]
  <2>1. Goes(s, op) /\ busy' = busy
    BY <1>4 DEF Load
  <2>2. /\ op \in Operations /\ op.kind = "name" /\ op.mounted = ops[s].mounted /\ op.step = "save"
        /\ op.old = profile /\ op.new = profile /\ op.ok = ops[s].ok
    BY <1>1, <1>4 DEF Operations
  <2>3. OpOK(op)
    BY <1>1, <1>4, <2>2 DEF OpOK, Joins, Syncs
  <2>4. op.kind \notin Joins \cup Leaves \cup {"begin", "rotate"}
    BY <2>2 DEF Joins, Leaves
  <2> HIDE DEF op
  <2> QED
    BY <1>2, <1>4, <2>1, <2>2, <2>3, <2>4, MoveKeeps
<1>5. CASE ops[s].kind # "name" /\ ~Ends(s)
  <2>1. /\ profile \in Profiles /\ profile # NoProfile
        /\ Goes(s, [ops[s] EXCEPT !.old = profile, !.in = session,
                      !.new = IF ops[s].kind = "setAuto" THEN [profile EXCEPT !.auto = ~@]
                              ELSE profile,
                      !.step = IF ops[s].kind = "setAuto" THEN "save" ELSE "ask"])
        /\ busy' = busy
    BY <1>1, <1>5 DEF Load, Fails
  <2>2. PICK new \in Profiles, step \in {"ask", "save"} :
          /\ Goes(s, [ops[s] EXCEPT !.old = profile, !.in = session, !.new = new, !.step = step])
          /\ new.device = profile.device /\ new.key = profile.key
          /\ step = "save" => ops[s].kind = "setAuto"
    <3>1. CASE ops[s].kind = "setAuto"
      <4>1. [profile EXCEPT !.auto = ~@] \in Profiles
        BY <2>1 DEF Profiles
      <4>2. /\ [profile EXCEPT !.auto = ~@].device = profile.device
            /\ [profile EXCEPT !.auto = ~@].key = profile.key
        BY <2>1 DEF Profiles
      <4>3. Goes(s, [ops[s] EXCEPT !.old = profile, !.in = session,
                       !.new = [profile EXCEPT !.auto = ~@], !.step = "save"])
        BY <2>1, <3>1
      <4> QED
        BY <3>1, <4>1, <4>2, <4>3
    <3>2. CASE ops[s].kind # "setAuto"
      BY <2>1, <3>2
    <3> QED
      BY <3>1, <3>2
  <2> DEFINE op == [ops[s] EXCEPT !.old = profile, !.in = session, !.new = new, !.step = step]
  <2>3. /\ op \in Operations /\ op.kind = ops[s].kind /\ op.mounted = ops[s].mounted
        /\ op.step = step /\ op.old = profile /\ op.new = new /\ op.ok = ops[s].ok
    BY <1>1, <2>1 DEF Operations
  <2>4. Goes(s, op)
    BY <2>2
  <2> HIDE DEF op
  <2>5. OpOK(op)
    BY <1>1, <2>1, <2>2, <2>3 DEF OpOK
  <2>6. op.step = "save" => op.kind \notin Joins \cup Leaves \cup {"begin", "rotate"}
    BY <2>2, <2>3 DEF Joins, Leaves
  <2> QED
    BY <1>2, <2>1, <2>2, <2>3, <2>4, <2>5, <2>6, MoveKeeps
<1> QED
  BY <1>3, <1>4, <1>5

LEMMA FetchKeeps ==
  ASSUME IInv, NEW s \in Slots, ops[s] # NoOp, Fetch(s)
  PROVE  IInv'
<1>1. /\ ops[s] \in Operations /\ OpOK(ops[s]) /\ session \in Sessions
      /\ setting \in Settings
  BY DEF IInv, TypeOK, OpsOK
<1>2. PICK reached \in BOOLEAN :
        Goes(s, [ops[s] EXCEPT !.step = "show", !.seen = Snapshot(reached)])
  BY <1>1, SettingsAssumption DEF Fetch
<1>3. Snapshot(reached) \in Summaries
  BY <1>1 DEF Snapshot, Summaries, Sessions
<1> DEFINE op == [ops[s] EXCEPT !.step = "show", !.seen = Snapshot(reached)]
<1>4. /\ op \in Operations /\ op.kind = ops[s].kind /\ op.mounted = ops[s].mounted
      /\ op.step = "show" /\ op.old = ops[s].old /\ op.new = ops[s].new /\ op.ok = ops[s].ok
  BY <1>1, <1>3 DEF Operations
<1>5. Goes(s, op)
  BY <1>2
<1> HIDE DEF op
<1>6. OpOK(op)
  BY <1>1, <1>4 DEF OpOK
<1> QED
  BY <1>4, <1>5, <1>6, MoveKeeps DEF Fetch, PanelOf, backend

LEMMA ReloadKeeps ==
  ASSUME IInv, NEW s \in Slots, ops[s] # NoOp, Reload(s)
  PROVE  IInv'
<1>1. panel \in Panels /\ ops[s] \in Operations
  BY DEF IInv, TypeOK
<1>2. ops[s].seen \in Summaries
  BY <1>1 DEF Operations
<1>3. panel' = [panel EXCEPT !.summary = ops[s].seen]
  BY <1>1, <1>2, ShowIs DEF Reload
<1>4. panel' \in Panels /\ panel'.pairing = panel.pairing /\ panel'.code = panel.code
  BY <1>1, <1>2, <1>3 DEF Panels
<1> QED
  BY <1>4, EndKeeps DEF Reload, backend

\* What a request does to the server; those made without syncBusy, and some others, do nothing.
LEMMA AnswerIs ==
  ASSUME IInv, NEW op \in Operations, Accepts(op), server' = Answered(op, made + 1),
         made' = IF Makes(op.kind) THEN made + 1 ELSE made, pending' = pending
  PROVE  /\ made' \in Nat /\ made <= made'
         /\ server' \in Servers /\ ServerOK'
         /\ server' # server => op.kind \in {"initialize", "recover", "rotate", "leave", "reset"}
         /\ op.kind = "initialize" =>
              /\ server.key = 0 /\ server'.key = made' /\ server'.code = made'
              /\ server'.members = {made'} /\ server'.package.pairing = 0 /\ made' = made + 1
         /\ op.kind = "recover" =>
              /\ server'.members = server.members \cup {made'} /\ made' = made + 1
         /\ op.kind = "rotate" => server'.code = made + 1 /\ server'.members = server.members
         /\ op.kind \in {"recover", "rotate"} =>
              server'.key = server.key /\ server'.package = server.package
         /\ op.kind = "recover" => server'.code = server.code
<1>1. made \in Nat /\ server \in Servers /\ pending \in Nat
  BY DEF IInv, TypeOK
<1>2. op.in \in Sessions
  BY DEF Operations
<1>3. ServerOK
  BY DEF IInv
<1>4. CASE op.kind = "initialize"
  <2>1. /\ server.key = 0 /\ made' = made + 1
        /\ server' = [key |-> made + 1, code |-> made + 1, members |-> {made + 1},
                      package |-> NoPackage]
    BY <1>4 DEF Accepts, Answered, NewVault, Makes, Syncs
  <2> QED
    BY <1>1, <1>3, <1>4, <2>1 DEF Servers, ServerOK, NoPackage
<1>5. CASE op.kind = "recover"
  <2>1. /\ server.key # 0 /\ made' = made + 1
        /\ server' = [server EXCEPT !.members = @ \cup {made + 1}]
    BY <1>5 DEF Accepts, Answered, Makes, Syncs
  <2> QED
    BY <1>1, <1>3, <1>5, <2>1 DEF Servers, ServerOK
<1>6. CASE op.kind = "rotate"
  <2>1. made' = made + 1 /\ server' = [server EXCEPT !.code = made + 1]
    BY <1>6 DEF Answered, Makes
  <2> QED
    BY <1>1, <1>3, <1>6, <2>1 DEF Servers, ServerOK
<1>7. CASE op.kind = "leave"
  <2>1. made' = made /\ server' = [server EXCEPT !.members = @ \ {op.in.device}]
    BY <1>7 DEF Answered, Makes
  <2> QED
    BY <1>1, <1>3, <1>7, <2>1 DEF Servers, ServerOK
<1>8. CASE op.kind = "reset"
  <2>1. made' = made /\ server' = NoVault
    BY <1>8 DEF Answered, Makes
  <2> QED
    BY <1>1, <1>3, <1>8, <2>1 DEF Servers, ServerOK, NoVault, NoPackage
<1>9. CASE op.kind \notin {"initialize", "recover", "rotate", "leave", "reset"}
  <2>1. server' = server
    BY <1>9 DEF Answered
  <2>2. made' \in Nat /\ made <= made'
    BY <1>1
  <2> QED
    BY <1>1, <1>3, <1>9, <2>1, <2>2 DEF Servers, ServerOK
<1> QED
  BY <1>4, <1>5, <1>6, <1>7, <1>8, <1>9

\* An operation that is answered and fails all the same: only a faulty network does that.
LEMMA LostAnswerKeeps ==
  ASSUME IInv, setting.faults, NEW s \in Slots, ops[s] # NoOp, ops[s].step = "ask", Ends(s),
         Accepts(ops[s]), server' = Answered(ops[s], made + 1),
         made' = IF Makes(ops[s].kind) THEN made + 1 ELSE made,
         UNCHANGED <<setting, expelled, replaced, session, profile, pending, panel, noted, stale>>
  PROVE  IInv'
<1>1. /\ ops' \in [Slots -> Operations \cup {NoOp}] /\ busy' \in BOOLEAN
      /\ ops'[s] = NoOp
      /\ \A t \in Slots \ {s} : ops'[t] = ops[t]
      /\ \A t \in Slots : BusyOp(t)' <=> t # s /\ BusyOp(t)
      /\ OneBusy'
  BY EndsKeeps DEF IInv
<1>2. ops[s] \in Operations
  BY DEF IInv, TypeOK
<1>3. /\ made' \in Nat /\ made <= made' /\ server' \in Servers /\ ServerOK'
      /\ server' # server => ops[s].kind \in {"initialize", "recover", "rotate", "leave", "reset"}
  BY <1>2, AnswerIs
<1>4. server' # server => BusyOp(s) /\ \A t \in Slots : ~BusyOp(t)'
  BY <1>1, <1>3 DEF BusyOp, Busy, Unguarded, Background, IInv, OneBusy
<1>5. TypeOK'
  BY <1>1, <1>3 DEF IInv, TypeOK
<1>6. OpsOK'
  BY <1>1, OpsStay DEF IInv
<1>7. CodeOK'
  BY <1>1, <1>4 DEF IInv, CodeOK, CodeIsCurrent
<1>8. PairingOK'
  <2>1. made \in Nat /\ ops \in [Slots -> Operations \cup {NoOp}]
    BY DEF IInv, TypeOK
  <2>2. \A t \in Slots : BusyOp(t)' => ops[t] \in Operations /\ ops[t].number \in Nat
    BY <1>1, <2>1 DEF BusyOp, Operations
  <2> QED
    BY <1>1, <1>3, <1>4, <2>1, <2>2 DEF IInv, PairingOK
<1>9. MemberOK'
  BY DEF MemberOK
<1> QED
  BY <1>1, <1>3, <1>5, <1>6, <1>7, <1>8, <1>9 DEF IInv

\* An operation that has been answered, and is going to save.
LEMMA AnswerKeeps ==
  ASSUME IInv, NEW s \in Slots, ops[s] # NoOp, ops[s].step = "ask", busy' = busy,
         Goes(s, [ops[s] EXCEPT !.step = IF ops[s].kind = "name" THEN "load" ELSE "save",
                    !.new = NewProfile(ops[s], made + 1), !.number = made + 1]),
         Accepts(ops[s]), server' = Answered(ops[s], made + 1),
         made' = IF Makes(ops[s].kind) THEN made + 1 ELSE made,
         UNCHANGED <<setting, expelled, replaced, session, profile, pending, panel, noted, stale>>
  PROVE  IInv'
<1> DEFINE kind == ops[s].kind
<1>1. /\ ops[s] \in Operations /\ OpOK(ops[s]) /\ server \in Servers /\ made \in Nat
      /\ pending \in Nat
  BY DEF IInv, TypeOK, OpsOK
<1>2. NewProfile(ops[s], made + 1) \in Profiles \cup {NoProfile}
  BY <1>1 DEF NewProfile, Profiles, Servers, Operations
<1> DEFINE op == [ops[s] EXCEPT !.step = IF ops[s].kind = "name" THEN "load" ELSE "save",
                    !.new = NewProfile(ops[s], made + 1), !.number = made + 1]
<1>3. /\ op \in Operations /\ op.kind = kind /\ op.mounted = ops[s].mounted
      /\ op.step = (IF kind = "name" THEN "load" ELSE "save") /\ op.old = ops[s].old
      /\ op.new = NewProfile(ops[s], made + 1) /\ op.ok = ops[s].ok /\ op.number = made + 1
  <2> DEFINE step == IF kind = "name" THEN "load" ELSE "save"
  <2>1. step \in {"load", "save"} /\ made + 1 \in Nat
    BY <1>1
  <2> HIDE DEF step
  <2>2. op = [ops[s] EXCEPT !.step = step, !.new = NewProfile(ops[s], made + 1), !.number = made + 1]
    BY DEF step
  <2>3. /\ op \in Operations /\ op.kind = kind /\ op.mounted = ops[s].mounted /\ op.step = step
        /\ op.old = ops[s].old /\ op.new = NewProfile(ops[s], made + 1) /\ op.ok = ops[s].ok
        /\ op.number = made + 1
    BY <1>1, <1>2, <2>1, <2>2 DEF Operations
  <2> QED
    BY <2>3 DEF step
<1>4. Goes(s, op)
  OBVIOUS
<1> HIDE DEF op
<1>5. /\ ops' \in [Slots -> Operations \cup {NoOp}]
      /\ ops'[s] = op /\ op # NoOp
      /\ \A t \in Slots \ {s} : ops'[t] = ops[t]
      /\ \A t \in Slots : BusyOp(t)' <=> BusyOp(t)
      /\ OneBusy'
  BY <1>3, <1>4, GoesKeeps DEF IInv
<1>6. /\ made' \in Nat /\ made <= made' /\ server' \in Servers /\ ServerOK'
      /\ server' # server => kind \in {"initialize", "recover", "rotate", "leave", "reset"}
      /\ kind = "initialize" =>
           /\ server.key = 0 /\ server'.key = made' /\ server'.code = made'
           /\ server'.members = {made'} /\ server'.package.pairing = 0 /\ made' = made + 1
      /\ kind = "recover" =>
           /\ server'.members = server.members \cup {made'} /\ made' = made + 1
      /\ kind = "rotate" => server'.code = made + 1 /\ server'.members = server.members
      /\ kind \in {"recover", "rotate"} =>
           server'.key = server.key /\ server'.package = server.package
  BY <1>1, AnswerIs
<1>7. /\ server' # server => BusyOp(s)
      /\ BusyOp(s) => \A t \in Slots : BusyOp(t)' => t = s
  BY <1>5, <1>6 DEF BusyOp, Busy, Unguarded, Background, IInv, OneBusy
<1>8. TypeOK'
  BY <1>5, <1>6 DEF IInv, TypeOK
<1>9. OpsOK'
  <2>1. kind \in Joins => op.new \in Profiles
    BY <1>1, <1>3 DEF NewProfile, Profiles, Servers, Joins
  <2>2. kind \notin Joins => op.new = ops[s].old
    BY <1>3 DEF NewProfile, Joins
  <2>3. OpOK(op)
    BY <1>1, <1>3, <2>1, <2>2 DEF OpOK
  <2> QED
    BY <1>5, <2>3, OpsStay DEF IInv
<1>10. CodeOK'
  <2>1. BusyOp(s) => panel.code = 0
    BY DEF IInv, CodeOK
  <2>2. ASSUME NEW t \in Slots, BusyOp(t)', ops'[t].kind \in {"initialize", "rotate"},
               ops'[t].step \in {"save", "arrive"}
        PROVE  ops'[t].number = server'.code \/ ops'[t].number \in replaced'
    <3>1. CASE t = s
      BY <1>1, <1>3, <1>5, <1>6, <2>2, <3>1
    <3>2. CASE t # s
      <4>1. server' = server /\ ops'[t] = ops[t] /\ BusyOp(t)
        BY <1>5, <1>7, <2>2, <3>2
      <4> QED
        BY <2>2, <4>1 DEF IInv, CodeOK
    <3> QED
      BY <3>1, <3>2
  <2>3. CodeIsCurrent'
    BY <1>7, <2>1 DEF IInv, CodeOK, CodeIsCurrent
  <2>4. ASSUME NEW t \in Slots, BusyOp(t)', ops'[t].step \in {"load", "ask", "save", "arrive"}
        PROVE  panel'.code = 0
    BY <1>5, <2>1, <2>4 DEF IInv, CodeOK
  <2> QED
    BY <2>2, <2>3, <2>4 DEF CodeOK
<1>11. PairingOK'
  <2>1. \A t \in Slots : Settles(t) => Settles(t)'
    BY <1>5 DEF Settles
  <2>2. ASSUME NEW t \in Slots, BusyOp(t)', ~ops'[t].mounted
        PROVE  panel'.pairing = 0
    BY <1>3, <1>5, <2>2 DEF IInv, PairingOK
  <2>3. ASSUME NEW t \in Slots, BusyOp(t)', ops'[t].kind = "begin"
        PROVE  /\ ops'[t].step = "save" =>
                    /\ pending' < ops'[t].number /\ server'.package.pairing < ops'[t].number
                    /\ ops'[t].number <= made'
               /\ ops'[t].step = "arrive" => pending' = ops'[t].number
    <3>1. CASE t = s
      <4>1. made' = made + 1 /\ server' = server
        BY <1>3, <1>5, <1>6, <2>3, <3>1 DEF Makes
      <4>2. server.package.pairing \in Nat
        BY <1>1 DEF Servers
      <4> QED
        BY <1>1, <1>3, <1>5, <2>3, <3>1, <4>1, <4>2 DEF IInv, ServerOK
    <3>2. CASE t # s
      <4>1. server' = server /\ ops'[t] = ops[t] /\ BusyOp(t) /\ ops[t] \in Operations
        BY <1>5, <1>7, <1>8, <2>3, <3>2 DEF TypeOK, BusyOp
      <4>2. ops[t].number \in Nat
        BY <4>1 DEF Operations
      <4> QED
        BY <1>1, <1>6, <2>3, <4>1, <4>2 DEF IInv, PairingOK
    <3> QED
      BY <3>1, <3>2
  <2>4. ~setting'.faults => panel'.pairing \in {0, pending'} \/ \E t \in Slots : Settles(t)'
    BY <2>1 DEF IInv, PairingOK
  <2> QED
    BY <2>2, <2>3, <2>4 DEF PairingOK
<1>12. MemberOK'
  <2> SUFFICES ASSUME ~setting.faults
               PROVE  MemberOK'
    BY DEF MemberOK
  <2>1. Leaving => Leaving'
    BY <1>5 DEF Leaving
  <2>2. kind \in Leaves => Leaving'
    BY <1>3, <1>5 DEF Leaving, Leaves
  <2>3. ASSUME NEW p, IsMember(p), ~Leaving'
        PROVE  IsMember(p)'
    BY <1>6, <2>2, <2>3 DEF IsMember, Leaves, IInv, ServerOK
  <2>4. profile # NoProfile /\ ~Leaving' /\ ~stale => IsMember(profile)'
    BY <2>1, <2>3 DEF IInv, MemberOK
  <2>5. ASSUME NEW t \in Slots, BusyOp(t)', ops'[t].kind \in Joins, ops'[t].step = "save"
        PROVE  IsMember(ops[t].new)'
    <3>1. CASE t = s
      <4>1. /\ kind \in Joins /\ BusyOp(s) /\ op.new = NewProfile(ops[s], made + 1)
            /\ ~Leaving
        BY <1>3, <1>5, <2>5, <3>1 DEF Leaving, IInv, OneBusy, BusyOp, Busy, Leaves, Unguarded,
                                      Background
      <4>2. CASE kind = "claim"
        <5>1. /\ op.new.device = pending /\ op.new.key = server.package.key
              /\ pending # 0 /\ server.package.pairing = pending /\ server' = server
          BY <1>6, <4>1, <4>2 DEF NewProfile, Accepts, Syncs
        <5>2. pending \in expelled \cup server.members /\ server.package.key = server.key
          BY <4>1, <5>1 DEF IInv, MemberOK, ServerOK
        <5> QED
          BY <1>5, <3>1, <5>1, <5>2 DEF IsMember
      <4>3. CASE kind = "initialize"
        BY <1>5, <1>6, <3>1, <4>1, <4>3 DEF NewProfile, IsMember
      <4>4. CASE kind = "recover"
        BY <1>5, <1>6, <3>1, <4>1, <4>4 DEF NewProfile, IsMember
      <4> QED
        BY <4>1, <4>2, <4>3, <4>4 DEF Joins
    <3>2. CASE t # s
      <4>1. server' = server /\ ops'[t] = ops[t] /\ BusyOp(t)
        BY <1>5, <1>7, <2>5, <3>2
      <4> QED
        BY <2>5, <4>1 DEF IInv, MemberOK, IsMember
    <3> QED
      BY <3>1, <3>2
  <2>6. ASSUME pending # 0, server'.package.pairing = pending, ~Leaving'
        PROVE  pending \in expelled \cup server'.members
    <3>1. kind # "initialize" /\ server'.package = server.package
      BY <1>6, <2>2, <2>6 DEF Leaves
    <3>2. pending \in expelled \cup server.members
      BY <2>1, <2>6, <3>1 DEF IInv, MemberOK
    <3>3. server.members \subseteq server'.members
      BY <1>6, <2>2, <2>6, <3>1 DEF Leaves
    <3> QED
      BY <3>2, <3>3
  <2> QED
    BY <2>4, <2>5, <2>6 DEF MemberOK
<1> QED
  BY <1>5, <1>6, <1>8, <1>9, <1>10, <1>11, <1>12 DEF IInv

LEMMA AskKeeps ==
  ASSUME IInv, NEW s \in Slots, ops[s] # NoOp, Ask(s)
  PROVE  IInv'
<1>1. /\ ops[s] \in Operations /\ OpOK(ops[s]) /\ made \in Nat /\ server \in Servers
      /\ panel \in Panels
  BY DEF IInv, TypeOK, OpsOK
<1>2. /\ ops[s].step = "ask"
      /\ UNCHANGED <<setting, expelled, replaced, session, profile, pending, panel, noted, stale>>
  BY DEF Ask, PanelOf
<1>3. CASE /\ Accepts(ops[s]) /\ server' = Answered(ops[s], made + 1)
           /\ made' = IF Makes(ops[s].kind) THEN made + 1 ELSE made
           /\ busy' = busy
           /\ Goes(s, [ops[s] EXCEPT !.step = IF ops[s].kind = "name" THEN "load" ELSE "save",
                         !.new = NewProfile(ops[s], made + 1), !.number = made + 1])
  BY <1>2, <1>3, AnswerKeeps
<1>4. ASSUME FailsToAsk(s),
             \/ UNCHANGED <<server, made>>
             \/ /\ setting.faults /\ Accepts(ops[s]) /\ server' = Answered(ops[s], made + 1)
                /\ made' = IF Makes(ops[s].kind) THEN made + 1 ELSE made
      PROVE  IInv'
  <2>1. CASE ops[s].kind \in Persists
    <3>1. UNCHANGED <<server, made>>
      BY <1>4, <2>1 DEF Persists, Syncs, Answered, Makes
    <3> DEFINE op == [ops[s] EXCEPT !.step = "save", !.ok = @ /\ ops[s].kind \notin Syncs]
    <3>2. Goes(s, op) /\ busy' = busy
      BY <1>4, <2>1 DEF FailsToAsk
    <3>3. /\ op \in Operations /\ op.kind = ops[s].kind /\ op.mounted = ops[s].mounted
          /\ op.step = "save" /\ op.old = ops[s].old /\ op.new = ops[s].new
          /\ op.ok = (ops[s].ok /\ ops[s].kind \notin Syncs)
      <4>1. ops[s].ok \in BOOLEAN
        BY <1>1 DEF Operations
      <4>2. PICK ok \in BOOLEAN : ok = (ops[s].ok /\ ops[s].kind \notin Syncs)
        BY <4>1
      <4>3. op = [ops[s] EXCEPT !.step = "save", !.ok = ok]
        BY <4>2
      <4> QED
        BY <1>1, <4>2, <4>3 DEF Operations
    <3> HIDE DEF op
    <3>4. op.kind \notin Joins \cup Leaves \cup {"begin", "rotate"}
      BY <2>1, <3>3 DEF Persists, Syncs, Joins, Leaves
    <3>5. OpOK(op)
      BY <1>1, <3>3, <3>4 DEF OpOK
    <3> QED
      BY <1>2, <3>1, <3>2, <3>3, <3>4, <3>5, MoveKeeps
  <2>2. CASE ops[s].kind \notin Persists
    <3>1. Ends(s)
      BY <1>4, <2>2 DEF FailsToAsk, Fails
    <3>2. CASE UNCHANGED <<server, made>>
      BY <1>1, <1>2, <3>1, <3>2, EndKeeps
    <3>3. CASE ~UNCHANGED <<server, made>>
      BY <1>2, <1>4, <3>1, <3>3, LostAnswerKeeps
    <3> QED
      BY <3>2, <3>3
  <2> QED
    BY <2>1, <2>2
<1>5. \/ /\ Accepts(ops[s]) /\ server' = Answered(ops[s], made + 1)
         /\ made' = IF Makes(ops[s].kind) THEN made + 1 ELSE made
         /\ \/ /\ busy' = busy
               /\ Goes(s, [ops[s] EXCEPT
                             !.step = IF ops[s].kind = "name" THEN "load" ELSE "save",
                             !.new = NewProfile(ops[s], made + 1), !.number = made + 1])
            \/ setting.faults /\ FailsToAsk(s)
      \/ FailsToAsk(s) /\ UNCHANGED <<server, made>>
  BY DEF Ask
<1> QED
  BY <1>3, <1>4, <1>5

\* An operation that saves what it has been answered.
LEMMA SavedKeeps ==
  ASSUME IInv, NEW s \in Slots, ops[s] # NoOp, ops[s].step = "save",
         profile' = ProfileAfter(ops[s]), session' = SessionAfter(ops[s]),
         pending' = PendingAfter(ops[s]),
         stale' = (stale \/ (profile' # profile /\ ops[s].kind \notin Joins \cup Leaves
                             /\ ops[s].old # profile)),
         Goes(s, [ops[s] EXCEPT !.step = "arrive"]), busy' = busy,
         UNCHANGED <<setting, made, server, expelled, replaced, panel, noted>>
  PROVE  IInv'
<1> DEFINE kind == ops[s].kind
           op == [ops[s] EXCEPT !.step = "arrive"]
<1>1. /\ ops[s] \in Operations /\ OpOK(ops[s]) /\ server \in Servers /\ made \in Nat
      /\ pending \in Nat /\ session \in Sessions /\ profile \in Profiles \cup {NoProfile}
      /\ stale \in BOOLEAN
  BY DEF IInv, TypeOK, OpsOK
<1>2. /\ op \in Operations /\ op.kind = kind /\ op.mounted = ops[s].mounted /\ op.step = "arrive"
      /\ op.old = ops[s].old /\ op.new = ops[s].new /\ op.ok = ops[s].ok
      /\ op.number = ops[s].number
  BY <1>1 DEF Operations
<1>3. Goes(s, op)
  OBVIOUS
<1> HIDE DEF op
<1>4. /\ ops' \in [Slots -> Operations \cup {NoOp}]
      /\ ops'[s] = op /\ op # NoOp
      /\ \A t \in Slots \ {s} : ops'[t] = ops[t]
      /\ \A t \in Slots : BusyOp(t)' <=> BusyOp(t)
      /\ OneBusy'
  BY <1>2, <1>3, GoesKeeps DEF IInv
<1>5. BusyOp(s) => \A t \in Slots : BusyOp(t)' => t = s
  BY <1>4 DEF IInv, OneBusy
<1>6. /\ kind \in Joins \cup Leaves \cup {"begin"} => BusyOp(s)
      /\ kind = "begin" => pending' = ops[s].number
      /\ kind \in Leaves \cup {"claim"} => pending' = 0
      /\ kind \notin Leaves \cup {"begin", "claim"} => pending' = pending
  BY DEF BusyOp, Busy, PendingAfter, Joins, Leaves, Unguarded, Background
<1>7. kind = "begin" =>
        /\ pending < ops[s].number /\ server.package.pairing < ops[s].number
        /\ ops[s].number <= made
  BY <1>6 DEF IInv, PairingOK
<1>8. TypeOK'
  <2>1. profile' \in Profiles \cup {NoProfile}
    BY <1>1 DEF ProfileAfter, Operations
  <2>2. session' \in Sessions
    <3>1. kind \in Joins => ops[s].new.device \in Nat
      BY <1>1 DEF OpOK, Profiles
    <3>2. ops[s].in \in Sessions
      BY <1>1 DEF Operations
    <3> QED
      BY <1>1, <3>1, <3>2 DEF SessionAfter, Sessions
  <2>3. pending' \in Nat
    BY <1>1, <1>6 DEF Operations
  <2>4. stale' \in BOOLEAN
    BY <1>1
  <2> QED
    BY <1>4, <2>1, <2>2, <2>3, <2>4 DEF IInv, TypeOK
<1>9. OpsOK'
  <2>1. OpOK(op)
    BY <1>1, <1>2 DEF OpOK
  <2> QED
    BY <1>4, <2>1, OpsStay DEF IInv
<1>10. ServerOK'
  BY <1>1, <1>6, <1>7 DEF IInv, ServerOK
<1>11. CodeOK'
  BY <1>2, <1>4 DEF IInv, CodeOK, CodeIsCurrent
<1>12. PairingOK'
  <2>1. ASSUME NEW t \in Slots, BusyOp(t)', ~ops'[t].mounted
        PROVE  panel'.pairing = 0
    BY <1>2, <1>4, <2>1 DEF IInv, PairingOK
  <2>2. ASSUME NEW t \in Slots, BusyOp(t)', ops'[t].kind = "begin"
        PROVE  /\ ops'[t].step = "save" =>
                    /\ pending' < ops'[t].number /\ server'.package.pairing < ops'[t].number
                    /\ ops'[t].number <= made'
               /\ ops'[t].step = "arrive" => pending' = ops'[t].number
    <3>1. CASE t = s
      BY <1>2, <1>4, <1>6, <2>2, <3>1
    <3>2. CASE t # s
      <4>1. pending' = pending /\ ops'[t] = ops[t] /\ BusyOp(t)
        BY <1>4, <1>5, <1>6, <2>2, <3>2 DEF Joins
      <4> QED
        BY <2>2, <4>1 DEF IInv, PairingOK
    <3> QED
      BY <3>1, <3>2
  <2>3. ASSUME ~setting'.faults, ~\E t \in Slots : Settles(t)'
        PROVE  panel'.pairing \in {0, pending'}
    <3>1. CASE kind \in Leaves \cup {"begin", "claim"}
      <4>1. BusyOp(s) /\ ~ops[s].mounted
        BY <1>2, <1>4, <1>6, <2>3, <3>1 DEF Settles, Joins, Leaves
      <4> QED
        BY <4>1 DEF IInv, PairingOK
    <3>2. CASE kind \notin Leaves \cup {"begin", "claim"}
      <4>1. \A t \in Slots : Settles(t) => Settles(t)'
        BY <1>4 DEF Settles
      <4> QED
        BY <1>6, <2>3, <3>2, <4>1 DEF IInv, PairingOK
    <3> QED
      BY <3>1, <3>2
  <2> QED
    BY <2>1, <2>2, <2>3 DEF PairingOK
<1>13. MemberOK'
  <2> SUFFICES ASSUME ~setting.faults
               PROVE  MemberOK'
    BY DEF MemberOK
  <2>1. kind \notin Leaves => (Leaving => Leaving')
    BY <1>4 DEF Leaving
  <2>2. ASSUME profile' # NoProfile, ~Leaving', ~stale'
        PROVE  IsMember(profile)'
    <3>1. kind \notin Leaves /\ ~Leaving /\ ~stale
      BY <1>1, <2>1, <2>2 DEF ProfileAfter
    <3>2. CASE kind \in Joins
      <4>1. profile' = profile \/ profile' = ops[s].new
        BY <2>2, <3>1 DEF ProfileAfter
      <4>2. IsMember(ops[s].new)
        BY <1>6, <3>2 DEF IInv, MemberOK
      <4> QED
        BY <2>2, <3>1, <4>1, <4>2 DEF IInv, MemberOK, IsMember
    <3>3. CASE kind \notin Joins
      <4>1. CASE profile' = profile
        BY <2>2, <3>1, <4>1 DEF IInv, MemberOK, IsMember
      <4>2. CASE profile' # profile
        <5>1. ops[s].old = profile /\ profile' = ops[s].new /\ ops[s].new # NoProfile
          BY <2>2, <3>1, <3>3, <4>2 DEF ProfileAfter
        <5>2. profile # NoProfile /\ profile'.device = profile.device /\ profile'.key = profile.key
          BY <1>1, <3>3, <5>1 DEF OpOK
        <5> QED
          BY <3>1, <5>2 DEF IInv, MemberOK, IsMember
      <4> QED
        BY <4>1, <4>2
    <3> QED
      BY <3>2, <3>3
  <2>3. ASSUME NEW t \in Slots, BusyOp(t)', ops'[t].kind \in Joins, ops'[t].step = "save"
        PROVE  IsMember(ops[t].new)'
    <3>1. t # s /\ ops'[t] = ops[t] /\ BusyOp(t)
      BY <1>2, <1>4, <2>3
    <3> QED
      BY <2>3, <3>1 DEF IInv, MemberOK, IsMember
  <2>4. ASSUME pending' # 0, server'.package.pairing = pending', ~Leaving'
        PROVE  pending' \in expelled' \cup server'.members
    <3>1. kind \notin Leaves \cup {"begin", "claim"}
      BY <1>1, <1>6, <1>7, <2>4 DEF Operations
    <3> QED
      BY <1>6, <2>1, <2>4, <3>1 DEF IInv, MemberOK
  <2> QED
    BY <2>2, <2>3, <2>4 DEF MemberOK
<1> QED
  BY <1>4, <1>8, <1>9, <1>10, <1>11, <1>12, <1>13 DEF IInv

LEMMA SaveKeeps ==
  ASSUME IInv, NEW s \in Slots, ops[s] # NoOp, Save(s)
  PROVE  IInv'
<1>1. UNCHANGED <<setting, made, server, expelled, replaced, panel, noted>> /\ ops[s].step = "save"
  BY DEF Save, PanelOf
<1>2. CASE setting.faults /\ Ends(s) /\ UNCHANGED <<profile, session, pending, stale>>
  BY <1>1, <1>2, EndKeeps DEF IInv, TypeOK
<1>3. CASE ~(setting.faults /\ Ends(s) /\ UNCHANGED <<profile, session, pending, stale>>)
  BY <1>1, <1>3, SavedKeeps DEF Save, Fails
<1> QED
  BY <1>2, <1>3

\* What an answer makes the panel show: of the codes, only the one it is about.
LEMMA ResultIs ==
  ASSUME panel \in Panels, NEW op \in Operations, NEW shown, shown = Show(Result(op))
  PROVE  /\ shown \in Panels
         /\ op.kind \in {"initialize", "rotate"} =>
              shown.code = op.number /\ shown.pairing = panel.pairing
         /\ op.kind \notin {"initialize", "rotate"} =>
              shown.code = panel.code \/ (op.kind = "reset" /\ shown.code = 0)
         /\ op.kind = "begin" => shown.pairing = op.number
         /\ op.kind \in {"recover", "claim", "leave", "reset"} => shown.pairing = 0
         /\ op.kind \notin {"begin", "recover", "claim", "leave", "reset"} =>
              shown.pairing = panel.pairing
<1>1. op.number \in Nat /\ panel.open \in BOOLEAN
  BY DEF Operations, Panels
<1>2. CASE op.kind \in {"initialize", "rotate"}
  <2>1. shown = [panel EXCEPT !.code = op.number]
    BY <1>1, <1>2, ShowIs DEF Result
  <2>2. shown \in Panels /\ shown.code = op.number /\ shown.pairing = panel.pairing
    BY <1>1, <2>1 DEF Panels
  <2> QED
    BY <1>2, <2>2
<1>3. CASE op.kind = "begin"
  <2> DEFINE fields == Result(op)
  <2>1. DOMAIN fields = {"pairing", "join"} /\ fields.pairing = op.number /\ fields.join = TRUE
    BY <1>3 DEF Result
  <2> HIDE DEF fields
  <2>2. Show(fields) = [panel EXCEPT !.pairing = fields.pairing, !.join = fields.join]
    BY <2>1, ShowBothIs
  <2>3. shown = [panel EXCEPT !.pairing = op.number, !.join = TRUE]
    BY <2>1, <2>2 DEF fields
  <2>4. shown \in Panels /\ shown.code = panel.code /\ shown.pairing = op.number
    BY <1>1, <2>3 DEF Panels
  <2> QED
    BY <1>3, <2>4
<1>4. CASE op.kind \in {"recover", "claim"}
  <2> DEFINE fields == Result(op)
  <2>1. DOMAIN fields = {"pairing", "join"} /\ fields.pairing = 0 /\ fields.join = FALSE
    BY <1>4 DEF Result
  <2> HIDE DEF fields
  <2>2. Show(fields) = [panel EXCEPT !.pairing = fields.pairing, !.join = fields.join]
    BY <2>1, ShowBothIs
  <2>3. shown = [panel EXCEPT !.pairing = 0, !.join = FALSE]
    BY <2>1, <2>2 DEF fields
  <2>4. shown \in Panels /\ shown.code = panel.code /\ shown.pairing = 0
    <3> DEFINE paired == [panel EXCEPT !.pairing = 0]
    <3>1. paired \in Panels /\ paired.code = panel.code /\ paired.pairing = 0
      BY DEF Panels
    <3>2. shown = [paired EXCEPT !.join = FALSE]
      BY <2>3
    <3> HIDE DEF paired
    <3> QED
      BY <3>1, <3>2 DEF Panels
  <2> QED
    BY <1>4, <2>4
<1>5. CASE op.kind = "leave"
  <2>1. shown = [panel EXCEPT !.pairing = 0]
    BY <1>5, ShowIs DEF Result
  <2>2. shown \in Panels /\ shown.code = panel.code /\ shown.pairing = 0
    BY <2>1 DEF Panels
  <2> QED
    BY <1>5, <2>2
<1>6. CASE op.kind = "reset"
  <2> DEFINE fields == Result(op)
  <2>1. DOMAIN fields = {"pairing", "code"} /\ fields.pairing = 0 /\ fields.code = 0
    BY <1>6 DEF Result
  <2> HIDE DEF fields
  <2>2. Show(fields) = [panel EXCEPT !.pairing = fields.pairing, !.code = fields.code]
    BY <2>1, ShowBothIs
  <2>3. shown = [panel EXCEPT !.pairing = 0, !.code = 0]
    BY <2>1, <2>2 DEF fields
  <2>4. shown \in Panels /\ shown.code = 0 /\ shown.pairing = 0
    <3> DEFINE paired == [panel EXCEPT !.pairing = 0]
    <3>1. paired \in Panels /\ paired.code = panel.code /\ paired.pairing = 0
      BY DEF Panels
    <3>2. shown = [paired EXCEPT !.code = 0]
      BY <2>3
    <3> HIDE DEF paired
    <3> QED
      BY <3>1, <3>2 DEF Panels
  <2> QED
    BY <1>6, <2>4
<1>7. CASE op.kind \notin {"initialize", "rotate", "begin", "recover", "claim", "leave", "reset"}
  <2>1. shown = [panel EXCEPT !.open = panel.open]
    BY <1>1, <1>7, ShowIs DEF Result
  <2>2. shown \in Panels /\ shown.code = panel.code /\ shown.pairing = panel.pairing
    BY <1>1, <2>1 DEF Panels
  <2> QED
    BY <1>7, <2>2
<1> QED
  BY <1>2, <1>3, <1>4, <1>5, <1>6, <1>7

LEMMA ArriveKeeps ==
  ASSUME IInv, NEW s \in Slots, ops[s] # NoOp, Arrive(s)
  PROVE  IInv'
<1> DEFINE kind == ops[s].kind
<1>1. /\ ops[s] \in Operations /\ OpOK(ops[s]) /\ panel \in Panels /\ ops[s].step = "arrive"
  BY DEF IInv, TypeOK, OpsOK, Arrive
<1>2. UNCHANGED <<setting, made, server, expelled, replaced, session, profile, pending, noted, stale>>
  BY DEF Arrive, backend
<1>3. /\ ops' \in [Slots -> Operations \cup {NoOp}] /\ busy' \in BOOLEAN
      /\ ops'[s] # NoOp => OpOK(ops'[s]) /\ ops'[s].step = "fetch" /\ ops'[s].kind = kind
                           /\ ops'[s].mounted = ops[s].mounted
      /\ \A t \in Slots \ {s} : ops'[t] = ops[t]
      /\ \A t \in Slots : BusyOp(t)' => BusyOp(t)
      /\ OneBusy'
  <2>1. CASE Ends(s)
    BY <2>1, EndsKeeps DEF IInv
  <2>2. CASE ~Ends(s)
    <3> DEFINE op == [ops[s] EXCEPT !.step = "fetch"]
    <3>1. Goes(s, op) /\ busy' = busy
      BY <2>2 DEF Arrive
    <3>2. /\ op \in Operations /\ op.kind = kind /\ op.step = "fetch" /\ op.ok = ops[s].ok
          /\ op.mounted = ops[s].mounted /\ op.old = ops[s].old /\ op.new = ops[s].new
      BY <1>1 DEF Operations
    <3> HIDE DEF op
    <3>3. OpOK(op)
      BY <1>1, <3>2 DEF OpOK
    <3> QED
      BY <3>1, <3>2, <3>3, GoesKeeps DEF IInv, TypeOK
  <2> QED
    BY <2>1, <2>2
<1>4. \/ panel' = panel /\ (~Busy(kind) \/ ~ops[s].mounted \/ kind = "sync")
      \/ panel' = Show(Result(ops[s])) /\ BusyOp(s) /\ ops[s].mounted
      \/ panel' = Show(Result(ops[s])) /\ ~Busy(kind)
  BY <1>1 DEF Arrive, BusyOp, OpOK, Syncs, Busy, Background
<1>5. ~Busy(kind) => kind \notin {"initialize", "rotate", "begin", "recover", "claim", "leave", "reset"}
  BY DEF Busy, Unguarded, Background
<1>6. /\ panel' \in Panels
      /\ \/ panel'.code \in {0, panel.code}
         \/ BusyOp(s) /\ kind \in {"initialize", "rotate"} /\ panel'.code = ops[s].number
      /\ panel'.code = panel.code \/ BusyOp(s)
      /\ panel'.pairing = panel.pairing \/ (BusyOp(s) /\ ops[s].mounted)
      /\ kind = "begin" /\ ops[s].mounted => panel'.pairing = ops[s].number
      /\ kind \in {"claim", "leave", "reset"} /\ ops[s].mounted => panel'.pairing = 0
      /\ kind # "begin" => panel'.pairing \in {0, panel.pairing}
  <2> DEFINE shown == Show(Result(ops[s]))
  <2>1. /\ shown \in Panels
        /\ kind \in {"initialize", "rotate"} =>
             shown.code = ops[s].number /\ shown.pairing = panel.pairing
        /\ kind \notin {"initialize", "rotate"} =>
             shown.code = panel.code \/ (kind = "reset" /\ shown.code = 0)
        /\ kind = "begin" => shown.pairing = ops[s].number
        /\ kind \in {"recover", "claim", "leave", "reset"} => shown.pairing = 0
        /\ kind \notin {"begin", "recover", "claim", "leave", "reset"} =>
             shown.pairing = panel.pairing
    BY <1>1, ResultIs
  <2> HIDE DEF shown
  <2>2. CASE panel' = panel /\ (~Busy(kind) \/ ~ops[s].mounted \/ kind = "sync")
    BY <1>1, <1>5, <2>2
  <2>3. CASE panel' = shown /\ BusyOp(s) /\ ops[s].mounted
    BY <1>1, <2>1, <2>3
  <2>4. CASE panel' = shown /\ ~Busy(kind)
    BY <1>1, <1>5, <2>1, <2>4
  <2> QED
    BY <1>4, <2>2, <2>3, <2>4 DEF shown
<1>7. TypeOK'
  BY <1>2, <1>3, <1>6 DEF IInv, TypeOK
<1>8. OpsOK'
  BY <1>3, OpsStay DEF IInv
<1>9. ServerOK'
  BY <1>2 DEF IInv, ServerOK
<1>10. BusyOp(s) => \A t \in Slots : BusyOp(t)' => t = s
  BY <1>3 DEF IInv, OneBusy
<1>11. CodeOK'
  <2>1. CodeIsCurrent'
    BY <1>1, <1>2, <1>6 DEF IInv, CodeOK, CodeIsCurrent
  <2>2. ASSUME NEW t \in Slots, BusyOp(t)', ops'[t].step \in {"load", "ask", "save", "arrive"}
        PROVE  panel'.code = 0 /\ BusyOp(t) /\ ops'[t] = ops[t]
    BY <1>3, <1>6, <1>10, <2>2 DEF IInv, CodeOK, BusyOp
  <2> QED
    BY <1>2, <2>1, <2>2 DEF IInv, CodeOK
<1>12. PairingOK'
  <2>1. ASSUME NEW t \in Slots, BusyOp(t)', ~ops'[t].mounted
        PROVE  panel'.pairing = 0
    <3>1. BusyOp(t) /\ ~ops[t].mounted
      BY <1>3, <2>1 DEF BusyOp
    <3> QED
      BY <1>3, <1>6, <1>10, <2>1, <3>1 DEF IInv, PairingOK
  <2>2. ASSUME NEW t \in Slots, BusyOp(t)', ops'[t].kind = "begin", ops'[t].step \in {"save", "arrive"}
        PROVE  BusyOp(t) /\ ops'[t] = ops[t]
    BY <1>3, <2>2 DEF BusyOp
  <2>3. ASSUME ~setting.faults, ~\E t \in Slots : Settles(t)'
        PROVE  panel'.pairing \in {0, pending}
    <3>1. \A t \in Slots \ {s} : ~Settles(t)
      BY <1>3, <2>3 DEF Settles, BusyOp
    <3>2. CASE Settles(s)
      BY <1>1, <1>6, <3>2 DEF Settles, IInv, PairingOK
    <3>3. CASE ~Settles(s)
      <4>1. panel.pairing \in {0, pending}
        BY <2>3, <3>1, <3>3 DEF IInv, PairingOK
      <4>2. panel'.pairing \in {0, panel.pairing}
        BY <1>1, <1>6, <3>3 DEF Settles
      <4> QED
        BY <4>1, <4>2
    <3> QED
      BY <3>2, <3>3
  <2> QED
    BY <1>2, <2>1, <2>2, <2>3 DEF IInv, PairingOK
<1>13. MemberOK'
  <2>1. Leaving => Leaving'
    BY <1>1, <1>3 DEF Leaving
  <2>2. \A t \in Slots : BusyOp(t)' /\ ops'[t].step = "save" => BusyOp(t) /\ ops'[t] = ops[t]
    BY <1>3 DEF BusyOp
  <2> QED
    BY <1>2, <2>1, <2>2 DEF IInv, MemberOK, IsMember
<1> QED
  BY <1>3, <1>7, <1>8, <1>9, <1>11, <1>12, <1>13 DEF IInv

-------------------------------------------------------------------------------
LEMMA InitIInv == Init => IInv
<1> SUFFICES ASSUME Init
             PROVE  IInv
  OBVIOUS
<1>1. setting \in Settings /\ setting.vault \in BOOLEAN /\ setting.joined \in BOOLEAN
      /\ (setting.joined => setting.vault)
  BY SettingsAssumption DEF Init
<1>2. \A s \in Slots : ops[s] = NoOp
  BY DEF Init
<1>3. Snapshot(TRUE) \in Summaries
  BY DEF Init, Snapshot, Summaries
<1>4. /\ server \in Servers /\ server.package.pairing = 0
      /\ server.key = 0 => server.members = {}
      /\ setting.joined => 1 \in server.members /\ server.key = 1
  BY <1>1 DEF Init, Servers, NoVault, NoPackage
<1>5. profile \in Profiles \cup {NoProfile}
  BY DEF Init, Profiles
<1>6. TypeOK
  BY <1>1, <1>3, <1>4, <1>5 DEF Init, TypeOK, Sessions, Panels
<1>7. OneBusy /\ OpsOK
  BY <1>2 DEF OneBusy, OpsOK, BusyOp
<1>8. ServerOK
  BY <1>4 DEF Init, ServerOK
<1>9. CodeOK
  BY <1>2 DEF Init, CodeOK, CodeIsCurrent, BusyOp
<1>10. PairingOK
  BY <1>2 DEF Init, PairingOK, BusyOp
<1>11. MemberOK
  BY <1>1, <1>2, <1>4 DEF Init, MemberOK, IsMember, BusyOp
<1> QED
  BY <1>6, <1>7, <1>8, <1>9, <1>10, <1>11 DEF IInv

LEMMA NextIInv == IInv /\ [Next]_vars => IInv'
<1> SUFFICES ASSUME IInv, [Next]_vars
             PROVE  IInv'
  OBVIOUS
<1>1. CASE AutoSync \/ \E kind \in Kinds : UserStarts(kind)
  BY <1>1, StartKeeps
<1>2. CASE CloseSettings \/ OpenSettings \/ OpenJoin \/ CloseJoin \/ CodeSaved
  BY <1>2, PanelActionKeeps
<1>3. CASE OthersApprove \/ OthersRevoke \/ OthersReset \/ OthersRotate \/ OthersInitialize
  BY <1>3, OtherActionKeeps
<1>4. ASSUME NEW s \in Slots, Step(s)
      PROVE  IInv'
  BY <1>4, LoadKeeps, AskKeeps, SaveKeeps, ArriveKeeps, FetchKeeps, ReloadKeeps DEF Step
<1>5. CASE UNCHANGED vars
  <2>1. UNCHANGED <<setting, made, server, expelled, replaced, session, profile, pending, ops, panel, busy,
                    noted, stale>>
    BY <1>5 DEF vars, backend
  <2>2. \A s \in Slots : (BusyOp(s)' <=> BusyOp(s)) /\ (Settles(s)' <=> Settles(s))
    BY <2>1 DEF BusyOp, Settles
  <2> QED
    BY <2>1, <2>2 DEF IInv, TypeOK, OneBusy, OpsOK, OpOK, ServerOK, CodeOK, CodeIsCurrent,
                      PairingOK, MemberOK, IsMember, Leaving
<1> QED
  BY <1>1, <1>2, <1>3, <1>4, <1>5 DEF Next

\* The inductive invariant: what all operations in progress rely on.
THEOREM Inductive == Spec => []IInv
BY InitIInv, NextIInv, PTL DEF Spec

\* While there are no faults on the way, and no Sync has saved over a change, a device that has
\* a profile is a member of the vault, with its key, or has been removed by others: whatever
\* operations are in progress (client.go:545-597, 1795-1842).
THEOREM MembersAgree == Spec => []MembershipAgrees
<1>1. IInv => MembershipAgrees
  BY DEF IInv, MemberOK, MembershipAgrees, IsMember
<1> QED
  BY <1>1, Inductive, PTL

\* A recovery code on the screen is never one that this program has replaced, whatever others
\* do to the vault meanwhile (App.tsx:2823, 2943).
THEOREM CodesAreCurrent == Spec => []CodeIsCurrent
<1>1. IInv => CodeIsCurrent
  BY DEF IInv, CodeOK
<1> QED
  BY <1>1, Inductive, PTL

\* Once syncBusy is cleared, the pairing request that is shown can be claimed, though the
\* settings may have been closed and opened again meanwhile (App.tsx:2864-2880).
THEOREM PairingsArePending == Spec => []PairingIsPending
<1>1. IInv => PairingIsPending
  BY DEF IInv, OneBusy, PairingOK, PairingIsPending, Settles
<1> QED
  BY <1>1, Inductive, PTL
===============================================================================
