---------------------------- MODULE VersionVector ----------------------------
(***************************************************************************)
(* The version vectors of internal/syncclient/client.go: incrementVector,  *)
(* cloneVector, mergeVectors and compareVectors.                           *)
(*                                                                         *)
(* A vector is a Go map from device identifiers to counters: a function    *)
(* whose domain is any set of devices.  A device that is missing counts as *)
(* 0, and a counter of 0 can be present.  The operators follow the loops   *)
(* of the code; Leq and the laws below say what they amount to.            *)
(***************************************************************************)
EXTENDS Naturals

CONSTANT Devices

Vectors == UNION {[D -> Nat] : D \in SUBSET Devices}

NoVector == [d \in {} |-> 0]

\* v[d] of a Go map: the zero value where d is missing.
At(v, d) == IF d \in DOMAIN v THEN v[d] ELSE 0

\* The vectors ordered by what they have seen.
Leq(v, w) == \A d \in Devices : At(v, d) <= At(w, d)

-------------------------------------------------------------------------------
\* cloneVector drops the counters that are not positive.
CloneVector(v) == [d \in {e \in DOMAIN v : v[e] > 0} |-> v[d]]

\* mergeVectors: a clone of the left one, raised where the right one is larger.
MergeVectors(v, w) ==
  LET result == CloneVector(v)
      raised == {d \in DOMAIN w : w[d] > At(result, d)}
  IN  [d \in DOMAIN result \cup raised |-> IF d \in raised THEN w[d] ELSE result[d]]

\* incrementVector: a state saved before vectors existed has only a version, which
\* counts as the device's own counter.
IncrementVector(previous, device, legacyVersion) ==
  LET clone == CloneVector(previous)
      base  == IF DOMAIN clone = {} /\ legacyVersion > 0
                 THEN [d \in {device} |-> legacyVersion] ELSE clone
  IN  [d \in DOMAIN base \cup {device} |->
         IF d = device THEN At(base, d) + 1 ELSE base[d]]

-------------------------------------------------------------------------------
\* The two loops of compareVectors: over the left vector, then over what only the
\* right one has.
LeftGreater(v, w) == \E d \in DOMAIN v : v[d] > At(w, d)

RightGreater(v, w) ==
  \/ \E d \in DOMAIN v : v[d] < At(w, d)
  \/ \E d \in DOMAIN w \ DOMAIN v : w[d] > 0

CompareVectors(v, w) ==
  CASE LeftGreater(v, w) /\ RightGreater(v, w) -> "concurrent"
    [] LeftGreater(v, w) /\ ~RightGreater(v, w) -> "after"
    [] ~LeftGreater(v, w) /\ RightGreater(v, w) -> "before"
    [] OTHER -> "equal"

-------------------------------------------------------------------------------
(***************************************************************************)
(* What the operators are for.                                             *)
(***************************************************************************)

\* compareVectors decides the causal order of two versions of a record.
OrderLaw(v, w) ==
  CompareVectors(v, w) =
    CASE Leq(v, w) /\ Leq(w, v)   -> "equal"
      [] Leq(v, w) /\ ~Leq(w, v)  -> "before"
      [] ~Leq(v, w) /\ Leq(w, v)  -> "after"
      [] ~Leq(v, w) /\ ~Leq(w, v) -> "concurrent"

\* mergeVectors has seen what either of the two has seen, and nothing else.
JoinLaw(v, w, u) ==
  LET m == MergeVectors(v, w)
  IN  /\ Leq(v, m) /\ Leq(w, m)
      /\ Leq(v, u) /\ Leq(w, u) => Leq(m, u)

\* The version a device gives to a change follows the one it has, and no version
\* that lacks this change has seen it: also when all it has is a legacy version.
NewVersionLaw(v, w, device, legacyVersion) ==
  LET next == IncrementVector(v, device, legacyVersion)
      old  == IF Leq(v, NoVector) /\ legacyVersion > 0
                THEN [d \in {device} |-> legacyVersion] ELSE v
  IN  /\ CompareVectors(old, next) = "before"
      /\ At(w, device) <= At(old, device) => ~Leq(next, w)

===============================================================================
