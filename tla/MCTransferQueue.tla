--------------------------- MODULE MCTransferQueue ---------------------------
(***************************************************************************)
(* Two transfers that share a slot, whose sources have two blocks, so that *)
(* a run can stop between them; two uploads, and two downloads, that have  *)
(* one destination; and one transfer whose runs overlap.                   *)
(***************************************************************************)
EXTENDS TransferQueue

CONSTANTS a, b, c, d, r1, r2, r3, here, there

\* a and c are uploads to one path, b and d downloads to another; only a overwrites.
FourJobs == {a, b, c, d}
FirstJob == {a}
TwoUploads == {a, c}

ThreeRuns == {r1, r2, r3}

Destination == [j \in Jobs |-> IF j \in TwoUploads THEN here ELSE there]

Sharing ==
  [jobs |-> {a, b}, runs |-> {r1, r2}, slots |-> 1, size |-> 2, impatient |-> FALSE,
   found |-> {{here}}, left |-> {{here, there}}, others |-> {},
   maxResumes |-> 1, maxFaults |-> 1]

\* Other programs create files where the transfers want to put theirs.
Intruded(jobs) ==
  [jobs |-> jobs, runs |-> {r1, r2}, slots |-> 1, size |-> 2, impatient |-> FALSE,
   found |-> {{}, {here, there}}, left |-> {{}}, others |-> {Destination[j] : j \in jobs},
   maxResumes |-> 1, maxFaults |-> 0]

Meeting(jobs) ==
  [jobs |-> jobs, runs |-> {r1, r2}, slots |-> 2, size |-> 1, impatient |-> FALSE,
   found |-> {{}}, left |-> {{}}, others |-> {}, maxResumes |-> 0, maxFaults |-> 0]

Overlapping ==
  [jobs |-> {a}, runs |-> {r1, r2, r3}, slots |-> 2, size |-> 1, impatient |-> TRUE,
   found |-> {{here}}, left |-> {{}}, others |-> {}, maxResumes |-> 2, maxFaults |-> 0]

TransferSettings ==
  {Sharing, Intruded({a}), Intruded({b}), Intruded({c}), Meeting({a, c}), Meeting({b, d}),
   Overlapping}
===============================================================================
