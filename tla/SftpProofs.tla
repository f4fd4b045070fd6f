------------------------------ MODULE SftpProofs ------------------------------
(***************************************************************************)
(* Proofs about the two parts of SFTP: TransferQueue, for any number of    *)
(* transfers, goroutines, slots and blocks, and SftpBrowser, for any       *)
(* number of connections and of operations at a time, and any files.       *)
(***************************************************************************)
EXTENDS TransferQueue, SftpBrowser, TLAPS

(***************************************************************************)
(* The transfer queue.                                                     *)
(*                                                                         *)
(* What a queued or a running transfer can rely on is inductive with the   *)
(* types of the control state.  That CancelTransfer reaches the run needs  *)
(* more: job.cancel must belong to the run that works (Owned), which holds *)
(* only as long as nobody resumes a transfer whose run still winds up.     *)
(***************************************************************************)

Statuses == {"none", "queued", "running", "paused", "failed", "completed", "cancelled"}

Points == {"idle", "slot", "probe", "open", "copy", "clear", "rename", "error", "done",
           "cleanup"}

SettingOK == setting \in Settings

ControlOK ==
  /\ status \in [Jobs -> Statuses]
  /\ cancel \in [Jobs -> Runs \cup {NoRun}]
  /\ pc \in [Runs -> Points]
  /\ job \in [Runs -> Jobs]
  /\ stopped \in [Runs -> BOOLEAN]

\* Between the two sections of runTransfer.
Working(r) == pc[r] \in {"probe", "open", "copy", "clear", "rename", "error", "done"}

\* The two halves of NoneForgotten.
QueuedIsLaunched ==
  \A j \in Jobs : status[j] = "queued" => \E r \in Runs : pc[r] = "slot" /\ job[r] = j

RunningIsActive ==
  \A j \in Jobs : status[j] = "running" => \E r \in ActiveFor(j) : pc[r] # "cleanup"

IInv ==
  /\ ControlOK
  /\ QueuedIsLaunched
  /\ RunningIsActive

\* job.cancel belongs to the only run that works on the transfer.
Owned ==
  \A r \in Runs :
    Working(r) => cancel[job[r]] = r /\ status[job[r]] \in {"running", "paused", "cancelled"}

\* A run that removes what a cancelled transfer has left is its last.
Cleaning ==
  \A r \in Runs :
    pc[r] = "cleanup" =>
      /\ status[job[r]] = "cancelled"
      /\ \A q \in ActiveFor(job[r]) : q = r

-------------------------------------------------------------------------------
LEMMA SettingFixed == [Next]_vars => setting' = setting
<1> SUFFICES ASSUME [Next]_vars
             PROVE  setting' = setting
  OBVIOUS
<1> USE DEF control, rest
<1>1. ASSUME NEW j \in Jobs, Start(j) \/ Pause(j) \/ Resume(j) \/ Cancel(j) \/ CloseCancel(j)
      PROVE  setting' = setting
  BY <1>1 DEF Start, Pause, Resume, Cancel, CloseCancel
<1>2. ASSUME NEW r \in Runs, RunStep(r) \/ Fault(r)
      PROVE  setting' = setting
  <2>1. CASE Admit(r) \/ Probe(r) \/ Open(r) \/ Copy(r) \/ Copied(r) \/ Interrupted(r)
    BY <2>1 DEF Admit, Probe, Open, Copy, Copied, Interrupted
  <2>2. CASE Clear(r) \/ Rename(r) \/ End(r) \/ Cleanup(r) \/ Fault(r)
    BY <2>2 DEF Clear, Rename, End, Cleanup, Fault
  <2>. QED  BY <1>2, <2>1, <2>2 DEF RunStep
<1>3. CASE Close \/ CloseWait \/ CloseReturn \/ UNCHANGED vars
  BY <1>3 DEF Close, CloseWait, CloseReturn, vars
<1>4. ASSUME NEW p \in Paths, Appear(p)
      PROVE  setting' = setting
  BY <1>4 DEF Appear
<1>. QED  BY <1>1, <1>2, <1>3, <1>4 DEF Next, CloseStep

LEMMA SomeJobExists == SomeJob \in Jobs
BY JobsAssumption DEF SomeJob

\* The steps of a run that touch neither its transfer nor its life.
Quietly(r) ==
  /\ pc[r] \in {"probe", "open", "copy", "clear", "rename"}
  /\ pc' = [pc EXCEPT ![r] = pc'[r]]
  /\ pc'[r] \in {"open", "copy", "clear", "rename", "error", "done"}
  /\ pc[r] \in {"clear", "rename"} => pc'[r] \in {"rename", "error", "done"}
  /\ UNCHANGED <<status, cancel, job, stopped>>

LEMMA QuietSteps ==
  ASSUME ControlOK, NEW r \in Runs,
         \/ Probe(r) \/ Open(r) \/ Copy(r) \/ Copied(r) \/ Interrupted(r) \/ Fault(r)
         \/ Clear(r) \/ Rename(r)
  PROVE  Quietly(r)
<1> USE DEF ControlOK, Quietly, jobVars
<1>1. CASE Probe(r)
  BY <1>1 DEF Probe, Goto
<1>2. CASE Open(r)
  BY <1>2 DEF Open, Goto
<1>3. CASE Copy(r)
  BY <1>3 DEF Copy
<1>4. CASE Copied(r)
  BY <1>4 DEF Copied, Goto
<1>5. CASE Interrupted(r)
  BY <1>5 DEF Interrupted, Goto
<1>6. CASE Fault(r)
  BY <1>6 DEF Fault, Goto
<1>7. CASE Clear(r)
  BY <1>7 DEF Clear, Goto
<1>8. CASE Rename(r)
  BY <1>8 DEF Rename, Goto
<1>. QED  BY <1>1, <1>2, <1>3, <1>4, <1>5, <1>6, <1>7, <1>8

\* A transfer enters the queue together with a run that waits for it.
Enqueue(j) ==
  /\ status' = [status EXCEPT ![j] = "queued"]
  /\ Launch(j)
  /\ UNCHANGED cancel

LEMMA EnqueueKeeps ==
  ASSUME SettingOK, IInv, NEW j \in Jobs, Enqueue(j)
  PROVE  IInv'
<1>1. PICK r \in Runs :
        /\ pc[r] = "idle"
        /\ pc' = [pc EXCEPT ![r] = "slot"]
        /\ job' = [job EXCEPT ![r] = j]
        /\ UNCHANGED <<stopped, offset, file>>
  BY SettingsAssumption DEF SettingOK, Enqueue, Launch
<1>2. ControlOK'
  BY <1>1 DEF Enqueue, IInv, ControlOK, Statuses, Points
<1>3. QueuedIsLaunched'
  BY <1>1 DEF Enqueue, IInv, ControlOK, QueuedIsLaunched
<1>4. RunningIsActive'
  BY <1>1 DEF Enqueue, IInv, ControlOK, RunningIsActive, ActiveFor, Active
<1>. QED  BY <1>2, <1>3, <1>4 DEF IInv

\* A transfer leaves the queue, or is told to.
LEMMA WithdrawKeeps ==
  ASSUME IInv, NEW j \in Jobs, NEW s \in Statuses \ {"queued", "running"},
         status' = [status EXCEPT ![j] = s], Signal(j), UNCHANGED <<cancel, pc, job>>
  PROVE  IInv'
<1>1. ControlOK'
  BY DEF Signal, IInv, ControlOK
<1>2. QueuedIsLaunched'
  BY DEF IInv, ControlOK, QueuedIsLaunched
<1>3. RunningIsActive'
  BY DEF IInv, ControlOK, RunningIsActive, ActiveFor, Active
<1>. QED  BY <1>1, <1>2, <1>3 DEF IInv

LEMMA InitIInv == Init => IInv
BY SomeJobExists
DEF Init, IInv, ControlOK, QueuedIsLaunched, RunningIsActive, Statuses, Points

LEMMA NextIInv == SettingOK /\ IInv /\ [Next]_vars => IInv'
<1> SUFFICES ASSUME SettingOK, IInv, [Next]_vars
             PROVE  IInv'
  OBVIOUS
<1>1. ASSUME NEW j \in Jobs, Start(j) \/ Resume(j)
      PROVE  IInv'
  BY <1>1, EnqueueKeeps DEF Start, Resume, Enqueue
<1>2. ASSUME NEW j \in Jobs, Pause(j)
      PROVE  IInv'
  BY <1>2, WithdrawKeeps DEF Pause, Statuses
<1>3. ASSUME NEW j \in Jobs, CancelTransfer(j)
      PROVE  IInv'
  BY <1>3, WithdrawKeeps DEF CancelTransfer, Statuses
<1>4. ASSUME NEW r \in Runs, RunStep(r) \/ Fault(r)
      PROVE  IInv'
  <2>1. CASE Admit(r) /\ StillQueued(r)
    <3>1. /\ pc[r] = "slot"
          /\ pc' = [pc EXCEPT ![r] = "probe"]
          /\ status' = [status EXCEPT ![job[r]] = "running"]
          /\ cancel' = [cancel EXCEPT ![job[r]] = r]
          /\ UNCHANGED <<job, stopped>>
      BY <2>1 DEF Admit, Goto
    <3>2. ControlOK'
      BY <3>1 DEF IInv, ControlOK, Statuses, Points
    <3>3. QueuedIsLaunched'
      BY <3>1 DEF IInv, ControlOK, QueuedIsLaunched
    <3>4. RunningIsActive'
      BY <3>1 DEF IInv, ControlOK, RunningIsActive, ActiveFor, Active
    <3>. QED  BY <3>2, <3>3, <3>4 DEF IInv
  <2>2. CASE Admit(r) /\ ~StillQueued(r)
    <3>1. /\ pc[r] = "slot"
          /\ pc' = [pc EXCEPT ![r] = "idle"]
          /\ job' = [job EXCEPT ![r] = SomeJob]
          /\ stopped' = [stopped EXCEPT ![r] = FALSE]
          /\ UNCHANGED <<status, cancel>>
      BY <2>2 DEF Admit, Return, Goto, jobVars
    <3>2. status[job[r]] # "queued"
      BY <2>2 DEF StillQueued
    <3>3. ControlOK'
      BY <3>1, SomeJobExists DEF IInv, ControlOK, Points
    <3>4. QueuedIsLaunched'
      BY <3>1, <3>2 DEF IInv, ControlOK, QueuedIsLaunched
    <3>5. RunningIsActive'
      BY <3>1 DEF IInv, ControlOK, RunningIsActive, ActiveFor, Active
    <3>. QED  BY <3>3, <3>4, <3>5 DEF IInv
  <2>3. CASE Quietly(r)
    <3>1. ControlOK'
      BY <2>3 DEF Quietly, IInv, ControlOK, Points
    <3>2. QueuedIsLaunched'
      BY <2>3 DEF Quietly, IInv, ControlOK, QueuedIsLaunched
    <3>3. RunningIsActive'
      BY <2>3 DEF Quietly, IInv, ControlOK, RunningIsActive, ActiveFor, Active
    <3>. QED  BY <3>1, <3>2, <3>3 DEF IInv
  <2>4. CASE End(r)
    <3>1. /\ pc[r] \in {"error", "done"}
          /\ status' = [status EXCEPT ![job[r]] = Outcome(r)]
          /\ cancel' = [cancel EXCEPT ![job[r]] = NoRun]
          /\ \A q \in Runs \ {r} : pc'[q] = pc[q] /\ job'[q] = job[q]
          /\ pc'[r] \in {"idle", "cleanup"}
      BY <2>4 DEF End, Return, Goto, IInv, ControlOK
    <3>2. Outcome(r) \in Statuses \ {"queued", "running"}
      BY DEF Outcome, Statuses
    <3>3. ControlOK'
      <4>1. status' \in [Jobs -> Statuses] /\ cancel' \in [Jobs -> Runs \cup {NoRun}]
        BY <3>1, <3>2 DEF IInv, ControlOK
      <4>2. CASE status[job[r]] = "cancelled"
        <5>1. pc' = [pc EXCEPT ![r] = "cleanup"] /\ UNCHANGED <<job, stopped>>
          BY <2>4, <4>2 DEF End, Goto
        <5>. QED  BY <4>1, <5>1 DEF IInv, ControlOK, Points
      <4>3. CASE status[job[r]] # "cancelled"
        <5>1. /\ pc' = [pc EXCEPT ![r] = "idle"]
              /\ job' = [job EXCEPT ![r] = SomeJob]
              /\ stopped' = [stopped EXCEPT ![r] = FALSE]
          BY <2>4, <4>3 DEF End, Return, Goto
        <5>. QED  BY <4>1, <5>1, SomeJobExists DEF IInv, ControlOK, Points
      <4>. QED  BY <4>2, <4>3
    <3>4. QueuedIsLaunched'
      BY <3>1, <3>2 DEF IInv, ControlOK, QueuedIsLaunched
    <3>5. RunningIsActive'
      BY <3>1, <3>2 DEF IInv, ControlOK, RunningIsActive, ActiveFor, Active
    <3>. QED  BY <3>3, <3>4, <3>5 DEF IInv
  <2>5. CASE Cleanup(r)
    <3>1. /\ pc[r] = "cleanup"
          /\ pc' = [pc EXCEPT ![r] = "idle"]
          /\ job' = [job EXCEPT ![r] = SomeJob]
          /\ stopped' = [stopped EXCEPT ![r] = FALSE]
          /\ UNCHANGED <<status, cancel>>
      BY <2>5 DEF Cleanup, Return, Goto, jobVars
    <3>2. ControlOK'
      BY <3>1, SomeJobExists DEF IInv, ControlOK, Points
    <3>3. QueuedIsLaunched'
      BY <3>1 DEF IInv, ControlOK, QueuedIsLaunched
    <3>4. RunningIsActive'
      BY <3>1 DEF IInv, ControlOK, RunningIsActive, ActiveFor, Active
    <3>. QED  BY <3>2, <3>3, <3>4 DEF IInv
  <2>. QED
    BY <1>4, <2>1, <2>2, <2>3, <2>4, <2>5, QuietSteps DEF RunStep, IInv
<1>5. CASE UNCHANGED <<jobVars, runVars>>
  BY <1>5
  DEF jobVars, runVars, IInv, ControlOK, QueuedIsLaunched, RunningIsActive, ActiveFor, Active
<1>6. ASSUME NEW j \in Jobs, CloseCancel(j)
      PROVE  IInv'
  BY <1>3, <1>5, <1>6 DEF CloseCancel, jobVars, runVars
<1>7. CASE Close \/ CloseWait \/ CloseReturn \/ UNCHANGED vars
  BY <1>5, <1>7 DEF Close, CloseWait, CloseReturn, vars, jobVars, runVars
<1>8. ASSUME NEW p \in Paths, Appear(p)
      PROVE  IInv'
  BY <1>5, <1>8 DEF Appear
<1>. QED
  BY <1>1, <1>2, <1>3, <1>4, <1>6, <1>7, <1>8 DEF Next, CloseStep, Cancel

\* The inductive invariant holds in every state of every behaviour.
THEOREM Inductive == Safety => [](SettingOK /\ IInv)
<1>1. Init => SettingOK /\ IInv
  BY InitIInv DEF Init, SettingOK
<1>2. SettingOK /\ IInv /\ [Next]_vars => SettingOK' /\ IInv'
  BY NextIInv, SettingFixed DEF SettingOK
<1>. QED  BY <1>1, <1>2, PTL DEF Safety

\* No transfer is left in the queue without a goroutine, or shown as running when nothing
\* works on it.
THEOREM NoTransferForgotten == Safety => []NoneForgotten
<1>1. IInv => NoneForgotten
  BY DEF IInv, NoneForgotten, QueuedIsLaunched, RunningIsActive
<1>. QED  BY <1>1, Inductive, PTL

-------------------------------------------------------------------------------
(***************************************************************************)
(* Cancellation, when transfers are only resumed after their run has ended.*)
(***************************************************************************)

Reached ==
  \A j \in Jobs :
    status[j] = "cancelled" =>
      \A r \in ActiveFor(j) : pc[r] \in {"probe", "open", "copy"} => stopped[r]

CInv == Owned /\ Cleaning /\ Reached

LEMMA InitCInv == Init => CInv
BY DEF Init, CInv, Owned, Cleaning, Reached, Working, ActiveFor, Active

\* What pause and cancel do.
LEMMA WithdrawReaches ==
  ASSUME IInv, CInv, NEW j \in Jobs, NEW s \in {"paused", "cancelled"},
         s # "cancelled" => status[j] # "cancelled",
         status' = [status EXCEPT ![j] = s], Signal(j), UNCHANGED <<cancel, pc, job>>
  PROVE  CInv'
<1>1. Owned'
  BY DEF IInv, ControlOK, CInv, Owned, Working
<1>2. \A r \in Runs : stopped[r] => stopped'[r]
  BY DEF Signal, IInv, ControlOK
<1>3. ASSUME NEW r \in Runs, Working(r), job[r] = j
      PROVE  stopped'[r]
  <2>1. cancel[j] = r /\ r # NoRun
    BY <1>3, RunAssumption DEF CInv, Owned
  <2>2. stopped' = [stopped EXCEPT ![r] = TRUE]
    BY <2>1 DEF Signal
  <2>. QED  BY <2>2 DEF IInv, ControlOK
<1>4. Reached'
  BY <1>2, <1>3
  DEF IInv, ControlOK, CInv, Reached, Working, ActiveFor, Active
<1>5. Cleaning'
  BY DEF IInv, ControlOK, CInv, Cleaning, ActiveFor, Active
<1>. QED  BY <1>1, <1>4, <1>5 DEF CInv

LEMMA NextCInv ==
  ASSUME ~Impatient, SettingOK, IInv, CInv, [Next]_vars
  PROVE  CInv'
<1>1. ASSUME NEW j \in Jobs, Start(j) \/ Resume(j)
      PROVE  CInv'
  <2>1. PICK r \in Runs :
          /\ pc[r] = "idle"
          /\ pc' = [pc EXCEPT ![r] = "slot"]
          /\ job' = [job EXCEPT ![r] = j]
          /\ UNCHANGED <<stopped, offset, file>>
    BY <1>1, SettingsAssumption DEF SettingOK, Start, Resume, Launch
  <2>2. status' = [status EXCEPT ![j] = "queued"] /\ cancel' = cancel
    BY <1>1 DEF Start, Resume
  <2>3. \A q \in Runs : Working(q) => job[q] # j
    BY <1>1 DEF Start, Resume, CInv, Owned, ActiveFor, Active, Working
  <2>4. \A q \in Runs : Working(q)' <=> Working(q)
    BY <2>1 DEF Working, IInv, ControlOK
  <2>5. Owned'
    BY <2>1, <2>2, <2>3, <2>4 DEF CInv, Owned, IInv, ControlOK, Working
  <2>6. Reached'
    BY <2>1, <2>2 DEF CInv, Reached, IInv, ControlOK, ActiveFor, Active
  <2>7. Cleaning'
    BY <1>1, <2>1, <2>2
    DEF Start, Resume, CInv, Cleaning, IInv, ControlOK, ActiveFor, Active
  <2>. QED  BY <2>5, <2>6, <2>7 DEF CInv
<1>2. ASSUME NEW j \in Jobs, Pause(j)
      PROVE  CInv'
  BY <1>2, WithdrawReaches DEF Pause, Statuses
<1>3. ASSUME NEW j \in Jobs, CancelTransfer(j)
      PROVE  CInv'
  BY <1>3, WithdrawReaches DEF CancelTransfer, Statuses
<1>4. ASSUME NEW r \in Runs, RunStep(r) \/ Fault(r)
      PROVE  CInv'
  <2>1. CASE Admit(r) /\ StillQueued(r)
    <3>1. /\ pc[r] = "slot" /\ status[job[r]] = "queued"
          /\ pc' = [pc EXCEPT ![r] = "probe"]
          /\ status' = [status EXCEPT ![job[r]] = "running"]
          /\ cancel' = [cancel EXCEPT ![job[r]] = r]
          /\ UNCHANGED <<job, stopped>>
      BY <2>1 DEF Admit, StillQueued, Goto
    <3>2. \A q \in Runs : Working(q) => job[q] # job[r]
      BY <3>1 DEF CInv, Owned
    <3>3. Owned'
      BY <3>1, <3>2 DEF CInv, Owned, IInv, ControlOK, Working
    <3>4. Reached'
      BY <3>1, <3>2 DEF CInv, Reached, IInv, ControlOK, ActiveFor, Active, Working
    <3>5. Cleaning'
      BY <3>1 DEF CInv, Cleaning, IInv, ControlOK, ActiveFor, Active
    <3>. QED  BY <3>3, <3>4, <3>5 DEF CInv
  <2>2. CASE (Admit(r) /\ ~StillQueued(r)) \/ Cleanup(r)
    <3>1. /\ pc' = [pc EXCEPT ![r] = "idle"]
          /\ job' = [job EXCEPT ![r] = SomeJob]
          /\ stopped' = [stopped EXCEPT ![r] = FALSE]
          /\ UNCHANGED <<status, cancel>>
      BY <2>2 DEF Admit, Cleanup, Return, Goto, jobVars
    <3>2. Owned'
      BY <3>1 DEF CInv, Owned, IInv, ControlOK, Working
    <3>3. Reached'
      BY <3>1 DEF CInv, Reached, IInv, ControlOK, ActiveFor, Active
    <3>4. Cleaning'
      BY <3>1 DEF CInv, Cleaning, IInv, ControlOK, ActiveFor, Active
    <3>. QED  BY <3>2, <3>3, <3>4 DEF CInv
  <2>3. CASE Quietly(r)
    <3>1. Owned'
      BY <2>3 DEF Quietly, CInv, Owned, IInv, ControlOK, Working
    <3>2. Reached'
      BY <2>3 DEF Quietly, CInv, Reached, IInv, ControlOK, ActiveFor, Active
    <3>3. Cleaning'
      BY <2>3 DEF Quietly, CInv, Cleaning, IInv, ControlOK, ActiveFor, Active
    <3>. QED  BY <3>1, <3>2, <3>3 DEF CInv
  <2>4. CASE End(r)
    <3>1. /\ pc[r] \in {"error", "done"}
          /\ status' = [status EXCEPT ![job[r]] = Outcome(r)]
          /\ cancel' = [cancel EXCEPT ![job[r]] = NoRun]
          /\ \A q \in Runs \ {r} : /\ pc'[q] = pc[q] /\ job'[q] = job[q]
                                  /\ stopped'[q] = stopped[q]
          /\ pc'[r] \in {"idle", "cleanup"}
          /\ pc'[r] = "cleanup" => status[job[r]] = "cancelled" /\ job'[r] = job[r]
      BY <2>4 DEF End, Return, Goto, IInv, ControlOK
    <3>2. \A q \in Runs \ {r} : Working(q) => job[q] # job[r]
      BY <3>1 DEF CInv, Owned, Working
    <3>3. Owned'
      BY <3>1, <3>2 DEF CInv, Owned, IInv, ControlOK, Working
    <3>4. Reached'
      BY <3>1, <3>2 DEF CInv, Reached, IInv, ControlOK, ActiveFor, Active, Working
    <3>5. Cleaning'
      <4>1. \A q \in Runs \ {r} : Active(q) => job[q] # job[r]
        BY <3>1, <3>2 DEF CInv, Cleaning, ActiveFor, Active, Working, IInv, ControlOK, Points
      <4>2. pc'[r] = "cleanup" => status'[job[r]] = "cancelled"
        BY <3>1 DEF Outcome, IInv, ControlOK
      <4>. QED
        BY <3>1, <4>1, <4>2 DEF CInv, Cleaning, ActiveFor, Active, IInv, ControlOK
    <3>. QED  BY <3>3, <3>4, <3>5 DEF CInv
  <2>. QED
    BY <1>4, <2>1, <2>2, <2>3, <2>4, QuietSteps DEF RunStep, IInv
<1>5. CASE UNCHANGED <<jobVars, runVars>>
  BY <1>5 DEF jobVars, runVars, CInv, Owned, Cleaning, Reached, Working, ActiveFor, Active
<1>6. ASSUME NEW j \in Jobs, CloseCancel(j)
      PROVE  CInv'
  BY <1>3, <1>5, <1>6 DEF CloseCancel, jobVars, runVars
<1>7. CASE Close \/ CloseWait \/ CloseReturn \/ UNCHANGED vars
  BY <1>5, <1>7 DEF Close, CloseWait, CloseReturn, vars, jobVars, runVars
<1>8. ASSUME NEW p \in Paths, Appear(p)
      PROVE  CInv'
  BY <1>5, <1>8 DEF Appear
<1>. QED
  BY <1>1, <1>2, <1>3, <1>4, <1>6, <1>7, <1>8 DEF Next, CloseStep, Cancel

\* On that condition, who works on what is inductive as well.
THEOREM PatientInductive == Safety => [](~Impatient => CInv)
<1>1. Init => (~Impatient => CInv)
  BY InitCInv
<1>2. SettingOK /\ IInv /\ (~Impatient => CInv) /\ [Next]_vars => (~Impatient => CInv)'
  BY NextCInv, SettingFixed DEF Impatient
<1>. QED  BY <1>1, <1>2, Inductive, PTL DEF Safety

\* CancelTransfer and Close stop the run of every transfer they cancel, provided that
\* nobody resumes a transfer while its previous run still winds up.
THEOREM CancelStops == Safety => []CancelReaches
<1>1. (~Impatient => CInv) => CancelReaches
  BY DEF CInv, Reached, CancelReaches
<1>. QED  BY <1>1, PatientInductive, PTL

-------------------------------------------------------------------------------
(***************************************************************************)
(* What is at a destination is replaced only in the ways that MayReplace   *)
(* names.  What a run relies on that may not overwrite (Looks) is that the *)
(* file it did not see has come since: no other program, and no other run, *)
(* leaves one there without the run being late.                            *)
(***************************************************************************)
FilesOK ==
  /\ DOMAIN part = Paths /\ DOMAIN dest = Paths
  /\ DOMAIN offset = Runs /\ DOMAIN file = Runs

\* Only the transfers of the setting exist, and only they have runs.
Known ==
  /\ \A j \in Jobs : status[j] # "none" => j \in setting.jobs
  /\ \A r \in Runs : pc[r] # "idle" => job[r] \in setting.jobs

\* A file is a sequence of blocks, and a handle belongs to a run that copies.
Block == Jobs \cup {OldBlock, NoBlock}

Opened(r) ==
  file[r] # "gone" =>
    /\ pc[r] = "copy"
    /\ \/ file[r] = "part" /\ part[Path[job[r]]] # NoFile
       \/ file[r] = "dest" /\ dest[Path[job[r]]] # NoFile

Contents ==
  /\ \A p \in Paths : {part[p], dest[p]} \subseteq Seq(Block) \cup {NoFile}
  /\ \A r \in Runs : offset[r] \in Nat /\ Opened(r)

Looks ==
  \A r \in Runs :
    /\ pc[r] = "clear" => job[r] \in Overwrite
    /\ pc[r] \in {"open", "copy", "rename"} /\ job[r] \notin Overwrite /\ dest[Path[job[r]]] # NoFile
       => r \in late

LEMMA FilesKept ==
  ASSUME FilesOK, [Next]_vars
  PROVE  FilesOK'
<1> USE DEF FilesOK
<1>1. ASSUME NEW j \in Jobs, Start(j) \/ Pause(j) \/ Resume(j) \/ Cancel(j) \/ CloseCancel(j)
      PROVE  FilesOK'
  BY <1>1, SettingsAssumption
  DEF Start, Pause, Resume, Cancel, CloseCancel, CancelTransfer, Launch, files, runVars
<1>2. ASSUME NEW r \in Runs, RunStep(r) \/ Fault(r)
      PROVE  FilesOK'
  <2>1. CASE Admit(r) \/ End(r)
    BY <2>1 DEF Admit, End, Return, files
  <2>2. CASE Probe(r) \/ Open(r) \/ Copied(r) \/ Interrupted(r) \/ Fault(r)
    BY <2>2 DEF Probe, Open, Copied, Interrupted, Fault, files
  <2>3. CASE Copy(r)
    BY <2>3 DEF Copy
  <2>4. CASE Clear(r) \/ Cleanup(r)
    BY <2>4 DEF Clear, Cleanup, Moved, Return
  <2>5. CASE Rename(r)
    BY <2>5 DEF Rename
  <2>. QED  BY <1>2, <2>1, <2>2, <2>3, <2>4, <2>5 DEF RunStep
<1>3. CASE Close \/ CloseWait \/ CloseReturn \/ UNCHANGED vars
  BY <1>3 DEF Close, CloseWait, CloseReturn, vars, files, runVars
<1>4. ASSUME NEW p \in Paths, Appear(p)
      PROVE  FilesOK'
  BY <1>4 DEF Appear, runVars
<1>. QED  BY <1>1, <1>2, <1>3, <1>4 DEF Next, CloseStep

LEMMA NextKnown ==
  ASSUME SettingOK, IInv, Known, [Next]_vars
  PROVE  Known'
<1> USE SettingFixed DEF IInv, ControlOK
<1>1. ASSUME NEW j \in Jobs, Start(j) \/ Resume(j)
      PROVE  Known'
  <2>1. j \in setting.jobs
    BY <1>1 DEF Start, Resume, Known
  <2>2. PICK r \in Runs : /\ pc' = [pc EXCEPT ![r] = "slot"]
                          /\ job' = [job EXCEPT ![r] = j]
    BY <1>1, SettingsAssumption DEF SettingOK, Start, Resume, Launch
  <2>3. status' = [status EXCEPT ![j] = "queued"]
    BY <1>1 DEF Start, Resume
  <2>. QED  BY <2>1, <2>2, <2>3 DEF Known
<1>2. ASSUME NEW j \in Jobs, Pause(j) \/ CancelTransfer(j)
      PROVE  Known'
  BY <1>2 DEF Pause, CancelTransfer, Known
<1>3. ASSUME NEW r \in Runs, RunStep(r) \/ Fault(r)
      PROVE  Known'
  <2>1. pc[r] # "idle" /\ job[r] \in setting.jobs
    BY <1>3
    DEF RunStep, Fault, Admit, Probe, Open, Copy, Copied, Interrupted, Clear, Rename, End,
        Cleanup, Known
  <2>2. CASE Quietly(r)
    BY <2>1, <2>2 DEF Quietly, Known
  <2>3. CASE Admit(r)
    BY <2>1, <2>3 DEF Admit, Return, Goto, Known, jobVars
  <2>4. CASE End(r)
    BY <2>1, <2>4 DEF End, Return, Goto, Known
  <2>5. CASE Cleanup(r)
    BY <2>1, <2>5 DEF Cleanup, Return, Goto, Known, jobVars
  <2>. QED
    BY <1>3, <2>2, <2>3, <2>4, <2>5, QuietSteps DEF RunStep
<1>4. CASE UNCHANGED <<jobVars, runVars>>
  BY <1>4 DEF jobVars, runVars, Known
<1>5. ASSUME NEW j \in Jobs, CloseCancel(j)
      PROVE  Known'
  BY <1>2, <1>4, <1>5 DEF CloseCancel
<1>6. CASE Close \/ CloseWait \/ CloseReturn \/ UNCHANGED vars
  BY <1>4, <1>6 DEF Close, CloseWait, CloseReturn, vars, jobVars, runVars
<1>7. ASSUME NEW p \in Paths, Appear(p)
      PROVE  Known'
  BY <1>4, <1>7 DEF Appear
<1>. QED
  BY <1>1, <1>2, <1>3, <1>5, <1>6, <1>7 DEF Next, CloseStep, Cancel

LEMMA WrittenIsFile ==
  ASSUME NEW f \in Seq(Block), NEW at \in Nat, NEW block \in Block
  PROVE  Written(f, at, block) \in Seq(Block)
<1> DEFINE n == IF at >= Len(f) THEN at + 1 ELSE Len(f)
<1>1. n \in Nat
  OBVIOUS
<1>2. \A k \in 1..n : (IF k = at + 1 THEN block ELSE IF k <= Len(f) THEN f[k] ELSE NoBlock) \in Block
  BY DEF Block
<1>. QED  BY <1>1, <1>2 DEF Written

\* What leaves the files alone, and every handle but those it closes.
LEMMA SameContents ==
  ASSUME Contents, part' = part, dest' = dest, \A r \in Runs : offset'[r] \in Nat,
         \A r \in Runs :
           \/ file'[r] = "gone"
           \/ file'[r] = file[r] /\ (pc[r] = "copy" => pc'[r] = "copy" /\ job'[r] = job[r])
  PROVE  Contents'
BY DEF Contents, Opened

LEMMA NextContents ==
  ASSUME SettingOK, IInv, FilesOK, Contents, [Next]_vars
  PROVE  Contents'
<1> USE DEF FilesOK, IInv, ControlOK
<1>0. /\ \A r \in Runs : offset[r] \in Nat /\ Path[job[r]] \in Paths /\ job[r] \in Block
      /\ Size \in Nat /\ <<>> \in Seq(Block) /\ \A f \in Seq(Block) : f # NoFile
  BY SettingsAssumption, FileAssumption DEF Contents, Paths, Block, SettingOK, Size
<1>1. ASSUME NEW j \in Jobs, Start(j) \/ Resume(j)
      PROVE  Contents'
  <2>1. PICK r \in Runs : /\ pc[r] = "idle"
                          /\ pc' = [pc EXCEPT ![r] = "slot"]
                          /\ job' = [job EXCEPT ![r] = j]
                          /\ UNCHANGED <<offset, file>>
    BY <1>1, SettingsAssumption DEF SettingOK, Start, Resume, Launch
  <2>2. UNCHANGED <<part, dest>>
    BY <1>1 DEF Start, Resume, files
  <2>. QED  BY <1>0, <2>1, <2>2, SameContents
<1>2. CASE UNCHANGED <<pc, job, offset, file, part, dest>>
  BY <1>0, <1>2, SameContents
<1>3. ASSUME NEW j \in Jobs, Pause(j) \/ Cancel(j) \/ CloseCancel(j)
      PROVE  Contents'
  BY <1>2, <1>3 DEF Pause, Cancel, CloseCancel, CancelTransfer, files, runVars
<1>4. CASE Close \/ CloseWait \/ CloseReturn \/ UNCHANGED vars
  BY <1>2, <1>4 DEF Close, CloseWait, CloseReturn, vars, runVars, files
<1>5. ASSUME NEW p \in Paths, Appear(p)
      PROVE  Contents'
  <2>1. OldFile \in Seq(Block)
    BY DEF OldFile, Block
  <2>. QED  BY <1>0, <1>5, <2>1 DEF Appear, runVars, Contents, Opened
<1>6. ASSUME NEW r \in Runs, RunStep(r) \/ Fault(r)
      PROVE  Contents'
  <2>1. CASE Admit(r) \/ End(r)
    <3>1. /\ \A q \in Runs \ {r} : /\ pc'[q] = pc[q] /\ job'[q] = job[q]
                                  /\ offset'[q] = offset[q]
          /\ pc[r] # "copy" /\ offset'[r] \in {offset[r], 0}
          /\ UNCHANGED <<file, part, dest>>
      BY <2>1 DEF Admit, End, Return, Goto
    <3>. QED  BY <1>0, <3>1, SameContents
  <2>2. CASE Probe(r)
    <3>1. /\ pc[r] = "probe" /\ UNCHANGED <<job, file, part, dest>>
          /\ \A q \in Runs \ {r} : pc'[q] = pc[q] /\ offset'[q] = offset[q]
          /\ \/ offset'[r] = 0
             \/ part[Path[job[r]]] # NoFile /\ offset'[r] = Len(part[Path[job[r]]])
      BY <2>2 DEF Probe, Goto, files, jobVars
    <3>2. part[Path[job[r]]] # NoFile => Len(part[Path[job[r]]]) \in Nat
      BY <1>0 DEF Contents
    <3>3. \A q \in Runs : offset'[q] \in Nat
      BY <1>0, <3>1, <3>2
    <3>. QED  BY <3>1, <3>3, SameContents
  <2>3. CASE Open(r)
    <3> DEFINE p == Path[job[r]]
    <3>1. /\ pc'[r] = "copy" /\ file'[r] = "part" /\ UNCHANGED <<job, dest>>
          /\ \A q \in Runs \ {r} : /\ pc'[q] = pc[q] /\ offset'[q] = offset[q]
                                  /\ file'[q] = file[q]
          /\ \A q \in Paths \ {p} : part'[q] = part[q]
      BY <2>3 DEF Open, Goto, jobVars
    <3>2. part'[p] = <<>> \/ (part'[p] = part[p] /\ part[p] # NoFile)
      BY <1>0, <2>3 DEF Open
    <3>3. part'[p] \in Seq(Block)
      BY <1>0, <3>2 DEF Contents
    <3>4. \/ offset'[r] = offset[r]
          \/ part[p] # NoFile /\ offset'[r] = Len(part[p])
          \/ offset'[r] = Len(<<>>)
      BY <1>0, <2>3 DEF Open
    <3>5. offset'[r] \in Nat
      <4>1. part[p] # NoFile => part[p] \in Seq(Block)
        BY <1>0 DEF Contents
      <4>. QED  BY <1>0, <3>4, <4>1
    <3>6. \A q \in Paths : {part'[q], dest'[q]} \subseteq Seq(Block) \cup {NoFile}
      BY <3>1, <3>3 DEF Contents
    <3>7. ASSUME NEW q \in Runs
          PROVE  offset'[q] \in Nat /\ Opened(q)'
      <4>1. part'[p] # NoFile
        BY <1>0, <3>3
      <4>2. \A s \in Paths : part[s] # NoFile => part'[s] # NoFile
        BY <3>1, <4>1
      <4>3. CASE q = r
        BY <3>1, <3>5, <4>1, <4>3 DEF Opened
      <4>4. CASE q # r
        BY <1>0, <3>1, <4>2, <4>4 DEF Contents, Opened
      <4>. QED  BY <4>3, <4>4
    <3>. QED  BY <3>6, <3>7 DEF Contents
  <2>4. CASE Copy(r)
    <3> DEFINE p == Path[job[r]]
    <3>1. /\ UNCHANGED <<pc, job, file>> /\ offset'[r] = offset[r] + 1
          /\ \A q \in Runs \ {r} : offset'[q] = offset[q]
          /\ \A q \in Paths \ {p} : part'[q] = part[q] /\ dest'[q] = dest[q]
      BY <2>4 DEF Copy, jobVars
    <3>2. /\ part'[p] = part[p] \/ (file[r] = "part" /\ part'[p] = Written(part[p], offset[r], job[r]))
          /\ dest'[p] = dest[p] \/ (file[r] = "dest" /\ dest'[p] = Written(dest[p], offset[r], job[r]))
      BY <1>0, <2>4 DEF Copy
    <3>3. /\ file[r] = "part" => part[p] \in Seq(Block)
          /\ file[r] = "dest" => dest[p] \in Seq(Block)
      BY <1>0 DEF Contents, Opened
    <3>4. /\ part'[p] = part[p] \/ part'[p] \in Seq(Block)
          /\ dest'[p] = dest[p] \/ dest'[p] \in Seq(Block)
      BY <1>0, <3>2, <3>3, WrittenIsFile
    <3>5. \A q \in Runs : offset'[q] \in Nat
      BY <1>0, <3>1
    <3>. QED  BY <1>0, <3>1, <3>4, <3>5 DEF Contents, Opened
  <2>5. CASE Copied(r) \/ Interrupted(r) \/ Fault(r)
    BY <1>0, <2>5, SameContents DEF Copied, Interrupted, Fault, Goto, files, jobVars
  <2>6. CASE Clear(r)
    <3> DEFINE p == Path[job[r]]
    <3>1. /\ UNCHANGED <<job, part, offset>>
          /\ pc[r] = "clear" /\ pc' = [pc EXCEPT ![r] = "rename"]
          /\ \/ dest' = [dest EXCEPT ![p] = NoFile] /\ file' = Moved(p, "dest", "gone")
             \/ UNCHANGED <<dest, file>>
      BY <2>6 DEF Clear, Goto, jobVars
    <3>2. CASE UNCHANGED <<dest, file>>
      BY <1>0, <3>1, <3>2, SameContents
    <3>3. CASE dest' = [dest EXCEPT ![p] = NoFile] /\ file' = Moved(p, "dest", "gone")
      BY <1>0, <3>1, <3>3 DEF Contents, Opened, Moved
    <3>. QED  BY <3>1, <3>2, <3>3
  <2>7. CASE Rename(r)
    <3> DEFINE p == Path[job[r]]
    <3>1. pc[r] = "rename" /\ UNCHANGED <<job, offset>> /\ pc'[r] \in {"done", "error"}
          /\ \A q \in Runs \ {r} : pc'[q] = pc[q]
      BY <2>7 DEF Rename, Goto, jobVars
    <3>2. CASE Renamable(r)
      <4>1. /\ part[p] # NoFile /\ dest' = [dest EXCEPT ![p] = part[p]]
            /\ part' = [part EXCEPT ![p] = NoFile]
            /\ file' = [q \in Runs |-> IF Path[job[q]] # p THEN file[q]
                                       ELSE IF file[q] = "part" THEN "dest" ELSE "gone"]
        BY <2>7, <3>2 DEF Rename, Renamable
      <4>. QED  BY <1>0, <3>1, <4>1 DEF Contents, Opened
    <3>3. CASE ~Renamable(r)
      BY <1>0, <2>7, <3>1, <3>3, SameContents DEF Rename
    <3>. QED  BY <3>2, <3>3
  <2>8. CASE Cleanup(r)
    <3> DEFINE p == Path[job[r]]
    <3>1. /\ pc[r] = "cleanup" /\ dest' = dest
          /\ \A q \in Runs \ {r} : /\ pc'[q] = pc[q] /\ job'[q] = job[q]
                                  /\ offset'[q] = offset[q]
          /\ offset'[r] = 0
          /\ \/ part' = [part EXCEPT ![p] = NoFile] /\ file' = Moved(p, "part", "gone")
             \/ UNCHANGED <<part, file>>
      BY <2>8 DEF Cleanup, Return, Goto, jobVars
    <3>2. \A q \in Runs : offset'[q] \in Nat
      BY <1>0, <3>1
    <3>3. CASE UNCHANGED <<part, file>>
      BY <3>1, <3>2, <3>3, SameContents
    <3>4. CASE part' = [part EXCEPT ![p] = NoFile] /\ file' = Moved(p, "part", "gone")
      BY <1>0, <3>1, <3>2, <3>4 DEF Contents, Opened, Moved
    <3>. QED  BY <3>1, <3>3, <3>4
  <2>. QED  BY <1>6, <2>1, <2>2, <2>3, <2>4, <2>5, <2>6, <2>7, <2>8 DEF RunStep
<1>. QED
  BY <1>1, <1>3, <1>4, <1>5, <1>6 DEF Next, CloseStep

\* What leaves the runs where they are, or sends them away from the destination.
LEMMA StillLooks ==
  ASSUME IInv, Looks, late' = late,
         \A r \in Runs :
           pc'[r] \in {"open", "copy", "clear", "rename"} =>
             /\ pc'[r] = pc[r] /\ job'[r] = job[r]
             /\ dest'[Path[job[r]]] # NoFile => dest[Path[job[r]]] # NoFile
  PROVE  Looks'
BY DEF Looks

LEMMA NextLooks ==
  ASSUME SettingOK, IInv, FilesOK, Contents, Looks, [Next]_vars
  PROVE  Looks'
<1> USE DEF FilesOK, IInv, ControlOK
<1>1. ASSUME NEW j \in Jobs, Start(j) \/ Resume(j)
      PROVE  Looks'
  <2>1. PICK r \in Runs : /\ pc[r] = "idle"
                          /\ pc' = [pc EXCEPT ![r] = "slot"]
                          /\ job' = [job EXCEPT ![r] = j]
    BY <1>1, SettingsAssumption DEF SettingOK, Start, Resume, Launch
  <2>2. UNCHANGED <<dest, late>>
    BY <1>1 DEF Start, Resume, files
  <2>. QED  BY <2>1, <2>2, StillLooks
<1>2. CASE UNCHANGED <<pc, job, dest, late>>
  BY <1>2, StillLooks
<1>3. ASSUME NEW j \in Jobs, Pause(j) \/ Cancel(j) \/ CloseCancel(j)
      PROVE  Looks'
  BY <1>2, <1>3 DEF Pause, Cancel, CloseCancel, CancelTransfer, files, runVars
<1>4. CASE Close \/ CloseWait \/ CloseReturn \/ UNCHANGED vars
  BY <1>2, <1>4 DEF Close, CloseWait, CloseReturn, vars, runVars, files
\* Whatever looks for p is late from the moment a file is there.
<1>5. ASSUME NEW p \in Paths, late' = late \cup Looked(p),
             \A q \in Paths \ {p} : dest'[q] = dest[q],
             \A r \in Runs :
               pc'[r] \in {"open", "copy", "clear", "rename"} => pc'[r] = pc[r] /\ job'[r] = job[r]
      PROVE  Looks'
  <2>. SUFFICES ASSUME NEW r \in Runs, pc'[r] \in {"open", "copy", "clear", "rename"}
                PROVE  /\ pc'[r] = "clear" => job'[r] \in Overwrite
                       /\ pc'[r] # "clear" /\ job'[r] \notin Overwrite
                            /\ dest'[Path[job'[r]]] # NoFile => r \in late'
    BY DEF Looks
  <2>1. pc'[r] = pc[r] /\ job'[r] = job[r] /\ Path[job[r]] \in Paths
    BY <1>5 DEF Paths
  <2>2. CASE Path[job[r]] = p
    BY <1>5, <2>1, <2>2 DEF Looks, Looked
  <2>3. CASE Path[job[r]] # p
    BY <1>5, <2>1, <2>3 DEF Looks
  <2>. QED  BY <2>2, <2>3
<1>6. ASSUME NEW p \in Paths, Appear(p)
      PROVE  Looks'
  BY <1>5, <1>6 DEF Appear, runVars
<1>7. ASSUME NEW r \in Runs, RunStep(r) \/ Fault(r)
      PROVE  Looks'
  <2>1. CASE Admit(r) \/ End(r) \/ Cleanup(r)
    <3>1. /\ \A q \in Runs \ {r} : pc'[q] = pc[q] /\ job'[q] = job[q]
          /\ pc'[r] \in {"idle", "probe", "cleanup"}
          /\ dest' = dest
          /\ \A q \in Runs \ {r} : q \in late => q \in late'
      BY <2>1 DEF Admit, End, Cleanup, Return, Goto
    <3>. QED  BY <3>1 DEF Looks
  <2>2. CASE Probe(r)
    BY <2>2 DEF Probe, Goto, Looks, files, jobVars
  <2>3. CASE Open(r) \/ Copied(r)
    BY <2>3 DEF Open, Copied, Goto, Looks, files, jobVars
  <2>4. CASE Copy(r)
    <3>1. /\ UNCHANGED <<pc, job, late>>
          /\ dest' = dest \/ (file[r] = "dest" /\ \A q \in Paths \ {Path[job[r]]} : dest'[q] = dest[q])
      BY <2>4 DEF Copy, jobVars
    <3>2. file[r] = "dest" => dest[Path[job[r]]] # NoFile
      BY DEF Contents, Opened
    <3>3. \A q \in Runs : Path[job[q]] \in Paths
      BY DEF Paths
    <3>. QED  BY <3>1, <3>2, <3>3, StillLooks
  <2>5. CASE Interrupted(r) \/ Fault(r)
    BY <2>5, StillLooks DEF Interrupted, Fault, Goto, files, jobVars
  <2>6. CASE Clear(r)
    <3>1. /\ pc[r] = "clear" /\ pc' = [pc EXCEPT ![r] = "rename"] /\ UNCHANGED <<job, late>>
          /\ \A q \in Paths : dest'[q] \in {dest[q], NoFile}
      BY <2>6 DEF Clear, Goto, jobVars
    <3>2. \A q \in Runs : Path[job[q]] \in Paths
      BY DEF Paths
    <3>. QED  BY <3>1, <3>2 DEF Looks
  <2>7. CASE Rename(r)
    <3>1. /\ \A q \in Runs : pc'[q] \in {"open", "copy", "clear", "rename"} => pc'[q] = pc[q]
          /\ job' = job
      BY <2>7 DEF Rename, Goto, jobVars
    <3>2. CASE Renamable(r)
      BY <1>5, <2>7, <3>1, <3>2 DEF Rename, Paths
    <3>3. CASE ~Renamable(r)
      BY <2>7, <3>1, <3>3, StillLooks DEF Rename
    <3>. QED  BY <3>2, <3>3
  <2>. QED  BY <1>7, <2>1, <2>2, <2>3, <2>4, <2>5, <2>6, <2>7 DEF RunStep
<1>. QED
  BY <1>1, <1>3, <1>4, <1>6, <1>7 DEF Next, CloseStep

\* What the runs have seen of their destinations is inductive, in every setting.
THEOREM LooksInductive == Safety => [](FilesOK /\ Known /\ Contents /\ Looks)
<1>1. Init => FilesOK /\ Known /\ Looks
  BY DEF Init, FilesOK, Known, Looks
<1>2. Init => Contents
  <2>1. ASSUME Init
        PROVE  Leftover \in Seq(Block) /\ OldFile \in Seq(Block)
    BY <2>1, SettingsAssumption DEF Init, Leftover, OldFile, Size, Block
  <2>. QED  BY <2>1 DEF Init, Contents, Opened
<1>3. SettingOK /\ IInv /\ (FilesOK /\ Known /\ Contents /\ Looks) /\ [Next]_vars
      => (FilesOK /\ Known /\ Contents /\ Looks)'
  BY FilesKept, NextKnown, NextContents, NextLooks
<1>. QED  BY <1>1, <1>2, <1>3, Inductive, PTL DEF Safety

\* No run replaces or removes what is at a destination unless it was told to overwrite, is a
\* download that had looked before the file came, or has that very file still open: whatever
\* other programs create there, whichever transfers share the destination, and however many
\* runs of a transfer overlap.
THEOREM NothingIsReplaced == Safety => NothingReplaced
<1> DEFINE Stays(p) ==
      dest[p] # NoFile /\ dest'[p] # dest[p] => \E r \in Runs : MayReplace(r, p)
<1>1. ASSUME SettingOK, IInv, FilesOK, Looks, [Next]_vars, NEW p \in Paths
      PROVE  Stays(p)
  <2> USE <1>1 DEF FilesOK
  <2>1. ASSUME NEW i \in Jobs, Start(i) \/ Pause(i) \/ Resume(i) \/ Cancel(i) \/ CloseCancel(i)
        PROVE  dest' = dest
    BY <2>1 DEF Start, Pause, Resume, Cancel, CloseCancel, CancelTransfer, files
  <2>2. CASE Close \/ CloseWait \/ CloseReturn \/ UNCHANGED vars
    BY <2>2 DEF Close, CloseWait, CloseReturn, vars, files
  <2>3. ASSUME NEW q \in Paths, Appear(q)
        PROVE  Stays(p)
    BY <2>3 DEF Appear
  <2>4. ASSUME NEW r \in Runs, RunStep(r) \/ Fault(r)
        PROVE  Stays(p)
    <3>1. CASE Admit(r) \/ Probe(r) \/ Open(r) \/ Copied(r) \/ Interrupted(r) \/ Fault(r)
      BY <3>1 DEF Admit, Probe, Open, Copied, Interrupted, Fault, files
    <3>2. CASE End(r) \/ Cleanup(r)
      BY <3>2 DEF End, Cleanup
    <3>3. CASE Copy(r)
      BY <3>3 DEF Copy, MayReplace
    <3>4. CASE Clear(r)
      BY <3>4 DEF Clear, MayReplace, Looks
    <3>5. CASE Rename(r)
      <4>1. pc[r] = "rename" /\ (dest' = dest \/ Renamable(r))
        BY <3>5 DEF Rename
      <4>2. dest'[p] # dest[p] => Path[job[r]] = p
        BY <3>5 DEF Rename
      <4>. QED  BY <4>1, <4>2 DEF Renamable, MayReplace, Looks
    <3>. QED  BY <2>4, <3>1, <3>2, <3>3, <3>4, <3>5 DEF RunStep
  <2>. QED  BY <2>1, <2>2, <2>3, <2>4 DEF Next, CloseStep
<1>2. SettingOK /\ IInv /\ (FilesOK /\ Known /\ Contents /\ Looks) /\ [Next]_vars
      => [\A p \in Paths : Stays(p)]_vars
  BY <1>1
<1>. QED
  BY <1>2, Inductive, LooksInductive, PTL DEF Safety, NothingReplaced


-------------------------------------------------------------------------------
(***************************************************************************)
(* The files of a transfer that has its destination to itself, when        *)
(* transfers are only resumed after their run has ended.                   *)
(***************************************************************************)

\* The first n blocks of the source of j.
Blocks(n, j) == [k \in 1..n |-> j]

\* A .nyapart file holds the beginning of its source, or more than can be of any use.
Kept(j) ==
  LET p == Path[j]
  IN  part[p] = NoFile \/ part[p] = Leftover \/ \E n \in 0..Size : part[p] = Blocks(n, j)

\* What the run of j has found and made, at each point.
RunFiles(r, j) ==
  LET p == Path[j]
  IN  /\ pc[r] = "open" /\ j \in Uploads =>
           offset[r] = 0 \/ (part[p] # NoFile /\ offset[r] \in 0..Size /\ part[p] = Blocks(offset[r], j))
      /\ pc[r] = "copy" =>
           file[r] = "part" /\ offset[r] \in 0..Size /\ part[p] = Blocks(offset[r], j)
      /\ pc[r] \in {"clear", "rename"} => part[p] = Blocks(Size, j)
      /\ pc[r] = "done" => dest[p] = Blocks(Size, j)

Intact(j) ==
  /\ Kept(j)
  /\ status[j] = "completed" => dest[Path[j]] = Blocks(Size, j)
  /\ \A r \in Runs : Working(r) /\ job[r] = j => RunFiles(r, j)

LEMMA BlocksAre ==
  ASSUME NEW n \in Nat, NEW j
  PROVE  /\ Len(Blocks(n, j)) = n
         /\ Written(Blocks(n, j), n, j) = Blocks(n + 1, j)
         /\ <<>> = Blocks(0, j)
<1>1. Blocks(n, j) \in Seq({j}) /\ Len(Blocks(n, j)) = n
  BY DEF Blocks
<1>2. Written(Blocks(n, j), n, j) = Blocks(n + 1, j)
  <2>1. Written(Blocks(n, j), n, j) =
          [k \in 1..(n + 1) |-> IF k = n + 1 THEN j ELSE IF k <= n THEN Blocks(n, j)[k] ELSE NoBlock]
    BY <1>1 DEF Written
  <2>2. \A k \in 1..(n + 1) : k # n + 1 => k <= n /\ Blocks(n, j)[k] = j
    BY DEF Blocks
  <2>. QED  BY <2>1, <2>2 DEF Blocks
<1>3. <<>> = Blocks(0, j)
  BY DEF Blocks
<1>. QED  BY <1>1, <1>2, <1>3

LEMMA BlocksAreAFile ==
  ASSUME NEW n \in Nat, NEW j \in Jobs
  PROVE  Blocks(n, j) # NoFile
<1>1. Blocks(n, j) \in Seq(Jobs \cup {OldBlock, NoBlock})
  BY DEF Blocks
<1>. QED  BY <1>1, FileAssumption

\* What happens elsewhere leaves the files of j as they are.
LEMMA Undisturbed ==
  ASSUME SettingOK, NEW j \in Jobs, Intact(j), setting' = setting,
         part'[Path[j]] = part[Path[j]],
         dest'[Path[j]] = dest[Path[j]] \/ dest[Path[j]] = NoFile,
         status'[j] = "completed" => status[j] = "completed",
         \A r \in Runs :
           Working(r)' /\ job'[r] = j =>
             \/ pc'[r] \in {"probe", "error"}
             \/ /\ Working(r) /\ job[r] = j
                /\ pc'[r] = pc[r] /\ offset'[r] = offset[r] /\ file'[r] = file[r]
  PROVE  Intact(j)'
<1>1. Size \in Nat /\ Size' = Size /\ Leftover' = Leftover
  BY SettingsAssumption DEF SettingOK, Size, Leftover
<1>2. Blocks(Size, j) # NoFile
  BY <1>1, BlocksAreAFile
<1>3. ASSUME NEW r \in Runs, Working(r)', job'[r] = j
      PROVE  RunFiles(r, j)'
  <2>1. CASE pc'[r] \in {"probe", "error"}
    BY <2>1 DEF RunFiles
  <2>2. CASE RunFiles(r, j) /\ pc'[r] = pc[r] /\ offset'[r] = offset[r] /\ file'[r] = file[r]
    BY <1>1, <1>2, <2>2 DEF RunFiles
  <2>. QED  BY <1>3, <2>1, <2>2 DEF Intact
<1>. QED  BY <1>1, <1>2, <1>3 DEF Intact, Kept

LEMMA WithdrawIntact ==
  ASSUME SettingOK, IInv, NEW j \in Jobs, Intact(j), NEW i \in Jobs,
         NEW s \in {"queued", "paused", "cancelled"},
         status' = [status EXCEPT ![i] = s], UNCHANGED <<setting, offset, file, files>>,
         \/ UNCHANGED <<pc, job>>
         \/ \E r \in Runs : /\ pc' = [pc EXCEPT ![r] = "slot"]
                            /\ job' = [job EXCEPT ![r] = i]
  PROVE  Intact(j)'
<1>1. \A r \in Runs : Working(r)' => Working(r) /\ pc'[r] = pc[r] /\ job'[r] = job[r]
  BY DEF Working, IInv, ControlOK
<1>2. status'[j] = "completed" => status[j] = "completed"
  BY DEF IInv, ControlOK
<1>. QED  BY <1>1, <1>2, Undisturbed DEF files

\* The steps of a run of another transfer.
LEMMA OtherRunIntact ==
  ASSUME SettingOK, IInv, NEW j \in Jobs, Alone(j), Intact(j), setting' = setting,
         NEW r \in Runs, RunStep(r) \/ Fault(r), job[r] # j, FilesOK, Known
  PROVE  Intact(j)'
<1>1. job[r] \in Jobs /\ Path[job[r]] # Path[j]
  <2>1. pc[r] # "idle"
    BY DEF RunStep, Fault, Admit, Probe, Open, Copy, Copied, Interrupted, Clear, Rename, End,
           Cleanup
  <2>. QED  BY <2>1 DEF IInv, ControlOK, Alone, Known
<1>2. \A q \in Runs : job[q] = j => Path[job[q]] # Path[job[r]]
  BY <1>1
<1>3. /\ part'[Path[j]] = part[Path[j]] /\ dest'[Path[j]] = dest[Path[j]]
      /\ \A q \in Runs \ {r} : job[q] = j => file'[q] = file[q]
  <2>1. Path[j] \in Paths
    BY DEF Paths
  <2>2. CASE Admit(r) \/ End(r) \/ Probe(r)
    BY <2>2 DEF Admit, End, Probe, files
  <2>3. CASE Open(r) \/ Copied(r) \/ Interrupted(r) \/ Fault(r)
    BY <1>1, <2>1, <2>3 DEF Open, Copied, Interrupted, Fault, files, FilesOK
  <2>4. CASE Copy(r)
    BY <1>1, <2>1, <2>4 DEF Copy, FilesOK
  <2>5. CASE Clear(r) \/ Cleanup(r)
    BY <1>1, <1>2, <2>1, <2>5 DEF Clear, Cleanup, Moved, FilesOK
  <2>6. CASE Rename(r)
    BY <1>1, <1>2, <2>1, <2>6 DEF Rename, FilesOK
  <2>. QED  BY <2>2, <2>3, <2>4, <2>5, <2>6 DEF RunStep
<1>4. /\ status'[j] = status[j]
      /\ \A q \in Runs \ {r} : pc'[q] = pc[q] /\ job'[q] = job[q] /\ offset'[q] = offset[q]
      /\ job'[r] = j => pc'[r] = "idle"
  <2> USE <1>1 DEF IInv, ControlOK, FilesOK, Goto, Return, jobVars
  <2>1. CASE Admit(r)
    BY <2>1 DEF Admit
  <2>2. CASE End(r)
    BY <2>2 DEF End
  <2>3. CASE Probe(r) \/ Open(r) \/ Copy(r) \/ Copied(r) \/ Interrupted(r)
    BY <2>3 DEF Probe, Open, Copy, Copied, Interrupted
  <2>4. CASE Clear(r) \/ Rename(r) \/ Cleanup(r) \/ Fault(r)
    BY <2>4 DEF Clear, Rename, Cleanup, Fault
  <2>. QED  BY <2>1, <2>2, <2>3, <2>4 DEF RunStep
<1>5. \A q \in Runs :
        Working(q)' /\ job'[q] = j =>
          /\ Working(q) /\ job[q] = j
          /\ pc'[q] = pc[q] /\ offset'[q] = offset[q] /\ file'[q] = file[q]
  BY <1>3, <1>4 DEF Working
<1>. QED  BY <1>3, <1>4, <1>5, Undisturbed

\* The steps of its own run, which is the only one.
LEMMA OwnRunIntact ==
  ASSUME IInv, CInv, SettingOK, setting' = setting, NEW j \in Jobs, Intact(j), FilesOK,
         NEW r \in Runs, RunStep(r) \/ Fault(r), job[r] = j
  PROVE  Intact(j)'
<1> DEFINE p == Path[j]
<1>1. /\ p \in Paths /\ Size \in Nat /\ Size' = Size /\ Leftover' = Leftover
      /\ Len(Leftover) = Size + 1
      /\ (Working(r) => RunFiles(r, j))
      /\ Working(r) => status[j] \in {"running", "paused", "cancelled"}
      /\ Working(r) => \A q \in Runs : Working(q) /\ job[q] = j => q = r
  BY SettingsAssumption DEF Paths, SettingOK, Size, Leftover, Intact, CInv, Owned
<1>2. CASE Admit(r) \/ Interrupted(r) \/ Fault(r)
  <2>1. /\ UNCHANGED <<part, dest>>
        /\ status'[j] = "completed" => status[j] = "completed"
        /\ \A q \in Runs \ {r} : /\ pc'[q] = pc[q] /\ job'[q] = job[q] /\ offset'[q] = offset[q]
                                /\ file'[q] = file[q]
        /\ pc'[r] \in {"idle", "probe", "error"}
    BY <1>2
    DEF Admit, Interrupted, Fault, Return, Goto, jobVars, files, IInv, ControlOK, FilesOK
  <2>. QED  BY <2>1, Undisturbed DEF Working
<1>3. CASE End(r)
  <2>1. /\ UNCHANGED <<part, dest>>
        /\ \A q \in Runs \ {r} : /\ pc'[q] = pc[q] /\ job'[q] = job[q] /\ offset'[q] = offset[q]
                                /\ file'[q] = file[q]
        /\ pc'[r] \in {"idle", "cleanup"}
        /\ status'[j] = Outcome(r) /\ pc[r] \in {"error", "done"}
    BY <1>3 DEF End, Return, Goto, IInv, ControlOK, FilesOK
  <2>2. \A q \in Runs : Working(q)' /\ job'[q] = j => FALSE
    BY <1>1, <2>1 DEF Working
  <2>3. status'[j] = "completed" => dest[p] = Blocks(Size, j)
    BY <1>1, <2>1 DEF Outcome, Working, RunFiles
  <2>. QED  BY <1>1, <2>1, <2>2, <2>3 DEF Intact, Kept
<1>4. CASE Cleanup(r)
  <2>1. /\ part'[p] \in {NoFile, part[p]} /\ status' = status
        /\ \A q \in Runs \ {r} : pc'[q] = pc[q] /\ job'[q] = job[q]
        /\ pc'[r] = "idle" /\ pc[r] = "cleanup"
    BY <1>1, <1>4 DEF Cleanup, Return, Goto, jobVars, IInv, ControlOK, FilesOK
  <2>2. status[j] = "cancelled" /\ \A q \in Runs : Active(q) /\ job[q] = j => q = r
    BY <2>1 DEF CInv, Cleaning, ActiveFor
  <2>3. \A q \in Runs : Working(q)' /\ job'[q] = j => FALSE
    BY <2>1, <2>2 DEF Working, Active
  <2>. QED  BY <1>1, <2>1, <2>2, <2>3 DEF Intact, Kept
<1>5. ASSUME Working(r), status'[j] = status[j],
             \A q \in Runs \ {r} : pc'[q] = pc[q] /\ job'[q] = job[q],
             Kept(j)', RunFiles(r, j)'
      PROVE  Intact(j)'
  <2>1. \A q \in Runs : Working(q)' /\ job'[q] = j => q = r
    BY <1>1, <1>5 DEF Working
  <2>2. status'[j] # "completed"
    BY <1>1, <1>5
  <2>. QED  BY <1>1, <1>5, <2>1, <2>2 DEF Intact
<1>6. CASE Probe(r)
  <2>1. /\ pc[r] = "probe"
        /\ pc'[r] = IF j \notin Overwrite /\ dest[p] # NoFile THEN "error" ELSE "open"
        /\ \A q \in Runs \ {r} : pc'[q] = pc[q]
        /\ UNCHANGED <<status, job, files>>
        /\ offset'[r] = IF j \in Uploads /\ part[p] # NoFile /\ Len(part[p]) <= Size
                        THEN Len(part[p]) ELSE 0
    BY <1>6 DEF Probe, Goto, jobVars, IInv, ControlOK, FilesOK
  <2>2. part[p] # NoFile /\ Len(part[p]) <= Size
        => \E n \in 0..Size : part[p] = Blocks(n, j) /\ Len(part[p]) = n
    <3>1. \A n \in 0..Size : n \in Nat /\ Len(Blocks(n, j)) = n
      BY <1>1, BlocksAre
    <3>2. part[p] # Leftover \/ ~(Len(part[p]) <= Size)
      BY <1>1
    <3>. QED  BY <3>1, <3>2 DEF Intact, Kept
  <2>3. RunFiles(r, j)'
    BY <1>1, <2>1, <2>2 DEF RunFiles, files
  <2>. QED  BY <1>1, <1>5, <2>1, <2>3 DEF Working, files, Intact, Kept
<1>7. CASE Open(r)
  <2> DEFINE useless == part[p] = NoFile \/ (j \notin Uploads /\ Len(part[p]) > Size)
  <2>1. /\ pc[r] = "open" /\ pc'[r] = "copy" /\ file'[r] = "part"
        /\ \A q \in Runs \ {r} : pc'[q] = pc[q]
        /\ UNCHANGED <<status, job, dest>>
        /\ part'[p] = IF j \in Uploads /\ offset[r] = 0 THEN <<>>
                      ELSE IF useless THEN <<>> ELSE part[p]
        /\ offset'[r] = IF j \in Uploads THEN offset[r]
                        ELSE Len(IF useless THEN <<>> ELSE part[p])
    BY <1>1, <1>7 DEF Open, Goto, jobVars, IInv, ControlOK, FilesOK
  <2>2. PICK n \in 0..Size : part'[p] = Blocks(n, j) /\ offset'[r] = n
    <3>1. 0 \in 0..Size /\ <<>> = Blocks(0, j) /\ Len(<<>>) = 0
      BY <1>1, BlocksAre
    <3>2. CASE part'[p] = <<>>
      BY <1>1, <2>1, <3>1, <3>2, BlocksAre DEF RunFiles, Working
    <3>3. CASE part'[p] # <<>> /\ j \in Uploads
      BY <1>1, <2>1, <3>3 DEF RunFiles, Working
    <3>4. CASE part'[p] # <<>> /\ j \notin Uploads
      <4>1. PICK n \in 0..Size : part[p] = Blocks(n, j)
        BY <1>1, <2>1, <3>4 DEF Intact, Kept
      <4>2. Len(Blocks(n, j)) = n
        BY <1>1, BlocksAre
      <4>3. part'[p] = part[p] /\ offset'[r] = Len(part[p])
        BY <2>1, <3>4
      <4>. QED  BY <4>1, <4>2, <4>3
    <3>. QED  BY <3>2, <3>3, <3>4
  <2>3. RunFiles(r, j)'
    BY <1>1, <2>1, <2>2 DEF RunFiles, Working
  <2>. QED  BY <1>1, <1>5, <2>1, <2>2, <2>3 DEF Working, Kept
<1>8. CASE Copy(r)
  <2>1. /\ pc[r] = "copy" /\ offset[r] < Size /\ offset'[r] = offset[r] + 1
        /\ file[r] = "part" /\ offset[r] \in 0..Size /\ part[p] = Blocks(offset[r], j)
    BY <1>1, <1>8 DEF Copy, FilesOK, RunFiles, Working
  <2>2. /\ UNCHANGED <<status, pc, job, file, dest>>
        /\ part'[p] = Written(Blocks(offset[r], j), offset[r], j)
    BY <1>1, <1>8, <2>1 DEF Copy, jobVars, FilesOK
  <2>3. part'[p] = Blocks(offset[r] + 1, j) /\ offset[r] + 1 \in 0..Size
    <3>1. offset[r] \in Nat /\ offset[r] + 1 \in 0..Size
      BY <1>1, <2>1
    <3>2. Written(Blocks(offset[r], j), offset[r], j) = Blocks(offset[r] + 1, j)
      BY <3>1, BlocksAre
    <3>. QED  BY <2>2, <3>1, <3>2
  <2>4. RunFiles(r, j)'
    BY <1>1, <2>1, <2>2, <2>3 DEF RunFiles, Working
  <2>. QED  BY <1>1, <1>5, <2>1, <2>2, <2>3, <2>4 DEF Working, Kept
<1>9. CASE Copied(r)
  <2>1. /\ pc[r] = "copy" /\ offset[r] = Size
        /\ pc'[r] = IF j \in Overwrite THEN "clear" ELSE "rename"
        /\ \A q \in Runs \ {r} : pc'[q] = pc[q]
        /\ UNCHANGED <<status, job, files>>
    BY <1>9 DEF Copied, Goto, jobVars, IInv, ControlOK
  <2>2. part[p] = Blocks(Size, j)
    BY <1>1, <2>1 DEF RunFiles, Working
  <2>3. RunFiles(r, j)'
    BY <1>1, <2>1, <2>2 DEF RunFiles, Working, files
  <2>. QED  BY <1>1, <1>5, <2>1, <2>3 DEF Working, files, Intact, Kept
<1>10. CASE Clear(r)
  <2>1. /\ pc[r] = "clear" /\ pc'[r] = "rename"
        /\ \A q \in Runs \ {r} : pc'[q] = pc[q]
        /\ UNCHANGED <<status, job, part>>
    BY <1>10 DEF Clear, Goto, jobVars, IInv, ControlOK
  <2>2. part[p] = Blocks(Size, j)
    BY <1>1, <2>1 DEF RunFiles, Working
  <2>3. RunFiles(r, j)'
    BY <1>1, <2>1, <2>2 DEF RunFiles
  <2>. QED  BY <1>1, <1>5, <2>1, <2>3 DEF Working, Intact, Kept
<1>11. CASE Rename(r)
  <2>1. /\ pc[r] = "rename" /\ UNCHANGED <<status, job>>
        /\ \A q \in Runs \ {r} : pc'[q] = pc[q]
        /\ \/ pc'[r] = "error" /\ part' = part
           \/ pc'[r] = "done" /\ part'[p] = NoFile /\ dest'[p] = part[p]
    BY <1>1, <1>11 DEF Rename, Goto, jobVars, IInv, ControlOK, FilesOK
  <2>2. part[p] = Blocks(Size, j)
    BY <1>1, <2>1 DEF RunFiles, Working
  <2>3. RunFiles(r, j)'
    BY <1>1, <2>1, <2>2 DEF RunFiles
  <2>. QED  BY <1>1, <1>5, <2>1, <2>3 DEF Working, Intact, Kept
<1>. QED
  BY <1>2, <1>3, <1>4, <1>6, <1>7, <1>8, <1>9, <1>10, <1>11 DEF RunStep

FInv == FilesOK /\ Known /\ \A j \in Jobs : Alone(j) => Intact(j)

LEMMA InitFInv == Init => FInv
<1> SUFFICES ASSUME Init
             PROVE  FInv
  OBVIOUS
<1>1. FilesOK /\ Known
  BY DEF Init, FilesOK, Known
<1>2. ASSUME NEW j \in Jobs
      PROVE  Intact(j)
  <2>1. part[Path[j]] \in {NoFile, Leftover}
    BY DEF Init, Paths
  <2>. QED  BY <2>1 DEF Init, Intact, Kept, Working
<1>. QED  BY <1>1, <1>2 DEF FInv

LEMMA NextFInv ==
  ASSUME ~Impatient, SettingOK, IInv, CInv, FInv, [Next]_vars
  PROVE  FInv'
<1>1. FilesOK' /\ Known' /\ setting' = setting
  BY FilesKept, NextKnown, SettingFixed DEF FInv
<1>2. ASSUME NEW j \in Jobs, Alone(j)
      PROVE  Intact(j)'
  <2> USE <1>1, <1>2 DEF control, rest
  <2>1. Intact(j)
    BY DEF FInv
  <2>2. ASSUME NEW i \in Jobs, Start(i) \/ Resume(i)
        PROVE  Intact(j)'
    <3>1. PICK r \in Runs : /\ pc' = [pc EXCEPT ![r] = "slot"]
                            /\ job' = [job EXCEPT ![r] = i]
                            /\ UNCHANGED <<offset, file>>
      BY <2>2, SettingsAssumption DEF SettingOK, Start, Resume, Launch
    <3>. QED  BY <2>1, <2>2, <3>1, WithdrawIntact DEF Start, Resume
  <2>3. ASSUME NEW i \in Jobs, Pause(i) \/ CancelTransfer(i)
        PROVE  Intact(j)'
    BY <2>1, <2>3, WithdrawIntact DEF Pause, CancelTransfer
  <2>4. ASSUME NEW r \in Runs, RunStep(r) \/ Fault(r)
        PROVE  Intact(j)'
    BY <2>1, <2>4, OwnRunIntact, OtherRunIntact DEF FInv
  <2>5. CASE UNCHANGED <<jobVars, runVars, files>>
    BY <2>1, <2>5, Undisturbed DEF jobVars, runVars, files, Working
  <2>6. ASSUME NEW i \in Jobs, CloseCancel(i)
        PROVE  Intact(j)'
    BY <2>3, <2>5, <2>6 DEF CloseCancel
  <2>7. CASE Close \/ CloseWait \/ CloseReturn \/ UNCHANGED vars
    BY <2>5, <2>7 DEF Close, CloseWait, CloseReturn, vars, jobVars, runVars, files
  <2>8. ASSUME NEW p \in Paths, Appear(p)
        PROVE  Intact(j)'
    BY <2>1, <2>8, Undisturbed DEF Appear, jobVars, runVars, Working, FInv, FilesOK
  <2>. QED
    BY <2>2, <2>3, <2>4, <2>6, <2>7, <2>8 DEF Next, CloseStep, Cancel
<1>. QED  BY <1>1, <1>2 DEF FInv, Alone

\* What the files of a transfer hold, at every point of its run.
THEOREM FilesInductive == Safety => [](~Impatient => FInv)
<1>1. Init => (~Impatient => FInv)
  BY InitFInv
<1>2. /\ SettingOK /\ IInv /\ (~Impatient => CInv) /\ (~Impatient => FInv) /\ [Next]_vars
      => (~Impatient => FInv)'
  BY NextFInv, SettingFixed DEF Impatient
<1>. QED  BY <1>1, <1>2, Inductive, PatientInductive, PTL DEF Safety

\* A completed transfer that shares its destination with no other is there, whole: whatever
\* earlier runs have left in the .nyapart file, and wherever they have stopped.
THEOREM CompletedAreWhole == Safety => []CompletedIsWhole
<1>1. (~Impatient => FInv) => CompletedIsWhole
  BY DEF FInv, Intact, CompletedIsWhole, Blocks
<1>. QED  BY <1>1, FilesInductive, PTL

-------------------------------------------------------------------------------
(***************************************************************************)
(* The file panels.                                                        *)
(*                                                                         *)
(* BrowserInv says of every operation in progress what its next listing    *)
(* can rely on: a local one is of a directory under the grant it was asked *)
(* for (UnderGrant), and an operation nothing has disturbed is the only    *)
(* one of its column, so that what it brings is there (LoneJobs).          *)
(***************************************************************************)
\* A column and a host that go together.
Sided(column, host) ==
  column \in Columns /\ host \in Hosts /\ (column = "local" <=> host = Local)

JobFields == {"column", "host", "step", "root", "dir", "prefer", "tries", "todo", "items",
              "granted", "lone", "init"}

IsJobRecord(task) == DOMAIN task = JobFields /\ task = [field \in JobFields |-> task[field]]

OpOK(op, column) ==
  /\ op.kind \in {"create", "delete", "rename", "transfer"} /\ Sided(column, op.host)
  /\ op.kind # "delete" => op.to \in AnyPath
  /\ op.kind = "rename" => op.path \in AnyPath
  /\ op.kind = "transfer" /\ op.overwrite /\ ~op.crossed => op.to = op.seen

\* What is listed is under the grant, and there is nothing to fall back to any more.
UnderGrant(task) == task.root \in AnyPath /\ Within(task.root, task.dir) /\ task.tries = <<>>

\* A local job is under the grant unless it has its own still to ask for, or does not list.
JobOK(task) ==
  /\ IsJobRecord(task) /\ Sided(task.column, task.host)
  /\ task.step \in {"grant", "change", "ask", "list", "arrive"}
  /\ task.step = "ask" => task.column = "remote"
  /\ task.init => task.column = "remote"
  /\ {task.granted, task.lone} \subseteq BOOLEAN
  /\ task.granted => task.column = "local"
  /\ task.step = "change" => \A op \in task.todo : OpOK(op, task.column)
  /\ task.column = "local" =>
       /\ task.step \in {"list", "arrive"} => UnderGrant(task)
       /\ task.step = "change" /\ ~task.granted =>
            \A op \in task.todo : ListsAgain(op) => UnderGrant(task)
  /\ task.step = "arrive" =>
       task.dir \in AnyPath /\ \A path \in task.items : path \in AnyPath /\ Below(task.dir, path)

RemoteOK ==
  /\ remote.from \in Servers /\ remote.path \in AnyPath
  /\ \A path \in remote.items : path \in AnyPath

LocalOK ==
  /\ local.granted \in BOOLEAN
  /\ local.root \in AnyPath /\ local.path \in AnyPath
  /\ \A item \in local.items : item \in AnyPath

SessionOK ==
  /\ situation \in Situations /\ server \in Servers
  /\ disk \in [Hosts -> SUBSET AnyPath]
  /\ RemoteOK /\ LocalOK
  /\ {busy, crossed} \subseteq BOOLEAN

JobsOK ==
  /\ jobs = [s \in JobSlots |-> jobs[s]]
  /\ \A s \in JobSlots : jobs[s] # NoJob => JobOK(jobs[s])

\* Unless a listing crossed a grant, the local path is under the directory granted.
Together == ShownTogether /\ (~crossed => Within(local.root, local.path))

\* Somebody reads as long as the panel says so; and the panel has no local column.
Reading ==
  /\ busy => \E s \in JobSlots : jobs[s] # NoJob /\ Reads(jobs[s])
  /\ situation.panel =>
       ~local.granted /\ \A s \in JobSlots : jobs[s] # NoJob => jobs[s].column = "remote"

\* A job that was never disturbed is the only one of its column, and brings what is there;
\* the others have marked their column.
LoneJobs ==
  \A s \in JobSlots : jobs[s] # NoJob =>
    IF jobs[s].lone
    THEN /\ \A t \in JobSlots : jobs[t] # NoJob /\ jobs[t].column = jobs[s].column => t = s
         /\ jobs[s].step = "arrive" => jobs[s].items = Listing(jobs[s].host, jobs[s].dir)
    ELSE jobs[s].column \in disturbed

RemoteFresh ==
  InColumn("remote") = {} /\ "remote" \notin disturbed
    => remote.items = Listing(remote.from, remote.path)

LocalFresh ==
  InColumn("local") = {} /\ "local" \notin disturbed /\ ~crossed
    => {local.root \o item : item \in local.items} = Listing(Local, local.path)

BrowserInv ==
  /\ SessionOK /\ JobsOK
  /\ Together /\ OverwriteConfirmed
  /\ Reading /\ LoneJobs /\ RemoteFresh /\ LocalFresh

LEMMA WithinItself == \A path \in AnyPath : Within(path, path)
BY DEF AnyPath, Within, IsPrefix

LEMMA EmptyPath == <<>> \in AnyPath /\ Within(<<>>, <<>>)
BY DEF AnyPath, Within, IsPrefix

LEMMA SuffixIsPath ==
  ASSUME NEW path \in AnyPath, NEW n \in Nat
  PROVE  Suffix(path, n) \in AnyPath
<1>1. Len(path) \in Nat /\ \A i \in 1..Len(path) : path[i] \in Names
  BY DEF AnyPath
<1> QED
  BY <1>1 DEF AnyPath, Suffix

LEMMA SamePath ==
  ASSUME NEW p \in AnyPath, NEW q \in AnyPath, Len(p) = Len(q), \A i \in 1..Len(p) : p[i] = q[i]
  PROVE  p = q
BY DEF AnyPath

\* What is left of a path below a directory, in that directory again.
LEMMA Rejoined ==
  ASSUME NEW dir \in AnyPath, NEW path \in AnyPath, Within(dir, path)
  PROVE  Suffix(path, Len(dir)) \in AnyPath /\ dir \o Suffix(path, Len(dir)) = path
<1>1. Len(dir) \in Nat /\ Len(path) \in Nat /\ Len(dir) <= Len(path)
  BY DEF AnyPath, Within, IsPrefix
<1>2. SubSeq(path, 1, Len(dir)) = dir
  BY DEF AnyPath, Within, IsPrefix
<1>3. \A i \in 1..Len(dir) : dir[i] = path[i]
  BY <1>1, <1>2 DEF AnyPath
<1>4. Suffix(path, Len(dir)) \in AnyPath
  BY <1>1, SuffixIsPath
<1>5. Len(Suffix(path, Len(dir))) = Len(path) - Len(dir)
  BY <1>1 DEF Suffix, AnyPath
<1>6. \A i \in 1..(Len(path) - Len(dir)) : Suffix(path, Len(dir))[i] = path[Len(dir) + i]
  BY <1>1 DEF Suffix, AnyPath
<1>7. dir \o Suffix(path, Len(dir)) \in Seq(Names)
  BY <1>4 DEF AnyPath
<1>8. Len(dir \o Suffix(path, Len(dir))) = Len(path)
  BY <1>1, <1>4, <1>5 DEF AnyPath
<1>9. ASSUME NEW i \in 1..Len(path)
      PROVE  (dir \o Suffix(path, Len(dir)))[i] = path[i]
  <2>1. CASE i <= Len(dir)
    BY <1>1, <1>3, <1>4, <2>1 DEF AnyPath
  <2>2. CASE ~(i <= Len(dir))
    <3>1. i - Len(dir) \in 1..(Len(path) - Len(dir)) /\ Len(dir) + (i - Len(dir)) = i
      BY <1>1, <2>2
    <3>2. (dir \o Suffix(path, Len(dir)))[i] = Suffix(path, Len(dir))[i - Len(dir)]
      BY <1>1, <1>4, <1>5, <2>2 DEF AnyPath
    <3> QED
      BY <1>6, <3>1, <3>2
  <2> QED
    BY <2>1, <2>2
<1> QED
  BY <1>4, <1>7, <1>8, <1>9, SamePath DEF AnyPath

LEMMA WithinBelow ==
  ASSUME NEW root \in AnyPath, NEW dir \in AnyPath, NEW path \in AnyPath,
         Within(root, dir), Below(dir, path)
  PROVE  Within(root, path) /\ Within(dir, path)
<1>1. Len(root) <= Len(dir) /\ SubSeq(root, 1, Len(root)) = SubSeq(dir, 1, Len(root))
  BY DEF Within, IsPrefix
<1>2. Len(dir) <= Len(path) /\ SubSeq(dir, 1, Len(dir)) = SubSeq(path, 1, Len(dir))
  BY DEF Below, Within, IsPrefix
<1>3. Len(root) \in Nat /\ Len(dir) \in Nat /\ Len(path) \in Nat
  BY DEF AnyPath
<1>4. \A i \in 1..Len(dir) : dir[i] = path[i]
  BY <1>2, <1>3 DEF AnyPath
<1>5. SubSeq(dir, 1, Len(root)) = SubSeq(path, 1, Len(root))
  BY <1>1, <1>2, <1>3, <1>4 DEF AnyPath
<1> QED
  BY <1>1, <1>2, <1>3, <1>5 DEF Within, IsPrefix, Below

LEMMA ParentIsPath ==
  ASSUME NEW path \in AnyPath
  PROVE  Parent(path) \in AnyPath
<1>1. CASE path = <<>>
  BY <1>1 DEF Parent
<1>2. CASE path # <<>>
  <2>1. Len(path) \in Nat \ {0}
    BY <1>2 DEF AnyPath
  <2>2. Parent(path) = SubSeq(path, 1, Len(path) - 1)
    BY <1>2 DEF Parent, Front
  <2> QED
    BY <2>1, <2>2 DEF AnyPath
<1> QED
  BY <1>1, <1>2

LEMMA JoinedIsPath ==
  /\ \A dir \in AnyPath, path \in AnyPath : dir \o path \in AnyPath
  /\ \A dir \in AnyPath, name \in Names : Append(dir, name) \in AnyPath
BY DEF AnyPath

LEMMA RelativeIsPath ==
  ASSUME NEW root \in AnyPath, NEW path \in AnyPath
  PROVE  CurrentRelative(root, path) \in AnyPath
<1>1. Len(root) \in Nat
  BY DEF AnyPath
<1> QED
  BY <1>1, SuffixIsPath, EmptyPath DEF CurrentRelative, Relative

\* A name in the directory shown, found by way of the grant.
LEMMA RelativeToGrant ==
  ASSUME NEW root \in AnyPath, NEW path \in AnyPath, Within(root, path), NEW name
  PROVE  root \o Append(CurrentRelative(root, path), name) = Append(path, name)
<1> DEFINE less == Suffix(path, Len(root))
<1>1. less \in AnyPath /\ root \o less = path
  BY Rejoined
<1>2. CurrentRelative(root, path) = less
  BY DEF CurrentRelative, Relative
<1>3. less \in Seq(Names \cup {name}) /\ root \in Seq(Names \cup {name})
  BY <1>1 DEF AnyPath
<1> HIDE DEF less
<1>4. root \o Append(less, name) = Append(root \o less, name)
  BY <1>3
<1> QED
  BY <1>1, <1>2, <1>4

LEMMA ListingIsBelow ==
  ASSUME disk \in [Hosts -> SUBSET AnyPath], NEW host \in Hosts, NEW dir
  PROVE  \A path \in Listing(host, dir) : path \in AnyPath /\ Below(dir, path)
BY DEF Listing

LEMMA ReadableIsPath ==
  ASSUME disk \in [Hosts -> SUBSET AnyPath], NEW task, task.host \in Hosts, Readable(task)
  PROVE  task.dir \in AnyPath
BY EmptyPath DEF Readable, Exists

LEMMA JobIsSome ==
  ASSUME NEW task, JobOK(task)
  PROVE  task # NoJob
<1>1. task.column \in {"local", "remote"}
  BY DEF JobOK, Sided, Columns
<1>2. NoJob.column = "none"
  BY DEF NoJob
<1> QED
  BY <1>1, <1>2

\* A job that differs in nothing but how lonely it is, and what it falls back to.
SameJob(task, new) ==
  /\ IsJobRecord(new) /\ new.lone \in BOOLEAN
  /\ new.column = task.column /\ new.host = task.host /\ new.step = task.step
  /\ new.root = task.root /\ new.dir = task.dir /\ new.prefer = task.prefer
  /\ new.todo = task.todo /\ new.items = task.items
  /\ new.granted = task.granted /\ new.init = task.init
  /\ new.tries \in {task.tries, <<>>}

LEMMA Relabelled ==
  ASSUME NEW task, JobOK(task), NEW new, SameJob(task, new)
  PROVE  JobOK(new)
<1>1. UnderGrant(task) => UnderGrant(new)
  BY DEF SameJob, UnderGrant
<1> QED
  BY <1>1 DEF SameJob, JobOK

\* A new job joins those of its column.
LEMMA JobBegins ==
  ASSUME BrowserInv, NEW task, JobOK(task), task.step # "arrive", Begin(task),
         situation.panel => task.column = "remote", server' \in Servers,
         UNCHANGED <<situation, disk, remote, local, crossed, replaced>>
  PROVE  BrowserInv'
<1> DEFINE others == InColumn(task.column)
           new == [task EXCEPT !.lone = others = {}]
           Other(t) == [jobs[t] EXCEPT !.lone = FALSE, !.tries = IF task.init THEN <<>> ELSE @]
<1>1. PICK s \in JobSlots :
        /\ jobs[s] = NoJob
        /\ jobs' = [t \in JobSlots |-> IF t = s THEN new
                                       ELSE IF t \in others THEN Other(t) ELSE jobs[t]]
  BY DEF Begin
<1>2. /\ busy' = (busy \/ (situation.panel /\ Reads(task)))
      /\ disturbed' = IF others = {} THEN disturbed ELSE disturbed \cup {task.column}
  BY DEF Begin
<1>3. /\ JobOK(new) /\ new # NoJob /\ new.lone = (others = {})
      /\ new.column = task.column /\ new.step = task.step
  <2>1. SameJob(task, new) /\ new.lone = (others = {})
    BY DEF SameJob, JobOK, IsJobRecord, JobFields
  <2> QED
    BY <2>1, Relabelled, JobIsSome DEF SameJob
<1>4. ASSUME NEW t \in others
      PROVE  /\ t \in JobSlots /\ t # s /\ jobs'[t] # NoJob /\ JobOK(jobs'[t]) /\ jobs[t] # NoJob
             /\ jobs'[t].lone = FALSE /\ jobs'[t].step = jobs[t].step
             /\ jobs'[t].column = jobs[t].column /\ jobs[t].column = task.column
  <2>1. t \in JobSlots /\ jobs[t] # NoJob /\ jobs[t].column = task.column /\ JobOK(jobs[t])
    BY DEF BrowserInv, JobsOK, InColumn
  <2>2. jobs'[t] = Other(t) /\ t # s
    BY <1>1, <2>1
  <2>3. SameJob(jobs[t], Other(t)) /\ Other(t).lone = FALSE
    BY <2>1 DEF SameJob, JobOK, IsJobRecord, JobFields
  <2> HIDE DEF Other
  <2> QED
    BY <2>1, <2>2, <2>3, Relabelled, JobIsSome DEF SameJob
<1>5. ASSUME NEW t \in JobSlots, t # s, t \notin others
      PROVE  jobs'[t] = jobs[t] /\ (jobs[t] # NoJob => jobs[t].column # task.column)
  BY <1>1, <1>5 DEF InColumn
<1>6. jobs'[s] = new
  BY <1>1
<1>7. \A t \in JobSlots : jobs'[t] # NoJob <=> t = s \/ jobs[t] # NoJob
  BY <1>1, <1>3, <1>4, <1>5, <1>6
<1>8. \A t \in JobSlots : jobs[t] # NoJob => jobs'[t].column = jobs[t].column
                                             /\ jobs'[t].step = jobs[t].step
  BY <1>1, <1>4, <1>5
<1> HIDE DEF others, new
<1>9. SessionOK'
  <2>1. busy' \in BOOLEAN
    BY <1>2 DEF BrowserInv, SessionOK
  <2> QED
    BY <2>1 DEF BrowserInv, SessionOK, RemoteOK, LocalOK
<1>10. JobsOK'
  <2>1. jobs' = [t \in JobSlots |-> jobs'[t]]
    BY <1>1
  <2>2. ASSUME NEW t \in JobSlots, jobs'[t] # NoJob PROVE JobOK(jobs'[t])
    BY <1>3, <1>4, <1>5, <1>6, <2>2 DEF BrowserInv, JobsOK
  <2> QED
    BY <2>1, <2>2 DEF JobsOK
<1>11. Together' /\ OverwriteConfirmed'
  BY DEF BrowserInv, Together, ShownTogether, OverwriteConfirmed
<1>12. Reading'
  <2>1. ASSUME busy' PROVE \E t \in JobSlots : jobs'[t] # NoJob /\ Reads(jobs'[t])
    <3>1. CASE busy
      <4>1. PICK t \in JobSlots : jobs[t] # NoJob /\ Reads(jobs[t])
        BY <3>1 DEF BrowserInv, Reading
      <4> QED
        BY <1>7, <1>8, <4>1 DEF Reads
    <3>2. CASE Reads(task)
      BY <1>3, <1>6, <1>7, <3>2 DEF Reads
    <3> QED
      BY <1>2, <2>1, <3>1, <3>2
  <2>2. ASSUME situation.panel, NEW t \in JobSlots, jobs'[t] # NoJob
        PROVE  jobs'[t].column = "remote"
    BY <1>3, <1>6, <1>7, <1>8, <2>2 DEF BrowserInv, Reading
  <2>3. situation.panel => ~local.granted
    BY DEF BrowserInv, Reading
  <2> QED
    BY <2>1, <2>2, <2>3 DEF Reading
<1>13. LoneJobs'
  <2>1. ASSUME NEW t \in JobSlots, jobs'[t] # NoJob
        PROVE  IF jobs'[t].lone
               THEN /\ \A u \in JobSlots : jobs'[u] # NoJob /\ jobs'[u].column = jobs'[t].column
                                           => u = t
                    /\ jobs'[t].step = "arrive"
                       => jobs'[t].items = Listing(jobs'[t].host, jobs'[t].dir)
               ELSE jobs'[t].column \in disturbed'
    <3>1. CASE t = s
      <4>1. CASE others = {}
        BY <1>3, <1>5, <1>6, <1>7, <3>1, <4>1
      <4>2. CASE others # {}
        BY <1>2, <1>3, <1>6, <3>1, <4>2
      <4> QED
        BY <4>1, <4>2
    <3>2. CASE t \in others
      BY <1>2, <1>4, <3>2
    <3>3. CASE t # s /\ t \notin others
      <4>1. jobs'[t] = jobs[t] /\ jobs[t] # NoJob /\ jobs[t].column # task.column
        BY <1>5, <2>1, <3>3
      <4>2. CASE jobs[t].lone
        <5>1. \A u \in JobSlots : jobs[u] # NoJob /\ jobs[u].column = jobs[t].column => u = t
          BY <4>1, <4>2 DEF BrowserInv, LoneJobs
        <5>2. jobs[t].step = "arrive" => jobs[t].items = Listing(jobs[t].host, jobs[t].dir)
          BY <4>1, <4>2 DEF BrowserInv, LoneJobs
        <5> QED
          BY <1>3, <1>6, <1>7, <1>8, <4>1, <4>2, <5>1, <5>2
      <4>3. CASE ~jobs[t].lone
        BY <1>2, <4>1, <4>3 DEF BrowserInv, LoneJobs
      <4> QED
        BY <4>2, <4>3
    <3> QED
      BY <3>1, <3>2, <3>3
  <2>2. disk' = disk
    OBVIOUS
  <2> QED
    BY <2>1, <2>2 DEF LoneJobs, Listing
<1>14. ASSUME NEW column, InColumn(column)' = {}
       PROVE  InColumn(column) = {} /\ column # task.column
  BY <1>3, <1>6, <1>7, <1>8, <1>14 DEF InColumn
<1>15. ASSUME NEW column, column # task.column, column \notin disturbed'
       PROVE  column \notin disturbed
  BY <1>2, <1>15
<1>16. RemoteFresh'
  BY <1>14, <1>15 DEF BrowserInv, RemoteFresh, Listing
<1>17. LocalFresh'
  BY <1>14, <1>15 DEF BrowserInv, LocalFresh, Listing
<1> QED
  BY <1>9, <1>10, <1>11, <1>12, <1>13, <1>16, <1>17 DEF BrowserInv

LEMMA Sides ==
  ASSUME SessionOK
  PROVE  Sided("local", Local) /\ \A host \in Servers : Sided("remote", host)
BY ServerAssumption DEF SessionOK, Sided, Columns, Hosts

LEMMA ReadsRemote ==
  ASSUME SessionOK, NEW dir
  PROVE  JobOK(RemoteJob(dir)) /\ RemoteJob(dir).column = "remote" /\ RemoteJob(dir).step = "list"
<1>1. Sided("remote", server)
  BY Sides DEF SessionOK
<1> QED
  BY <1>1 DEF JobOK, IsJobRecord, JobFields, RemoteJob, Job

LEMMA ReadsFirst ==
  ASSUME SessionOK, NEW host \in Servers
  PROVE  JobOK(InitJob(host)) /\ InitJob(host).column = "remote" /\ InitJob(host).step = "list"
<1> DEFINE task == InitJob(host)
<1>1. Sided("remote", host)
  BY Sides
<1>2. /\ task.column = "remote" /\ task.host = host /\ task.step = "list"
      /\ task.granted = FALSE /\ task.lone = TRUE
  BY DEF InitJob, Job
<1>3. IsJobRecord(task)
  <2>1. IsJobRecord(Job("remote", host, stored[host]))
    BY DEF IsJobRecord, JobFields, Job
  <2> QED
    BY <2>1 DEF InitJob, IsJobRecord, JobFields
<1> HIDE DEF task
<1>4. JobOK(task)
  BY <1>1, <1>2, <1>3 DEF JobOK
<1> QED
  BY <1>2, <1>4 DEF task

LEMMA ReadsLocal ==
  ASSUME SessionOK, NEW dir
  PROVE  JobOK(LocalLoad(dir)) /\ LocalLoad(dir).step # "arrive"
<1>1. Sided("local", Local)
  BY Sides
<1>2. CASE Within(local.root, dir)
  <2>1. local.root \in AnyPath
    BY DEF SessionOK, LocalOK
  <2> QED
    BY <1>1, <1>2, <2>1 DEF JobOK, IsJobRecord, JobFields, LocalLoad, LocalJob, Job, UnderGrant
<1>3. CASE ~Within(local.root, dir)
  BY <1>1, <1>3 DEF JobOK, IsJobRecord, JobFields, LocalLoad, GrantJob, Job, UnderGrant
<1> QED
  BY <1>2, <1>3

LEMMA GrantJobIsRecord == \A dir, tries : IsJobRecord(GrantJob(dir, tries))
<1> TAKE dir, tries
<1>1. IsJobRecord(Job("local", Local, dir))
  BY DEF IsJobRecord, JobFields, Job
<1> QED
  BY <1>1 DEF GrantJob, IsJobRecord, JobFields

LEMMA ReadsGrant ==
  ASSUME SessionOK, NEW dir, NEW tries, NEW prefer
  PROVE  /\ JobOK(GrantJob(dir, tries)) /\ GrantJob(dir, tries).step # "arrive"
         /\ JobOK([GrantJob(dir, tries) EXCEPT !.prefer = prefer])
<1>1. Sided("local", Local)
  BY Sides
<1>2. ASSUME NEW task,
             task \in {GrantJob(dir, tries), [GrantJob(dir, tries) EXCEPT !.prefer = prefer]}
      PROVE  JobOK(task) /\ task.step # "arrive"
  <2>1. /\ task.column = "local" /\ task.host = Local /\ task.step = "grant"
        /\ task.granted = TRUE /\ task.lone = TRUE /\ task.init = FALSE
    BY <1>2 DEF GrantJob, Job
  <2>2. IsJobRecord(GrantJob(dir, tries))
    BY GrantJobIsRecord
  <2>3. IsJobRecord(task)
    BY <1>2, <2>2 DEF IsJobRecord, JobFields
  <2> QED
    BY <1>1, <2>1, <2>3 DEF JobOK
<1> QED
  BY <1>2

LEMMA ChangesRemote ==
  ASSUME SessionOK, NEW dir, NEW doing, \A op \in doing : OpOK(op, "remote"),
         NEW task, task = [RemoteJob(dir) EXCEPT !.step = "change", !.todo = doing]
  PROVE  JobOK(task) /\ task.column = "remote" /\ task.step # "arrive"
<1>1. Sided("remote", server)
  BY Sides DEF SessionOK
<1>2. /\ task.column = "remote" /\ task.host = server /\ task.step = "change" /\ task.todo = doing
      /\ task.granted = FALSE /\ task.lone = TRUE
  BY DEF RemoteJob, Job
<1>3. IsJobRecord(task)
  BY DEF IsJobRecord, JobFields, RemoteJob, Job
<1> QED
  BY <1>1, <1>2, <1>3 DEF JobOK

\* Without a grant of its own, a local job is under the one there is, or transfers.
LEMMA ChangesLocal ==
  ASSUME SessionOK, NEW dir, NEW doing, \A op \in doing : OpOK(op, "local"),
         NEW task,
         \/ task = [LocalLoad(dir) EXCEPT !.step = "change", !.todo = doing]
         \/ /\ task = [LocalJob(dir) EXCEPT !.step = "change", !.todo = doing]
            /\ \A op \in doing : ~ListsAgain(op)
  PROVE  JobOK(task) /\ task.step # "arrive"
<1>1. Sided("local", Local)
  BY Sides
<1>2. local.root \in AnyPath
  BY DEF SessionOK, LocalOK
<1>3. CASE task = [GrantJob(dir, <<>>) EXCEPT !.step = "change", !.todo = doing]
  <2>1. /\ task.column = "local" /\ task.host = Local /\ task.step = "change" /\ task.todo = doing
        /\ task.granted = TRUE /\ task.lone = TRUE /\ task.init = FALSE
    BY <1>3 DEF GrantJob, Job
  <2>2. IsJobRecord(task)
    <3>1. IsJobRecord(GrantJob(dir, <<>>))
      BY GrantJobIsRecord
    <3> QED
      BY <1>3, <3>1 DEF IsJobRecord, JobFields
  <2> QED
    BY <1>1, <2>1, <2>2 DEF JobOK
<1>4. CASE /\ task = [LocalJob(dir) EXCEPT !.step = "change", !.todo = doing]
           /\ Within(local.root, dir) \/ \A op \in doing : ~ListsAgain(op)
  <2>1. /\ task.column = "local" /\ task.host = Local /\ task.step = "change" /\ task.todo = doing
        /\ task.granted = FALSE /\ task.lone = TRUE /\ task.init = FALSE
        /\ task.root = local.root /\ task.dir = dir /\ task.tries = <<>>
    BY <1>4 DEF LocalJob, Job
  <2>2. IsJobRecord(task)
    BY <1>4 DEF IsJobRecord, JobFields, LocalJob, Job
  <2>3. \A op \in doing : ListsAgain(op) => UnderGrant(task)
    BY <1>2, <1>4, <2>1 DEF UnderGrant
  <2> QED
    BY <1>1, <2>1, <2>2, <2>3 DEF JobOK
<1> QED
  BY <1>3, <1>4 DEF LocalLoad

LEMMA RemoteOpOK ==
  ASSUME SessionOK, NEW kind \in {"create", "delete", "rename"}, NEW path, NEW to,
         kind # "delete" => to \in AnyPath, kind = "rename" => path \in AnyPath
  PROVE  OpOK(RemoteOp(kind, path, to), "remote")
<1>1. Sided("remote", server)
  BY Sides DEF SessionOK
<1> QED
  BY <1>1 DEF OpOK, RemoteOp

LEMMA LocalOpOK ==
  ASSUME SessionOK, NEW kind \in {"create", "delete", "rename"}, NEW item, NEW to,
         kind # "delete" => to \in AnyPath, kind = "rename" => item \in AnyPath
  PROVE  OpOK(LocalOp(kind, item, to), "local")
<1>1. Sided("local", Local) /\ local.root \in AnyPath
  BY Sides DEF SessionOK, LocalOK
<1>2. kind # "delete" => local.root \o to \in AnyPath
  BY <1>1, JoinedIsPath
<1>3. kind = "rename" => local.root \o item \in AnyPath
  BY <1>1, JoinedIsPath
<1> QED
  BY <1>1, <1>2, <1>3 DEF OpOK, LocalOp

LEMMA LastIsName ==
  ASSUME NEW path \in AnyPath, ~IsDir(path)
  PROVE  Last(path) \in Names
<1>1. path # <<>>
  BY DEF IsDir
<1>2. Len(path) \in 1..Len(path)
  BY <1>1 DEF AnyPath
<1> QED
  BY <1>2 DEF AnyPath, Last

\* What a file replaces is what the other column shows.
LEMMA UploadOK ==
  ASSUME SessionOK, NEW item \in local.items, ~IsDir(item)
  PROVE  OpOK(Upload(item), "remote")
<1>1. Sided("remote", server) /\ remote.path \in AnyPath /\ Last(item) \in Names
  BY Sides, LastIsName DEF SessionOK, RemoteOK, LocalOK
<1>2. Append(remote.path, Last(item)) \in AnyPath
  BY <1>1, JoinedIsPath
<1> DEFINE op == Upload(item)
           last == Last(local.root \o item)
<1>3. last = Last(item)
  <2>1. item \in AnyPath /\ local.root \in AnyPath /\ item # <<>>
    BY DEF SessionOK, LocalOK, IsDir
  <2> QED
    BY <2>1 DEF AnyPath, Last
<1>4. /\ op.kind = "transfer" /\ op.host = server /\ op.to = Append(remote.path, Last(item))
      /\ op.overwrite => op.seen = Append(remote.path, last)
  BY DEF Upload, TransferOp
<1> HIDE DEF op, last
<1>5. OpOK(op, "remote")
  BY <1>1, <1>2, <1>3, <1>4 DEF OpOK
<1> QED
  BY <1>5 DEF op

LEMMA DownloadOK ==
  ASSUME BrowserInv, NEW path \in remote.items, ~IsDir(path)
  PROVE  OpOK(Download(path), "local")
<1>1. /\ Sided("local", Local) /\ Last(path) \in Names
      /\ local.root \in AnyPath /\ local.path \in AnyPath
  BY Sides, LastIsName DEF BrowserInv, SessionOK, RemoteOK, LocalOK
<1> DEFINE op == Download(path)
           to == local.root \o Append(CurrentRelative(local.root, local.path), Last(path))
<1>2. to \in AnyPath
  BY <1>1, JoinedIsPath, RelativeIsPath
<1>3. ~crossed => to = Append(local.path, Last(path))
  BY <1>1, RelativeToGrant DEF BrowserInv, Together
<1>4. /\ op.kind = "transfer" /\ op.host = Local /\ op.to = to /\ op.crossed = crossed
      /\ op.overwrite => op.seen = Append(local.path, Last(path))
  BY DEF Download, TransferOp
<1> HIDE DEF op, to
<1>5. OpOK(op, "local")
  BY <1>1, <1>2, <1>3, <1>4 DEF OpOK
<1> QED
  BY <1>5 DEF op

LEMMA UserJobBegins ==
  ASSUME BrowserInv, NEW task, JobOK(task), task.step # "arrive", UserBegins(task),
         situation.panel => task.column = "remote"
  PROVE  BrowserInv'
<1>1. /\ Begin(task)
      /\ UNCHANGED <<situation, disk, server, remote, local, crossed, stored, replaced>>
  BY DEF UserBegins
<1>2. server' \in Servers
  BY <1>1 DEF BrowserInv, SessionOK
<1> QED
  BY <1>1, <1>2, JobBegins

LEMMA UserKeeps ==
  ASSUME BrowserInv, User
  PROVE  BrowserInv'
<1>1. SessionOK /\ (situation.panel => ~local.granted)
  BY DEF BrowserInv, Reading
<1>2. CASE LoadRemote
  <2>1. PICK dir : UserBegins(RemoteJob(dir))
    BY <1>2 DEF LoadRemote
  <2> QED
    BY <1>1, <2>1, ReadsRemote, UserJobBegins
<1>3. CASE LoadLocal
  <2>1. PICK dir : local.granted /\ UserBegins(LocalLoad(dir))
    BY <1>3 DEF LoadLocal
  <2> QED
    BY <1>1, <2>1, ReadsLocal, UserJobBegins
<1>4. CASE ChooseLocal
  <2>1. PICK dir : ~situation.panel /\ UserBegins(GrantJob(dir, <<>>))
    BY <1>4 DEF ChooseLocal
  <2> QED
    BY <1>1, <2>1, ReadsGrant, UserJobBegins
<1>5. CASE SwitchTab
  <2>1. PICK host \in Servers : server' = host /\ Begin(InitJob(host))
    BY <1>5 DEF SwitchTab
  <2>2. UNCHANGED <<situation, disk, remote, local, crossed, stored, replaced>>
    BY <1>5 DEF SwitchTab
  <2> QED
    BY <1>1, <2>1, <2>2, ReadsFirst, JobBegins
<1>6. CASE RemoteChanges
  <2> SUFFICES ASSUME NEW doing, \A op \in doing : OpOK(op, "remote"),
                      UserBegins([RemoteJob(remote.path) EXCEPT !.step = "change", !.todo = doing])
               PROVE  BrowserInv'
    <3>1. CASE \E chosen \in Selections(remote.items) :
                 UserBegins([RemoteJob(remote.path) EXCEPT
                               !.step = "change",
                               !.todo = {RemoteOp("delete", path, path) : path \in chosen}])
      <4>1. PICK chosen \in Selections(remote.items) :
                   UserBegins([RemoteJob(remote.path) EXCEPT
                                 !.step = "change",
                                 !.todo = {RemoteOp("delete", path, path) : path \in chosen}])
        BY <3>1
      <4>2. \A op \in {RemoteOp("delete", path, path) : path \in chosen} : OpOK(op, "remote")
        BY <1>1, RemoteOpOK
      <4> QED
        BY <4>1, <4>2
    <3>2. CASE \E path \in remote.items, name \in Names :
                 /\ name \in LikeNames(path)
                 /\ UserBegins([RemoteJob(remote.path) EXCEPT
                                  !.step = "change",
                                  !.todo = {RemoteOp("rename", path, Append(Parent(path), name))}])
      <4>1. PICK path \in remote.items, name \in Names :
                 UserBegins([RemoteJob(remote.path) EXCEPT
                               !.step = "change",
                               !.todo = {RemoteOp("rename", path, Append(Parent(path), name))}])
        BY <3>2
      <4>2. path \in AnyPath /\ Append(Parent(path), name) \in AnyPath
        BY <1>1, ParentIsPath, JoinedIsPath DEF SessionOK, RemoteOK
      <4>3. OpOK(RemoteOp("rename", path, Append(Parent(path), name)), "remote")
        BY <1>1, <4>2, RemoteOpOK
      <4> DEFINE ops == {RemoteOp("rename", path, Append(Parent(path), name))}
      <4>4. \A op \in ops : OpOK(op, "remote")
        BY <4>3
      <4>5. UserBegins([RemoteJob(remote.path) EXCEPT !.step = "change", !.todo = ops])
        BY <4>1
      <4> HIDE DEF ops
      <4> QED
        BY <4>4, <4>5
    <3>3. CASE \E name \in DirNames,
                  base \in {remote.path} \cup
                             IF situation.panel THEN {p \in remote.items : IsDir(p)} ELSE {} :
                 UserBegins([RemoteJob(remote.path) EXCEPT
                               !.step = "change",
                               !.todo = {RemoteOp("create", <<>>, Append(base, name))}])
      <4>1. PICK name \in DirNames,
                 base \in {remote.path} \cup
                            IF situation.panel THEN {p \in remote.items : IsDir(p)} ELSE {} :
                 UserBegins([RemoteJob(remote.path) EXCEPT
                               !.step = "change",
                               !.todo = {RemoteOp("create", <<>>, Append(base, name))}])
        BY <3>3
      <4>2. base \in AnyPath /\ name \in Names
        BY <1>1 DEF SessionOK, RemoteOK, Names
      <4>3. Append(base, name) \in AnyPath
        BY <4>2, JoinedIsPath
      <4>4. OpOK(RemoteOp("create", <<>>, Append(base, name)), "remote")
        BY <1>1, <4>3, RemoteOpOK
      <4> DEFINE ops == {RemoteOp("create", <<>>, Append(base, name))}
      <4>5. \A op \in ops : OpOK(op, "remote")
        BY <4>4
      <4>6. UserBegins([RemoteJob(remote.path) EXCEPT !.step = "change", !.todo = ops])
        BY <4>1
      <4> HIDE DEF ops
      <4> QED
        BY <4>5, <4>6
    <3> QED
      BY <1>6, <3>1, <3>2, <3>3 DEF RemoteChanges
  <2> DEFINE task == [RemoteJob(remote.path) EXCEPT !.step = "change", !.todo = doing]
  <2>1. JobOK(task) /\ task.column = "remote" /\ task.step # "arrive"
    BY <1>1, ChangesRemote
  <2> QED
    BY <2>1, UserJobBegins
<1>7. CASE LocalChanges
  <2> DEFINE here == CurrentRelative(local.root, local.path)
  <2>1. local.granted /\ here \in AnyPath
    BY <1>1, <1>7, RelativeIsPath DEF LocalChanges, SessionOK, LocalOK
  <2> SUFFICES ASSUME NEW doing, \A op \in doing : OpOK(op, "local"),
                      UserBegins([LocalLoad(local.path) EXCEPT !.step = "change", !.todo = doing])
               PROVE  BrowserInv'
    <3>1. CASE \E chosen \in Selections(local.items) :
                 UserBegins([LocalLoad(local.path) EXCEPT
                               !.step = "change",
                               !.todo = {LocalOp("delete", item, item) : item \in chosen}])
      <4>1. PICK chosen \in Selections(local.items) :
                   UserBegins([LocalLoad(local.path) EXCEPT
                                 !.step = "change",
                                 !.todo = {LocalOp("delete", item, item) : item \in chosen}])
        BY <3>1
      <4>2. \A op \in {LocalOp("delete", item, item) : item \in chosen} : OpOK(op, "local")
        BY <1>1, LocalOpOK
      <4> QED
        BY <4>1, <4>2
    <3>2. CASE \E item \in local.items, name \in Names :
                 /\ name \in LikeNames(item)
                 /\ UserBegins([LocalLoad(local.path) EXCEPT
                                  !.step = "change",
                                  !.todo = {LocalOp("rename", item, Append(here, name))}])
      <4>1. PICK item \in local.items, name \in Names :
                 UserBegins([LocalLoad(local.path) EXCEPT
                               !.step = "change",
                               !.todo = {LocalOp("rename", item, Append(here, name))}])
        BY <3>2
      <4>2. item \in AnyPath /\ Append(here, name) \in AnyPath
        BY <1>1, <2>1, JoinedIsPath DEF SessionOK, LocalOK
      <4>3. OpOK(LocalOp("rename", item, Append(here, name)), "local")
        BY <1>1, <4>2, LocalOpOK
      <4> DEFINE ops == {LocalOp("rename", item, Append(here, name))}
      <4>4. \A op \in ops : OpOK(op, "local")
        BY <4>3
      <4>5. UserBegins([LocalLoad(local.path) EXCEPT !.step = "change", !.todo = ops])
        BY <4>1
      <4> HIDE DEF ops
      <4> QED
        BY <4>4, <4>5
    <3>3. CASE \E name \in DirNames :
                 UserBegins([LocalLoad(local.path) EXCEPT
                               !.step = "change",
                               !.todo = {LocalOp("create", <<>>, Append(here, name))}])
      <4>1. PICK name \in DirNames :
                 UserBegins([LocalLoad(local.path) EXCEPT
                               !.step = "change",
                               !.todo = {LocalOp("create", <<>>, Append(here, name))}])
        BY <3>3
      <4>2. Append(here, name) \in AnyPath
        BY <2>1, JoinedIsPath DEF Names
      <4>3. OpOK(LocalOp("create", <<>>, Append(here, name)), "local")
        BY <1>1, <4>2, LocalOpOK
      <4> DEFINE ops == {LocalOp("create", <<>>, Append(here, name))}
      <4>4. \A op \in ops : OpOK(op, "local")
        BY <4>3
      <4>5. UserBegins([LocalLoad(local.path) EXCEPT !.step = "change", !.todo = ops])
        BY <4>1
      <4> HIDE DEF ops
      <4> QED
        BY <4>4, <4>5
    <3> QED
      BY <1>7, <3>1, <3>2, <3>3 DEF LocalChanges
  <2> DEFINE task == [LocalLoad(local.path) EXCEPT !.step = "change", !.todo = doing]
  <2>2. JobOK(task) /\ task.step # "arrive"
    BY <1>1, ChangesLocal
  <2> QED
    BY <1>1, <2>1, <2>2, UserJobBegins
<1>8. CASE Transfer
  <2>1. ~situation.panel
    BY <1>8 DEF Transfer
  <2>2. CASE \E chosen \in Selections({item \in local.items : ~IsDir(item)}) :
               UserBegins([RemoteJob(remote.path) EXCEPT
                             !.step = "change", !.todo = {Upload(item) : item \in chosen}])
    <3>1. PICK chosen \in Selections({item \in local.items : ~IsDir(item)}) :
               UserBegins([RemoteJob(remote.path) EXCEPT
                             !.step = "change", !.todo = {Upload(item) : item \in chosen}])
      BY <2>2
    <3> DEFINE doing == {Upload(item) : item \in chosen}
               task == [RemoteJob(remote.path) EXCEPT !.step = "change", !.todo = doing]
    <3>2. \A op \in doing : OpOK(op, "remote")
      BY <1>1, UploadOK DEF Selections
    <3>3. UserBegins(task)
      BY <3>1
    <3> HIDE DEF doing
    <3>4. JobOK(task) /\ task.column = "remote" /\ task.step # "arrive"
      BY <1>1, <3>2, ChangesRemote
    <3> QED
      BY <3>3, <3>4, UserJobBegins
  <2>3. CASE \E chosen \in Selections({path \in remote.items : ~IsDir(path)}) :
               UserBegins([LocalJob(local.path) EXCEPT
                             !.step = "change", !.todo = {Download(path) : path \in chosen}])
    <3>1. PICK chosen \in Selections({path \in remote.items : ~IsDir(path)}) :
               UserBegins([LocalJob(local.path) EXCEPT
                             !.step = "change", !.todo = {Download(path) : path \in chosen}])
      BY <2>3
    <3> DEFINE doing == {Download(path) : path \in chosen}
               task == [LocalJob(local.path) EXCEPT !.step = "change", !.todo = doing]
    <3>2. \A op \in doing : OpOK(op, "local")
      BY DownloadOK DEF Selections
    <3>3. \A op \in doing : ~ListsAgain(op)
      <4>1. \A path : ~ListsAgain(Download(path))
        BY DEF Download, TransferOp, ListsAgain
      <4> QED
        BY <4>1
    <3>4. UserBegins(task)
      BY <3>1
    <3> HIDE DEF doing
    <3>5. JobOK(task) /\ task.step # "arrive"
      BY <1>1, <3>2, <3>3, ChangesLocal
    <3> QED
      BY <2>1, <3>4, <3>5, UserJobBegins
  <2> QED
    BY <1>8, <2>2, <2>3 DEF Transfer
<1> QED
  BY <1>2, <1>3, <1>4, <1>5, <1>6, <1>7, <1>8 DEF User

\* A job is replaced by the next step of it, or is over.
LEMMA JobGoes ==
  ASSUME BrowserInv, NEW s \in JobSlots, jobs[s] # NoJob, NEW new, Goes(s, new),
         new # NoJob => /\ JobOK(new) /\ new.column = jobs[s].column
                        /\ new.lone = jobs[s].lone
  PROVE  /\ JobsOK' /\ jobs'[s] = new
         /\ \A t \in JobSlots : t # s => jobs'[t] = jobs[t]
         /\ situation.panel => \A t \in JobSlots : jobs'[t] # NoJob => jobs'[t].column = "remote"
<1>1. jobs = [t \in JobSlots |-> jobs[t]] /\ jobs' = [jobs EXCEPT ![s] = new]
  BY DEF BrowserInv, JobsOK, Goes
<1>2. jobs' = [t \in JobSlots |-> IF t = s THEN new ELSE jobs[t]]
  BY <1>1
<1>3. jobs'[s] = new /\ \A t \in JobSlots : t # s => jobs'[t] = jobs[t]
  BY <1>2
<1>4. ASSUME NEW t \in JobSlots, jobs'[t] # NoJob PROVE JobOK(jobs'[t])
  BY <1>3, <1>4 DEF BrowserInv, JobsOK
<1>5. JobsOK'
  BY <1>2, <1>4 DEF JobsOK
<1>6. ASSUME situation.panel, NEW t \in JobSlots, jobs'[t] # NoJob
      PROVE  jobs'[t].column = "remote"
  BY <1>3, <1>6 DEF BrowserInv, Reading
<1> QED
  BY <1>3, <1>5, <1>6

\* A job changes only its own side, and leaves its column with a mark or with itself in it.
LEMMA JobMoves ==
  ASSUME BrowserInv, NEW s \in JobSlots, jobs[s] # NoJob, NEW new, Goes(s, new),
         new # NoJob => /\ JobOK(new) /\ new.column = jobs[s].column
                        /\ new.lone = jobs[s].lone,
         UNCHANGED <<situation, server, remote, local, crossed>>,
         disk' \in [Hosts -> SUBSET AnyPath],
         \A host \in Hosts : ~Sided(jobs[s].column, host) => disk'[host] = disk[host],
         disturbed \subseteq disturbed', new = NoJob => jobs[s].column \in disturbed',
         new # NoJob /\ new.lone /\ new.step = "arrive"
           => new.items = {path \in disk'[new.host] : Below(new.dir, path)},
         busy' \in BOOLEAN,
         busy' => (new # NoJob /\ Reads(new)) \/ (busy /\ ~Reads(jobs[s])),
         OverwriteConfirmed'
  PROVE  BrowserInv'
<1>1. /\ JobsOK' /\ jobs'[s] = new /\ JobOK(jobs[s])
      /\ \A t \in JobSlots : t # s => jobs'[t] = jobs[t]
      /\ situation.panel => \A t \in JobSlots : jobs'[t] # NoJob => jobs'[t].column = "remote"
  BY JobGoes DEF BrowserInv, JobsOK
<1>2. SessionOK'
  BY DEF BrowserInv, SessionOK, RemoteOK, LocalOK
<1>3. Together'
  BY DEF BrowserInv, Together, ShownTogether
<1>4. Reading'
  <2>1. ASSUME busy' PROVE \E t \in JobSlots : jobs'[t] # NoJob /\ Reads(jobs'[t])
    <3>1. CASE new # NoJob /\ Reads(new)
      BY <1>1, <3>1
    <3>2. CASE busy /\ ~Reads(jobs[s])
      <4>1. PICK t \in JobSlots : jobs[t] # NoJob /\ Reads(jobs[t])
        BY <3>2 DEF BrowserInv, Reading
      <4> QED
        BY <1>1, <3>2, <4>1
    <3> QED
      BY <2>1, <3>1, <3>2
  <2> QED
    BY <1>1, <2>1 DEF BrowserInv, Reading
<1>5. LoneJobs'
  <2>1. ASSUME NEW t \in JobSlots, jobs'[t] # NoJob
        PROVE  IF jobs'[t].lone
               THEN /\ \A u \in JobSlots : jobs'[u] # NoJob /\ jobs'[u].column = jobs'[t].column
                                           => u = t
                    /\ jobs'[t].step = "arrive"
                       => jobs'[t].items = {path \in disk'[jobs'[t].host] :
                                              Below(jobs'[t].dir, path)}
               ELSE jobs'[t].column \in disturbed'
    <3>1. \A u \in JobSlots : jobs'[u] # NoJob =>
            jobs[u] # NoJob /\ jobs'[u].column = jobs[u].column /\ jobs'[u].lone = jobs[u].lone
      BY <1>1
    <3>2. CASE ~jobs[t].lone
      BY <2>1, <3>1, <3>2 DEF BrowserInv, LoneJobs
    <3>3. CASE jobs[t].lone
      <4>1. \A u \in JobSlots : jobs[u] # NoJob /\ jobs[u].column = jobs[t].column => u = t
        BY <2>1, <3>1, <3>3 DEF BrowserInv, LoneJobs
      <4>2. CASE t = s
        BY <1>1, <2>1, <3>1, <3>3, <4>1, <4>2
      <4>3. CASE t # s
        <5>1. jobs'[t] = jobs[t] /\ jobs[t] # NoJob /\ jobs[t].column # jobs[s].column
          BY <1>1, <2>1, <4>1, <4>3
        <5>2. Sided(jobs[t].column, jobs[t].host)
          BY <5>1 DEF BrowserInv, JobsOK, JobOK
        <5>3. disk'[jobs[t].host] = disk[jobs[t].host]
          BY <1>1, <5>1, <5>2 DEF Sided, Columns, JobOK
        <5>4. jobs[t].step = "arrive" => jobs[t].items = Listing(jobs[t].host, jobs[t].dir)
          BY <3>3, <5>1 DEF BrowserInv, LoneJobs
        <5> QED
          BY <3>1, <3>3, <4>1, <5>1, <5>3, <5>4 DEF Listing
      <4> QED
        BY <4>2, <4>3
    <3> QED
      BY <3>2, <3>3
  <2> QED
    BY <2>1 DEF LoneJobs, Listing
<1>6. ASSUME NEW column, InColumn(column)' = {}, column \notin disturbed'
      PROVE  InColumn(column) = {} /\ column \notin disturbed /\ column # jobs[s].column
  BY <1>1, <1>6 DEF InColumn
<1>7. RemoteFresh'
  <2>1. ASSUME InColumn("remote")' = {}, "remote" \notin disturbed'
        PROVE  remote.items = {path \in disk'[remote.from] : Below(remote.path, path)}
    <3>1. remote.items = Listing(remote.from, remote.path) /\ jobs[s].column # "remote"
      BY <1>6, <2>1 DEF BrowserInv, RemoteFresh
    <3>2. ~Sided(jobs[s].column, remote.from) /\ remote.from \in Hosts
      BY <1>1, <3>1, ServerAssumption
      DEF JobOK, Sided, Columns, BrowserInv, SessionOK, RemoteOK, Hosts
    <3> QED
      BY <3>1, <3>2 DEF Listing
  <2> QED
    BY <2>1 DEF RemoteFresh, Listing
<1>8. LocalFresh'
  <2>1. ASSUME InColumn("local")' = {}, "local" \notin disturbed', ~crossed
        PROVE  {local.root \o item : item \in local.items}
                 = {path \in disk'[Local] : Below(local.path, path)}
    <3>1. /\ {local.root \o item : item \in local.items} = Listing(Local, local.path)
          /\ jobs[s].column # "local"
      BY <1>6, <2>1 DEF BrowserInv, LocalFresh
    <3>2. ~Sided(jobs[s].column, Local) /\ Local \in Hosts
      BY <1>1, <3>1 DEF JobOK, Sided, Columns, Hosts
    <3> QED
      BY <3>1, <3>2 DEF Listing
  <2> QED
    BY <2>1 DEF LocalFresh, Listing
<1> QED
  BY <1>1, <1>2, <1>3, <1>4, <1>5, <1>7, <1>8 DEF BrowserInv

LEMMA FailsKeeps ==
  ASSUME BrowserInv, NEW s \in JobSlots, jobs[s] # NoJob, jobs[s].step # "arrive", Fails(s),
         UNCHANGED <<situation, server, disk, remote, local, crossed, replaced>>
  PROVE  BrowserInv'
<1> DEFINE task == jobs[s]
           again == task.tries # <<>>
           next == IF task.init THEN [task EXCEPT !.step = "ask"] ELSE FallsBack(task)
           new == IF again THEN next ELSE NoJob
<1>1. JobOK(task)
  BY DEF BrowserInv, JobsOK
<1>2. /\ Goes(s, new) /\ disturbed' = disturbed \cup {task.column}
      /\ busy' = (busy /\ ~Reads(task))
  BY DEF Fails
<1>3. /\ IsJobRecord(next)
      /\ next.column = task.column /\ next.host = task.host
      /\ next.step = IF task.init THEN "ask" ELSE task.step
      /\ next.root = task.root /\ next.todo = task.todo /\ next.granted = task.granted
      /\ next.lone = task.lone /\ next.init = task.init
  BY <1>1 DEF FallsBack, JobOK, IsJobRecord, JobFields
<1>4. ASSUME again PROVE JobOK(next)
  <2>1. ~UnderGrant(task) /\ task.step # "arrive"
    BY <1>4 DEF UnderGrant
  <2> HIDE DEF next
  <2> QED
    BY <1>1, <1>3, <2>1 DEF JobOK
<1>5. new # NoJob => /\ JobOK(new) /\ new.column = task.column /\ new.lone = task.lone
                     /\ new.step # "arrive"
  BY <1>3, <1>4
<1>6. busy' \in BOOLEAN
  BY <1>2 DEF BrowserInv, SessionOK
<1>7. busy' => (new # NoJob /\ Reads(new)) \/ (busy /\ ~Reads(task))
  BY <1>2
<1>8. OverwriteConfirmed' /\ disk' \in [Hosts -> SUBSET AnyPath]
  BY DEF BrowserInv, SessionOK, OverwriteConfirmed
<1> HIDE DEF new, again
<1> QED
  BY <1>2, <1>5, <1>6, <1>7, <1>8, JobMoves

LEMMA AskKeeps ==
  ASSUME BrowserInv, NEW s \in JobSlots, jobs[s] # NoJob, Ask(s)
  PROVE  BrowserInv'
<1> DEFINE task == jobs[s]
           next == [FallsBack(task) EXCEPT !.step = "list"]
           new == IF task.tries = <<>> THEN NoJob ELSE next
<1>1. JobOK(task) /\ task.step = "ask" /\ task.column = "remote"
  <2>1. JobOK(task) /\ task.step = "ask"
    BY DEF BrowserInv, JobsOK, Ask
  <2> QED
    BY <2>1 DEF JobOK
<1>2. /\ Goes(s, new)
      /\ busy' = (busy \/ (situation.panel /\ task.tries # <<>>))
      /\ disturbed' = disturbed \cup {task.column}
      /\ UNCHANGED <<situation, server, remote, local, crossed, disk, replaced>>
  BY DEF Ask, JobChanges, BrowserInv, SessionOK
<1>3. /\ IsJobRecord(next)
      /\ next.column = task.column /\ next.host = task.host /\ next.step = "list"
      /\ next.granted = task.granted /\ next.lone = task.lone /\ next.init = task.init
  BY <1>1 DEF FallsBack, JobOK, IsJobRecord, JobFields
<1>4. JobOK(next) /\ Reads(next) /\ next # NoJob /\ ~Reads(task)
  <2>1. JobOK(next)
    <3> HIDE DEF next
    <3> QED
      BY <1>1, <1>3 DEF JobOK
  <2> QED
    BY <1>1, <1>3, <2>1, JobIsSome DEF Reads
<1>5. new = NoJob => task.column \in disturbed'
  BY <1>2
<1>6. OverwriteConfirmed' /\ disk' \in [Hosts -> SUBSET AnyPath] /\ busy' \in BOOLEAN
  BY <1>2 DEF BrowserInv, SessionOK, OverwriteConfirmed
<1>7. /\ new # NoJob => JobOK(new) /\ new.column = task.column /\ new.lone = task.lone
                         /\ new.step # "arrive"
      /\ busy' => (new # NoJob /\ Reads(new)) \/ (busy /\ ~Reads(task))
  BY <1>2, <1>3, <1>4
<1> HIDE DEF new, next
<1> QED
  BY <1>2, <1>5, <1>6, <1>7, JobMoves

LEMMA GrantKeeps ==
  ASSUME BrowserInv, NEW s \in JobSlots, jobs[s] # NoJob, Grant(s)
  PROVE  BrowserInv'
<1> DEFINE task == jobs[s]
           dir == IF Within(task.dir, task.prefer) THEN task.prefer ELSE task.dir
           new == [task EXCEPT !.step = "list", !.root = task.dir, !.tries = <<>>, !.dir = dir]
<1>1. JobOK(task) /\ disk \in [Hosts -> SUBSET AnyPath] /\ task.host \in Hosts
  BY DEF BrowserInv, JobsOK, SessionOK, JobOK, Sided
<1>2. /\ task.step = "grant"
      /\ UNCHANGED <<situation, server, disk, remote, local, crossed, replaced>>
  BY DEF Grant, JobChanges
<1>3. CASE Readable(task) /\ Goes(s, new) /\ UNCHANGED <<busy, disturbed>>
  <2>1. /\ IsJobRecord(new)
        /\ new.column = task.column /\ new.host = task.host /\ new.step = "list"
        /\ new.root = task.dir /\ new.dir = dir /\ new.tries = <<>> /\ new.granted = task.granted
        /\ new.lone = task.lone /\ new.init = task.init
    BY <1>1 DEF JobOK, IsJobRecord, JobFields
  <2>2. task.dir \in AnyPath
    BY <1>1, <1>3, ReadableIsPath
  <2>3. Within(task.dir, dir)
    BY <2>2, WithinItself
  <2> HIDE DEF new, dir
  <2>4. UnderGrant(new)
    BY <2>1, <2>2, <2>3 DEF UnderGrant
  <2>5. JobOK(new)
    BY <1>1, <2>1, <2>4 DEF JobOK
  <2>6. new # NoJob
    BY <2>5, JobIsSome
  <2>7. ~Reads(task)
    BY <1>2 DEF Reads
  <2>8. OverwriteConfirmed' /\ busy \in BOOLEAN
    BY <1>2 DEF BrowserInv, SessionOK, OverwriteConfirmed
  <2> QED
    BY <1>1, <1>2, <1>3, <2>1, <2>5, <2>6, <2>7, <2>8, JobMoves
<1>4. CASE Fails(s)
  BY <1>2, <1>4, FailsKeeps
<1> QED
  BY <1>3, <1>4 DEF Grant

LEMMA ListKeeps ==
  ASSUME BrowserInv, NEW s \in JobSlots, jobs[s] # NoJob, List(s)
  PROVE  BrowserInv'
<1> DEFINE task == jobs[s]
<1>1. JobOK(task) /\ disk \in [Hosts -> SUBSET AnyPath] /\ task.host \in Hosts
  BY DEF BrowserInv, JobsOK, SessionOK, JobOK, Sided
<1>2. /\ task.step = "list"
      /\ UNCHANGED <<situation, server, disk, remote, local, crossed, replaced>>
  BY DEF List, JobChanges
<1>3. ASSUME NEW dir, NEW new,
             dir \in AnyPath, task.column = "local" => Within(task.root, dir),
             new = [task EXCEPT !.step = "arrive", !.dir = dir, !.items = Listing(task.host, dir)],
             Goes(s, new), UNCHANGED <<busy, disturbed>>
      PROVE  BrowserInv'
  <2>1. /\ IsJobRecord(new)
        /\ new.column = task.column /\ new.host = task.host /\ new.step = "arrive"
        /\ new.root = task.root /\ new.dir = dir /\ new.tries = task.tries
        /\ new.granted = task.granted /\ new.lone = task.lone
        /\ new.items = Listing(task.host, dir)
    BY <1>1, <1>3 DEF JobOK, IsJobRecord, JobFields
  <2>2. new.column = "local" => UnderGrant(new)
    BY <1>1, <1>2, <1>3, <2>1 DEF UnderGrant, JobOK
  <2>3. \A path \in new.items : path \in AnyPath /\ Below(new.dir, path)
    BY <1>1, <2>1, ListingIsBelow
  <2>4. JobOK(new)
    BY <1>1, <1>3, <2>1, <2>2, <2>3 DEF JobOK
  <2>5. new # NoJob
    BY <2>4, JobIsSome
  <2>6. Reads(task) => Reads(new)
    BY <2>1 DEF Reads
  <2>7. new.items = {path \in disk'[new.host] : Below(new.dir, path)}
    BY <1>2, <2>1 DEF Listing
  <2>8. busy' => (new # NoJob /\ Reads(new)) \/ (busy /\ ~Reads(task))
    BY <1>3, <2>5, <2>6
  <2>9. OverwriteConfirmed' /\ busy \in BOOLEAN
    BY <1>2 DEF BrowserInv, SessionOK, OverwriteConfirmed
  <2> QED
    BY <1>1, <1>2, <1>3, <2>1, <2>4, <2>5, <2>7, <2>8, <2>9, JobMoves
<1>4. task.column = "local" => UnderGrant(task)
  BY <1>1, <1>2 DEF JobOK
<1>5. CASE /\ Readable(task)
           /\ Goes(s, [task EXCEPT !.step = "arrive", !.items = Listing(task.host, task.dir)])
           /\ UNCHANGED <<busy, disturbed>>
  <2>1. task.dir \in AnyPath
    BY <1>1, <1>5, ReadableIsPath
  <2>2. [task EXCEPT !.step = "arrive", !.items = Listing(task.host, task.dir)]
          = [task EXCEPT !.step = "arrive", !.dir = task.dir,
                         !.items = Listing(task.host, task.dir)]
    BY <1>1 DEF JobOK, IsJobRecord, JobFields
  <2> QED
    BY <1>3, <1>4, <1>5, <2>1, <2>2 DEF UnderGrant
<1>6. CASE /\ task.granted
           /\ Goes(s, [task EXCEPT !.step = "arrive", !.dir = task.root,
                                  !.items = Listing(Local, task.root)])
           /\ UNCHANGED <<busy, disturbed>>
  <2>1. task.column = "local" /\ task.host = Local
    BY <1>1, <1>6 DEF JobOK, Sided
  <2>2. task.root \in AnyPath /\ Within(task.root, task.root)
    BY <1>4, <2>1, WithinItself DEF UnderGrant
  <2> QED
    BY <1>3, <1>6, <2>1, <2>2
<1>7. CASE Fails(s)
  BY <1>2, <1>7, FailsKeeps
<1> QED
  BY <1>5, <1>6, <1>7 DEF List

LEMMA DoneOK ==
  ASSUME SessionOK, NEW column, NEW op, OpOK(op, column)
  PROVE  Done(op) \subseteq AnyPath
<1>1. disk[op.host] \subseteq AnyPath
  BY DEF SessionOK, OpOK, Sided
<1>2. CASE op.kind = "create" \/ op.kind = "transfer"
  <2>1. Done(op) = disk[op.host] \cup {op.to} /\ op.to \in AnyPath
    BY <1>2 DEF Done, OpOK
  <2> QED
    BY <1>1, <2>1
<1>3. CASE op.kind = "delete"
  BY <1>1, <1>3 DEF Done
<1>4. CASE op.kind = "rename"
  <2>1. op.to \in AnyPath /\ op.path \in AnyPath
    BY <1>4 DEF OpOK
  <2>2. Len(op.path) \in Nat
    BY <2>1 DEF AnyPath
  <2>3. \A path \in AnyPath : op.to \o Suffix(path, Len(op.path)) \in AnyPath
    BY <2>1, <2>2, SuffixIsPath, JoinedIsPath
  <2>4. Done(op) = {IF Within(op.path, path) THEN op.to \o Suffix(path, Len(op.path)) ELSE path :
                      path \in disk[op.host]}
    BY <1>4 DEF Done
  <2> QED
    BY <1>1, <2>3, <2>4
<1> QED
  BY <1>2, <1>3, <1>4 DEF OpOK

LEMMA ChangeKeeps ==
  ASSUME BrowserInv, NEW s \in JobSlots, jobs[s] # NoJob, Change(s)
  PROVE  BrowserInv'
<1> DEFINE task == jobs[s]
<1>1. JobOK(task) /\ SessionOK
  BY DEF BrowserInv, JobsOK
<1>2. task.step = "change" /\ UNCHANGED <<situation, server, remote, local, crossed>>
  BY DEF Change, JobChanges
<1>3. CASE Fails(s) /\ UNCHANGED <<disk, replaced>>
  BY <1>2, <1>3, FailsKeeps
<1>4. ASSUME NEW op \in task.todo, CanDo(op),
             NEW less, less = [task EXCEPT !.todo = @ \ {op}],
             NEW over \in BOOLEAN, NEW lists, lists = (over /\ ListsAgain(op)),
             disk' = [disk EXCEPT ![op.host] = Done(op)],
             replaced' = IF Replaces(op) THEN replaced \cup {[to |-> op.to, seen |-> op.seen]}
                         ELSE replaced,
             Goes(s, IF lists THEN [less EXCEPT !.step = IF task.granted THEN "grant" ELSE "list"]
                     ELSE IF over THEN NoJob ELSE less),
             busy' = (busy \/ (situation.panel /\ lists)),
             disturbed' = IF op.kind = "transfer" THEN disturbed \cup {task.column} ELSE disturbed
      PROVE  BrowserInv'
    <2> DEFINE step == IF task.granted THEN "grant" ELSE "list"
               next == [less EXCEPT !.step = step]
               new == IF lists THEN next ELSE IF over THEN NoJob ELSE less
    <2>1. /\ IsJobRecord(less)
          /\ less.column = task.column /\ less.host = task.host /\ less.step = task.step
          /\ less.root = task.root /\ less.dir = task.dir /\ less.tries = task.tries
          /\ less.granted = task.granted /\ less.lone = task.lone /\ less.init = task.init
          /\ less.todo \subseteq task.todo
      BY <1>1, <1>4 DEF JobOK, IsJobRecord, JobFields
    <2>2. /\ IsJobRecord(next)
          /\ next.column = task.column /\ next.host = task.host /\ next.step = step
          /\ next.root = task.root /\ next.dir = task.dir /\ next.tries = task.tries
          /\ next.granted = task.granted /\ next.lone = task.lone /\ next.init = task.init
      BY <2>1 DEF IsJobRecord, JobFields
    <2>3. OpOK(op, task.column)
      BY <1>1, <1>2, <1>4 DEF JobOK
    <2>4. UnderGrant(task) => UnderGrant(less) /\ UnderGrant(next)
      BY <2>1, <2>2 DEF UnderGrant
    <2> HIDE DEF next
    <2>5. JobOK(less)
      BY <1>1, <1>2, <2>1, <2>4 DEF JobOK
    <2>6. lists => JobOK(next)
      <3>1. ASSUME lists, task.column = "local", ~task.granted PROVE UnderGrant(next)
        BY <1>1, <1>2, <1>4, <2>4, <3>1 DEF JobOK
      <3> QED
        BY <1>1, <2>2, <3>1 DEF JobOK
    <2>7. new # NoJob => /\ JobOK(new) /\ new.column = task.column /\ new.lone = task.lone
                         /\ new.step # "arrive"
      BY <1>2, <2>1, <2>2, <2>5, <2>6
    <2>8. disk' \in [Hosts -> SUBSET AnyPath]
      BY <1>1, <1>4, <2>3, DoneOK DEF SessionOK
    <2>9. \A host \in Hosts : ~Sided(task.column, host) => disk'[host] = disk[host]
      BY <1>1, <1>4, <2>3 DEF SessionOK, OpOK
    <2>10. disturbed \subseteq disturbed' /\ (new = NoJob => task.column \in disturbed')
      <3>1. new = NoJob => ~ListsAgain(op)
        BY <1>4, <2>5, <2>6, JobIsSome
      <3> QED
        BY <1>4, <3>1 DEF ListsAgain
    <2>11. busy' \in BOOLEAN
      BY <1>1, <1>4 DEF SessionOK
    <2>12. busy' => (new # NoJob /\ Reads(new)) \/ (busy /\ ~Reads(task))
      <3>1. ~Reads(task)
        BY <1>2 DEF Reads
      <3>2. ASSUME situation.panel, lists PROVE new # NoJob /\ Reads(new)
        <4>1. task.column = "remote"
          BY <3>2 DEF BrowserInv, Reading
        <4>2. ~task.granted
          BY <1>1, <4>1 DEF JobOK
        <4>3. new = next /\ next # NoJob
          BY <2>6, <3>2, JobIsSome
        <4> QED
          BY <2>2, <4>1, <4>2, <4>3 DEF Reads
      <3> QED
        BY <1>4, <3>1, <3>2
    <2>13. OverwriteConfirmed'
      <3>1. Replaces(op) => op.to = op.seen
        BY <1>4, <2>3 DEF Replaces, CanDo, OpOK
      <3> QED
        BY <1>4, <3>1 DEF BrowserInv, OverwriteConfirmed
    <2>14. Goes(s, new)
      BY <1>4 DEF next
    <2> HIDE DEF new
    <2> QED
      BY <1>2, <2>7, <2>8, <2>9, <2>10, <2>11, <2>12, <2>13, <2>14, JobMoves
<1> QED
  <2>1. PICK op \in task.todo :
         LET less == [task EXCEPT !.todo = @ \ {op}]
             over == less.todo = {}
             lists == over /\ ListsAgain(op)
         IN \/ /\ CanDo(op)
               /\ disk' = [disk EXCEPT ![op.host] = Done(op)]
               /\ replaced' = IF Replaces(op)
                              THEN replaced \cup {[to |-> op.to, seen |-> op.seen]}
                              ELSE replaced
               /\ Goes(s, IF lists
                          THEN [less EXCEPT !.step = IF task.granted THEN "grant" ELSE "list"]
                          ELSE IF over THEN NoJob ELSE less)
               /\ busy' = (busy \/ (situation.panel /\ lists))
               /\ disturbed' = IF op.kind = "transfer" THEN disturbed \cup {task.column}
                               ELSE disturbed
            \/ Fails(s) /\ UNCHANGED <<disk, replaced>>
    BY DEF Change
  <2> DEFINE less == [task EXCEPT !.todo = @ \ {op}]
             over == less.todo = {}
             lists == over /\ ListsAgain(op)
  <2>2. over \in BOOLEAN
    OBVIOUS
  <2> HIDE DEF over, less, lists
  <2>3. less = [task EXCEPT !.todo = @ \ {op}] /\ lists = (over /\ ListsAgain(op))
    BY DEF less, lists
  <2> QED
    BY <1>3, <1>4, <2>1, <2>2, <2>3 DEF over, less, lists

\* A listing is under the grant it was asked for, in which its paths can be found again.
LEMMA UnderTheGrant ==
  ASSUME NEW task, JobOK(task), task.step = "arrive", task.column = "local"
  PROVE  /\ task.root \in AnyPath /\ task.dir \in AnyPath /\ Within(task.root, task.dir)
         /\ \A path \in task.items : /\ Suffix(path, Len(task.root)) \in AnyPath
                                    /\ task.root \o Suffix(path, Len(task.root)) = path
<1>1. task.root \in AnyPath /\ task.dir \in AnyPath /\ Within(task.root, task.dir)
  BY DEF JobOK, UnderGrant
<1>2. ASSUME NEW path \in task.items
      PROVE  path \in AnyPath /\ Within(task.root, path)
  BY <1>1, <1>2, WithinBelow DEF JobOK
<1> QED
  BY <1>1, <1>2, Rejoined

LEMMA ArriveKeeps ==
  ASSUME BrowserInv, NEW s \in JobSlots, jobs[s] # NoJob, Arrive(s)
  PROVE  BrowserInv'
<1> DEFINE task == jobs[s]
<1>1. JobOK(task) /\ SessionOK
  BY DEF BrowserInv, JobsOK
<1>2. /\ task.step = "arrive" /\ Goes(s, NoJob)
      /\ UNCHANGED <<situation, server, disk, replaced>>
      /\ disturbed' = IF task.lone THEN disturbed \ {task.column} ELSE disturbed
  BY DEF Arrive, JobChanges
<1>3. /\ JobsOK' /\ jobs'[s] = NoJob
      /\ \A t \in JobSlots : t # s => jobs'[t] = jobs[t]
      /\ situation.panel => \A t \in JobSlots : jobs'[t] # NoJob => jobs'[t].column = "remote"
  BY <1>2, JobGoes
<1>4. task.dir \in AnyPath /\ \A path \in task.items : path \in AnyPath /\ Below(task.dir, path)
  BY <1>1, <1>2 DEF JobOK
<1>5. OverwriteConfirmed'
  BY <1>2 DEF BrowserInv, OverwriteConfirmed
<1>6. LoneJobs'
  <2>1. ASSUME NEW t \in JobSlots, jobs'[t] # NoJob
        PROVE  IF jobs'[t].lone
               THEN /\ \A u \in JobSlots : jobs'[u] # NoJob /\ jobs'[u].column = jobs'[t].column
                                           => u = t
                    /\ jobs'[t].step = "arrive"
                       => jobs'[t].items = Listing(jobs'[t].host, jobs'[t].dir)
               ELSE jobs'[t].column \in disturbed'
    <3>1. t # s /\ jobs'[t] = jobs[t] /\ jobs[t] # NoJob
      BY <1>3, <2>1
    <3>2. \A u \in JobSlots : jobs'[u] # NoJob => jobs'[u] = jobs[u] /\ jobs[u] # NoJob
      BY <1>3
    <3>3. CASE jobs[t].lone
      BY <3>1, <3>2, <3>3 DEF BrowserInv, LoneJobs
    <3>4. CASE ~jobs[t].lone
      <4>1. jobs[t].column \in disturbed
        BY <3>1, <3>4 DEF BrowserInv, LoneJobs
      <4>2. task.lone => jobs[t].column # task.column
        BY <3>1 DEF BrowserInv, LoneJobs
      <4> QED
        BY <1>2, <3>1, <3>4, <4>1, <4>2
    <3> QED
      BY <3>3, <3>4
  <2>2. disk' = disk
    BY <1>2
  <2> QED
    BY <2>1, <2>2 DEF LoneJobs, Listing
<1>7. task.column \in disturbed' \/ task.items = Listing(task.host, task.dir)
  BY <1>2 DEF BrowserInv, LoneJobs
<1>8. ASSUME NEW column, column # task.column
      PROVE  /\ InColumn(column)' = {} => InColumn(column) = {}
             /\ column \notin disturbed' => column \notin disturbed
  <2>1. ASSUME NEW t \in InColumn(column) PROVE t \in InColumn(column)'
    BY <1>3, <1>8, <2>1 DEF InColumn
  <2> QED
    BY <1>2, <1>8, <2>1
<1>9. CASE task.column = "remote"
  <2>1. remote' = RemoteShown(task) /\ busy' = FALSE /\ UNCHANGED <<local, crossed>>
    BY <1>9 DEF Arrive
  <2>2. remote'.from = task.host /\ remote'.path = task.dir /\ remote'.items = task.items
    BY <2>1 DEF RemoteShown
  <2>3. task.host \in Servers
    BY <1>1, <1>9 DEF JobOK, Sided, Hosts
  <2>4. SessionOK'
    BY <1>1, <1>2, <1>4, <2>1, <2>2, <2>3 DEF SessionOK, RemoteOK, LocalOK
  <2>5. Together'
    BY <1>4, <2>1, <2>2 DEF BrowserInv, Together, ShownTogether
  <2>6. Reading'
    BY <1>2, <1>3, <2>1 DEF BrowserInv, Reading
  <2>7. RemoteFresh'
    BY <1>2, <1>7, <1>9, <2>2 DEF RemoteFresh, Listing
  <2>8. LocalFresh'
    BY <1>2, <1>8, <1>9, <2>1 DEF BrowserInv, LocalFresh, Listing
  <2> QED
    BY <1>3, <1>5, <1>6, <2>4, <2>5, <2>6, <2>7, <2>8 DEF BrowserInv
<1>10. CASE task.column = "local"
  <2>1. /\ local' = LocalShown(task) /\ crossed' = (~task.granted /\ task.root # local.root)
        /\ UNCHANGED <<remote, busy>>
    BY <1>10 DEF Arrive
  <2>2. /\ local'.granted = TRUE /\ local'.path = task.dir
        /\ local'.root = IF task.granted THEN task.root ELSE local.root
        /\ local'.items = {Suffix(path, Len(task.root)) : path \in task.items}
    BY <2>1 DEF LocalShown
  <2>3. /\ task.root \in AnyPath /\ Within(task.root, task.dir) /\ task.host = Local
        /\ \A path \in task.items : /\ Suffix(path, Len(task.root)) \in AnyPath
                                   /\ task.root \o Suffix(path, Len(task.root)) = path
    BY <1>1, <1>2, <1>10, UnderTheGrant DEF JobOK, Sided
  <2>4. ~crossed' => local'.root = task.root
    BY <2>1, <2>2
  <2>5. SessionOK'
    <3>1. LocalOK'
      BY <1>1, <1>4, <2>2, <2>3 DEF SessionOK, LocalOK
    <3>2. crossed' \in BOOLEAN
      BY <2>1
    <3> QED
      BY <1>1, <1>2, <2>1, <3>1, <3>2 DEF SessionOK, RemoteOK
  <2>6. Together'
    <3>1. \A path \in remote'.items : Below(remote'.path, path)
      BY <2>1 DEF BrowserInv, Together, ShownTogether
    <3>2. ASSUME ~crossed', NEW item \in local'.items
          PROVE  Below(local'.path, local'.root \o item)
      BY <1>4, <2>2, <2>3, <2>4, <3>2
    <3>3. ~crossed' => Within(local'.root, local'.path)
      BY <2>2, <2>3, <2>4
    <3> QED
      BY <3>1, <3>2, <3>3 DEF Together, ShownTogether
  <2>7. Reading'
    <3>1. ~situation.panel
      BY <1>10 DEF BrowserInv, Reading
    <3>2. ASSUME busy' PROVE \E t \in JobSlots : jobs'[t] # NoJob /\ Reads(jobs'[t])
      <4>1. PICK t \in JobSlots : jobs[t] # NoJob /\ Reads(jobs[t])
        BY <2>1, <3>2 DEF BrowserInv, Reading
      <4>2. t # s
        BY <1>10, <4>1 DEF Reads
      <4> QED
        BY <1>3, <4>1, <4>2
    <3> QED
      BY <1>2, <3>1, <3>2 DEF Reading
  <2>8. RemoteFresh'
    BY <1>2, <1>8, <1>10, <2>1 DEF BrowserInv, RemoteFresh, Listing
  <2>9. LocalFresh'
    <3>1. ASSUME ~crossed'
          PROVE  {local'.root \o item : item \in local'.items} = task.items
      <4>1. \A item \in local'.items : local'.root \o item \in task.items
        BY <2>2, <2>3, <2>4, <3>1
      <4>2. ASSUME NEW path \in task.items
            PROVE  \E item \in local'.items : local'.root \o item = path
        BY <2>2, <2>3, <2>4, <3>1
      <4> QED
        BY <4>1, <4>2
    <3> QED
      BY <1>2, <1>7, <1>10, <2>2, <2>3, <3>1 DEF LocalFresh, Listing
  <2> QED
    BY <1>3, <1>5, <1>6, <2>5, <2>6, <2>7, <2>8, <2>9 DEF BrowserInv
<1> QED
  BY <1>1, <1>9, <1>10 DEF JobOK, Sided, Columns

LEMMA BrowserInitOK == BrowserInit => BrowserInv
<1> SUFFICES ASSUME BrowserInit PROVE BrowserInv
  OBVIOUS
<1> DEFINE first == InitJob(server)
           second == [GrantJob(situation.root, <<situation.home>>) EXCEPT !.prefer = stored[Local]]
<1>1. PICK s \in JobSlots, t \in JobSlots :
        /\ s # t
        /\ jobs = [u \in JobSlots |-> IF u = s THEN first
                                      ELSE IF u = t /\ ~situation.panel THEN second ELSE NoJob]
  BY DEF BrowserInit
<1>2. /\ situation \in Situations /\ IsSituation(situation) /\ disk = situation.disk
      /\ server \in situation.servers
      /\ remote = [from |-> server, path |-> situation.home, items |-> {}]
      /\ local = [granted |-> FALSE, root |-> <<>>, path |-> <<>>, items |-> {}]
      /\ busy = situation.panel /\ crossed = FALSE /\ disturbed = Columns /\ replaced = {}
  BY SituationAssumption DEF BrowserInit
<1>3. SessionOK
  BY <1>2, EmptyPath DEF SessionOK, RemoteOK, LocalOK, IsSituation
<1>4. JobOK(first) /\ first.column = "remote" /\ first.step = "list" /\ first.lone = TRUE
  BY <1>3, ReadsFirst DEF SessionOK, InitJob, Job
<1>5. /\ JobOK(second) /\ second.column = "local" /\ second.step = "grant"
      /\ second.lone = TRUE
  BY <1>3, ReadsGrant DEF GrantJob, Job
<1>6. first # NoJob /\ second # NoJob
  BY <1>4, <1>5, JobIsSome
<1> HIDE DEF first, second
<1>7. jobs[s] = first /\ \A u \in JobSlots : u # s /\ jobs[u] # NoJob =>
                            u = t /\ jobs[u] = second /\ ~situation.panel
  BY <1>1
<1>8. JobsOK
  BY <1>1, <1>4, <1>5, <1>7 DEF JobsOK
<1>9. Together /\ OverwriteConfirmed
  BY <1>2, EmptyPath DEF Together, ShownTogether, OverwriteConfirmed
<1>10. Reading
  BY <1>2, <1>4, <1>6, <1>7 DEF Reading, Reads
<1>11. LoneJobs
  BY <1>4, <1>5, <1>7 DEF LoneJobs
<1>12. RemoteFresh /\ LocalFresh
  BY <1>2 DEF RemoteFresh, LocalFresh, Columns
<1> QED
  BY <1>3, <1>8, <1>9, <1>10, <1>11, <1>12 DEF BrowserInv

\* Whatever operations overlap: jobs are what they should be, each column shows what belongs
\* together, and an operation that nothing disturbed brings what is there.
THEOREM InductiveBrowser == BrowserSpec => []BrowserInv
<1>1. BrowserInit => BrowserInv
  BY BrowserInitOK
<1>2. BrowserInv /\ [BrowserNext]_browserVars => BrowserInv'
  <2> SUFFICES ASSUME BrowserInv, [BrowserNext]_browserVars PROVE BrowserInv'
    OBVIOUS
  <2>1. CASE User
    BY <2>1, UserKeeps
  <2>2. CASE Backend
    BY <2>2, GrantKeeps, AskKeeps, ListKeeps, ArriveKeeps, ChangeKeeps DEF Backend
  <2>3. CASE UNCHANGED browserVars
    BY <2>3 DEF browserVars, BrowserInv, SessionOK, RemoteOK, LocalOK, JobsOK, Together,
                ShownTogether, OverwriteConfirmed, Reading, LoneJobs, RemoteFresh, LocalFresh,
                InColumn, Listing
  <2> QED
    BY <2>1, <2>2, <2>3 DEF BrowserNext
<1> QED
  BY <1>1, <1>2, PTL DEF BrowserSpec

\* What is listed is in the directory that is shown.
THEOREM ListedWhereShown == BrowserSpec => []ShownTogether
<1>1. BrowserInv => ShownTogether
  BY DEF BrowserInv, Together
<1> QED
  BY <1>1, InductiveBrowser, PTL

\* A transfer replaces no file but one the user saw, and was asked about.
THEOREM NothingUnseenReplaced == BrowserSpec => []OverwriteConfirmed
<1>1. BrowserInv => OverwriteConfirmed
  BY DEF BrowserInv
<1> QED
  BY <1>1, InductiveBrowser, PTL

\* What is listed is what is there, after any operation that was alone and did not fail.
THEOREM ListedIsThere == BrowserSpec => []Fresh
<1>1. BrowserInv => Fresh
  BY DEF BrowserInv, Reading, RemoteFresh, LocalFresh, Fresh
<1> QED
  BY <1>1, InductiveBrowser, PTL
===============================================================================
