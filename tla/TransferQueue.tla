---------------------------- MODULE TransferQueue ----------------------------
(***************************************************************************)
(* The SFTP transfer queue of internal/sftpclient/transfer.go and          *)
(* Service.Close: StartUpload/StartDownload, PauseTransfer, ResumeTransfer,*)
(* CancelTransfer, and runTransfer with runUpload, runDownload and         *)
(* copyTransfer, in any number of goroutines.                              *)
(*                                                                         *)
(* A file is the sequence of its blocks, and a block names the transfer    *)
(* whose source it was read from.  An open handle follows its file when it *)
(* is renamed or removed, as on the POSIX systems that run SFTP servers;   *)
(* a run says where the file it writes is by now.  Other programs create   *)
(* files at the destinations; they remove none.                            *)
(***************************************************************************)
EXTENDS Naturals, Sequences, FiniteSets

CONSTANTS
  Jobs,        \* transfers
  Runs,        \* goroutines of runTransfer
  Path,        \* Path[j]: the destination of j
  Uploads,     \* the transfers with direction "upload"
  Overwrite,   \* the transfers that may replace their destination
  Settings,    \* the situations considered, one of which every behaviour has
  NoRun, NoFile, OldBlock, NoBlock

ASSUME JobsAssumption == Jobs # {} /\ Uploads \subseteq Jobs /\ Overwrite \subseteq Jobs
ASSUME BlockAssumption == {OldBlock, NoBlock} \cap Jobs = {}
\* No file is something else than a file.
ASSUME FileAssumption == NoFile \notin Seq(Jobs \cup {OldBlock, NoBlock})
ASSUME RunAssumption == NoRun \notin Runs
ASSUME SettingsAssumption ==
  \A s \in Settings :
    /\ s.slots \in Nat \ {0} /\ s.size \in Nat \ {0}
    /\ s.impatient \in BOOLEAN
    /\ s.jobs \subseteq Jobs /\ s.runs \subseteq Runs
    /\ s.found \subseteq SUBSET {Path[j] : j \in Jobs}
    /\ s.left \subseteq SUBSET {Path[j] : j \in Jobs}
    /\ s.others \subseteq {Path[j] : j \in Jobs}
    /\ s.maxResumes \in Nat /\ s.maxFaults \in Nat

VARIABLES
  setting,   \* one of Settings, the same throughout
  status,    \* status[j]: Transfer.Status ("none" before it exists)
  cancel,    \* cancel[j]: the run whose context job.cancel ends
  pc,        \* pc[r]: where the goroutine is
  job,       \* job[r]: the transfer it was launched for
  stopped,   \* stopped[r]: its context is cancelled
  offset,    \* offset[r]: where its handles are
  file,      \* file[r]: where the file is that it has open ("gone": removed, or closed)
  part,      \* part[p]: the file p.nyapart
  dest,      \* dest[p]: the file p
  late,      \* the runs that had looked for the file p before it came to be there
  closing,   \* Service.Close
  todo,      \* the transfers Close has still to cancel
  resumes, faults

jobVars == <<status, cancel>>
runVars == <<pc, job, stopped, offset, file>>
files == <<part, dest, late>>
rest == <<setting, closing, todo>>
control == <<rest, resumes, faults>>
vars == <<setting, status, cancel, pc, job, stopped, offset, file, part, dest, late, closing,
          todo, resumes, faults>>

Slots == setting.slots            \* capacity of Service.slots
Size == setting.size              \* blocks of every source
Impatient == setting.impatient    \* transfers are resumed while their previous run winds up
MaxResumes == setting.maxResumes  \* bound on the calls of ResumeTransfer
MaxFaults == setting.maxFaults    \* bound on the errors of the connection and the disk

Paths == {Path[j] : j \in Jobs}

OldFile == <<OldBlock>>

\* What an earlier session may have left in a .nyapart file, for another and longer source.
Leftover == [k \in 1..(Size + 1) |-> OldBlock]

SomeJob == CHOOSE j \in Jobs : TRUE

Init ==
  /\ setting \in Settings
  /\ status = [j \in Jobs |-> "none"]
  /\ cancel = [j \in Jobs |-> NoRun]
  /\ pc = [r \in Runs |-> "idle"]
  /\ job = [r \in Runs |-> SomeJob]
  /\ stopped = [r \in Runs |-> FALSE]
  /\ offset = [r \in Runs |-> 0]
  /\ file = [r \in Runs |-> "gone"]
  /\ \E left \in setting.left :
       part = [p \in Paths |-> IF p \in left THEN Leftover ELSE NoFile]
  /\ \E found \in setting.found :
       dest = [p \in Paths |-> IF p \in found THEN OldFile ELSE NoFile]
  /\ late = {}
  /\ closing = "open"
  /\ todo = {}
  /\ resumes = 0
  /\ faults = 0

(***************************************************************************)
(* Where a run is:                                                         *)
(*   idle     the goroutine does not exist                                 *)
(*   slot     it waits for a slot          probe    looks at the files     *)
(*   open     opens the .nyapart file      copy     in copyTransfer        *)
(*   clear    removes the destination      rename   renames onto it        *)
(*   error    has failed                   done     has succeeded          *)
(*   cleanup  removes the .nyapart file of a cancelled transfer            *)
(***************************************************************************)
Goto(r, point) == pc' = [pc EXCEPT ![r] = point]

\* A run that holds a slot of the queue.
Active(r) == pc[r] \notin {"idle", "slot"}

\* The goroutine returns; its local variables are gone.
Return(r) ==
  /\ Goto(r, "idle")
  /\ job' = [job EXCEPT ![r] = SomeJob]
  /\ stopped' = [stopped EXCEPT ![r] = FALSE]
  /\ offset' = [offset EXCEPT ![r] = 0]
  /\ late' = late \ {r}

ActiveFor(j) == {r \in Runs : Active(r) /\ job[r] = j}

-------------------------------------------------------------------------------
(***************************************************************************)
(* The calls of the user interface.  Each ends in a section under job.mu.  *)
(***************************************************************************)

\* launchTransfer; the next run that does not exist.
Launch(j) ==
  \E r \in setting.runs :
    /\ pc[r] = "idle"
    /\ pc' = [pc EXCEPT ![r] = "slot"]
    /\ job' = [job EXCEPT ![r] = j]
    /\ UNCHANGED <<stopped, offset, file>>

Start(j) ==
  /\ closing # "closed"
  /\ j \in setting.jobs /\ status[j] = "none"
  /\ status' = [status EXCEPT ![j] = "queued"]
  /\ Launch(j)
  /\ UNCHANGED <<cancel, files, control>>

\* job.cancel(), if there is one.
Signal(j) ==
  stopped' = IF cancel[j] = NoRun THEN stopped ELSE [stopped EXCEPT ![cancel[j]] = TRUE]

Pause(j) ==
  /\ closing # "closed"
  /\ status[j] \in {"queued", "running"}
  /\ status' = [status EXCEPT ![j] = "paused"]
  /\ Signal(j)
  /\ UNCHANGED <<cancel, pc, job, offset, file, files, control>>

\* (Mutated form: no goroutine for a transfer that waits.)
ResumeUnlaunched(j) ==
  /\ closing # "closed" /\ resumes < MaxResumes
  /\ status[j] \in {"paused", "failed"}
  /\ Impatient \/ ActiveFor(j) = {}
  /\ status' = [status EXCEPT ![j] = "queued"]
  /\ resumes' = resumes + 1
  /\ UNCHANGED <<cancel, runVars, files, rest, faults>>

Resume(j) ==
  /\ closing # "closed" /\ resumes < MaxResumes
  /\ status[j] \in {"paused", "failed"}
  /\ Impatient \/ ActiveFor(j) = {}
  /\ status' = [status EXCEPT ![j] = "queued"]
  /\ Launch(j)
  /\ resumes' = resumes + 1
  /\ UNCHANGED <<cancel, files, rest, faults>>

\* (Mutated form: only the status changes.)
CancelUnsignalled(j) ==
  /\ status[j] \notin {"none", "completed", "cancelled"}
  /\ status' = [status EXCEPT ![j] = "cancelled"]
  /\ UNCHANGED <<cancel, runVars, files>>

CancelTransfer(j) ==
  /\ status[j] \notin {"none", "completed", "cancelled"}
  /\ status' = [status EXCEPT ![j] = "cancelled"]
  /\ Signal(j)
  /\ UNCHANGED <<cancel, pc, job, offset, file, files>>

Cancel(j) == closing # "closed" /\ CancelTransfer(j) /\ UNCHANGED control

\* Service.Close (when the vault is locked, and at the end): it cancels the transfers
\* that exist when it begins and waits for all runs.
Close ==
  /\ closing = "open"
  /\ closing' = "cancelling"
  /\ todo' = {j \in Jobs : status[j] # "none"}
  /\ UNCHANGED <<jobVars, runVars, files, setting, resumes, faults>>

CloseCancel(j) ==
  /\ closing = "cancelling" /\ j \in todo
  /\ todo' = todo \ {j}
  /\ \/ CancelTransfer(j)
     \/ status[j] \in {"completed", "cancelled"} /\ UNCHANGED <<jobVars, runVars, files>>
  /\ UNCHANGED <<setting, closing, resumes, faults>>

CloseWait ==
  /\ closing = "cancelling" /\ todo = {}
  /\ closing' = "waiting"
  /\ UNCHANGED <<jobVars, runVars, files, setting, todo, resumes, faults>>

CloseReturn ==
  /\ closing = "waiting" /\ \A r \in Runs : pc[r] = "idle"
  /\ closing' = "closed"
  /\ UNCHANGED <<jobVars, runVars, files, setting, todo, resumes, faults>>

-------------------------------------------------------------------------------
(***************************************************************************)
(* runTransfer                                                             *)
(***************************************************************************)

FreeSlot == Cardinality({r \in Runs : Active(r)}) < Slots

StillQueued(r) == status[job[r]] = "queued"

\* A slot, and then the section that begins the run.
Admit(r) ==
  /\ pc[r] = "slot" /\ FreeSlot
  /\ IF StillQueued(r)
       THEN /\ status' = [status EXCEPT ![job[r]] = "running"]
            /\ cancel' = [cancel EXCEPT ![job[r]] = r]
            /\ Goto(r, "probe")
            /\ UNCHANGED <<job, stopped, offset, late>>
       ELSE Return(r) /\ UNCHANGED jobVars
  /\ UNCHANGED <<file, part, dest, control>>

\* (Mutated form: the destination is not looked at.)
ProbeAnyway(r) ==
  LET p == Path[job[r]]
      resumed == job[r] \in Uploads /\ part[p] # NoFile /\ Len(part[p]) <= Size
  IN  /\ pc[r] = "probe"
      /\ offset' = [offset EXCEPT ![r] = IF resumed THEN Len(part[p]) ELSE 0]
      /\ Goto(r, "open")
      /\ UNCHANGED <<jobVars, job, stopped, file, files, control>>

\* connect; where an upload goes on; and is the destination free?
Probe(r) ==
  LET p == Path[job[r]]
      resumed == job[r] \in Uploads /\ part[p] # NoFile /\ Len(part[p]) <= Size
  IN  /\ pc[r] = "probe"
      /\ offset' = [offset EXCEPT ![r] = IF resumed THEN Len(part[p]) ELSE 0]
      /\ Goto(r, IF job[r] \notin Overwrite /\ dest[p] # NoFile THEN "error" ELSE "open")
      /\ UNCHANGED <<jobVars, job, stopped, file, files, control>>

\* (Mutated form: every run begins with an empty file and the old offset.)
OpenTruncating(r) ==
  /\ pc[r] = "open"
  /\ part' = [part EXCEPT ![Path[job[r]]] = <<>>]
  /\ offset' = [offset EXCEPT ![r] = IF part[Path[job[r]]] = NoFile THEN 0
                                     ELSE Len(part[Path[job[r]]])]
  /\ file' = [file EXCEPT ![r] = "part"]
  /\ Goto(r, "copy")
  /\ UNCHANGED <<jobVars, job, stopped, dest, late, control>>

\* O_CREATE; an upload at offset 0 truncates, a download goes to the end, which must not
\* be beyond the source's.
Open(r) ==
  LET p == Path[job[r]]
      useless == part[p] = NoFile \/ (job[r] \notin Uploads /\ Len(part[p]) > Size)
      old == IF useless THEN <<>> ELSE part[p]
      fresh == job[r] \in Uploads /\ offset[r] = 0
  IN  /\ pc[r] = "open"
      /\ part' = [part EXCEPT ![p] = IF fresh THEN <<>> ELSE old]
      /\ offset' = [offset EXCEPT ![r] = IF job[r] \in Uploads THEN @ ELSE Len(old)]
      /\ file' = [file EXCEPT ![r] = "part"]
      /\ Goto(r, "copy")
      /\ UNCHANGED <<jobVars, job, stopped, dest, late, control>>

\* A write at an offset; beyond the end it leaves a hole.
Written(f, at, block) ==
  [k \in 1..(IF at >= Len(f) THEN at + 1 ELSE Len(f)) |->
     IF k = at + 1 THEN block ELSE IF k <= Len(f) THEN f[k] ELSE NoBlock]

\* One turn of copyTransfer's loop: a block, the end of the source, or the end of
\* the context.
Copy(r) ==
  LET p == Path[job[r]]
  IN  /\ pc[r] = "copy" /\ ~stopped[r] /\ offset[r] < Size
      /\ offset' = [offset EXCEPT ![r] = @ + 1]
      /\ part' = IF file[r] = "part" THEN [part EXCEPT ![p] = Written(@, offset[r], job[r])]
                                     ELSE part
      /\ dest' = IF file[r] = "dest" THEN [dest EXCEPT ![p] = Written(@, offset[r], job[r])]
                                     ELSE dest
      /\ UNCHANGED <<jobVars, pc, job, stopped, file, late, control>>

Copied(r) ==
  /\ pc[r] = "copy" /\ ~stopped[r] /\ offset[r] = Size
  /\ Goto(r, IF job[r] \in Overwrite THEN "clear" ELSE "rename")
  /\ file' = [file EXCEPT ![r] = "gone"]
  /\ UNCHANGED <<jobVars, job, stopped, offset, files, control>>

\* (Mutated form: the end of the context leaves the select, and not the loop.)
InterruptedSpins(r) == pc[r] = "copy" /\ stopped[r] /\ UNCHANGED vars

\* The end of the context is noticed by the loop, and by connect (which may be past
\* the point where it would notice: then it is Probe).
Interrupted(r) ==
  /\ pc[r] \in {"probe", "copy"} /\ stopped[r]
  /\ Goto(r, "error")
  /\ file' = [file EXCEPT ![r] = "gone"]
  /\ UNCHANGED <<jobVars, job, stopped, offset, files, control>>

\* An error of the connection or the disk.
Fault(r) ==
  /\ pc[r] \in {"probe", "open", "copy", "rename"} /\ faults < MaxFaults
  /\ Goto(r, "error")
  /\ faults' = faults + 1
  /\ file' = [file EXCEPT ![r] = "gone"]
  /\ UNCHANGED <<jobVars, job, stopped, offset, files, rest, resumes>>

\* The runs that have looked for p, and will write there.
Looked(p) ==
  {r \in Runs : Path[job[r]] = p /\ pc[r] \in {"open", "copy", "clear", "rename"}}

\* The runs of path p that have their file open at "place" have it at "other" now.
Moved(p, place, other) ==
  [r \in Runs |-> IF Path[job[r]] = p /\ file[r] = place THEN other ELSE file[r]]

\* The error of Remove is ignored.
Clear(r) ==
  LET p == Path[job[r]]
  IN  /\ pc[r] = "clear"
      /\ \/ /\ dest' = [dest EXCEPT ![p] = NoFile]
            /\ file' = Moved(p, "dest", "gone")
            /\ UNCHANGED faults
         \/ /\ faults < MaxFaults
            /\ faults' = faults + 1
            /\ UNCHANGED <<dest, file>>
      /\ Goto(r, "rename")
      /\ UNCHANGED <<jobVars, job, stopped, offset, part, late, rest, resumes>>

\* A server does not rename onto an existing file; a local file system does.
Renamable(r) ==
  LET p == Path[job[r]]
  IN  part[p] # NoFile /\ (job[r] \in Uploads => dest[p] = NoFile)

Rename(r) ==
  LET p == Path[job[r]]
  IN  /\ pc[r] = "rename"
      /\ IF Renamable(r)
           THEN /\ dest' = [dest EXCEPT ![p] = part[p]]
                /\ part' = [part EXCEPT ![p] = NoFile]
                /\ file' = [q \in Runs |-> IF Path[job[q]] # p THEN file[q]
                                            ELSE IF file[q] = "part" THEN "dest" ELSE "gone"]
                /\ late' = late \cup Looked(p)
                /\ Goto(r, "done")
           ELSE /\ Goto(r, "error")
                /\ UNCHANGED <<part, dest, late, file>>
      /\ UNCHANGED <<jobVars, job, stopped, offset, control>>

\* (Mutated form: an error does not change the status.)
OutcomeUnset(r) ==
  IF status[job[r]] \in {"paused", "cancelled"} \/ pc[r] = "error"
    THEN status[job[r]] ELSE "completed"

\* The status that a run leaves behind.
Outcome(r) ==
  IF status[job[r]] \in {"paused", "cancelled"} THEN status[job[r]]
  ELSE IF pc[r] = "error" THEN "failed" ELSE "completed"

\* The section that ends the run: it is not asked whether another has begun.
End(r) ==
  /\ pc[r] \in {"error", "done"}
  /\ status' = [status EXCEPT ![job[r]] = Outcome(r)]
  /\ cancel' = [cancel EXCEPT ![job[r]] = NoRun]
  /\ IF status[job[r]] = "cancelled"
       THEN Goto(r, "cleanup") /\ UNCHANGED <<job, stopped, offset, late>>
       ELSE Return(r)
  /\ UNCHANGED <<file, part, dest, control>>

\* cleanupTransfer, which an upload needs another connection for.
Cleanup(r) ==
  LET p == Path[job[r]]
  IN  /\ pc[r] = "cleanup"
      /\ \/ /\ part' = [part EXCEPT ![p] = NoFile]
            /\ file' = Moved(p, "part", "gone")
            /\ UNCHANGED faults
         \/ /\ job[r] \in Uploads /\ faults < MaxFaults
            /\ faults' = faults + 1
            /\ UNCHANGED <<part, file>>
      /\ Return(r)
      /\ UNCHANGED <<jobVars, dest, rest, resumes>>

\* Another program creates the file p, on this computer or on the server.
Appear(p) ==
  /\ p \in setting.others /\ dest[p] = NoFile
  /\ dest' = [dest EXCEPT ![p] = OldFile]
  /\ late' = late \cup Looked(p)
  /\ UNCHANGED <<jobVars, runVars, part, control>>

-------------------------------------------------------------------------------
RunStep(r) ==
  \/ Admit(r) \/ Probe(r) \/ Open(r) \/ Copy(r) \/ Copied(r) \/ Interrupted(r)
  \/ Clear(r) \/ Rename(r) \/ End(r) \/ Cleanup(r)

CloseStep == (\E j \in Jobs : CloseCancel(j)) \/ CloseWait \/ CloseReturn

Next ==
  \/ \E j \in Jobs : Start(j) \/ Pause(j) \/ Resume(j) \/ Cancel(j)
  \/ \E r \in Runs : RunStep(r) \/ Fault(r)
  \/ \E p \in Paths : Appear(p)
  \/ Close \/ CloseStep

Safety == Init /\ [][Next]_vars

\* A goroutine that can run does, and so does the caller of Close.  Reads and writes
\* of the connection end.
Fairness == (\A r \in Runs : WF_vars(RunStep(r))) /\ WF_vars(CloseStep)

Spec == Safety /\ Fairness

-------------------------------------------------------------------------------
(***************************************************************************)
(* Properties                                                              *)
(***************************************************************************)

\* A transfer that is shown as queued or running has a goroutine that will still look at
\* it, or that works on it: on every way into the queue, however the runs before it end, and
\* when runs of it overlap (launchTransfer, runTransfer).
NoneForgotten ==
  \A j \in Jobs :
    /\ status[j] = "queued" => \E r \in Runs : pc[r] = "slot" /\ job[r] = j
    /\ status[j] = "running" => \E r \in ActiveFor(j) : pc[r] # "cleanup"

\* A cancelled transfer stops: none of its runs can go on copying (CancelTransfer,
\* job.cancel), as long as nobody resumes a transfer whose previous run still winds up.
CancelReaches ==
  ~Impatient =>
    \A j \in Jobs :
      status[j] = "cancelled" =>
        \A r \in ActiveFor(j) : pc[r] \in {"probe", "open", "copy"} => stopped[r]

\* No other transfer has the destination of j.
Alone(j) == \A i \in setting.jobs : Path[i] = Path[j] => i = j

\* A completed transfer is at its destination, whole (runUpload, runDownload and what they
\* find in the .nyapart file of an earlier run, or of an earlier session if that is longer
\* than the source), on the same condition, when no other transfer shares the destination.
CompletedIsWhole ==
  ~Impatient =>
    \A j \in Jobs : Alone(j) /\ status[j] = "completed" => dest[Path[j]] = [k \in 1..Size |-> j]

\* How a run may come to change or remove a file that is there: it was told to overwrite; it
\* is a download that had looked before the file came to be there (a server does not rename
\* onto a file, so an upload is not in this case); or it still has the file open, which
\* another run of the same destination has put there in the meantime.
MayReplace(r, p) ==
  /\ Path[job[r]] = p
  /\ \/ job[r] \in Overwrite /\ pc[r] \in {"clear", "rename"}
     \/ job[r] \notin Uploads /\ pc[r] = "rename" /\ r \in late
     \/ pc[r] = "copy" /\ file[r] = "dest"

\* Nothing at a destination is replaced or removed in any other way, whatever other programs
\* create there between a run's look (transfer.go 289, 343) and its rename, and when transfers
\* share the destination.
NothingReplaced ==
  [][\A p \in Paths :
       dest[p] # NoFile /\ dest'[p] # dest[p] => \E r \in Runs : MayReplace(r, p)]_vars

\* Whatever the user does and whatever fails, a transfer does not stay in the queue, and
\* Close comes back (it waits for runs that wait for slots that other runs hold).
QueueDrains ==
  /\ \A j \in Jobs : status[j] \in {"queued", "running"} ~> status[j] \notin {"queued", "running"}
  /\ closing = "cancelling" ~> closing = "closed"

===============================================================================
