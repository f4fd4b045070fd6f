----------------------------- MODULE SftpBrowser -----------------------------
(***************************************************************************)
(* The browsing of files in the webview: the panel beside a terminal       *)
(* (SftpPanel.tsx), which shows the remote files of the tab in front, and  *)
(* the workspace (SftpWorkspace.tsx), with the local files beside those of *)
(* one connection.  Every operation is a closure: it goes on, one awaited  *)
(* call after the other, with the paths, the grant and the connection that *)
(* were shown when it was begun, and ends with a listing of that path.     *)
(*                                                                         *)
(* A path is the sequence of its names (sftpPaths.ts); what the user types *)
(* is the path it resolves to.  A path relative to the remote working      *)
(* directory is taken for that directory's own path.  A grant stands for   *)
(* the directory it is of, and what is in the local column is relative to  *)
(* it.  What is selected is a part of what is listed, since each listing   *)
(* clears the selection, and is chosen where it is used.  The file systems *)
(* are changed by nobody else; transfers are over at once (TransferQueue). *)
(***************************************************************************)
EXTENDS Naturals, Sequences, SequencesExt

CONSTANTS
  Servers,    \* connections
  DirNames, FileNames,
  JobSlots,    \* operations that may be in progress at a time
  Situations   \* the situations considered, one of which every behaviour has

Local == "local"
Hosts == Servers \cup {Local}
Columns == {"local", "remote"}
Names == DirNames \cup FileNames
AnyPath == Seq(Names)

ASSUME ServerAssumption == Local \notin Servers

(***************************************************************************)
(* A situation is of the panel or of the workspace, and says how many      *)
(* operations the user begins (tasks), whether calls fail that could       *)
(* succeed, the remote working directory (home) and the local one (root),  *)
(* what the user types or chooses, and what there is in the beginning.     *)
(***************************************************************************)
IsSituation(s) ==
  /\ {s.panel, s.failures} \subseteq BOOLEAN /\ s.tasks \in Nat
  /\ s.servers \subseteq Servers
  /\ {s.home, s.root} \cup s.choices \cup s.typed \subseteq AnyPath
  /\ s.stored \in [Hosts -> AnyPath]
  /\ s.disk \in [Hosts -> SUBSET AnyPath]

ASSUME SituationAssumption == \A s \in Situations : IsSituation(s)

VARIABLES
  situation,  \* one of Situations, the same throughout
  tasks,      \* operations the user may still begin
  disk,       \* the files and directories of each host, by path
  stored,     \* the path of each host in localStorage
  server,     \* the connection of the panel, or of the workspace
  remote,     \* what the remote column shows: of which host and path
  local,      \* what the local column shows: under which grant, and path
  busy,       \* the panel says that it is reading
  jobs,       \* operations in progress
  crossed,    \* a local listing has arrived after another directory was granted
  disturbed,  \* columns that need not be up to date, see Fresh
  replaced    \* files replaced by transfers, and where the user saw them

shown == <<remote, local, busy, crossed, stored>>
browserVars == <<situation, tasks, disk, stored, server, remote, local, busy, jobs, crossed,
                 disturbed, replaced>>

-----------------------------------------------------------------------------
Within(dir, path) == IsPrefix(dir, path)
Below(dir, path) == Len(path) = Len(dir) + 1 /\ Within(dir, path)
Parent(path) == IF path = <<>> THEN path ELSE Front(path)
Suffix(path, n) == SubSeq(path, n + 1, Len(path))
IsDir(path) == IF path = <<>> THEN TRUE ELSE Last(path) \in DirNames

\* currentLocalRelative: the path shown, under the grant; if it is not, the grant itself.
Relative(root, path) == IF Within(root, path) THEN Suffix(path, Len(root)) ELSE <<>>

\* A bug in it: always the grant itself.
RelativeRoot(root, path) == <<>>

CurrentRelative(root, path) == Relative(root, path)

-----------------------------------------------------------------------------
(***************************************************************************)
(* What the backend does in one call, on one host; and whether it can.     *)
(***************************************************************************)
Exists(host, path) == path = <<>> \/ path \in disk[host]
Listing(host, dir) == {path \in disk[host] : Below(dir, path)}

CanDo(op) ==
  CASE op.kind = "create" -> ~Exists(op.host, op.to) /\ Exists(op.host, Parent(op.to))
    [] op.kind = "delete" -> op.path \in disk[op.host]
    \* A local file that has the new name is replaced; nobody is asked.
    [] op.kind = "rename" -> /\ op.path \in disk[op.host]
                             /\ ~Exists(op.host, op.to) \/ (op.host = Local /\ ~IsDir(op.to))
    [] op.kind = "transfer" -> /\ op.path \in disk[op.from]
                               /\ Exists(op.host, Parent(op.to))
                               /\ ~Exists(op.host, op.to) \/ op.overwrite

Done(op) ==
  LET files == disk[op.host] IN
  CASE op.kind \in {"create", "transfer"} -> files \cup {op.to}
    [] op.kind = "delete" -> {path \in files : ~Within(op.path, path)}
    [] op.kind = "rename" -> {IF Within(op.path, path)
                              THEN op.to \o Suffix(path, Len(op.path)) ELSE path : path \in files}

-----------------------------------------------------------------------------
(***************************************************************************)
(* Operations.  A job is at a step: "grant", "change" (as long as there is *)
(* something to do), "list", "arrive", when the answer is on its way, or   *)
(* "ask", for the remote working directory.  tries are the directories it  *)
(* falls back to.                                                          *)
(***************************************************************************)
NoJob == [column |-> "none"]

Job(column, host, dir) ==
  [column |-> column, host |-> host, step |-> "list", root |-> <<>>, dir |-> dir,
   prefer |-> dir, tries |-> <<>>, todo |-> {}, items |-> {}, granted |-> FALSE,
   lone |-> TRUE, init |-> FALSE]

RemoteJob(dir) == Job("remote", server, dir)
LocalJob(dir) == [Job("local", Local, dir) EXCEPT !.root = local.root]
GrantJob(dir, tries) ==
  [Job("local", Local, dir) EXCEPT !.step = "grant", !.tries = tries, !.granted = TRUE]

\* The effect on the remote directory: stored first, then the working directory.
InitJob(host) ==
  [Job("remote", host, stored[host]) EXCEPT !.init = TRUE, !.tries = <<situation.home>>]

InColumn(column) == {s \in JobSlots : jobs[s] # NoJob /\ jobs[s].column = column}
Reads(job) == job.column = "remote" /\ job.step \in {"list", "arrive"}

\* Another operation in the same column may see, or show, what this one has not done yet.
\* The effect cancels the one of the tab that was shown before, which then falls back no more.
Begin(job) ==
  LET others == InColumn(job.column) IN
  /\ \E s \in JobSlots :
       /\ jobs[s] = NoJob
       /\ jobs' = [t \in JobSlots |->
                     IF t = s THEN [job EXCEPT !.lone = others = {}]
                     ELSE IF t \in others
                     THEN [jobs[t] EXCEPT !.lone = FALSE, !.tries = IF job.init THEN <<>> ELSE @]
                     ELSE jobs[t]]
  /\ busy' = (busy \/ (situation.panel /\ Reads(job)))
  /\ disturbed' = IF others = {} THEN disturbed ELSE disturbed \cup {job.column}

UserBegins(job) ==
  /\ tasks > 0
  /\ tasks' = tasks - 1
  /\ Begin(job)
  /\ UNCHANGED <<situation, disk, server, remote, local, crossed, stored, replaced>>

\* Refresh, the parent directory, a directory that is opened, or a path that is typed.  The
\* panel hides its list while it is reading.
LoadRemote ==
  \E dir \in {remote.path, Parent(remote.path)} \cup {path \in remote.items : IsDir(path) /\ ~busy}
              \cup situation.typed :
    UserBegins(RemoteJob(dir))

\* What is not under the grant is granted first.
LocalLoad(dir) == IF Within(local.root, dir) THEN LocalJob(dir) ELSE GrantJob(dir, <<>>)

LoadLocal ==
  /\ local.granted
  /\ \E dir \in {local.path, IF Within(local.root, local.path) /\ local.path # local.root
                             THEN Parent(local.path) ELSE local.root}
                \cup {Append(local.path, Last(item)) : item \in {i \in local.items : IsDir(i)}}
                \cup situation.typed :
       UserBegins(LocalLoad(dir))

\* The user chooses a directory in a dialog of the system.
ChooseLocal ==
  /\ ~situation.panel
  /\ \E dir \in situation.choices : UserBegins(GrantJob(dir, <<>>))

\* The panel shows another tab: its connection changes, and what is shown stays for now.
SwitchTab ==
  /\ situation.panel /\ tasks > 0
  /\ \E host \in Servers \ {server} :
       /\ server' = host
       /\ Begin(InitJob(host))
  /\ tasks' = tasks - 1
  /\ UNCHANGED <<situation, disk, remote, local, crossed, stored, replaced>>

\* One or, in the workspace, several of what is shown.
Selections(items) == {chosen \in SUBSET items : chosen # {} /\ (situation.panel => \E i \in items :
                                                                  chosen = {i})}

RemoteOp(kind, path, to) == [kind |-> kind, host |-> server, path |-> path, to |-> to]
LocalOp(kind, item, to) ==
  [kind |-> kind, host |-> Local, path |-> local.root \o item, to |-> local.root \o to]

\* The names something can be renamed to.
LikeNames(item) == (IF IsDir(item) THEN DirNames ELSE FileNames) \ {Last(item)}

RemoteChanges ==
  LET Change(todo) == UserBegins([RemoteJob(remote.path) EXCEPT !.step = "change", !.todo = todo])
  IN \/ \E chosen \in Selections(remote.items) :
          Change({RemoteOp("delete", path, path) : path \in chosen})
     \/ \E path \in remote.items, name \in Names :
          /\ name \in LikeNames(path)
          /\ Change({RemoteOp("rename", path, Append(Parent(path), name))})
     \/ \E name \in DirNames,
           base \in {remote.path} \cup
                   IF situation.panel THEN {p \in remote.items : IsDir(p)} ELSE {} :
          Change({RemoteOp("create", <<>>, Append(base, name))})

LocalChanges ==
  LET Change(todo) == UserBegins([LocalLoad(local.path) EXCEPT !.step = "change", !.todo = todo])
      here == CurrentRelative(local.root, local.path)
  IN /\ local.granted
     /\ \/ \E chosen \in Selections(local.items) :
             Change({LocalOp("delete", item, item) : item \in chosen})
        \/ \E item \in local.items, name \in Names :
             /\ name \in LikeNames(item)
             /\ Change({LocalOp("rename", item, Append(here, name))})
        \/ \E name \in DirNames : Change({LocalOp("create", <<>>, Append(here, name))})

Confirmed(items, name) == \E item \in items : Last(item) = name

\* Files go to the directory the other column shows.  seen is the file of that name there,
\* for which the user is asked whether to overwrite it; where he says no, nothing is done.
TransferOp(host, from, path, to, dir, items) ==
  LET asked == Confirmed(items, Last(path)) IN
  [kind |-> "transfer", host |-> host, from |-> from, path |-> path, to |-> to,
   overwrite |-> asked, seen |-> IF asked THEN Append(dir, Last(path)) ELSE <<>>,
   crossed |-> crossed]

Upload(item) ==
  TransferOp(server, Local, local.root \o item, Append(remote.path, Last(item)),
             remote.path, remote.items)

Download(path) ==
  TransferOp(Local, server, path,
             local.root \o Append(CurrentRelative(local.root, local.path), Last(path)),
             local.path, local.items)

Transfer ==
  /\ ~situation.panel /\ local.granted
  /\ \/ \E chosen \in Selections({item \in local.items : ~IsDir(item)}) :
          UserBegins([RemoteJob(remote.path) EXCEPT !.step = "change",
                                                    !.todo = {Upload(item) : item \in chosen}])
     \/ \E chosen \in Selections({path \in remote.items : ~IsDir(path)}) :
          UserBegins([LocalJob(local.path) EXCEPT !.step = "change",
                                                  !.todo = {Download(path) : path \in chosen}])

-----------------------------------------------------------------------------
(***************************************************************************)
(* The steps of a job.                                                     *)
(***************************************************************************)
Goes(s, job) == jobs' = [jobs EXCEPT ![s] = job]
JobChanges == UNCHANGED <<situation, tasks, server>>

FallsBack(job) == [job EXCEPT !.dir = Head(job.tries), !.tries = Tail(job.tries)]

\* A call has failed: the next of the directories to fall back to, for which the effect asks
\* first; by then the panel does not say any more that it is reading.
Fails(s) ==
  LET job == jobs[s]
  IN /\ Goes(s, IF job.tries = <<>> THEN NoJob
                ELSE IF job.init THEN [job EXCEPT !.step = "ask"] ELSE FallsBack(job))
     /\ busy' = (busy /\ ~Reads(job))
     /\ disturbed' = disturbed \cup {job.column}

\* GetRemoteWorkingDirectory; if it fails, "." is the same directory.
Ask(s) ==
  /\ jobs[s].step = "ask"
  /\ LET job == jobs[s] IN
       /\ IF job.tries = <<>>
          THEN Goes(s, NoJob) /\ UNCHANGED busy
          ELSE /\ Goes(s, [FallsBack(job) EXCEPT !.step = "list"])
               /\ busy' = (busy \/ situation.panel)
       /\ disturbed' = disturbed \cup {job.column}
  /\ JobChanges /\ UNCHANGED <<disk, stored, remote, local, crossed, replaced>>

Fallible(s, works) == situation.failures \/ ~works

Readable(job) == IsDir(job.dir) /\ Exists(job.host, job.dir)

\* GrantLocalDirectory; what is shown first is the directory granted, or one below it.
Grant(s) ==
  /\ jobs[s].step = "grant"
  /\ LET job == jobs[s] IN
       \/ /\ Readable(job)
          /\ Goes(s, [job EXCEPT !.step = "list", !.root = job.dir, !.tries = <<>>,
                                 !.dir = IF Within(job.dir, job.prefer) THEN job.prefer
                                         ELSE job.dir])
          /\ UNCHANGED <<busy, disturbed>>
       \/ Fallible(s, Readable(job)) /\ Fails(s)
  /\ JobChanges /\ UNCHANGED <<disk, stored, remote, local, crossed, replaced>>

\* ListLocal, ListRemote; for a directory just granted, its own listing is at hand.
List(s) ==
  /\ jobs[s].step = "list"
  /\ LET job == jobs[s] IN
       \/ /\ Readable(job)
          /\ Goes(s, [job EXCEPT !.step = "arrive", !.items = Listing(job.host, job.dir)])
          /\ UNCHANGED <<busy, disturbed>>
       \/ /\ Fallible(s, Readable(job))
          /\ IF job.granted /\ job.dir # job.root
             THEN /\ Goes(s, [job EXCEPT !.step = "arrive", !.dir = job.root,
                                         !.items = Listing(Local, job.root)])
                  /\ UNCHANGED <<busy, disturbed>>
             ELSE Fails(s)
  /\ JobChanges /\ UNCHANGED <<disk, stored, remote, local, crossed, replaced>>

\* A bug in loadRemote: the path stays what it was.
RemoteShownItems(job) == [remote EXCEPT !.from = job.host, !.items = job.items]

RemoteShown(job) == [from |-> job.host, path |-> job.dir, items |-> job.items]

\* A listing without a grant of its own leaves the grant as it is, whatever it is by now.
LocalShown(job) ==
  [granted |-> TRUE, root |-> IF job.granted THEN job.root ELSE local.root, path |-> job.dir,
   items |-> {Suffix(path, Len(job.root)) : path \in job.items}]

\* The last to arrive is shown, even for a tab that is no longer in front.
Arrive(s) ==
  /\ jobs[s].step = "arrive"
  /\ LET job == jobs[s] IN
       /\ IF job.column = "remote"
          THEN /\ remote' = RemoteShown(job)
               /\ busy' = FALSE
               /\ UNCHANGED <<local, crossed>>
          ELSE /\ local' = LocalShown(job)
               /\ crossed' = (~job.granted /\ job.root # local.root)
               /\ UNCHANGED <<remote, busy>>
       /\ stored' = [stored EXCEPT ![job.host] = job.dir]
       /\ disturbed' = IF job.lone THEN disturbed \ {job.column} ELSE disturbed
       /\ Goes(s, NoJob)
  /\ JobChanges /\ UNCHANGED <<disk, replaced>>

\* A bug in an operation: it does not end with a listing.
ListsAgainNot(op) == FALSE

\* Transfers end without a listing; what they have changed is seen at the next one.
ListsAgain(op) == op.kind # "transfer"

Replaces(op) == op.kind = "transfer" /\ Exists(op.host, op.to) /\ ~op.crossed

Change(s) ==
  /\ jobs[s].step = "change"
  /\ LET job == jobs[s] IN
     \E op \in job.todo :
       LET rest == [job EXCEPT !.todo = @ \ {op}]
           over == rest.todo = {}
           lists == over /\ ListsAgain(op)
       IN \/ /\ CanDo(op)
             /\ disk' = [disk EXCEPT ![op.host] = Done(op)]
             /\ replaced' = IF Replaces(op) THEN replaced \cup {[to |-> op.to, seen |-> op.seen]}
                            ELSE replaced
             /\ Goes(s, IF lists THEN [rest EXCEPT !.step = IF job.granted THEN "grant" ELSE "list"]
                        ELSE IF over THEN NoJob ELSE rest)
             /\ busy' = (busy \/ (situation.panel /\ lists))
             /\ disturbed' = IF op.kind = "transfer" THEN disturbed \cup {job.column}
                             ELSE disturbed
          \/ /\ Fallible(s, CanDo(op))
             /\ Fails(s)
             /\ UNCHANGED <<disk, replaced>>
  /\ JobChanges /\ UNCHANGED <<stored, remote, local, crossed>>

-----------------------------------------------------------------------------
BrowserInit ==
  /\ situation \in Situations
  /\ tasks = situation.tasks
  /\ disk = situation.disk
  /\ stored = situation.stored
  /\ server \in situation.servers
  /\ remote = [from |-> server, path |-> situation.home, items |-> {}]
  /\ local = [granted |-> FALSE, root |-> <<>>, path |-> <<>>, items |-> {}]
  /\ busy = situation.panel
  /\ \E s, t \in JobSlots :
       /\ s # t
       /\ jobs = [u \in JobSlots |->
                    IF u = s THEN InitJob(server)
                    ELSE IF u = t /\ ~situation.panel
                         THEN [GrantJob(situation.root, <<situation.home>>)
                                 EXCEPT !.prefer = stored[Local]]
                         ELSE NoJob]
  /\ crossed = FALSE
  /\ disturbed = Columns
  /\ replaced = {}

User == LoadRemote \/ LoadLocal \/ ChooseLocal \/ SwitchTab \/ RemoteChanges \/ LocalChanges
        \/ Transfer

Backend == \E s \in JobSlots : jobs[s] # NoJob /\ 
              (Grant(s) \/ Ask(s) \/ List(s) \/ Arrive(s) \/ Change(s))

BrowserNext == User \/ Backend

BrowserSpec == BrowserInit /\ [][BrowserNext]_browserVars
-----------------------------------------------------------------------------
\* What is listed is in the directory shown, whatever listings have overtaken each other:
\* remotely always, and locally except after a listing that crossed the grant of another
\* directory (SftpWorkspace.tsx:91-97, 133-139, 151-156; SftpPanel.tsx:60-66).
ShownTogether ==
  /\ \A path \in remote.items : Below(remote.path, path)
  /\ ~crossed => \A item \in local.items : Below(local.path, local.root \o item)

\* A file that a transfer replaces is one the user saw in the directory shown, and was asked
\* about (SftpWorkspace.tsx:253-269); again unless a listing crossed a grant.
OverwriteConfirmed == \A file \in replaced : file.to = file.seen

\* When nothing is in progress, what is listed is what is there, after any operation that
\* was alone in its column and did not fail (SftpWorkspace.tsx:285-356, SftpPanel.tsx:121-150);
\* and it is hidden only while something is being read (SftpPanel.tsx:56, 73, 250-251).
Fresh ==
  /\ busy => \E s \in JobSlots : jobs[s] # NoJob /\ Reads(jobs[s])
  /\ InColumn("remote") = {} /\ "remote" \notin disturbed
       => remote.items = Listing(remote.from, remote.path)
  /\ InColumn("local") = {} /\ "local" \notin disturbed /\ ~crossed
       => {local.root \o item : item \in local.items} = Listing(Local, local.path)
=============================================================================
