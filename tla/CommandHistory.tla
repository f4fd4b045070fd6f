---------------------------- MODULE CommandHistory ----------------------------
(***************************************************************************)
(* The history of commands in the webview: the suggestions under the line  *)
(* that is typed (TerminalView.tsx), the list in the settings (App.tsx),   *)
(* and what both share (commandHistorySuggestions.ts): one queue of        *)
(* asynchronous operations, an index, and a worker with a copy of it       *)
(* (commandHistoryWorker.ts, commandHistorySearch.ts).  The records        *)
(* themselves are in the backend; it is external, and synchronization may  *)
(* change them behind the queue's back.                                    *)
(*                                                                         *)
(* One view, of one connection.  A record is a command in a scope: of the  *)
(* connection, or global; a command has no blanks around it, as they are   *)
(* taken off when it is recorded.  Counts and times only order what is     *)
(* suggested and are left out, as is the limit on the number of            *)
(* suggestions.                                                            *)
(***************************************************************************)
EXTENDS Naturals, Sequences, FiniteSets, SequencesExt

CONSTANTS
  Lower,        \* the lower case of each character
  Blank,
  Commands,     \* the commands the user enters: sequences of characters
  MinPrefix,    \* the length from which a line has suggestions
  Requests,     \* requests for suggestions that may be in progress at a time
  Settings,     \* the bounds considered, one of which every behaviour has
  NoLine

Characters == DOMAIN Lower

ASSUME CommandsAssumption == Commands \subseteq Seq(Characters) \ {<<>>}
ASSUME RequestsAssumption == {"mirror", "view", "panel", "app"} \cap Requests = {}

Scopes == {"connection", "global"}
Records == Scopes \X Commands
RecordsOf(command) == Scopes \X {command}

ASSUME SettingsAssumption ==
  \A s \in Settings : s.begin \subseteq Records /\ s.lines \subseteq Seq(Characters)

\* A line without the blanks around it.
Trim(line) ==
  LET written == {i \in DOMAIN line : line[i] # Blank}
  IN  IF written = {} THEN <<>> ELSE SubSeq(line, Min(written), Max(written))

\* Does the command begin with the line, upper or lower case?
BeginsLike(line, command) ==
  /\ Len(line) <= Len(command)
  /\ \A i \in DOMAIN line : Lower[line[i]] = Lower[command[i]]

\* The rest of a command: it is cut at the length of the line, with its blanks.
Suffix(line, command) == SubSeq(command, Len(line) + 1, Len(command))

VARIABLES
  setting,      \* one of Settings, the same throughout
  enabled,      \* connection.commandHistory
  backend,      \* the records of the backend
  drift,        \* records the index cannot be right about: changed behind its back
  index,        \* CommandHistoryIndex: the kind of id each record has, or "none"
  hasSnapshot,
  worker,       \* its state, its index, and the messages sent to it
  queue,        \* operations enqueued, the first of which is in progress
  step,         \* how far it is, and what it has read
  requests,     \* the calls of suggestCommandHistory in progress
  view,         \* the line of the view, its timer, and what it shows
  rows,         \* historyEntries of the settings
  tasks,        \* operations the user or the program may still begin
  outside       \* changes synchronization may still make

store == <<backend, drift>>
vars == <<setting, enabled, store, index, hasSnapshot, worker, queue, step, requests, view, rows,
          tasks, outside>>

Empty == [record \in Records |-> "none"]
Found(ids) == {record \in Records : ids[record] # "none"}

(***************************************************************************)
(* CommandHistoryIndex, in the page and in the worker.  A record the index *)
(* adds itself gets an id of its own, which the backend does not know;     *)
(* deleteRecords looks for the ids of the backend.                         *)
(***************************************************************************)
Replace(found) == [record \in Records |-> IF record \in found THEN "backend" ELSE "none"]

Upsert(ids, command) ==
  [record \in Records |->
     IF record \in RecordsOf(command) /\ ids[record] = "none" THEN "local" ELSE ids[record]]

\* With the record of a connection goes the global one of the same command.
DeletedWith(scope, command) ==
  IF scope = "connection" THEN RecordsOf(command) ELSE {<<scope, command>>}

\* A bug in deleteCommand: the global record stays.
DeleteConnectionCommand(ids, found) ==
  [record \in Records |->
     IF record \in found /\ record[1] = "connection" THEN "none" ELSE ids[record]]

DeleteCommand(ids, found) ==
  [record \in Records |-> IF record \in found THEN "none" ELSE ids[record]]

DeleteRecords(ids, found) ==
  [record \in Records |->
     IF record \in found /\ ids[record] = "backend" THEN "none" ELSE ids[record]]

\* For a request that has become stale meanwhile, what is found does not matter.
Suggest(ids, line) ==
  IF line = NoLine THEN {}
  ELSE {command \in Commands : BeginsLike(Trim(line), command)
                               /\ RecordsOf(command) \cap Found(ids) # {}}

\* An operation as it is done to an index: by the page, and by the worker that is told of it.
Indexed(ids, task, loaded) ==
  CASE task.kind = "load"          -> Replace(loaded)
    [] task.kind = "record"        -> Upsert(ids, task.command)
    [] task.kind = "deleteCommand" -> DeleteCommand(ids, task.found)
    [] task.kind = "deleteRecords" -> DeleteRecords(ids, task.found)

(***************************************************************************)
(* The view.  Each change of its request number makes the requests under   *)
(* way stale: they have no line any more.                                  *)
(***************************************************************************)
Stale == [r \in Requests |-> [requests[r] EXCEPT !.line = NoLine, !.result = {}]]

Cleared(v) == [v EXCEPT !.timer = NoLine, !.shown = {}]

\* A bug in canSuggest: what has not been echoed yet does not matter.
CanSuggestEarly(v) == v.echo # "lost" /\ Len(Trim(v.line)) >= MinPrefix

\* The condition under which a line has suggestions: all of it has been echoed.
CanSuggest(v) == v.echo = "all" /\ Len(Trim(v.line)) >= MinPrefix

Scheduled(v) == IF CanSuggest(v) THEN [v EXCEPT !.timer = v.line] ELSE Cleared(v)

\* What follows every key and every piece of output.
Shift(v) == view' = Scheduled(v) /\ requests' = Stale

Enqueue(task) ==
  /\ tasks > 0
  /\ tasks' = tasks - 1
  /\ queue' = Append(queue, task)

NoChange == UNCHANGED <<setting, enabled, store, index, hasSnapshot, worker, step, outside>>
OnlyView == NoChange /\ UNCHANGED <<queue, rows, tasks>>

TypeChars ==
  /\ \E line \in setting.lines :
       /\ line # view.line /\ IsPrefix(view.line, line)
       /\ Shift([view EXCEPT !.line = line, !.echo = IF @ = "lost" THEN @ ELSE "some"])
  /\ OnlyView

Backspace ==
  /\ view.line # <<>> /\ SubSeq(view.line, 1, Len(view.line) - 1) \in setting.lines
  /\ \E echo \in {view.echo} \cup IF view.echo = "some" THEN {"all"} ELSE {} :
       Shift([view EXCEPT !.line = SubSeq(@, 1, Len(@) - 1), !.echo = echo])
  /\ OnlyView

\* The rest of the echo arrives, or something else, or a key whose effect is not known.
EchoArrives ==
  /\ view.echo # "lost"
  /\ \E echo \in {"all", "lost"} : Shift([view EXCEPT !.echo = echo])
  /\ OnlyView

\* Enter, or the loss of the connection: a new line.  A line that begins with a blank is not
\* recorded.
NewLine ==
  /\ \E submitted \in {NoLine} \cup IF view.echo # "lost" /\ Trim(view.line) \in Commands
                                         /\ view.line[1] # Blank
                                      THEN {Trim(view.line)} ELSE {} :
       Shift([view EXCEPT !.line = <<>>, !.echo = "all", !.submitted = submitted])
  /\ OnlyView

\* The submitted line has been confirmed (TerminalEcho): recordCommandHistory.
Record ==
  /\ view.submitted # NoLine
  /\ Enqueue([kind |-> "record", command |-> view.submitted, found |-> {}, by |-> "view"])
  /\ Shift([view EXCEPT !.submitted = NoLine])
  /\ NoChange /\ UNCHANGED rows

\* applySuggestion: the rest of the command is sent.
Apply ==
  /\ \E command \in view.shown :
       LET suffix == Suffix(view.line, command)
       IN  /\ view' = Cleared([view EXCEPT !.line = @ \o suffix,
                                 !.echo = IF suffix = <<>> THEN @ ELSE "some"])
           /\ requests' = Stale
  /\ OnlyView

Dismiss == view.shown # {} /\ view' = Cleared(view) /\ requests' = Stale /\ OnlyView

DeleteSuggestion ==
  /\ \E command \in view.shown :
       /\ view' = [view EXCEPT !.timer = NoLine, !.shown = @ \ {command},
                     !.hidden = @ \cup {command}]
       /\ Enqueue([kind |-> "deleteCommand", command |-> command,
                   found |-> DeletedWith("connection", command), by |-> "view"])
  /\ requests' = Stale
  /\ NoChange /\ UNCHANGED rows

(***************************************************************************)
(* The settings: loadCommandHistory, deleteHistoryRows for any rows, and   *)
(* deleteHistoryCommand.                                                   *)
(***************************************************************************)
Panel(task) ==
  /\ Enqueue(task)
  /\ NoChange /\ UNCHANGED <<requests, view, rows>>

PanelLoad == Panel([kind |-> "load", command |-> <<>>, found |-> {}, by |-> "panel"])

PanelDeleteRows ==
  \E found \in (SUBSET rows) \ {{}} :
    Panel([kind |-> "deleteRecords", command |-> <<>>, found |-> found, by |-> "panel"])

PanelDeleteCommand ==
  \E record \in rows :
    Panel([kind |-> "deleteCommand", command |-> record[2],
           found |-> DeletedWith(record[1], record[2]), by |-> "panel"])

\* refreshCommandHistorySuggestions: the vault is unlocked, or a synchronization has ended.
Refresh == Panel([kind |-> "load", command |-> <<>>, found |-> {}, by |-> "app"])

(***************************************************************************)
(* The first operation of the queue: a call of the backend, the index, the *)
(* worker.  A call can fail having done a part.  The backend applies the   *)
(* rules on what is stored itself, with settings the page may not have.    *)
(* Rows are deleted by the backend's ids: a record that has been recorded  *)
(* anew since they were read has another one in the index, and stays.      *)
(***************************************************************************)
Running(name) == queue # <<>> /\ step.name = name

Rest == UNCHANGED <<setting, enabled, hasSnapshot, requests, view, rows, tasks, outside>>

Affected(task) ==
  CASE task.kind = "record"        -> IF enabled THEN RecordsOf(task.command) ELSE {}
    [] task.kind = "load"          -> {}
    [] OTHER                       -> task.found

Changed(task, part) == IF task.kind = "record" THEN backend \cup part ELSE backend \ part

Call ==
  /\ Running("call")
  /\ LET task == Head(queue)
     IN  /\ backend' = Changed(task, Affected(task))
         /\ drift' = IF task.kind = "load" THEN {} ELSE drift
         /\ step' = [step EXCEPT !.name = "index",
                      !.loaded = IF task.kind = "load" THEN backend ELSE {}]
  /\ UNCHANGED <<index, worker, queue>> /\ Rest

CallFails ==
  /\ Running("call")
  /\ \E part \in SUBSET Affected(Head(queue)) :
       /\ backend' = Changed(Head(queue), part)
       /\ drift' = drift \cup ((backend \ backend') \cup (backend' \ backend))
  /\ step' = [step EXCEPT !.name = "failed"]
  /\ UNCHANGED <<index, worker, queue>> /\ Rest

\* shouldStoreCommandHistory and AddCommand come to different conclusions.
CallDiffers ==
  /\ Running("call") /\ Head(queue).kind = "record" /\ enabled
  /\ drift' = drift \cup (RecordsOf(Head(queue).command) \ backend)
  /\ \/ /\ UNCHANGED backend
        /\ step' = [step EXCEPT !.name = "index"]
     \/ /\ backend' = Changed(Head(queue), Affected(Head(queue)))
        /\ step' = [step EXCEPT !.name = "done"]
  /\ UNCHANGED <<index, worker, queue>> /\ Rest

\* The index, then mirror: the worker is started when it is first needed.
UpdateIndex ==
  /\ Running("index")
  /\ LET task == Head(queue)
     IN  /\ hasSnapshot' = (hasSnapshot \/ task.kind = "load")
         /\ drift' = drift \cup {record \in task.found :
                               task.kind = "deleteRecords" /\ index[record] = "local"}
         /\ IF task.kind = "record" /\ ~enabled
              THEN /\ step' = [step EXCEPT !.name = "done"]
                   /\ UNCHANGED <<index, worker>>
              ELSE /\ index' = Indexed(index, task, step.loaded)
                   /\ \E state \in IF worker.state = "none" THEN {"alive", "failed"}
                                                           ELSE {worker.state} :
                        IF state = "alive"
                          THEN /\ worker' = [worker EXCEPT !.state = state,
                                               !.inbox = Append(@, "mirror")]
                               /\ step' = [step EXCEPT !.name = "mirror"]
                          ELSE /\ worker' = [worker EXCEPT !.state = state]
                               /\ step' = [step EXCEPT !.name = "done"]
  /\ UNCHANGED <<setting, enabled, backend, queue, requests, view, rows, tasks, outside>>

\* One operation fewer to wait for.
Fewer(ahead) == IF ahead = 0 THEN 0 ELSE ahead - 1

\* The promise of the operation settles, and the next one begins.
TaskEnds ==
  /\ queue # <<>> /\ step.name \in {"done", "failed"}
  /\ LET task == Head(queue)
         ok == step.name = "done"
     IN  /\ queue' = Tail(queue)
         /\ step' = [name |-> "call", loaded |-> {}]
         /\ requests' =
              [r \in Requests |->
                 IF task.by = r
                   THEN IF ok THEN [requests[r] EXCEPT !.phase = "ready", !.ahead = Len(queue) - 1]
                              ELSE [requests[r] EXCEPT !.phase = "answer",
                                      !.result = Suggest(index, requests[r].line)]
                   ELSE [requests[r] EXCEPT !.ahead = Fewer(@)]]
         /\ view' = IF task.by = "view" /\ task.kind = "deleteCommand" /\ ~ok
                      THEN [view EXCEPT !.hidden = @ \ {task.command}] ELSE view
         /\ rows' = IF task.by # "panel" \/ ~ok THEN rows
                    ELSE IF task.kind = "load" THEN step.loaded ELSE rows \ task.found
  /\ UNCHANGED <<setting, enabled, store, index, hasSnapshot, worker, tasks, outside>>

\* Synchronization adds or removes a record.
Outside ==
  /\ outside > 0
  /\ outside' = outside - 1
  /\ \E record \in Records :
       /\ backend' = IF record \in backend THEN backend \ {record} ELSE backend \cup {record}
       /\ drift' = drift \cup {record}
  /\ UNCHANGED <<setting, enabled, index, hasSnapshot, worker, queue, step, requests, view, rows,
                  tasks>>

(***************************************************************************)
(* suggestCommandHistory: wait for the queue, load the records if they     *)
(* have never been loaded, wait again, ask the worker.                     *)
(***************************************************************************)
OnlyRequests ==
  UNCHANGED <<setting, enabled, store, index, hasSnapshot, step, rows, tasks, outside>>

TimerFires ==
  /\ view.timer # NoLine
  /\ \E r \in Requests :
       /\ requests[r].phase = "free"
       /\ Cardinality({q \in Requests : requests[q].phase # "free"}) < setting.requests
       /\ requests' = [requests EXCEPT ![r] =
            [phase |-> IF enabled THEN "wait" ELSE "answer", line |-> view.timer,
             ahead |-> Len(queue), result |-> {}]]
  /\ view' = [view EXCEPT !.timer = NoLine]
  /\ OnlyRequests /\ UNCHANGED <<worker, queue>>

Proceed(r) ==
  /\ requests[r].phase = "wait" /\ requests[r].ahead = 0
  /\ IF hasSnapshot
       THEN /\ requests' = [requests EXCEPT ![r].phase = "ready", ![r].ahead = Len(queue)]
            /\ UNCHANGED queue
       ELSE /\ requests' = [requests EXCEPT ![r].phase = "load"]
            /\ queue' = Append(queue,
                 [kind |-> "load", command |-> <<>>, found |-> {}, by |-> r])
  /\ OnlyRequests /\ UNCHANGED <<worker, view>>

Ask(r) ==
  /\ requests[r].phase = "ready" /\ requests[r].ahead = 0
  /\ IF worker.state = "alive"
       THEN /\ worker' = [worker EXCEPT !.inbox = Append(@, r)]
            /\ requests' = [requests EXCEPT ![r].phase = "sent"]
       ELSE /\ requests' = [requests EXCEPT ![r].phase = "answer",
                              ![r].result = Suggest(index, requests[r].line)]
            /\ UNCHANGED worker
  /\ OnlyRequests /\ UNCHANGED <<queue, view>>

Answered(r) ==
  /\ requests[r].phase = "answer"
  /\ view' = IF requests[r].line = view.line
               THEN [view EXCEPT !.shown = requests[r].result \ view.hidden] ELSE view
  /\ requests' = [requests EXCEPT ![r].phase = "free", ![r].result = {}, ![r].line = NoLine]
  /\ OnlyRequests /\ UNCHANGED <<worker, queue>>

(***************************************************************************)
(* The worker takes one message after the other.  When it fails, whatever  *)
(* waits for it goes on without it, for good (disableWorker).              *)
(***************************************************************************)
WorkerTakes ==
  /\ worker.state = "alive" /\ worker.inbox # <<>>
  /\ IF Head(worker.inbox) = "mirror"
       THEN /\ worker' = [worker EXCEPT !.inbox = Tail(@),
                            !.ids = Indexed(@, Head(queue), step.loaded)]
            /\ step' = [step EXCEPT !.name = "done"]
            /\ UNCHANGED requests
       ELSE LET r == Head(worker.inbox)
            IN  /\ worker' = [worker EXCEPT !.inbox = Tail(@)]
                /\ requests' = [requests EXCEPT ![r].phase = "answer",
                                  ![r].result = Suggest(worker.ids, requests[r].line)]
                /\ UNCHANGED step
  /\ UNCHANGED <<setting, enabled, store, index, hasSnapshot, queue, view, rows, tasks, outside>>

\* A bug in disableWorker: the promises of what was sent are forgotten.
WorkerFailsSilently ==
  /\ worker.state = "alive"
  /\ worker' = [state |-> "failed", ids |-> Empty, inbox |-> <<>>]
  /\ step' = IF step.name = "mirror" THEN [step EXCEPT !.name = "done"] ELSE step
  /\ UNCHANGED <<setting, enabled, store, index, hasSnapshot, queue, requests, view, rows,
                  tasks, outside>>

WorkerFails ==
  /\ worker.state = "alive"
  /\ worker' = [state |-> "failed", ids |-> Empty, inbox |-> <<>>]
  /\ step' = IF step.name = "mirror" THEN [step EXCEPT !.name = "done"] ELSE step
  /\ requests' =
       [r \in Requests |->
          IF requests[r].phase = "sent"
            THEN [requests[r] EXCEPT !.phase = "answer",
                    !.result = Suggest(index, requests[r].line)]
            ELSE requests[r]]
  /\ UNCHANGED <<setting, enabled, store, index, hasSnapshot, queue, view, rows, tasks, outside>>

-------------------------------------------------------------------------------
Init ==
  /\ setting \in Settings /\ tasks = setting.tasks /\ outside = setting.outside
  /\ enabled \in BOOLEAN
  /\ backend = setting.begin /\ drift = backend
  /\ index = Empty /\ hasSnapshot = FALSE
  /\ worker = [state |-> "none", ids |-> Empty, inbox |-> <<>>]
  /\ queue = <<>> /\ step = [name |-> "call", loaded |-> {}]
  /\ requests = [r \in Requests |->
       [phase |-> "free", line |-> NoLine, ahead |-> 0, result |-> {}]]
  /\ view = [line |-> <<>>, echo |-> "all", submitted |-> NoLine, timer |-> NoLine,
             shown |-> {}, hidden |-> {}]
  /\ rows = {}

Key == TypeChars \/ Backspace \/ NewLine \/ Apply \/ Dismiss \/ DeleteSuggestion
Output == EchoArrives \/ Record
SettingsPage == PanelLoad \/ PanelDeleteRows \/ PanelDeleteCommand \/ Refresh
Queue == Call \/ CallFails \/ CallDiffers \/ UpdateIndex \/ TaskEnds
Worker == WorkerTakes \/ WorkerFails
Request(r) == Proceed(r) \/ Ask(r) \/ Answered(r)

Next ==
  \/ Key \/ Output \/ SettingsPage \/ Queue \/ Worker \/ Outside \/ TimerFires
  \/ \E r \in Requests : Request(r)

\* The event loop runs what is ready, the backend answers every call, the worker works.
Fairness ==
  /\ WF_vars(Queue) /\ WF_vars(Worker)
  /\ \A r \in Requests : WF_vars(Request(r))

Spec == Init /\ [][Next]_vars /\ Fairness

-------------------------------------------------------------------------------
\* Between two operations the index knows the records of the backend, but for those changed
\* behind its back, and the worker knows what the index knows: an operation is done to the
\* three of them in one order, whatever fails (enqueue, mirror, disableWorker).
IndexAgrees ==
  /\ step.name = "call" =>
       \A record \in Records \ drift : index[record] # "none" <=> record \in backend
  /\ step.name \in {"call", "done"} /\ worker.state = "alive" => worker.ids = index

\* Whatever is suggested is a command that begins like the line as it is now, and nothing the
\* user has deleted here comes back with an answer that was under way (scheduleSuggestions,
\* deleteSuggestion).  A line without blanks around it therefore becomes that command when the
\* suggestion is applied (command.slice), but for the upper or lower case of what was typed;
\* with blanks around it, it may become another one.
ShownCompletesLine ==
  \A command \in view.shown :
    /\ command \notin view.hidden
    /\ BeginsLike(Trim(view.line), command)
    /\ Trim(view.line) = view.line =>
         LET applied == view.line \o Suffix(view.line, command)
         IN  Len(applied) = Len(command) /\ BeginsLike(applied, command)

\* Every request for suggestions is answered, with the worker or without it.
RequestsAnswered ==
  \A r \in Requests : requests[r].phase # "free" ~> requests[r].phase = "free"
===============================================================================
