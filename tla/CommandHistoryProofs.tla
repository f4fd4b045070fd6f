------------------------- MODULE CommandHistoryProofs -------------------------
(***************************************************************************)
(* The index of commands, the worker's copy of it and the backend agree    *)
(* between two operations, for any commands, any number of operations and  *)
(* requests, and whatever fails.  The argument follows an operation        *)
(* through the queue: at each of its steps it says what the index will be  *)
(* when the operation is over, and where the one message is that makes the *)
(* worker's copy the same.                                                 *)
(***************************************************************************)
EXTENDS CommandHistory, SequenceTheorems, WellFoundedInduction, TLAPS

Ids == {"backend", "local", "none"}

Tasks ==
  {task \in [kind : {"load", "record", "deleteCommand", "deleteRecords"},
             command : Commands \cup {<<>>}, found : SUBSET Records,
             by : Requests \cup {"view", "panel", "app"}] :
     task.kind = "record" => task.command \in Commands}

QueueOK == queue \in Seq(Tasks) /\ (step.name # "call" => queue # <<>>)

StoreOK ==
  /\ backend \subseteq Records
  /\ index \in [Records -> Ids]
  /\ step \in [name : {"call", "index", "mirror", "done", "failed"}, loaded : SUBSET Records]

\* At most one message is on its way that changes the worker's copy: that of the operation
\* in progress.
InboxOK ==
  /\ worker \in [state : {"none", "alive", "failed"}, ids : [Records -> Ids],
                 inbox : Seq(Requests \cup {"mirror"})]
  /\ \A i, j \in 1..Len(worker.inbox) :
       worker.inbox[i] = "mirror" /\ worker.inbox[j] = "mirror" => i = j
  /\ \A i \in 1..Len(worker.inbox) : worker.inbox[i] = "mirror" => step.name = "mirror"

\* Until the worker has taken it, the copy is one operation behind.
CopyOK ==
  /\ step.name = "mirror" =>
       worker.state = "alive" /\ Indexed(worker.ids, Head(queue), step.loaded) = index
  /\ step.name # "mirror" /\ worker.state # "failed" => worker.ids = index

\* What the index will be when the operation in progress has been done to it, and the records
\* of which it will not know.
Coming ==
  IF step.name # "index" \/ (Head(queue).kind = "record" /\ ~enabled) THEN index
  ELSE Indexed(index, Head(queue), step.loaded)

Missed ==
  IF step.name # "index" THEN {}
  ELSE {record \in Head(queue).found :
          Head(queue).kind = "deleteRecords" /\ index[record] = "local"}

AgreesWith(ids, unknown, found) ==
  \A record \in Records \ unknown : ids[record] # "none" <=> record \in found

Agreement == AgreesWith(Coming, drift \cup Missed, backend)

Core == QueueOK /\ StoreOK /\ InboxOK /\ CopyOK /\ Agreement

\* What view, requests and rows hold are commands and records; of the rest only that it is there.
ViewIs(v) ==
  /\ v = [field \in {"line", "echo", "submitted", "timer", "shown", "hidden"} |-> v[field]]
  /\ v.submitted \in Commands \cup {NoLine}
  /\ v.shown \subseteq Commands

RequestIs(q) ==
  /\ q = [field \in {"phase", "line", "ahead", "result"} |-> q[field]]
  /\ q.result \subseteq Commands

RequestsOK ==
  /\ requests = [r \in Requests |-> requests[r]]
  /\ \A r \in Requests : RequestIs(requests[r])

Around == ViewIs(view) /\ RequestsOK /\ rows \subseteq Records

IInv == Core /\ Around

-------------------------------------------------------------------------------
(***************************************************************************)
(* The queue.  While an operation is in progress nothing gets before it.   *)
(***************************************************************************)
LEMMA AppendKeeps ==
  ASSUME NEW task \in Tasks, Core, queue' = Append(queue, task),
         UNCHANGED <<enabled, backend, drift, index, worker, step>>
  PROVE  Core'
<1>1. queue \in Seq(Tasks) /\ queue' = Append(queue, task)
  BY DEF Core, QueueOK
<1>2. queue' \in Seq(Tasks) /\ queue' # <<>>
  BY <1>1, AppendProperties, EmptySeq
<1>3. queue # <<>> => Head(queue') = Head(queue)
  BY <1>1, AppendProperties, EmptySeq
<1>4. step.name # "call" => Head(queue') = Head(queue)
  BY <1>3 DEF Core, QueueOK
<1>5. QueueOK' /\ StoreOK' /\ InboxOK'
  BY <1>2 DEF Core, QueueOK, StoreOK, InboxOK
<1>6. CopyOK'
  BY <1>4 DEF Core, CopyOK
<1>7. Coming' = Coming /\ Missed' = Missed
  BY <1>4 DEF Coming, Missed
<1>8. Agreement'
  BY <1>7 DEF Core, Agreement
<1> QED
  BY <1>5, <1>6, <1>8 DEF Core

LEMMA EnqueueKeeps ==
  ASSUME NEW task \in Tasks, Core, Enqueue(task),
         UNCHANGED <<enabled, backend, drift, index, worker, step>>
  PROVE  Core'
BY AppendKeeps DEF Enqueue

LEMMA CoreUnchanged ==
  ASSUME Core, UNCHANGED <<enabled, backend, drift, index, worker, step, queue>>
  PROVE  Core'
BY DEF Core, QueueOK, StoreOK, InboxOK, CopyOK, Agreement, Coming, Missed

-------------------------------------------------------------------------------
(***************************************************************************)
(* An operation done to an index, record by record.                        *)
(***************************************************************************)
LEMMA IndexedIs ==
  ASSUME NEW ids \in [Records -> Ids], NEW task \in Tasks, NEW loaded \in SUBSET Records
  PROVE  /\ Indexed(ids, task, loaded) \in [Records -> Ids]
         /\ task.kind = "load" =>
              \A record \in Records :
                Indexed(ids, task, loaded)[record] # "none" <=> record \in loaded
         /\ task.kind = "record" =>
              \A record \in Records :
                Indexed(ids, task, loaded)[record] # "none"
                  <=> ids[record] # "none" \/ record \in RecordsOf(task.command)
         /\ task.kind = "deleteCommand" =>
              \A record \in Records :
                Indexed(ids, task, loaded)[record] # "none"
                  <=> ids[record] # "none" /\ record \notin task.found
         /\ task.kind = "deleteRecords" =>
              \A record \in Records :
                Indexed(ids, task, loaded)[record] # "none"
                  <=> /\ ids[record] # "none"
                      /\ record \in task.found => ids[record] = "local"
<1>1. task.kind \in {"load", "record", "deleteCommand", "deleteRecords"}
  BY DEF Tasks
<1>2. CASE task.kind = "load"
  BY <1>2 DEF Indexed, Replace, Ids
<1>3. CASE task.kind = "record"
  BY <1>3 DEF Indexed, Upsert, Ids
<1>4. CASE task.kind = "deleteCommand"
  BY <1>4 DEF Indexed, DeleteCommand, Ids
<1>5. CASE task.kind = "deleteRecords"
  BY <1>5 DEF Indexed, DeleteRecords, Ids
<1> QED
  BY <1>1, <1>2, <1>3, <1>4, <1>5

-------------------------------------------------------------------------------
(***************************************************************************)
(* The first operation of the queue.                                       *)
(***************************************************************************)
LEMMA HeadIs ==
  ASSUME Core, queue # <<>>
  PROVE  Head(queue) \in Tasks /\ Tail(queue) \in Seq(Tasks)
BY HeadTailProperties DEF Core, QueueOK

LEMMA RunningIs ==
  ASSUME Core, Running("call")
  PROVE  /\ Head(queue) \in Tasks /\ step.name = "call" /\ queue # <<>>
         /\ AgreesWith(index, drift, backend)
BY HeadIs DEF Core, Running, Agreement, Coming, Missed

LEMMA CallKeeps ==
  ASSUME Core, Call
  PROVE  Core'
<1> DEFINE task == Head(queue)
<1>1. task \in Tasks /\ step.name = "call" /\ queue # <<>> /\ AgreesWith(index, drift, backend)
  BY RunningIs DEF Call
<1>2. /\ backend' = Changed(task, Affected(task))
      /\ drift' = IF task.kind = "load" THEN {} ELSE drift
      /\ step' = [step EXCEPT !.name = "index",
                    !.loaded = IF task.kind = "load" THEN backend ELSE {}]
      /\ UNCHANGED <<index, worker, queue, enabled>>
  BY DEF Call, Rest
<1>3. /\ step' \in [name : {"call", "index", "mirror", "done", "failed"}, loaded : SUBSET Records]
      /\ step'.name = "index"
      /\ task.kind = "load" => step'.loaded = backend
  BY <1>2 DEF Core, StoreOK
<1>4. task.kind \in {"load", "record", "deleteCommand", "deleteRecords"}
  BY <1>1 DEF Tasks
<1>5. task.kind = "record" => RecordsOf(task.command) \subseteq Records
  BY <1>1 DEF Tasks, RecordsOf, Records
<1>6. backend' = CASE task.kind = "load" -> backend
                   [] task.kind = "record" ->
                        IF enabled THEN backend \cup RecordsOf(task.command) ELSE backend
                   [] OTHER -> backend \ task.found
  BY <1>2, <1>4 DEF Changed, Affected
<1>7. backend' \subseteq Records
  BY <1>4, <1>5, <1>6 DEF Core, StoreOK
<1>8. QueueOK' /\ StoreOK'
  BY <1>1, <1>2, <1>3, <1>7 DEF Core, QueueOK, StoreOK
<1>9. InboxOK' /\ CopyOK'
  BY <1>1, <1>2, <1>3 DEF Core, InboxOK, CopyOK
<1>10. Agreement'
  <2> SUFFICES ASSUME NEW record \in Records, record \notin drift', record \notin Missed'
               PROVE  Coming'[record] # "none" <=> record \in backend'
    BY DEF Agreement, AgreesWith
  <2>1. index \in [Records -> Ids] /\ step'.loaded \in SUBSET Records
    BY <1>3 DEF Core, StoreOK
  <2>2. Coming' = IF task.kind = "record" /\ ~enabled THEN index
                  ELSE Indexed(index, task, step'.loaded)
    BY <1>2, <1>3 DEF Coming
  <2>3. ~(record \in task.found /\ task.kind = "deleteRecords" /\ index[record] = "local")
    BY <1>2, <1>3 DEF Missed
  <2>4. task.kind # "load" => (index[record] # "none" <=> record \in backend)
    BY <1>1, <1>2 DEF AgreesWith
  <2>5. CASE task.kind = "load"
    BY <1>1, <1>3, <1>6, <2>1, <2>2, <2>5, IndexedIs
  <2>6. CASE task.kind = "record"
    BY <1>1, <1>6, <2>1, <2>2, <2>4, <2>6, IndexedIs
  <2>7. CASE task.kind = "deleteCommand"
    BY <1>1, <1>6, <2>1, <2>2, <2>4, <2>7, IndexedIs
  <2>8. CASE task.kind = "deleteRecords"
    BY <1>1, <1>6, <2>1, <2>2, <2>3, <2>4, <2>8, IndexedIs
  <2> QED
    BY <1>4, <2>5, <2>6, <2>7, <2>8
<1> QED
  BY <1>8, <1>9, <1>10 DEF Core

LEMMA CallFailsKeeps ==
  ASSUME Core, CallFails
  PROVE  Core'
<1> DEFINE task == Head(queue)
<1>1. task \in Tasks /\ step.name = "call" /\ queue # <<>> /\ AgreesWith(index, drift, backend)
  BY RunningIs DEF CallFails
<1>2. PICK part \in SUBSET Affected(task) :
        /\ backend' = Changed(task, part)
        /\ drift' = drift \cup ((backend \ backend') \cup (backend' \ backend))
  BY DEF CallFails
<1>3. step' = [step EXCEPT !.name = "failed"] /\ UNCHANGED <<index, worker, queue, enabled>>
  BY DEF CallFails, Rest
<1>4. /\ step' \in [name : {"call", "index", "mirror", "done", "failed"}, loaded : SUBSET Records]
      /\ step'.name = "failed"
  BY <1>3 DEF Core, StoreOK
<1>5. task.kind = "record" => part \subseteq Records
  <2>1. task.kind = "record" => RecordsOf(task.command) \subseteq Records
    BY <1>1 DEF Tasks, RecordsOf, Records
  <2> QED
    BY <2>1 DEF Affected
<1>6. backend' \subseteq Records
  BY <1>2, <1>5 DEF Core, StoreOK, Changed
<1>7. QueueOK' /\ StoreOK'
  BY <1>1, <1>3, <1>4, <1>6 DEF Core, QueueOK, StoreOK
<1>8. InboxOK' /\ CopyOK'
  BY <1>1, <1>3, <1>4 DEF Core, InboxOK, CopyOK
<1>9. Coming' = index /\ Missed' = {}
  BY <1>3, <1>4 DEF Coming, Missed
<1>10. Agreement'
  BY <1>1, <1>2, <1>9 DEF Agreement, AgreesWith
<1> QED
  BY <1>7, <1>8, <1>10 DEF Core

LEMMA CallDiffersKeeps ==
  ASSUME Core, CallDiffers
  PROVE  Core'
<1> DEFINE task == Head(queue)
           name == step'.name
<1>1. /\ task \in Tasks /\ step.name = "call" /\ queue # <<>>
      /\ AgreesWith(index, drift, backend)
  BY RunningIs DEF CallDiffers
<1>2. /\ task.kind = "record" /\ enabled
      /\ drift' = drift \cup (RecordsOf(task.command) \ backend)
      /\ UNCHANGED <<index, worker, queue, enabled>>
  BY DEF CallDiffers, Rest
<1>3. \/ backend' = backend /\ step' = [step EXCEPT !.name = "index"]
      \/ backend' = backend \cup RecordsOf(task.command) /\ step' = [step EXCEPT !.name = "done"]
  BY <1>2 DEF CallDiffers, Changed, Affected
<1>4. /\ step' \in [name : {"call", "index", "mirror", "done", "failed"}, loaded : SUBSET Records]
      /\ step'.name \in {"index", "done"}
  BY <1>3 DEF Core, StoreOK
<1>5. RecordsOf(task.command) \subseteq Records
  BY <1>1, <1>2 DEF Tasks, RecordsOf, Records
<1>6. QueueOK' /\ StoreOK'
  BY <1>1, <1>2, <1>3, <1>4, <1>5 DEF Core, QueueOK, StoreOK
<1>7. InboxOK' /\ CopyOK'
  BY <1>1, <1>2, <1>4 DEF Core, InboxOK, CopyOK
<1>8. index \in [Records -> Ids] /\ step'.loaded \in SUBSET Records
  BY <1>4 DEF Core, StoreOK
<1>9. CASE step'.name = "index"
  <2>1. Coming' = Indexed(index, task, step'.loaded) /\ backend' = backend
    BY <1>2, <1>3, <1>9, <1>4 DEF Core, StoreOK, Coming
  <2>2. \A record \in Records :
          Coming'[record] # "none" <=> index[record] # "none" \/ record \in RecordsOf(task.command)
    BY <1>1, <1>2, <1>8, <2>1, IndexedIs
  <2>3. Agreement'
    BY <1>1, <1>2, <2>1, <2>2 DEF Agreement, AgreesWith
  <2> QED
    BY <1>6, <1>7, <2>3 DEF Core
<1>10. CASE step'.name = "done"
  <2>1. Coming' = index /\ Missed' = {}
    BY <1>2, <1>10 DEF Coming, Missed
  <2>2. backend' = backend \/ backend' = backend \cup RecordsOf(task.command)
    BY <1>3
  <2>3. Agreement'
    BY <1>1, <1>2, <2>1, <2>2 DEF Agreement, AgreesWith
  <2> QED
    BY <1>6, <1>7, <2>3 DEF Core
<1> QED
  BY <1>4, <1>9, <1>10

\* The message is put behind the requests that wait; it is the only one, as the last has gone.
LEMMA Mirrored ==
  ASSUME Core, step.name # "mirror"
  PROVE  LET inbox == Append(worker.inbox, "mirror") IN
           /\ inbox \in Seq(Requests \cup {"mirror"})
           /\ \A i, j \in 1..Len(inbox) : inbox[i] = "mirror" /\ inbox[j] = "mirror" => i = j
<1>1. worker.inbox \in Seq(Requests \cup {"mirror"})
  BY DEF Core, InboxOK
<1>2. \A i \in 1..Len(worker.inbox) : worker.inbox[i] # "mirror"
  BY DEF Core, InboxOK
<1> DEFINE inbox == Append(worker.inbox, "mirror")
<1>3. /\ inbox \in Seq(Requests \cup {"mirror"}) /\ Len(inbox) = Len(worker.inbox) + 1
      /\ \A i \in 1..Len(worker.inbox) : inbox[i] = worker.inbox[i]
  BY <1>1, AppendProperties
<1>4. Len(worker.inbox) \in Nat
  BY <1>1, LenProperties
<1> HIDE DEF inbox
<1>5. \A i \in 1..Len(inbox) : inbox[i] = "mirror" => i = Len(worker.inbox) + 1
  BY <1>2, <1>3, <1>4
<1>6. \A i, j \in 1..Len(inbox) : inbox[i] = "mirror" /\ inbox[j] = "mirror" => i = j
  BY <1>5
<1> QED
  BY <1>3, <1>6 DEF inbox

LEMMA UpdateIndexKeeps ==
  ASSUME Core, UpdateIndex
  PROVE  Core'
<1> DEFINE task == Head(queue)
<1>1. task \in Tasks /\ step.name = "index" /\ queue # <<>>
  BY HeadIs DEF UpdateIndex, Running
<1>2. /\ drift' = drift \cup {record \in task.found :
                               task.kind = "deleteRecords" /\ index[record] = "local"}
      /\ UNCHANGED <<enabled, backend, queue>>
  BY DEF UpdateIndex
<1>3. /\ index \in [Records -> Ids] /\ step.loaded \in SUBSET Records
      /\ step \in [name : {"call", "index", "mirror", "done", "failed"}, loaded : SUBSET Records]
      /\ worker \in [state : {"none", "alive", "failed"}, ids : [Records -> Ids],
                     inbox : Seq(Requests \cup {"mirror"})]
  BY DEF Core, StoreOK, InboxOK
<1>4. index' = Coming
  BY <1>1 DEF UpdateIndex, Coming
<1>5. index' \in [Records -> Ids]
  BY <1>1, <1>3, <1>4, IndexedIs DEF Coming
<1>6. drift' = drift \cup Missed
  BY <1>1, <1>2 DEF Missed
<1>7. worker.state # "failed" => worker.ids = index
  BY <1>1 DEF Core, CopyOK
<1>8. \/ /\ index' = index /\ worker' = worker
         /\ step' = [step EXCEPT !.name = "done"]
      \/ /\ worker.state \in {"none", "alive"} /\ index' = Indexed(index, task, step.loaded)
         /\ worker' = [worker EXCEPT !.state = "alive", !.inbox = Append(@, "mirror")]
         /\ step' = [step EXCEPT !.name = "mirror"]
      \/ /\ worker' = [worker EXCEPT !.state = "failed"]
         /\ step' = [step EXCEPT !.name = "done"]
  BY <1>3 DEF UpdateIndex
<1>9. /\ step' \in [name : {"call", "index", "mirror", "done", "failed"}, loaded : SUBSET Records]
      /\ step'.name \in {"mirror", "done"} /\ step'.loaded = step.loaded
  BY <1>3, <1>8
<1>10. QueueOK' /\ StoreOK'
  BY <1>1, <1>2, <1>5, <1>9 DEF Core, QueueOK, StoreOK
<1>11. Coming' = index' /\ Missed' = {}
  BY <1>9 DEF Coming, Missed
<1>12. Agreement'
  BY <1>2, <1>4, <1>6, <1>11 DEF Core, Agreement, AgreesWith
<1>13. InboxOK' /\ CopyOK'
  <2>1. \A i \in 1..Len(worker.inbox) : worker.inbox[i] # "mirror"
    BY <1>1 DEF Core, InboxOK
  <2>2. CASE index' = index /\ worker' = worker /\ step' = [step EXCEPT !.name = "done"]
    BY <1>1, <1>3, <1>7, <2>1, <2>2 DEF InboxOK, CopyOK
  <2>3. CASE /\ worker.state \in {"none", "alive"} /\ index' = Indexed(index, task, step.loaded)
             /\ worker' = [worker EXCEPT !.state = "alive", !.inbox = Append(@, "mirror")]
             /\ step' = [step EXCEPT !.name = "mirror"]
    <3> DEFINE inbox == Append(worker.inbox, "mirror")
    <3>1. /\ inbox \in Seq(Requests \cup {"mirror"})
          /\ \A i, j \in 1..Len(inbox) : inbox[i] = "mirror" /\ inbox[j] = "mirror" => i = j
      BY <1>1, Mirrored
    <3>2. step'.name = "mirror" /\ worker'.inbox = inbox /\ worker'.ids = worker.ids
          /\ worker'.state = "alive"
      BY <1>3, <2>3
    <3> HIDE DEF inbox
    <3>3. worker' \in [state : {"none", "alive", "failed"}, ids : [Records -> Ids],
                       inbox : Seq(Requests \cup {"mirror"})]
      BY <1>3, <2>3, <3>1 DEF inbox
    <3>4. InboxOK'
      BY <3>1, <3>2, <3>3 DEF InboxOK
    <3>5. Indexed(worker'.ids, Head(queue'), step'.loaded) = index'
      BY <1>2, <1>7, <1>9, <2>3, <3>2
    <3> QED
      BY <3>2, <3>4, <3>5 DEF CopyOK
  <2>4. CASE worker' = [worker EXCEPT !.state = "failed"] /\ step' = [step EXCEPT !.name = "done"]
    BY <1>3, <2>1, <2>4 DEF InboxOK, CopyOK
  <2> QED
    BY <1>8, <2>2, <2>3, <2>4
<1> QED
  BY <1>10, <1>12, <1>13 DEF Core

LEMMA TaskEndsKeeps ==
  ASSUME Core, TaskEnds
  PROVE  Core'
<1>1. /\ step.name \in {"done", "failed"} /\ queue # <<>>
      /\ queue' = Tail(queue) /\ step' = [name |-> "call", loaded |-> {}]
      /\ UNCHANGED <<enabled, backend, drift, index, worker>>
  BY DEF TaskEnds, store
<1>2. QueueOK' /\ StoreOK'
  BY <1>1, HeadIs DEF Core, QueueOK, StoreOK
<1>3. InboxOK' /\ CopyOK'
  BY <1>1 DEF Core, InboxOK, CopyOK
<1>4. Coming' = Coming /\ Missed' = Missed
  BY <1>1 DEF Coming, Missed
<1>5. Agreement'
  BY <1>1, <1>4 DEF Core, Agreement, AgreesWith
<1> QED
  BY <1>2, <1>3, <1>5 DEF Core

\* What changes behind the queue's back is not known to the index any more.
LEMMA OutsideKeeps ==
  ASSUME Core, Outside
  PROVE  Core'
<1>1. PICK record \in Records :
        /\ backend' = IF record \in backend THEN backend \ {record} ELSE backend \cup {record}
        /\ drift' = drift \cup {record}
  BY DEF Outside
<1>2. UNCHANGED <<enabled, index, worker, queue, step>>
  BY DEF Outside
<1>3. QueueOK' /\ StoreOK' /\ InboxOK' /\ CopyOK'
  BY <1>1, <1>2 DEF Core, QueueOK, StoreOK, InboxOK, CopyOK
<1>4. Coming' = Coming /\ Missed' = Missed
  BY <1>2 DEF Coming, Missed
<1>5. Agreement'
  BY <1>1, <1>4 DEF Core, Agreement, AgreesWith
<1> QED
  BY <1>3, <1>5 DEF Core

-------------------------------------------------------------------------------
(***************************************************************************)
(* The worker.                                                             *)
(***************************************************************************)
\* The step from the worker to the end of the operation changes nothing else.
LEMMA Settled ==
  ASSUME Core, step.name = "mirror", step' = [step EXCEPT !.name = "done"],
         UNCHANGED <<enabled, backend, drift, index, queue>>
  PROVE  QueueOK' /\ StoreOK' /\ Agreement' /\ step'.name = "done"
<1>1. /\ step' \in [name : {"call", "index", "mirror", "done", "failed"}, loaded : SUBSET Records]
      /\ step'.name = "done"
  BY DEF Core, StoreOK
<1>2. Coming' = Coming /\ Missed' = Missed
  BY <1>1 DEF Coming, Missed
<1> QED
  BY <1>1, <1>2 DEF Core, QueueOK, StoreOK, Agreement, AgreesWith

LEMMA Taken ==
  ASSUME Core, worker.inbox # <<>>
  PROVE  /\ Head(worker.inbox) = worker.inbox[1]
         /\ Tail(worker.inbox) \in Seq(Requests \cup {"mirror"})
         /\ \A i, j \in 1..Len(Tail(worker.inbox)) :
              Tail(worker.inbox)[i] = "mirror" /\ Tail(worker.inbox)[j] = "mirror" => i = j
         /\ \A i \in 1..Len(Tail(worker.inbox)) :
              Tail(worker.inbox)[i] = "mirror" =>
                worker.inbox[1] # "mirror" /\ step.name = "mirror"
         /\ worker.inbox[1] = "mirror" => step.name = "mirror"
<1> DEFINE inbox == worker.inbox
           rest == Tail(worker.inbox)
<1>1. inbox \in Seq(Requests \cup {"mirror"})
  BY DEF Core, InboxOK
<1>2. /\ \A i, j \in 1..Len(inbox) : inbox[i] = "mirror" /\ inbox[j] = "mirror" => i = j
      /\ \A i \in 1..Len(inbox) : inbox[i] = "mirror" => step.name = "mirror"
  BY DEF Core, InboxOK
<1>3. /\ rest \in Seq(Requests \cup {"mirror"}) /\ Len(rest) = Len(inbox) - 1
      /\ \A i \in 1..Len(rest) : rest[i] = inbox[i + 1]
  BY <1>1, HeadTailProperties
<1>4. Len(inbox) \in Nat \ {0}
  BY <1>1, EmptySeq
<1>5. Head(inbox) = inbox[1]
  BY <1>1
<1> HIDE DEF inbox, rest
<1>6. \A i \in 1..Len(rest) : i + 1 \in 1..Len(inbox) /\ i + 1 # 1 /\ rest[i] = inbox[i + 1]
  BY <1>3, <1>4
<1>7. 1 \in 1..Len(inbox)
  BY <1>4
<1>8. \A i, j \in 1..Len(rest) : rest[i] = "mirror" /\ rest[j] = "mirror" => i = j
  <2> SUFFICES ASSUME NEW i \in 1..Len(rest), NEW j \in 1..Len(rest),
                      rest[i] = "mirror", rest[j] = "mirror"
               PROVE  i = j
    OBVIOUS
  <2>1. i + 1 = j + 1
    BY <1>2, <1>6
  <2> QED
    BY <1>3, <1>4, <2>1
<1>9. \A i \in 1..Len(rest) : rest[i] = "mirror" => inbox[1] # "mirror" /\ step.name = "mirror"
  BY <1>2, <1>6, <1>7
<1> QED
  BY <1>2, <1>3, <1>5, <1>7, <1>8, <1>9 DEF inbox, rest

LEMMA WorkerTakesKeeps ==
  ASSUME Core, WorkerTakes
  PROVE  Core'
<1>1. /\ worker \in [state : {"none", "alive", "failed"}, ids : [Records -> Ids],
                     inbox : Seq(Requests \cup {"mirror"})]
      /\ index \in [Records -> Ids]
      /\ step \in [name : {"call", "index", "mirror", "done", "failed"}, loaded : SUBSET Records]
  BY DEF Core, InboxOK, StoreOK
<1>2. /\ worker.state = "alive" /\ worker.inbox # <<>>
      /\ UNCHANGED <<enabled, backend, drift, index, queue>>
  BY DEF WorkerTakes, store
<1> DEFINE rest == Tail(worker.inbox)
<1>3. /\ Head(worker.inbox) = worker.inbox[1] /\ rest \in Seq(Requests \cup {"mirror"})
      /\ \A i, j \in 1..Len(rest) : rest[i] = "mirror" /\ rest[j] = "mirror" => i = j
      /\ \A i \in 1..Len(rest) :
           rest[i] = "mirror" => worker.inbox[1] # "mirror" /\ step.name = "mirror"
      /\ worker.inbox[1] = "mirror" => step.name = "mirror"
  BY <1>2, Taken
<1> HIDE DEF rest
<1>4. CASE Head(worker.inbox) = "mirror"
  <2>1. step.name = "mirror" /\ Indexed(worker.ids, Head(queue), step.loaded) = index
    BY <1>3, <1>4 DEF Core, CopyOK
  <2>2. /\ worker' = [worker EXCEPT !.inbox = rest, !.ids = index]
        /\ step' = [step EXCEPT !.name = "done"]
    BY <1>1, <1>4, <2>1 DEF WorkerTakes, rest
  <2>3. QueueOK' /\ StoreOK' /\ Agreement' /\ step'.name = "done"
    BY <1>2, <2>1, <2>2, Settled
  <2>4. /\ worker'.inbox = rest /\ worker'.ids = index
        /\ worker' \in [state : {"none", "alive", "failed"}, ids : [Records -> Ids],
                        inbox : Seq(Requests \cup {"mirror"})]
    BY <1>1, <1>3, <2>2
  <2>5. InboxOK'
    BY <1>3, <1>4, <2>3, <2>4 DEF InboxOK
  <2>6. CopyOK'
    BY <1>2, <2>3, <2>4 DEF CopyOK
  <2> QED
    BY <2>3, <2>5, <2>6 DEF Core
<1>5. CASE Head(worker.inbox) # "mirror"
  <2>1. worker' = [worker EXCEPT !.inbox = rest] /\ step' = step
    BY <1>5 DEF WorkerTakes, rest
  <2>2. /\ worker'.inbox = rest /\ worker'.ids = worker.ids /\ worker'.state = worker.state
        /\ worker' \in [state : {"none", "alive", "failed"}, ids : [Records -> Ids],
                        inbox : Seq(Requests \cup {"mirror"})]
    BY <1>1, <1>3, <2>1
  <2>3. InboxOK' /\ CopyOK'
    BY <1>2, <1>3, <2>1, <2>2 DEF Core, InboxOK, CopyOK
  <2>4. Coming' = Coming /\ Missed' = Missed
    BY <1>2, <2>1 DEF Coming, Missed
  <2>5. QueueOK' /\ StoreOK' /\ Agreement'
    BY <1>2, <2>1, <2>4 DEF Core, QueueOK, StoreOK, Agreement, AgreesWith
  <2> QED
    BY <2>3, <2>5 DEF Core
<1> QED
  BY <1>4, <1>5

LEMMA WorkerFailsKeeps ==
  ASSUME Core, WorkerFails
  PROVE  Core'
<1>1. /\ worker' = [state |-> "failed", ids |-> Empty, inbox |-> <<>>]
      /\ step' = IF step.name = "mirror" THEN [step EXCEPT !.name = "done"] ELSE step
      /\ UNCHANGED <<enabled, backend, drift, index, queue>>
  BY DEF WorkerFails, store
<1>2. Empty \in [Records -> Ids]
  BY DEF Empty, Ids
<1>3. step'.name # "mirror"
  BY <1>1, Settled DEF Core, StoreOK
<1>4. InboxOK' /\ CopyOK'
  <2>1. <<>> \in Seq(Requests \cup {"mirror"}) /\ Len(<<>>) = 0
    BY EmptySeq
  <2>2. worker' \in [state : {"none", "alive", "failed"}, ids : [Records -> Ids],
                     inbox : Seq(Requests \cup {"mirror"})]
    BY <1>1, <1>2, <2>1
  <2>3. InboxOK'
    BY <1>1, <2>1, <2>2 DEF InboxOK
  <2> QED
    BY <1>1, <1>3, <2>3 DEF CopyOK
<1>5. CASE step.name = "mirror"
  BY <1>1, <1>4, <1>5, Settled DEF Core
<1>6. CASE step.name # "mirror"
  <2>1. Coming' = Coming /\ Missed' = Missed
    BY <1>1, <1>6 DEF Coming, Missed
  <2>2. QueueOK' /\ StoreOK' /\ Agreement'
    BY <1>1, <1>6, <2>1 DEF Core, QueueOK, StoreOK, Agreement, AgreesWith
  <2> QED
    BY <1>4, <2>2 DEF Core
<1> QED
  BY <1>5, <1>6

LEMMA AskKeeps ==
  ASSUME Core, NEW r \in Requests, Ask(r)
  PROVE  Core'
<1>1. UNCHANGED <<enabled, backend, drift, index, step, queue>>
  BY DEF Ask, OnlyRequests, store
<1>2. CASE worker' = worker
  BY <1>1, <1>2, CoreUnchanged
<1>3. CASE worker' = [worker EXCEPT !.inbox = Append(@, r)]
  <2> DEFINE inbox == Append(worker.inbox, r)
  <2>1. /\ worker \in [state : {"none", "alive", "failed"}, ids : [Records -> Ids],
                       inbox : Seq(Requests \cup {"mirror"})]
        /\ \A i, j \in 1..Len(worker.inbox) :
             worker.inbox[i] = "mirror" /\ worker.inbox[j] = "mirror" => i = j
        /\ \A i \in 1..Len(worker.inbox) : worker.inbox[i] = "mirror" => step.name = "mirror"
    BY DEF Core, InboxOK
  <2>2. /\ inbox \in Seq(Requests \cup {"mirror"}) /\ Len(inbox) = Len(worker.inbox) + 1
        /\ \A i \in 1..Len(worker.inbox) : inbox[i] = worker.inbox[i]
        /\ inbox[Len(worker.inbox) + 1] = r
    BY <2>1, AppendProperties
  <2>3. Len(worker.inbox) \in Nat /\ r # "mirror"
    BY <2>1, LenProperties, RequestsAssumption
  <2> HIDE DEF inbox
  <2>4. \A i \in 1..Len(inbox) :
          inbox[i] = "mirror" => i \in 1..Len(worker.inbox) /\ worker.inbox[i] = "mirror"
    BY <2>2, <2>3
  <2>5. /\ worker'.inbox = inbox /\ worker'.ids = worker.ids /\ worker'.state = worker.state
        /\ worker' \in [state : {"none", "alive", "failed"}, ids : [Records -> Ids],
                        inbox : Seq(Requests \cup {"mirror"})]
    BY <1>3, <2>1, <2>2 DEF inbox
  <2>6. InboxOK'
    BY <1>1, <2>1, <2>4, <2>5 DEF InboxOK
  <2>7. CopyOK'
    BY <1>1, <2>5 DEF Core, CopyOK
  <2>8. Coming' = Coming /\ Missed' = Missed
    BY <1>1 DEF Coming, Missed
  <2>9. QueueOK' /\ StoreOK' /\ Agreement'
    BY <1>1, <2>8 DEF Core, QueueOK, StoreOK, Agreement, AgreesWith
  <2> QED
    BY <2>6, <2>7, <2>9 DEF Core
<1> QED
  BY <1>2, <1>3 DEF Ask

-------------------------------------------------------------------------------
(***************************************************************************)
(* View, requests and rows: what the operations get is commands.           *)
(***************************************************************************)
LEMMA SuggestIs == \A ids, line : Suggest(ids, line) \subseteq Commands
BY DEF Suggest

LEMMA StaleIs ==
  ASSUME RequestsOK, requests' = Stale
  PROVE  RequestsOK'
BY DEF RequestsOK, RequestIs, Stale

LEMMA ScheduledIs ==
  ASSUME NEW v, ViewIs(v)
  PROVE  ViewIs(Cleared(v)) /\ ViewIs(Scheduled(v))
<1>1. ViewIs(Cleared(v))
  BY DEF ViewIs, Cleared
<1>2. ViewIs([v EXCEPT !.timer = v.line])
  BY DEF ViewIs
<1> QED
  BY <1>1, <1>2 DEF Scheduled

LEMMA ShiftKeeps ==
  ASSUME NEW v, ViewIs(v), RequestsOK, Shift(v)
  PROVE  ViewIs(view') /\ RequestsOK'
BY ScheduledIs, StaleIs DEF Shift

LEMMA RequestChanged ==
  ASSUME RequestsOK, NEW r \in Requests, NEW q, RequestIs(q), requests' = [requests EXCEPT ![r] = q]
  PROVE  RequestsOK'
BY DEF RequestsOK

LEMMA KeyKeeps ==
  ASSUME IInv, TypeChars \/ Backspace \/ EchoArrives \/ NewLine \/ Apply \/ Dismiss
  PROVE  IInv'
<1>1. Core /\ ViewIs(view) /\ RequestsOK /\ rows \subseteq Records
  BY DEF IInv, Around
<1>2. UNCHANGED <<enabled, backend, drift, index, worker, step, queue, rows>>
  BY DEF TypeChars, Backspace, EchoArrives, NewLine, Apply, Dismiss, OnlyView, NoChange, store
<1>3. \A line, echo : ViewIs([view EXCEPT !.line = line, !.echo = echo])
  BY <1>1 DEF ViewIs
<1>4. CASE TypeChars
  <2>1. PICK line : Shift([view EXCEPT !.line = line, !.echo = IF @ = "lost" THEN @ ELSE "some"])
    BY <1>4 DEF TypeChars
  <2> DEFINE v == [view EXCEPT !.line = line, !.echo = IF @ = "lost" THEN @ ELSE "some"]
  <2>2. ViewIs(v)
    BY <1>1 DEF ViewIs
  <2> HIDE DEF v
  <2>3. ViewIs(view') /\ RequestsOK'
    BY <1>1, <2>1, <2>2, ShiftKeeps DEF v
  <2> QED
    BY <1>1, <1>2, <2>3, CoreUnchanged DEF IInv, Around
<1>5. CASE Backspace
  <2>1. PICK echo : Shift([view EXCEPT !.line = SubSeq(@, 1, Len(@) - 1), !.echo = echo])
    BY <1>5 DEF Backspace
  <2> DEFINE v == [view EXCEPT !.line = SubSeq(@, 1, Len(@) - 1), !.echo = echo]
  <2>2. ViewIs(v)
    BY <1>1 DEF ViewIs
  <2> HIDE DEF v
  <2>3. ViewIs(view') /\ RequestsOK'
    BY <1>1, <2>1, <2>2, ShiftKeeps DEF v
  <2> QED
    BY <1>1, <1>2, <2>3, CoreUnchanged DEF IInv, Around
<1>6. CASE EchoArrives
  <2>1. PICK echo : Shift([view EXCEPT !.echo = echo])
    BY <1>6 DEF EchoArrives
  <2> DEFINE v == [view EXCEPT !.echo = echo]
  <2>2. ViewIs(v)
    BY <1>1 DEF ViewIs
  <2> HIDE DEF v
  <2>3. ViewIs(view') /\ RequestsOK'
    BY <1>1, <2>1, <2>2, ShiftKeeps DEF v
  <2> QED
    BY <1>1, <1>2, <2>3, CoreUnchanged DEF IInv, Around
<1>7. CASE NewLine
  <2>1. PICK submitted \in {NoLine} \cup IF view.echo # "lost" /\ Trim(view.line) \in Commands
                                              /\ view.line[1] # Blank
                                           THEN {Trim(view.line)} ELSE {} :
          Shift([view EXCEPT !.line = <<>>, !.echo = "all", !.submitted = submitted])
    BY <1>7 DEF NewLine
  <2> DEFINE v == [view EXCEPT !.line = <<>>, !.echo = "all", !.submitted = submitted]
  <2>2. submitted \in Commands \cup {NoLine}
    OBVIOUS
  <2>3. ViewIs(v)
    BY <1>1, <2>2 DEF ViewIs
  <2> HIDE DEF v
  <2>4. ViewIs(view') /\ RequestsOK'
    BY <1>1, <2>1, <2>3, ShiftKeeps DEF v
  <2> QED
    BY <1>1, <1>2, <2>4, CoreUnchanged DEF IInv, Around
<1>8. CASE Apply
  <2>1. PICK line, echo :
          view' = Cleared([view EXCEPT !.line = line, !.echo = echo]) /\ requests' = Stale
    <3>1. PICK command \in view.shown :
            LET suffix == Suffix(view.line, command)
            IN  /\ view' = Cleared([view EXCEPT !.line = @ \o suffix,
                                      !.echo = IF suffix = <<>> THEN @ ELSE "some"])
                /\ requests' = Stale
      BY <1>8 DEF Apply
    <3> DEFINE suffix == Suffix(view.line, command)
               line == view.line \o suffix
               echo == IF suffix = <<>> THEN view.echo ELSE "some"
    <3>2. [view EXCEPT !.line = @ \o suffix, !.echo = IF suffix = <<>> THEN @ ELSE "some"]
            = [view EXCEPT !.line = line, !.echo = echo]
      OBVIOUS
    <3> QED
      BY <3>1, <3>2
  <2>2. ViewIs(view') /\ RequestsOK'
    BY <1>1, <1>3, <2>1, ScheduledIs, StaleIs
  <2> QED
    BY <1>1, <1>2, <2>2, CoreUnchanged DEF IInv, Around
<1>9. CASE Dismiss
  <2>1. ViewIs(view') /\ RequestsOK'
    BY <1>1, <1>9, ScheduledIs, StaleIs DEF Dismiss
  <2> QED
    BY <1>1, <1>2, <2>1, CoreUnchanged DEF IInv, Around
<1> QED
  BY <1>4, <1>5, <1>6, <1>7, <1>8, <1>9

LEMMA RecordKeeps ==
  ASSUME IInv, Record
  PROVE  IInv'
<1> DEFINE task == [kind |-> "record", command |-> view.submitted, found |-> {}, by |-> "view"]
           v == [view EXCEPT !.submitted = NoLine]
<1>1. Core /\ ViewIs(view) /\ RequestsOK /\ rows \subseteq Records
  BY DEF IInv, Around
<1>2. /\ Enqueue(task) /\ Shift(v)
      /\ UNCHANGED <<enabled, backend, drift, index, worker, step, rows>>
  BY DEF Record, NoChange, store
<1>3. view.submitted \in Commands
  BY <1>1 DEF ViewIs, Record
<1>4. task \in Tasks
  BY <1>3 DEF Tasks
<1>5. ViewIs(v)
  BY <1>1 DEF ViewIs
<1> HIDE DEF task, v
<1>6. Core'
  BY <1>1, <1>2, <1>4, EnqueueKeeps
<1>7. ViewIs(view') /\ RequestsOK'
  BY <1>1, <1>2, <1>5, ShiftKeeps
<1> QED
  BY <1>1, <1>2, <1>6, <1>7 DEF IInv, Around

LEMMA DeleteSuggestionKeeps ==
  ASSUME IInv, DeleteSuggestion
  PROVE  IInv'
<1>1. Core /\ ViewIs(view) /\ RequestsOK /\ rows \subseteq Records
  BY DEF IInv, Around
<1>2. PICK command \in view.shown :
        /\ view' = [view EXCEPT !.timer = NoLine, !.shown = @ \ {command},
                      !.hidden = @ \cup {command}]
        /\ Enqueue([kind |-> "deleteCommand", command |-> command,
                    found |-> DeletedWith("connection", command), by |-> "view"])
  BY DEF DeleteSuggestion
<1> DEFINE task == [kind |-> "deleteCommand", command |-> command,
                    found |-> DeletedWith("connection", command), by |-> "view"]
<1>3. command \in Commands
  BY <1>1 DEF ViewIs
<1>4. DeletedWith("connection", command) \subseteq Records
  BY <1>3 DEF DeletedWith, RecordsOf, Records
<1>5. task \in Tasks
  BY <1>3, <1>4 DEF Tasks
<1>6. ViewIs(view')
  BY <1>1, <1>2 DEF ViewIs
<1>7. /\ requests' = Stale
      /\ UNCHANGED <<enabled, backend, drift, index, worker, step, rows>>
  BY DEF DeleteSuggestion, NoChange, store
<1>8. Enqueue(task)
  BY <1>2
<1> HIDE DEF task
<1>9. Core'
  BY <1>1, <1>5, <1>7, <1>8, EnqueueKeeps
<1> QED
  BY <1>1, <1>6, <1>7, <1>9, StaleIs DEF IInv, Around

LEMMA PanelKeeps ==
  ASSUME IInv, NEW task \in Tasks, Panel(task)
  PROVE  IInv'
<1>1. Core /\ ViewIs(view) /\ RequestsOK /\ rows \subseteq Records
  BY DEF IInv, Around
<1>2. Enqueue(task) /\ UNCHANGED <<enabled, backend, drift, index, worker, step>>
  BY DEF Panel, NoChange, store
<1>3. Core'
  BY <1>1, <1>2, EnqueueKeeps
<1> QED
  BY <1>1, <1>3 DEF IInv, Around, RequestsOK, Panel

LEMMA SettingsPageKeeps ==
  ASSUME IInv, SettingsPage
  PROVE  IInv'
<1>1. rows \subseteq Records
  BY DEF IInv, Around
<1>2. CASE PanelLoad \/ Refresh
  <2>1. PICK who \in {"panel", "app"} :
          Panel([kind |-> "load", command |-> <<>>, found |-> {}, by |-> who])
    BY <1>2 DEF PanelLoad, Refresh
  <2>2. [kind |-> "load", command |-> <<>>, found |-> {}, by |-> who] \in Tasks
    BY DEF Tasks
  <2> QED
    BY <2>1, <2>2, PanelKeeps
<1>3. CASE PanelDeleteRows
  <2>1. PICK found \in SUBSET rows :
          Panel([kind |-> "deleteRecords", command |-> <<>>, found |-> found, by |-> "panel"])
    BY <1>3 DEF PanelDeleteRows
  <2>2. [kind |-> "deleteRecords", command |-> <<>>, found |-> found, by |-> "panel"] \in Tasks
    BY <1>1 DEF Tasks
  <2> QED
    BY <2>1, <2>2, PanelKeeps
<1>4. CASE PanelDeleteCommand
  <2>1. PICK record \in rows :
          Panel([kind |-> "deleteCommand", command |-> record[2],
                 found |-> DeletedWith(record[1], record[2]), by |-> "panel"])
    BY <1>4 DEF PanelDeleteCommand
  <2>2. record[1] \in Scopes /\ record[2] \in Commands
    BY <1>1 DEF Records
  <2>3. DeletedWith(record[1], record[2]) \subseteq Records
    BY <2>2 DEF DeletedWith, RecordsOf, Records
  <2>4. [kind |-> "deleteCommand", command |-> record[2],
         found |-> DeletedWith(record[1], record[2]), by |-> "panel"] \in Tasks
    BY <2>2, <2>3 DEF Tasks
  <2> QED
    BY <2>1, <2>4, PanelKeeps
<1> QED
  BY <1>2, <1>3, <1>4 DEF SettingsPage

LEMMA TimerFiresKeeps ==
  ASSUME IInv, TimerFires
  PROVE  IInv'
<1>1. Core /\ ViewIs(view) /\ RequestsOK /\ rows \subseteq Records
  BY DEF IInv, Around
<1>2. UNCHANGED <<enabled, backend, drift, index, worker, step, queue, rows>>
  BY DEF TimerFires, OnlyRequests, store
<1>3. PICK r \in Requests :
        requests' = [requests EXCEPT ![r] =
          [phase |-> IF enabled THEN "wait" ELSE "answer", line |-> view.timer,
           ahead |-> Len(queue), result |-> {}]]
  BY DEF TimerFires
<1>4. ASSUME NEW phase, NEW line, NEW ahead
      PROVE  RequestIs([phase |-> phase, line |-> line, ahead |-> ahead, result |-> {}])
  BY DEF RequestIs
<1>5. RequestsOK'
  BY <1>1, <1>3, <1>4, RequestChanged
<1>6. ViewIs(view')
  BY <1>1 DEF ViewIs, TimerFires
<1> QED
  BY <1>1, <1>2, <1>5, <1>6, CoreUnchanged DEF IInv, Around

LEMMA ProceedKeeps ==
  ASSUME IInv, NEW r \in Requests, Proceed(r)
  PROVE  IInv'
<1>1. Core /\ ViewIs(view) /\ RequestsOK /\ rows \subseteq Records
  BY DEF IInv, Around
<1>2. UNCHANGED <<enabled, backend, drift, index, worker, step, rows, view>>
  BY DEF Proceed, OnlyRequests, store
<1>3. CASE hasSnapshot
  <2>1. /\ requests' = [requests EXCEPT ![r].phase = "ready", ![r].ahead = Len(queue)]
        /\ queue' = queue
    BY <1>3 DEF Proceed
  <2>2. RequestsOK'
    BY <1>1, <2>1 DEF RequestsOK, RequestIs
  <2> QED
    BY <1>1, <1>2, <2>1, <2>2, CoreUnchanged DEF IInv, Around
<1>4. CASE ~hasSnapshot
  <2> DEFINE task == [kind |-> "load", command |-> <<>>, found |-> {}, by |-> r]
  <2>1. requests' = [requests EXCEPT ![r].phase = "load"] /\ queue' = Append(queue, task)
    BY <1>4 DEF Proceed
  <2>2. RequestsOK'
    BY <1>1, <2>1 DEF RequestsOK, RequestIs
  <2>3. task \in Tasks
    BY DEF Tasks
  <2> HIDE DEF task
  <2>4. Core'
    BY <1>1, <1>2, <2>1, <2>3, AppendKeeps
  <2> QED
    BY <1>1, <1>2, <2>2, <2>4 DEF IInv, Around
<1> QED
  BY <1>3, <1>4

LEMMA RequestKeeps ==
  ASSUME IInv, NEW r \in Requests, Ask(r) \/ Answered(r)
  PROVE  IInv'
<1>1. Core /\ ViewIs(view) /\ RequestsOK /\ rows \subseteq Records
  BY DEF IInv, Around
<1>2. CASE Ask(r)
  <2>1. /\ view' = view /\ rows' = rows
        /\ \/ requests' = [requests EXCEPT ![r].phase = "sent"]
           \/ requests' = [requests EXCEPT ![r].phase = "answer",
                             ![r].result = Suggest(index, requests[r].line)]
    BY <1>2 DEF Ask, OnlyRequests
  <2>2. RequestsOK'
    BY <1>1, <2>1, SuggestIs DEF RequestsOK, RequestIs
  <2> QED
    BY <1>1, <1>2, <2>1, <2>2, AskKeeps DEF IInv, Around
<1>3. CASE Answered(r)
  <2>1. UNCHANGED <<enabled, backend, drift, index, worker, step, queue, rows>>
    BY <1>3 DEF Answered, OnlyRequests, store
  <2>2. RequestsOK'
    BY <1>1, <1>3 DEF Answered, RequestsOK, RequestIs
  <2>3. requests[r].result \subseteq Commands
    BY <1>1 DEF RequestsOK, RequestIs
  <2>4. ViewIs(view')
    BY <1>1, <1>3, <2>3 DEF Answered, ViewIs
  <2> QED
    BY <1>1, <2>1, <2>2, <2>4, CoreUnchanged DEF IInv, Around
<1> QED
  BY <1>2, <1>3

LEMMA WorkerAround ==
  ASSUME IInv, WorkerTakes \/ WorkerFails
  PROVE  Around'
<1>1. ViewIs(view) /\ RequestsOK /\ rows \subseteq Records
  BY DEF IInv, Around
<1>2. view' = view /\ rows' = rows
  BY DEF WorkerTakes, WorkerFails
<1>3. CASE WorkerTakes
  <2>1. CASE requests' = requests
    BY <1>1, <1>2, <2>1 DEF Around, RequestsOK
  <2>2. CASE requests' # requests
    <3>1. PICK r, found : /\ found \subseteq Commands
                          /\ requests' = [requests EXCEPT ![r].phase = "answer",
                                            ![r].result = found]
      BY <1>3, <2>2, SuggestIs DEF WorkerTakes
    <3>2. RequestsOK'
      BY <1>1, <3>1 DEF RequestsOK, RequestIs
    <3> QED
      BY <1>1, <1>2, <3>2 DEF Around
  <2> QED
    BY <2>1, <2>2
<1>4. CASE WorkerFails
  <2>1. requests' =
          [r \in Requests |->
             IF requests[r].phase = "sent"
               THEN [requests[r] EXCEPT !.phase = "answer",
                       !.result = Suggest(index, requests[r].line)]
               ELSE requests[r]]
    BY <1>4 DEF WorkerFails
  <2>2. RequestsOK'
    BY <1>1, <2>1, SuggestIs DEF RequestsOK, RequestIs
  <2> QED
    BY <1>1, <1>2, <2>2 DEF Around
<1> QED
  BY <1>3, <1>4

LEMMA TaskEndsAround ==
  ASSUME IInv, TaskEnds
  PROVE  Around'
<1>1. Core /\ ViewIs(view) /\ RequestsOK /\ rows \subseteq Records
  BY DEF IInv, Around
<1>2. step.loaded \subseteq Records
  BY <1>1 DEF Core, StoreOK
<1>3. rows' \subseteq Records
  BY <1>1, <1>2 DEF TaskEnds
<1>4. ViewIs(view')
  BY <1>1 DEF TaskEnds, ViewIs
<1>5. RequestsOK'
  BY <1>1, SuggestIs DEF TaskEnds, RequestsOK, RequestIs
<1> QED
  BY <1>3, <1>4, <1>5 DEF Around

-------------------------------------------------------------------------------
LEMMA InitIInv == Init => IInv
<1> SUFFICES ASSUME Init PROVE IInv
  OBVIOUS
<1>1. Empty \in [Records -> Ids] /\ \A record \in Records : Empty[record] = "none"
  BY DEF Empty, Ids
<1>2. backend \subseteq Records
  BY SettingsAssumption DEF Init
<1>3. /\ queue \in Seq(Tasks)
      /\ worker.inbox \in Seq(Requests \cup {"mirror"}) /\ Len(worker.inbox) = 0
  BY EmptySeq DEF Init
<1>4. QueueOK /\ StoreOK /\ InboxOK /\ CopyOK
  BY <1>1, <1>2, <1>3 DEF Init, QueueOK, StoreOK, InboxOK, CopyOK
<1>5. Coming = Empty /\ Missed = {}
  BY DEF Init, Coming, Missed
<1>6. Agreement
  BY <1>1, <1>5 DEF Init, Agreement, AgreesWith
<1>7. Around
  BY DEF Init, Around, ViewIs, RequestsOK, RequestIs
<1> QED
  BY <1>4, <1>6, <1>7 DEF IInv, Core

LEMMA NextIInv == IInv /\ [Next]_vars => IInv'
<1> SUFFICES ASSUME IInv, [Next]_vars PROVE IInv'
  OBVIOUS
<1>1. Core /\ Around
  BY DEF IInv
<1>2. CASE Key
  BY <1>2, KeyKeeps, DeleteSuggestionKeeps DEF Key
<1>3. CASE Output
  BY <1>3, KeyKeeps, RecordKeeps DEF Output
<1>4. CASE SettingsPage
  BY <1>4, SettingsPageKeeps
<1>5. CASE Queue
  <2>1. CASE Call \/ CallFails \/ CallDiffers
    <3>1. Core'
      BY <1>1, <2>1, CallKeeps, CallFailsKeeps, CallDiffersKeeps
    <3>2. UNCHANGED <<view, requests, rows>>
      BY <2>1 DEF Call, CallFails, CallDiffers, Rest
    <3> QED
      BY <1>1, <3>1, <3>2 DEF IInv, Around, RequestsOK
  <2>2. CASE UpdateIndex
    <3>1. UNCHANGED <<view, requests, rows>>
      BY <2>2 DEF UpdateIndex
    <3> QED
      BY <1>1, <2>2, <3>1, UpdateIndexKeeps DEF IInv, Around, RequestsOK
  <2>3. CASE TaskEnds
    BY <1>1, <2>3, TaskEndsKeeps, TaskEndsAround DEF IInv
  <2> QED
    BY <1>5, <2>1, <2>2, <2>3 DEF Queue
<1>6. CASE Worker
  BY <1>1, <1>6, WorkerTakesKeeps, WorkerFailsKeeps, WorkerAround DEF Worker, IInv
<1>7. CASE Outside
  <2>1. UNCHANGED <<view, requests, rows>>
    BY <1>7 DEF Outside
  <2> QED
    BY <1>1, <1>7, <2>1, OutsideKeeps DEF IInv, Around, RequestsOK
<1>8. CASE TimerFires
  BY <1>8, TimerFiresKeeps
<1>9. CASE \E r \in Requests : Request(r)
  BY <1>9, ProceedKeeps, RequestKeeps DEF Request
<1>10. CASE UNCHANGED vars
  <2>1. UNCHANGED <<enabled, backend, drift, index, worker, step, queue, view, requests, rows>>
    BY <1>10 DEF vars, store
  <2> QED
    BY <1>1, <2>1, CoreUnchanged DEF IInv, Around, RequestsOK
<1> QED
  BY <1>2, <1>3, <1>4, <1>5, <1>6, <1>7, <1>8, <1>9, <1>10 DEF Next

\* The inductive invariant: what each step of the operation in progress has still to do.
THEOREM Inductive == Spec => []IInv
BY InitIInv, NextIInv, PTL DEF Spec

\* Between two operations the index knows the records of the backend, but for those changed
\* behind its back, and the worker knows what the index knows: for any commands, any number
\* of operations and requests, and whatever fails (enqueue, mirror, disableWorker).
THEOREM IndexNeverStrays == Spec => []IndexAgrees
<1>1. IInv => IndexAgrees
  <2> SUFFICES ASSUME IInv PROVE IndexAgrees
    OBVIOUS
  <2>1. Agreement /\ CopyOK
    BY DEF IInv, Core
  <2>2. step.name # "index" => AgreesWith(index, drift, backend)
    BY <2>1 DEF Agreement, AgreesWith, Coming, Missed
  <2> QED
    BY <2>1, <2>2 DEF CopyOK, AgreesWith, IndexAgrees
<1> QED
  BY <1>1, Inductive, PTL

-------------------------------------------------------------------------------
(***************************************************************************)
(* What is shown, and what requests have found, begins like the line.  An  *)
(* answer is taken only for the line it was asked for; of the keys, only   *)
(* one that erases leaves suggestions, for a line that has become shorter. *)
(***************************************************************************)
FitsLine(line, found) == \A command \in found : BeginsLike(Trim(line), command)

ShownFits(v) == FitsLine(v.line, v.shown) /\ v.shown \cap v.hidden = {}

FoundFits(q) == FitsLine(q.line, q.result)

Fits ==
  /\ setting \in Settings
  /\ view.line \in Seq(Characters)
  /\ ShownFits(view)
  /\ \A r \in Requests : FoundFits(requests[r])

LEMMA SuggestFits == \A ids, line : FitsLine(line, Suggest(ids, line))
BY DEF FitsLine, Suggest

\* A set of positions has a first one and a last one.
LEMMA EndsAre ==
  ASSUME NEW n \in Nat, NEW S \in SUBSET (1..n), S # {}
  PROVE  /\ Min(S) \in S /\ \A i \in S : Min(S) <= i
         /\ Max(S) \in S /\ \A i \in S : i <= Max(S)
<1> DEFINE Before == OpToRel(<, Nat)
<1>1. \A i \in Nat, j \in Nat : <<j, i>> \in Before <=> j < i
  BY DEF OpToRel
<1>2. IsWellFoundedOn(Before, Nat)
  BY NatLessThanWellFounded
<1> HIDE DEF Before
<1>0. S \subseteq Nat
  OBVIOUS
<1>3. PICK i \in S : \A j \in S : ~(<<j, i>> \in Before)
  BY <1>0, <1>2, WFMin
<1>4. \A j \in S : i <= j
  <2> SUFFICES ASSUME NEW j \in S PROVE i <= j
    OBVIOUS
  <2>1. i \in Nat /\ j \in Nat
    BY <1>0
  <2>2. ~(j < i)
    BY <1>1, <1>3, <2>1
  <2> QED
    BY <2>1, <2>2
<1>5. Min(S) \in S /\ \A j \in S : Min(S) <= j
  BY <1>4 DEF Min
<1> DEFINE T == {n - j : j \in S}
<1>6. T \subseteq Nat /\ T # {}
  OBVIOUS
<1>7. PICK t \in T : \A u \in T : ~(<<u, t>> \in Before)
  <2> HIDE DEF T
  <2> QED
    BY <1>2, <1>6, WFMin
<1>8. PICK k \in S : t = n - k
  OBVIOUS
<1>9. \A j \in S : j <= k
  <2> SUFFICES ASSUME NEW j \in S PROVE j <= k
    OBVIOUS
  <2>1. n - j \in T /\ n - j \in Nat /\ n - k \in Nat
    OBVIOUS
  <2>2. ~(n - j < n - k)
    BY <1>1, <1>7, <1>8, <2>1
  <2> QED
    BY <2>2
<1>10. Max(S) \in S /\ \A j \in S : j <= Max(S)
  BY <1>9 DEF Max
<1> QED
  BY <1>5, <1>10

Written(line) == {i \in DOMAIN line : line[i] # Blank}

\* What is left of a line is what lies between its first and its last character.
LEMMA TrimIs ==
  ASSUME NEW line \in Seq(Characters), Written(line) # {}
  PROVE  LET first == Min(Written(line)) last == Max(Written(line)) IN
           /\ first \in Written(line) /\ last \in Written(line)
           /\ \A i \in Written(line) : first <= i /\ i <= last
           /\ Trim(line) \in Seq(Characters)
           /\ Len(Trim(line)) = last - first + 1
           /\ \A i \in 1..(last - first + 1) : Trim(line)[i] = line[first + i - 1]
<1> DEFINE first == Min(Written(line))
           last == Max(Written(line))
<1>1. Len(line) \in Nat /\ DOMAIN line = 1..Len(line)
  BY LenProperties
<1>2. Written(line) \in SUBSET (1..Len(line))
  BY <1>1 DEF Written
<1>3. /\ first \in Written(line) /\ \A i \in Written(line) : first <= i
      /\ last \in Written(line) /\ \A i \in Written(line) : i <= last
  BY <1>1, <1>2, EndsAre
<1>4. Trim(line) = SubSeq(line, first, last)
  BY DEF Trim, Written
<1> HIDE DEF first, last
<1>5. first \in 1..Len(line) /\ last \in 1..Len(line) /\ first <= last
  BY <1>2, <1>3
<1>6. \A i \in first..last : line[i] \in Characters
  BY <1>1, <1>5, ElementOfSeq
<1>7. /\ SubSeq(line, first, last) \in Seq(Characters)
      /\ Len(SubSeq(line, first, last)) = last - first + 1
      /\ \A i \in 1..(last - first + 1) : SubSeq(line, first, last)[i] = line[first + i - 1]
  BY <1>5, <1>6, SubSeqProperties
<1> QED
  BY <1>3, <1>4, <1>7 DEF first, last

LEMMA EmptyFits == FitsLine(<<>>, Commands)
<1> SUFFICES ASSUME NEW command \in Commands PROVE BeginsLike(Trim(<<>>), command)
  BY DEF FitsLine
<1>1. command \in Seq(Characters)
  BY CommandsAssumption
<1>2. Trim(<<>>) = <<>>
  BY DEF Trim
<1>3. Len(command) \in Nat /\ Len(<<>>) = 0 /\ DOMAIN <<>> = {}
  BY <1>1, LenProperties
<1> QED
  BY <1>2, <1>3 DEF BeginsLike

\* Erasing the last character of a line takes at most a character of what is left of it.
LEMMA ShorterFits ==
  ASSUME NEW line \in Seq(Characters), line # <<>>, NEW command \in Commands,
         BeginsLike(Trim(line), command)
  PROVE  BeginsLike(Trim(SubSeq(line, 1, Len(line) - 1)), command)
<1> DEFINE n == Len(line) - 1
           short == SubSeq(line, 1, n)
<1>1. /\ command \in Seq(Characters) /\ Len(command) \in Nat
      /\ Len(line) \in Nat \ {0} /\ DOMAIN line = 1..Len(line)
  BY CommandsAssumption, LenProperties, EmptySeq
<1>2. n \in Nat /\ n = Len(line) - 1
  BY <1>1
<1> HIDE DEF n
<1>3. \A i \in 1..n : line[i] \in Characters
  BY <1>1, <1>2, ElementOfSeq
<1>4. short \in Seq(Characters) /\ Len(short) = n /\ \A i \in 1..n : short[i] = line[i]
  <2>1. /\ short \in Seq(Characters) /\ Len(short) = IF 1 <= n THEN n - 1 + 1 ELSE 0
        /\ \A i \in 1..(n - 1 + 1) : short[i] = line[1 + i - 1]
    BY <1>2, <1>3, SubSeqProperties
  <2> QED
    BY <1>2, <2>1
<1> HIDE DEF short
<1>5. DOMAIN short = 1..n
  BY <1>4, LenProperties
<1>6. Written(short) \subseteq Written(line)
  BY <1>1, <1>2, <1>4, <1>5 DEF Written
<1>7. \A i \in Written(line) : i <= n => i \in Written(short)
  BY <1>1, <1>4, <1>5 DEF Written
<1>8. CASE Written(short) = {}
  <2>1. Trim(short) = <<>>
    BY <1>8 DEF Trim, Written
  <2> QED
    BY <1>1, <2>1 DEF BeginsLike, short, n
<1>9. CASE Written(short) # {}
  <2> DEFINE first == Min(Written(line))
             last == Max(Written(line))
             from == Min(Written(short))
             to == Max(Written(short))
  <2>1. /\ first \in Written(line) /\ last \in Written(line)
        /\ \A i \in Written(line) : first <= i /\ i <= last
        /\ Trim(line) \in Seq(Characters) /\ Len(Trim(line)) = last - first + 1
        /\ \A i \in 1..(last - first + 1) : Trim(line)[i] = line[first + i - 1]
    BY <1>6, <1>9, TrimIs
  <2>2. /\ from \in Written(short) /\ to \in Written(short)
        /\ \A i \in Written(short) : from <= i /\ i <= to
        /\ Trim(short) \in Seq(Characters) /\ Len(Trim(short)) = to - from + 1
        /\ \A i \in 1..(to - from + 1) : Trim(short)[i] = short[from + i - 1]
    BY <1>4, <1>9, TrimIs
  <2> HIDE DEF first, last, from, to
  <2>3. first \in 1..Len(line) /\ last \in 1..Len(line) /\ from \in 1..n /\ to \in 1..n
    BY <1>1, <1>5, <2>1, <2>2 DEF Written
  <2>4. first <= from /\ to <= last /\ from <= to
    <3>1. from \in Written(line) /\ to \in Written(line)
      BY <1>6, <2>2
    <3>2. first <= from /\ to <= last
      BY <2>1, <3>1
    <3>3. from <= to
      BY <2>2
    <3> QED
      BY <3>2, <3>3
  <2>5. first <= n
    BY <1>1, <1>2, <2>3, <2>4
  <2>6. first = from
    BY <1>1, <1>2, <1>7, <2>1, <2>2, <2>3, <2>4, <2>5
  <2>7. /\ DOMAIN Trim(short) = 1..(to - from + 1)
        /\ DOMAIN Trim(line) = 1..(last - first + 1)
    BY <2>1, <2>2, LenProperties
  <2>8. last - first + 1 <= Len(command)
    BY <2>1 DEF BeginsLike
  <2>9. \A i \in 1..(last - first + 1) : Lower[Trim(line)[i]] = Lower[command[i]]
    BY <2>7 DEF BeginsLike
  <2>10. \A i \in 1..(to - from + 1) : Trim(short)[i] = Trim(line)[i]
    <3> SUFFICES ASSUME NEW i \in 1..(to - from + 1) PROVE Trim(short)[i] = Trim(line)[i]
      OBVIOUS
    <3>1. Trim(short)[i] = short[from + i - 1]
      BY <2>2
    <3>2. i \in 1..(last - first + 1) /\ from + i - 1 \in 1..n /\ first + i - 1 = from + i - 1
      BY <1>2, <2>3, <2>4, <2>6
    <3>3. Trim(line)[i] = line[first + i - 1]
      BY <2>1, <3>2
    <3>4. short[from + i - 1] = line[from + i - 1]
      BY <1>4, <3>2
    <3> QED
      BY <3>1, <3>2, <3>3, <3>4
  <2>11. \A i \in 1..(to - from + 1) : Lower[Trim(short)[i]] = Lower[command[i]]
    BY <2>3, <2>4, <2>6, <2>9, <2>10
  <2>12. to - from + 1 <= Len(command)
    BY <1>1, <2>3, <2>4, <2>6, <2>8
  <2>13. BeginsLike(Trim(short), command)
    BY <2>2, <2>7, <2>11, <2>12 DEF BeginsLike
  <2> QED
    BY <2>13 DEF short, n
<1> QED
  BY <1>8, <1>9

\* Nothing is cut off a line without blanks around it.
LEMMA AppliedIs ==
  ASSUME NEW line \in Seq(Characters), NEW command \in Commands, Trim(line) = line,
         BeginsLike(Trim(line), command)
  PROVE  LET applied == line \o Suffix(line, command)
         IN  Len(applied) = Len(command) /\ BeginsLike(applied, command)
<1> DEFINE n == Len(line)
           suffix == SubSeq(command, n + 1, Len(command))
           applied == line \o suffix
<1>1. /\ command \in Seq(Characters) /\ Len(command) \in Nat
      /\ n \in Nat /\ DOMAIN line = 1..n
  BY CommandsAssumption, LenProperties
<1>2. n <= Len(command) /\ \A i \in 1..n : Lower[line[i]] = Lower[command[i]]
  BY <1>1 DEF BeginsLike
<1> HIDE DEF n
<1>3. \A i \in (n + 1)..Len(command) : command[i] \in Characters
  BY <1>1, ElementOfSeq
<1>4. /\ suffix \in Seq(Characters)
      /\ Len(suffix) = IF n + 1 <= Len(command) THEN Len(command) - (n + 1) + 1 ELSE 0
      /\ \A i \in 1..(Len(command) - (n + 1) + 1) : suffix[i] = command[n + 1 + i - 1]
  BY <1>1, <1>3, SubSeqProperties
<1>5. Len(suffix) = Len(command) - n
  BY <1>1, <1>2, <1>4
<1> HIDE DEF suffix
<1>6. /\ applied \in Seq(Characters) /\ Len(applied) = Len(line) + Len(suffix)
      /\ \A i \in 1..(Len(line) + Len(suffix)) :
           applied[i] = IF i <= Len(line) THEN line[i] ELSE suffix[i - Len(line)]
  BY <1>4, ConcatProperties
<1> HIDE DEF applied
<1>7. Len(applied) = Len(command)
  BY <1>1, <1>2, <1>5, <1>6 DEF n
<1>8. \A i \in 1..Len(command) : Lower[applied[i]] = Lower[command[i]]
  <2> SUFFICES ASSUME NEW i \in 1..Len(command) PROVE Lower[applied[i]] = Lower[command[i]]
    OBVIOUS
  <2>1. CASE i <= n
    BY <1>1, <1>2, <1>5, <1>6, <2>1 DEF n
  <2>2. CASE ~(i <= n)
    <3>1. i - n \in 1..(Len(command) - (n + 1) + 1) /\ n + 1 + (i - n) - 1 = i
      BY <1>1, <1>2, <2>2
    <3>2. suffix[i - n] = command[i]
      BY <1>4, <3>1
    <3>3. applied[i] = suffix[i - n]
      BY <1>1, <1>2, <1>5, <1>6, <2>2 DEF n
    <3> QED
      BY <3>2, <3>3
  <2> QED
    BY <2>1, <2>2
<1>9. DOMAIN applied = 1..Len(command)
  BY <1>6, <1>7, LenProperties
<1>10. Len(applied) = Len(command) /\ BeginsLike(applied, command)
  BY <1>1, <1>7, <1>8, <1>9 DEF BeginsLike
<1> QED
  BY <1>10 DEF applied, suffix, n, Suffix

LEMMA StaleFits ==
  ASSUME requests' = Stale
  PROVE  \A r \in Requests : FoundFits(requests'[r])
<1> SUFFICES ASSUME NEW r \in Requests PROVE FoundFits(requests'[r])
  OBVIOUS
<1>1. requests'[r] = [requests[r] EXCEPT !.line = NoLine, !.result = {}]
  BY DEF Stale
<1> QED
  BY <1>1 DEF FoundFits, FitsLine

LEMMA ClearedFits ==
  ASSUME NEW v, ViewIs(v)
  PROVE  ShownFits(Cleared(v)) /\ Cleared(v).line = v.line
BY DEF ViewIs, Cleared, ShownFits, FitsLine

LEMMA ShiftFits ==
  ASSUME Fits, NEW v, ViewIs(v), v.line \in Seq(Characters), CanSuggest(v) => ShownFits(v),
         Shift(v), setting' = setting
  PROVE  Fits'
<1>1. view' = Scheduled(v) /\ \A r \in Requests : FoundFits(requests'[r])
  BY StaleFits DEF Shift
<1>2. CASE CanSuggest(v)
  <2>1. view' = [v EXCEPT !.timer = v.line] /\ ShownFits(v)
    BY <1>1, <1>2 DEF Scheduled
  <2>2. view'.line = v.line /\ view'.shown = v.shown /\ view'.hidden = v.hidden
    BY <2>1 DEF ViewIs
  <2> QED
    BY <1>1, <2>1, <2>2 DEF Fits, ShownFits
<1>3. CASE ~CanSuggest(v)
  BY <1>1, <1>3, ClearedFits DEF Fits, Scheduled
<1> QED
  BY <1>2, <1>3

LEMMA KeyFits ==
  ASSUME IInv, Fits, Key \/ Output
  PROVE  Fits'
<1>1. ViewIs(view) /\ view.shown \subseteq Commands
  BY DEF IInv, Around, ViewIs
<1>2. /\ setting \in Settings /\ view.line \in Seq(Characters) /\ ShownFits(view)
      /\ \A r \in Requests : FoundFits(requests[r])
  BY DEF Fits
<1>3. setting' = setting
  BY DEF Key, Output, TypeChars, Backspace, EchoArrives, NewLine, Apply, Dismiss, Record,
         DeleteSuggestion, OnlyView, NoChange
<1>4. CASE TypeChars
  <2>1. PICK line \in setting.lines :
          Shift([view EXCEPT !.line = line, !.echo = IF @ = "lost" THEN @ ELSE "some"])
    BY <1>4 DEF TypeChars
  <2> DEFINE v == [view EXCEPT !.line = line, !.echo = IF @ = "lost" THEN @ ELSE "some"]
  <2>2. ViewIs(v) /\ v.line = line /\ v.echo # "all"
    BY <1>1 DEF ViewIs
  <2>3. line \in Seq(Characters)
    BY <1>2, SettingsAssumption
  <2>4. Shift(v)
    BY <2>1
  <2> HIDE DEF v
  <2>5. ~CanSuggest(v)
    BY <2>2 DEF CanSuggest
  <2> QED
    BY <1>3, <2>2, <2>3, <2>4, <2>5, ShiftFits
<1>5. CASE Backspace
  <2>1. PICK echo : Shift([view EXCEPT !.line = SubSeq(@, 1, Len(@) - 1), !.echo = echo])
    BY <1>5 DEF Backspace
  <2>2. view.line # <<>>
    BY <1>5 DEF Backspace
  <2> DEFINE short == SubSeq(view.line, 1, Len(view.line) - 1)
             v == [view EXCEPT !.line = short, !.echo = echo]
  <2>3. ViewIs(v) /\ v.line = short /\ v.shown = view.shown /\ v.hidden = view.hidden
    BY <1>1 DEF ViewIs
  <2>4. short \in Seq(Characters)
    <3>1. Len(view.line) \in Nat
      BY <1>2, LenProperties
    <3>2. \A i \in 1..(Len(view.line) - 1) : view.line[i] \in Characters
      BY <1>2, <3>1, ElementOfSeq
    <3> QED
      BY <3>1, <3>2, SubSeqProperties
  <2>5. \A command \in view.shown : BeginsLike(Trim(short), command)
    BY <1>1, <1>2, <2>2, ShorterFits DEF ShownFits, FitsLine
  <2>6. Shift(v)
    BY <2>1
  <2> HIDE DEF v, short
  <2>7. ShownFits(v)
    BY <1>2, <2>3, <2>5 DEF ShownFits, FitsLine
  <2> QED
    BY <1>3, <2>3, <2>4, <2>6, <2>7, ShiftFits
<1>6. CASE EchoArrives
  <2>1. PICK echo : Shift([view EXCEPT !.echo = echo])
    BY <1>6 DEF EchoArrives
  <2> DEFINE v == [view EXCEPT !.echo = echo]
  <2>2. ViewIs(v) /\ v.line = view.line /\ v.shown = view.shown /\ v.hidden = view.hidden
    BY <1>1 DEF ViewIs
  <2> HIDE DEF v
  <2> QED
    BY <1>2, <1>3, <2>1, <2>2, ShiftFits DEF ShownFits, v
<1>7. CASE NewLine
  <2>1. PICK submitted \in Commands \cup {NoLine} :
          Shift([view EXCEPT !.line = <<>>, !.echo = "all", !.submitted = submitted])
    BY <1>7 DEF NewLine
  <2> DEFINE v == [view EXCEPT !.line = <<>>, !.echo = "all", !.submitted = submitted]
  <2>2. ViewIs(v) /\ v.line = <<>> /\ v.shown = view.shown /\ v.hidden = view.hidden
    BY <1>1 DEF ViewIs
  <2>3. FitsLine(<<>>, view.shown) /\ <<>> \in Seq(Characters)
    BY <1>1, EmptyFits, EmptySeq DEF FitsLine
  <2> HIDE DEF v
  <2> QED
    BY <1>2, <1>3, <2>1, <2>2, <2>3, ShiftFits DEF ShownFits, v
<1>8. CASE Record
  <2>1. Shift([view EXCEPT !.submitted = NoLine])
    BY <1>8 DEF Record
  <2> DEFINE v == [view EXCEPT !.submitted = NoLine]
  <2>2. ViewIs(v) /\ v.line = view.line /\ v.shown = view.shown /\ v.hidden = view.hidden
    BY <1>1 DEF ViewIs
  <2> HIDE DEF v
  <2> QED
    BY <1>2, <1>3, <2>1, <2>2, ShiftFits DEF ShownFits, v
<1>9. CASE Apply
  <2>1. PICK command \in view.shown :
          LET suffix == Suffix(view.line, command)
          IN  /\ view' = Cleared([view EXCEPT !.line = @ \o suffix,
                                    !.echo = IF suffix = <<>> THEN @ ELSE "some"])
              /\ requests' = Stale
    BY <1>9 DEF Apply
  <2> DEFINE suffix == Suffix(view.line, command)
             v == [view EXCEPT !.line = @ \o suffix, !.echo = IF suffix = <<>> THEN @ ELSE "some"]
  <2>2. command \in Seq(Characters) /\ Len(command) \in Nat /\ Len(view.line) \in Nat
    BY <1>1, <1>2, CommandsAssumption, LenProperties
  <2>3. \A i \in (Len(view.line) + 1)..Len(command) : command[i] \in Characters
    BY <2>2, ElementOfSeq
  <2>4. suffix \in Seq(Characters)
    BY <2>2, <2>3, SubSeqProperties DEF Suffix
  <2> HIDE DEF suffix
  <2>5. view.line \o suffix \in Seq(Characters)
    BY <1>2, <2>4, ConcatProperties
  <2>6. ViewIs(v) /\ v.line = view.line \o suffix
    BY <1>1 DEF ViewIs
  <2>7. view' = Cleared(v) /\ requests' = Stale
    BY <2>1 DEF suffix
  <2> HIDE DEF v
  <2> QED
    BY <1>2, <1>3, <2>5, <2>6, <2>7, ClearedFits, StaleFits DEF Fits
<1>10. CASE Dismiss
  BY <1>1, <1>2, <1>3, <1>10, ClearedFits, StaleFits DEF Dismiss, Fits
<1>11. CASE DeleteSuggestion
  <2>1. PICK command : view' = [view EXCEPT !.timer = NoLine, !.shown = @ \ {command},
                                            !.hidden = @ \cup {command}]
    BY <1>11 DEF DeleteSuggestion
  <2>2. /\ view'.line = view.line /\ view'.shown = view.shown \ {command}
        /\ view'.hidden = view.hidden \cup {command}
    BY <1>1, <2>1 DEF ViewIs
  <2>3. requests' = Stale
    BY <1>11 DEF DeleteSuggestion
  <2>4. ShownFits(view')
    BY <1>2, <2>2 DEF ShownFits, FitsLine
  <2> QED
    BY <1>2, <1>3, <2>2, <2>3, <2>4, StaleFits DEF Fits
<1> QED
  BY <1>4, <1>5, <1>6, <1>7, <1>8, <1>9, <1>10, <1>11 DEF Key, Output

LEMMA RestFits ==
  ASSUME IInv, Fits, [Next]_vars, ~(Key \/ Output)
  PROVE  Fits'
<1>1. ViewIs(view) /\ RequestsOK
  BY DEF IInv, Around
<1>2. /\ setting \in Settings /\ view.line \in Seq(Characters) /\ ShownFits(view)
      /\ \A r \in Requests : FoundFits(requests[r])
  BY DEF Fits
<1>3. CASE UNCHANGED <<setting, view, requests>>
  BY <1>2, <1>3 DEF Fits
<1>4. CASE SettingsPage \/ Call \/ CallFails \/ CallDiffers \/ UpdateIndex \/ Outside
           \/ UNCHANGED vars
  <2>1. UNCHANGED <<setting, view, requests>>
    BY <1>4 DEF SettingsPage, PanelLoad, PanelDeleteRows, PanelDeleteCommand, Refresh, Panel,
                NoChange, Call, CallFails, CallDiffers, UpdateIndex, Rest, Outside, vars
  <2> QED
    BY <1>3, <2>1
<1>5. CASE TaskEnds
  <2>1. /\ setting' = setting /\ view'.line = view.line /\ view'.shown = view.shown
        /\ view'.hidden \subseteq view.hidden
    BY <1>1, <1>5 DEF TaskEnds, ViewIs
  <2>2. ASSUME NEW r \in Requests PROVE FoundFits(requests'[r])
    <3>1. \/ requests'[r].line = requests[r].line /\ requests'[r].result = requests[r].result
          \/ /\ requests'[r].line = requests[r].line
             /\ requests'[r].result = Suggest(index, requests[r].line)
      BY <1>1, <1>5 DEF TaskEnds, RequestsOK, RequestIs
    <3> QED
      BY <1>2, <3>1, SuggestFits DEF FoundFits
  <2>3. ShownFits(view')
    BY <1>2, <2>1 DEF ShownFits
  <2> QED
    BY <1>2, <2>1, <2>2, <2>3 DEF Fits
<1>6. CASE Worker
  <2>1. setting' = setting /\ view' = view
    BY <1>6 DEF Worker, WorkerTakes, WorkerFails
  <2>2. ASSUME NEW r \in Requests PROVE FoundFits(requests'[r])
    <3>1. \/ requests'[r] = requests[r]
          \/ \E ids : /\ requests'[r].line = requests[r].line
                      /\ requests'[r].result = Suggest(ids, requests[r].line)
      <4>1. CASE WorkerTakes
        <5>1. \/ requests' = requests
              \/ \E q : requests' = [requests EXCEPT ![q].phase = "answer",
                                       ![q].result = Suggest(worker.ids, requests[q].line)]
          BY <4>1 DEF WorkerTakes
        <5>2. CASE requests' = requests
          BY <5>2
        <5>3. CASE requests' # requests
          <6>1. PICK q : requests' = [requests EXCEPT ![q].phase = "answer",
                                        ![q].result = Suggest(worker.ids, requests[q].line)]
            BY <5>1, <5>3
          <6>2. CASE r = q
            <7>1. /\ requests'[r].line = requests[r].line
                  /\ requests'[r].result = Suggest(worker.ids, requests[r].line)
              BY <1>1, <6>1, <6>2 DEF RequestsOK, RequestIs
            <7> QED
              BY <7>1
          <6>3. CASE r # q
            BY <1>1, <6>1, <6>3 DEF RequestsOK
          <6> QED
            BY <6>2, <6>3
        <5> QED
          BY <5>2, <5>3
      <4>2. CASE WorkerFails
        BY <1>1, <4>2 DEF WorkerFails, RequestsOK, RequestIs
      <4> QED
        BY <1>6, <4>1, <4>2 DEF Worker
    <3> QED
      BY <1>2, <3>1, SuggestFits DEF FoundFits
  <2> QED
    BY <1>2, <2>1, <2>2 DEF Fits
<1>7. CASE TimerFires
  <2>1. /\ setting' = setting /\ view'.line = view.line /\ view'.shown = view.shown
        /\ view'.hidden = view.hidden
    BY <1>1, <1>7 DEF TimerFires, OnlyRequests, ViewIs
  <2>2. PICK q \in Requests : requests' = [requests EXCEPT ![q] =
            [phase |-> IF enabled THEN "wait" ELSE "answer", line |-> view.timer,
             ahead |-> Len(queue), result |-> {}]]
    BY <1>7 DEF TimerFires
  <2>3. ASSUME NEW r \in Requests PROVE FoundFits(requests'[r])
    <3>1. requests'[r] = requests[r] \/ requests'[r].result = {}
      BY <1>1, <2>2 DEF RequestsOK
    <3> QED
      BY <1>2, <3>1 DEF FoundFits, FitsLine
  <2> QED
    BY <1>2, <2>1, <2>3 DEF Fits, ShownFits
<1>8. CASE \E q \in Requests : Request(q)
  <2>1. PICK q \in Requests : Request(q)
    BY <1>8
  <2>2. CASE Proceed(q) \/ Ask(q)
    <3>1. setting' = setting /\ view' = view
      BY <2>2 DEF Proceed, Ask, OnlyRequests
    <3>2. \/ \E ahead : requests' = [requests EXCEPT ![q].phase = "ready", ![q].ahead = ahead]
          \/ \E phase : requests' = [requests EXCEPT ![q].phase = phase]
          \/ requests' = [requests EXCEPT ![q].phase = "answer",
                            ![q].result = Suggest(index, requests[q].line)]
      BY <2>2 DEF Proceed, Ask
    <3>3. ASSUME NEW r \in Requests PROVE FoundFits(requests'[r])
      <4>1. /\ requests'[r].line = requests[r].line
            /\ \/ requests'[r].result = requests[r].result
               \/ requests'[r].result = Suggest(index, requests[r].line)
        <5>1. CASE \E ahead :
                     requests' = [requests EXCEPT ![q].phase = "ready", ![q].ahead = ahead]
          <6>1. PICK ahead :
                  requests' = [requests EXCEPT ![q].phase = "ready", ![q].ahead = ahead]
            BY <5>1
          <6> QED
            BY <1>1, <6>1 DEF RequestsOK, RequestIs
        <5>2. CASE \E phase : requests' = [requests EXCEPT ![q].phase = phase]
          <6>1. PICK phase : requests' = [requests EXCEPT ![q].phase = phase]
            BY <5>2
          <6> QED
            BY <1>1, <6>1 DEF RequestsOK, RequestIs
        <5>3. CASE requests' = [requests EXCEPT ![q].phase = "answer",
                                  ![q].result = Suggest(index, requests[q].line)]
          <6>1. CASE r = q
            BY <1>1, <5>3, <6>1 DEF RequestsOK, RequestIs
          <6>2. CASE r # q
            BY <1>1, <5>3, <6>2 DEF RequestsOK
          <6> QED
            BY <6>1, <6>2
        <5> QED
          BY <3>2, <5>1, <5>2, <5>3
      <4> QED
        BY <1>2, <4>1, SuggestFits DEF FoundFits
    <3> QED
      BY <1>2, <3>1, <3>3 DEF Fits
  <2>3. CASE Answered(q)
    <3>1. /\ setting' = setting
          /\ view' = IF requests[q].line = view.line
                       THEN [view EXCEPT !.shown = requests[q].result \ view.hidden] ELSE view
          /\ requests' = [requests EXCEPT ![q].phase = "free", ![q].result = {}, ![q].line = NoLine]
      BY <2>3 DEF Answered, OnlyRequests
    <3>2. /\ view'.line = view.line /\ view'.hidden = view.hidden
          /\ \/ view'.shown = view.shown
             \/ requests[q].line = view.line /\ view'.shown = requests[q].result \ view.hidden
      BY <1>1, <3>1 DEF ViewIs
    <3>3. ShownFits(view')
      BY <1>2, <3>2 DEF ShownFits, FoundFits, FitsLine
    <3>4. ASSUME NEW r \in Requests PROVE FoundFits(requests'[r])
      <4>1. requests'[r] = requests[r] \/ requests'[r].result = {}
        BY <1>1, <3>1 DEF RequestsOK, RequestIs
      <4> QED
        BY <1>2, <4>1 DEF FoundFits, FitsLine
    <3> QED
      BY <1>2, <3>1, <3>2, <3>3, <3>4 DEF Fits
  <2> QED
    BY <2>1, <2>2, <2>3 DEF Request
<1> QED
  BY <1>4, <1>5, <1>6, <1>7, <1>8 DEF Next, Queue

LEMMA InitFits == Init => Fits
<1> SUFFICES ASSUME Init PROVE Fits
  OBVIOUS
<1>1. <<>> \in Seq(Characters)
  BY EmptySeq
<1> QED
  BY <1>1 DEF Init, Fits, ShownFits, FoundFits, FitsLine

\* Whatever is suggested begins like the line as it is now, and nothing deleted here comes back
\* with an answer that was under way: for any commands and any keys, however requests overtake
\* each other (scheduleSuggestions, deleteSuggestion).  Where no blanks surround the line,
\* applying a suggestion makes it that command, but for the case of letters (applySuggestion).
THEOREM SuggestionsFit == Spec => []ShownCompletesLine
<1>1. Init => IInv /\ Fits
  BY InitIInv, InitFits
<1>2. IInv /\ Fits /\ [Next]_vars => (IInv /\ Fits)'
  BY NextIInv, KeyFits, RestFits
<1>3. IInv /\ Fits => ShownCompletesLine
  <2> SUFFICES ASSUME IInv, Fits, NEW command \in view.shown
               PROVE  /\ command \notin view.hidden
                      /\ BeginsLike(Trim(view.line), command)
                      /\ Trim(view.line) = view.line =>
                           LET applied == view.line \o Suffix(view.line, command)
                           IN  Len(applied) = Len(command) /\ BeginsLike(applied, command)
    BY DEF ShownCompletesLine
  <2>1. command \in Commands /\ view.line \in Seq(Characters)
    BY DEF IInv, Around, ViewIs, Fits
  <2>2. command \notin view.hidden /\ BeginsLike(Trim(view.line), command)
    BY DEF Fits, ShownFits, FitsLine
  <2> QED
    BY <2>1, <2>2, AppliedIs
<1> QED
  BY <1>1, <1>2, <1>3, PTL DEF Spec
===============================================================================
