----------------------------- MODULE SyncProofs -----------------------------
(***************************************************************************)
(* Proofs about the synchronization of a desktop: SyncScheduler, for any   *)
(* number of threads and any window, and SyncReplica with VersionVector,   *)
(* for any number of devices, runs, records, operations and faults.        *)
(***************************************************************************)
EXTENDS SyncScheduler, SyncReplica, FiniteSetTheorems, SequenceTheorems, WellFoundedInduction, TLAPS

-------------------------------------------------------------------------------
(***************************************************************************)
(* The scheduler.                                                          *)
(*                                                                         *)
(* RequestCovered is not inductive: when a run is refused because another  *)
(* one is in progress, the thread that was coming is gone, and the request *)
(* is safe only because it was noted.  NotedWhileRunning says so: a        *)
(* request that is newer than the run in progress has set syncPending.     *)
(***************************************************************************)
NotedWhileRunning == running /\ requested => pending

SchedulerInv ==
  /\ SchedulerTypeOK
  /\ SingleFlight
  /\ NotedWhileRunning
  /\ RequestCovered
  /\ DeadlineKept

-------------------------------------------------------------------------------
\* Replacing a timer only ever turns an armed thread into an idle one.
LEMMA StoppedThreads ==
  ASSUME NEW threads \in [Threads -> Points]
  PROVE  /\ Stopped(threads) \in [Threads -> Points]
         /\ \A t \in Threads :
              \/ Stopped(threads)[t] = threads[t]
              \/ threads[t] = "armed" /\ Stopped(threads)[t] = "idle"
BY DEF Stopped, Points

\* What a call of triggerSyncSoon preserves, whoever makes it: "threads" is pc,
\* or pc without a caller that is not inside a run.
LEMMA TriggerKeeps ==
  ASSUME SchedulerTypeOK, SingleFlight, NotedWhileRunning, DeadlineKept,
         NEW threads \in [Threads -> Points],
         \A t \in Threads : threads[t] = pc[t] \/ (~Syncing(t) /\ threads[t] = "idle"),
         TriggerSyncSoon(threads)
  PROVE  /\ pc' \in [Threads -> Points]
         /\ pending' \in BOOLEAN
         /\ age' \in 0..Window
         /\ timer' \in Threads \cup {NoTimer}
         /\ left' \in [Threads -> 0..Window]
         /\ SingleFlight'
         /\ running' => pending'
         /\ open' => (running' /\ pending') \/ \E t \in Threads : Coming(t)'
         /\ DeadlineKept'
<1> USE WindowAssumption
<1>1. CASE NotePending(threads)
  <2>1. \A t \in Threads : Syncing(t)' <=> Syncing(t)
    BY <1>1 DEF NotePending, Syncing
  <2>2. SingleFlight'
    BY <1>1, <2>1 DEF NotePending, SingleFlight, TriggerSyncSoon
  <2>3. DeadlineKept'
    BY <1>1 DEF NotePending, DeadlineKept, Points
  <2>. QED
    BY <1>1, <2>2, <2>3
    DEF NotePending, Suspended, TriggerSyncSoon, SchedulerTypeOK
<1>2. CASE ArmTimer(threads)
  <2>1. PICK t \in Threads :
          /\ Stopped(threads)[t] = "idle"
          /\ pc' = [Stopped(threads) EXCEPT ![t] = "armed"]
          /\ left' = [left EXCEPT ![t] = Delay]
          /\ timer' = t
    BY <1>2 DEF ArmTimer
  <2>2. Delay \in 0..Window /\ Delay + age = Window
    BY DEF Delay, SchedulerTypeOK
  <2>3. pc' \in [Threads -> Points] /\ left' \in [Threads -> 0..Window]
    BY <2>1, <2>2, StoppedThreads DEF Points, SchedulerTypeOK
  <2>4. \A s \in Threads : Syncing(s)' <=> Syncing(s)
    BY <2>1, StoppedThreads DEF Syncing, SchedulerTypeOK
  <2>5. SingleFlight'
    BY <2>4 DEF SingleFlight, TriggerSyncSoon
  <2>6. Coming(t)'
    BY <2>1, StoppedThreads DEF Coming
  <2>7. DeadlineKept'
    <3>. SUFFICES ASSUME NEW s \in Threads, pc'[s] = "armed"
                  PROVE  left'[s] + age' <= Window
      BY DEF DeadlineKept
    <3>1. CASE s = t
      BY <1>2, <2>1, <2>2, <3>1 DEF ArmTimer, SchedulerTypeOK
    <3>2. CASE s # t
      <4>1. pc[s] = "armed"
        BY <2>1, <3>2, StoppedThreads
      <4>2. left'[s] = left[s] /\ age' = age
        BY <1>2, <2>1, <3>2 DEF ArmTimer, SchedulerTypeOK
      <4>. QED  BY <4>1, <4>2 DEF DeadlineKept
    <3>. QED  BY <3>1, <3>2
  <2>. QED
    BY <1>2, <2>1, <2>3, <2>5, <2>6, <2>7
    DEF ArmTimer, Suspended, TriggerSyncSoon, SchedulerTypeOK
<1>3. CASE StartNow(threads)
  <2>1. PICK t \in Threads :
          /\ threads[t] = "idle"
          /\ pc' = [threads EXCEPT ![t] = "entry"]
    BY <1>3 DEF StartNow
  <2>2. pc' \in [Threads -> Points]
    BY <2>1 DEF Points
  <2>3. \A s \in Threads : Syncing(s)' <=> Syncing(s)
    BY <2>1 DEF Syncing
  <2>4. SingleFlight'
    BY <2>3 DEF SingleFlight, TriggerSyncSoon
  <2>5. Coming(t)'
    BY <2>1 DEF Coming
  <2>6. DeadlineKept'
    BY <1>3, <2>1 DEF StartNow, DeadlineKept, SchedulerTypeOK
  <2>. QED
    BY <1>3, <2>2, <2>4, <2>5, <2>6
    DEF StartNow, Suspended, TriggerSyncSoon, SchedulerTypeOK
<1>. QED  BY <1>1, <1>2, <1>3 DEF TriggerSyncSoon

-------------------------------------------------------------------------------
LEMMA SchedulerInvInitially == SchedulerInit => SchedulerInv
<1> SUFFICES ASSUME SchedulerInit
             PROVE  SchedulerInv
  OBVIOUS
<1>1. SchedulerTypeOK
  <2>1. age \in 0..Window /\ left \in [Threads -> 0..Window]
    BY WindowAssumption DEF SchedulerInit
  <2>2. pc \in [Threads -> Points] /\ loop \in LoopPoints
    BY DEF SchedulerInit, Points, LoopPoints
  <2>. QED
    BY <2>1, <2>2, Zenon DEF SchedulerInit, SchedulerTypeOK
<1>2. SingleFlight
  BY DEF SchedulerInit, SingleFlight, Syncing
<1>3. NotedWhileRunning /\ RequestCovered
  BY DEF SchedulerInit, NotedWhileRunning, RequestCovered
<1>4. DeadlineKept
  BY DEF SchedulerInit, DeadlineKept
<1>. QED  BY <1>1, <1>2, <1>3, <1>4 DEF SchedulerInv

LEMMA SchedulerInvStep == SchedulerInv /\ [SchedulerNext]_schedulerVars => SchedulerInv'
<1> SUFFICES ASSUME SchedulerInv, [SchedulerNext]_schedulerVars
             PROVE  SchedulerInv'
  OBVIOUS
<1> USE WindowAssumption DEF SchedulerInv
<1>1. CASE Trigger
  <2>1. \A t \in Threads : pc[t] = pc[t] \/ (~Syncing(t) /\ pc[t] = "idle")
    OBVIOUS
  <2>2. TriggerSyncSoon(pc) /\ pc \in [Threads -> Points]
    BY <1>1 DEF Trigger, SchedulerTypeOK
  <2>. QED
    BY <1>1, <2>1, <2>2, TriggerKeeps
    DEF Trigger, TriggerSyncSoon, SchedulerTypeOK, NotedWhileRunning, RequestCovered
<1>2. CASE LoopTick
  <2>1. \A t \in Threads : pc[t] = pc[t] \/ (~Syncing(t) /\ pc[t] = "idle")
    OBVIOUS
  <2>2. TriggerSyncSoon(pc) /\ pc \in [Threads -> Points]
    BY <1>2 DEF LoopTick, SchedulerTypeOK
  <2>. QED
    BY <1>2, <2>1, <2>2, TriggerKeeps
    DEF LoopTick, TriggerSyncSoon, SchedulerTypeOK, NotedWhileRunning, RequestCovered, LoopPoints
<1>3. ASSUME NEW t \in Threads, ThreadStep(t)
      PROVE  SchedulerInv'
  <2>1. CASE Fire(t)
    BY <2>1
    DEF Fire, SchedulerTypeOK, SingleFlight, NotedWhileRunning, RequestCovered, DeadlineKept,
        Syncing, Coming, Points
  <2>2. CASE Callback(t)
    BY <2>2
    DEF Callback, SchedulerTypeOK, SingleFlight, NotedWhileRunning, RequestCovered, DeadlineKept,
        Syncing, Coming, Points
  <2>3. CASE RunBegin(t)
    <3>1. SingleFlight'
      BY <2>3 DEF RunBegin, MayRun, SingleFlight, Syncing, SchedulerTypeOK
    <3>2. SchedulerTypeOK'
      <4>1. age' \in 0..Window /\ pc' \in [Threads -> Points]
        BY <2>3 DEF RunBegin, SchedulerTypeOK, Points
      <4>. QED
        BY <2>3, <4>1, Zenon DEF RunBegin, SchedulerTypeOK
    <3>3. NotedWhileRunning' /\ RequestCovered'
      BY <2>3 DEF RunBegin, NotedWhileRunning, RequestCovered
    <3>4. DeadlineKept'
      <4> SUFFICES ASSUME NEW s \in Threads, pc'[s] = "armed"
                   PROVE  left'[s] + age' <= Window
        BY DEF DeadlineKept
      <4>. QED  BY <2>3 DEF RunBegin, SchedulerTypeOK
    <3>. QED  BY <3>1, <3>2, <3>3, <3>4
  <2>4. CASE RunRefused(t)
    <3>1. SingleFlight' /\ DeadlineKept' /\ SchedulerTypeOK'
      BY <2>4 DEF RunRefused, SingleFlight, DeadlineKept, Syncing, SchedulerTypeOK, Points
    <3>2. requested /\ open => running /\ pending
      BY <2>4 DEF RunRefused, MayRun, NotedWhileRunning, SchedulerTypeOK
    <3>. QED
      BY <2>4, <3>1, <3>2 DEF RunRefused, NotedWhileRunning, RequestCovered
  <2>5. CASE RunEnd(t)
    <3>1. SingleFlight'
      BY <2>5 DEF RunEnd, SingleFlight, Syncing, SchedulerTypeOK
    <3>2. running
      BY <2>5 DEF RunEnd, SingleFlight, Syncing
    <3>3. RequestCovered'
      BY <2>5, <3>2 DEF RunEnd, RequestCovered, NotedWhileRunning, Coming, SchedulerTypeOK
    <3>. QED
      BY <2>5, <3>1, <3>3 DEF RunEnd, SchedulerTypeOK, NotedWhileRunning, DeadlineKept, Points
  <2>6. CASE Retrigger(t)
    <3> DEFINE ended == [pc EXCEPT ![t] = "idle"]
    <3>1. ended \in [Threads -> Points]
      BY DEF SchedulerTypeOK, Points
    <3>2. \A s \in Threads : ended[s] = pc[s] \/ (~Syncing(s) /\ ended[s] = "idle")
      BY <2>6 DEF Retrigger, Syncing, SchedulerTypeOK
    <3>3. TriggerSyncSoon(ended)
      BY <2>6 DEF Retrigger
    <3> HIDE DEF ended
    <3>. QED
      BY <2>6, <3>1, <3>2, <3>3, TriggerKeeps
      DEF Retrigger, TriggerSyncSoon, SchedulerTypeOK, NotedWhileRunning, RequestCovered
  <2>. QED
    BY <1>3, <2>1, <2>2, <2>3, <2>4, <2>5, <2>6 DEF ThreadStep
<1>4. CASE LoopSelect \/ LoopReturn
  BY <1>4
  DEF LoopSelect, LoopReturn, SchedulerTypeOK, SingleFlight, NotedWhileRunning, RequestCovered,
      DeadlineKept, Syncing, Coming, LoopPoints
<1>5. CASE Close
  <2>1. \A t \in Threads : Syncing(t)' <=> Syncing(t)
    BY <1>5, StoppedThreads DEF Close, Syncing, SchedulerTypeOK
  <2>2. SingleFlight'
    BY <1>5, <2>1 DEF Close, SingleFlight
  <2>3. DeadlineKept'
    BY <1>5, StoppedThreads DEF Close, DeadlineKept, SchedulerTypeOK
  <2>. QED
    BY <1>5, <2>2, <2>3, StoppedThreads
    DEF Close, SchedulerTypeOK, NotedWhileRunning, RequestCovered
<1>6. CASE Tick
  <2>1. age' \in 0..Window /\ age' <= age + 1 /\ left' \in [Threads -> 0..Window]
    BY <1>6 DEF Tick, SchedulerTypeOK
  <2>2. DeadlineKept'
    BY <1>6, <2>1 DEF Tick, SchedulerTypeOK, DeadlineKept
  <2>3. SingleFlight' /\ NotedWhileRunning' /\ RequestCovered'
    BY <1>6
    DEF Tick, SingleFlight, NotedWhileRunning, RequestCovered, Syncing, Coming
  <2>. QED
    BY <1>6, <2>1, <2>2, <2>3 DEF Tick, SchedulerTypeOK
<1>7. CASE UNCHANGED schedulerVars
  BY <1>7
  DEF schedulerVars, SchedulerTypeOK, SingleFlight, NotedWhileRunning, RequestCovered, DeadlineKept,
      Syncing, Coming
<1>. QED
  BY <1>1, <1>2, <1>3, <1>4, <1>5, <1>6, <1>7 DEF SchedulerNext

\* The inductive invariant holds in every state of every behaviour.
THEOREM InductiveScheduler == SchedulerSpec => []SchedulerInv
BY SchedulerInvInitially, SchedulerInvStep, PTL DEF SchedulerSpec, SchedulerSafety

\* Type correctness of the five fields under syncMu and of the threads.
THEOREM TypeCorrect == SchedulerSpec => []SchedulerTypeOK
<1>1. SchedulerInv => SchedulerTypeOK
  BY DEF SchedulerInv
<1>. QED  BY <1>1, InductiveScheduler, PTL

\* At most one automatic run is in progress, and syncRunning tells.
THEOREM OneRunAtATime == SchedulerSpec => []SingleFlight
<1>1. SchedulerInv => SingleFlight
  BY DEF SchedulerInv
<1>. QED  BY <1>1, InductiveScheduler, PTL

\* No trigger is forgotten, whatever the interleaving of goroutines, stale
\* callbacks and replaced timers.
THEOREM NoRequestLost == SchedulerSpec => []RequestCovered
<1>1. SchedulerInv => RequestCovered
  BY DEF SchedulerInv
<1>. QED  BY <1>1, InductiveScheduler, PTL

\* Repeated triggers never push an armed timer beyond the window.
THEOREM NoPostponement == SchedulerSpec => []DeadlineKept
<1>1. SchedulerInv => DeadlineKept
  BY DEF SchedulerInv
<1>. QED  BY <1>1, InductiveScheduler, PTL

-------------------------------------------------------------------------------
(***************************************************************************)
(* The safety part of the refinement: every step of the scheduler is a     *)
(* step of CoalescedSync or leaves its three variables alone.              *)
(***************************************************************************)

\* A call of triggerSyncSoon starts and ends no run.
LEMMA TriggerIsNoRun ==
  ASSUME SchedulerTypeOK,
         NEW threads \in [Threads -> Points],
         \A t \in Threads : threads[t] = pc[t] \/ (~Syncing(t) /\ threads[t] = "idle"),
         TriggerSyncSoon(threads)
  PROVE  (\E t \in Threads : Syncing(t))' <=> \E t \in Threads : Syncing(t)
<1>1. CASE NotePending(threads)
  BY <1>1 DEF NotePending, Syncing
<1>2. CASE ArmTimer(threads)
  BY <1>2, StoppedThreads DEF ArmTimer, Syncing
<1>3. CASE StartNow(threads)
  BY <1>3 DEF StartNow, Syncing
<1>. QED  BY <1>1, <1>2, <1>3 DEF TriggerSyncSoon

LEMMA StepRefines ==
  ASSUME SchedulerInv, [SchedulerNext]_schedulerVars
  PROVE  [Promise!AbsNext]_(Promise!absVars)
<1> DEFINE someRun == \E t \in Threads : Syncing(t)
<1> USE DEF SchedulerInv, Promise!AbsNext, Promise!absVars
<1>1. CASE Trigger \/ LoopTick
  <2>1. TriggerSyncSoon(pc) /\ requested' = TRUE /\ open' = open
    BY <1>1 DEF Trigger, LoopTick, TriggerSyncSoon
  <2>2. someRun' <=> someRun
    BY <2>1, TriggerIsNoRun DEF SchedulerTypeOK
  <2>. QED  BY <2>1, <2>2 DEF Promise!Request
<1>2. ASSUME NEW t \in Threads, ThreadStep(t)
      PROVE  [Promise!AbsNext]_(Promise!absVars)
  <2>1. CASE Fire(t) \/ Callback(t) \/ RunRefused(t)
    <3>1. someRun' <=> someRun
      BY <2>1 DEF Fire, Callback, RunRefused, Syncing, SchedulerTypeOK
    <3>. QED  BY <2>1, <3>1 DEF Fire, Callback, RunRefused
  <2>2. CASE RunBegin(t)
    <3>1. ~someRun /\ someRun'
      BY <2>2 DEF RunBegin, MayRun, SingleFlight, Syncing, SchedulerTypeOK
    <3>. QED  BY <2>2, <3>1 DEF RunBegin, MayRun, Promise!Start
  <2>3. CASE RunEnd(t)
    <3>1. someRun /\ ~someRun'
      BY <2>3 DEF RunEnd, SingleFlight, Syncing, SchedulerTypeOK
    <3>. QED  BY <2>3, <3>1 DEF RunEnd, Promise!Finish
  <2>4. CASE Retrigger(t)
    <3> DEFINE ended == [pc EXCEPT ![t] = "idle"]
    <3>1. ended \in [Threads -> Points]
      BY DEF SchedulerTypeOK, Points
    <3>2. \A s \in Threads : ended[s] = pc[s] \/ (~Syncing(s) /\ ended[s] = "idle")
      BY <2>4 DEF Retrigger, Syncing, SchedulerTypeOK
    <3>3. TriggerSyncSoon(ended)
      BY <2>4 DEF Retrigger
    <3> HIDE DEF ended
    <3>4. someRun' <=> someRun
      BY <3>1, <3>2, <3>3, TriggerIsNoRun
    <3>. QED  BY <2>4, <3>3, <3>4 DEF Retrigger, TriggerSyncSoon
  <2>. QED  BY <1>2, <2>1, <2>2, <2>3, <2>4 DEF ThreadStep
<1>3. CASE LoopSelect \/ LoopReturn \/ Tick
  <2>1. someRun' <=> someRun
    BY <1>3 DEF LoopSelect, LoopReturn, Tick, Syncing
  <2>. QED  BY <1>3, <2>1 DEF LoopSelect, LoopReturn, Tick
<1>4. CASE Close
  <2>1. someRun' <=> someRun
    BY <1>4, StoppedThreads DEF Close, Syncing, SchedulerTypeOK
  <2>. QED  BY <1>4, <2>1 DEF Close, Promise!Shut
<1>5. CASE UNCHANGED schedulerVars
  BY <1>5 DEF schedulerVars, Syncing
<1>. QED  BY <1>1, <1>2, <1>3, <1>4, <1>5 DEF SchedulerNext

\* The scheduler implements the safety part of its promise: one run at a time,
\* a run that starts takes every request with it, none starts after Close.
THEOREM KeepsPromise == SchedulerSpec => Promise!AbsSafety
<1>1. SchedulerInit => Promise!AbsInit
  BY DEF SchedulerInit, Promise!AbsInit, Syncing
<1>2. SchedulerInv /\ [SchedulerNext]_schedulerVars => [Promise!AbsNext]_(Promise!absVars)
  BY StepRefines
<1>. QED
  BY <1>1, <1>2, InductiveScheduler, PTL DEF SchedulerSpec, SchedulerSafety, Promise!AbsSafety

-------------------------------------------------------------------------------
(***************************************************************************)
(* Version vectors.                                                        *)
(***************************************************************************)
LEMMA Counters ==
  ASSUME NEW v \in Vectors
  PROVE  /\ DOMAIN v \subseteq Devices
         /\ \A d \in DOMAIN v : v[d] \in Nat
         /\ \A d : At(v, d) \in Nat
         /\ \A d : d \in DOMAIN v => At(v, d) = v[d]
         /\ \A d : d \notin DOMAIN v => At(v, d) = 0
BY DEF Vectors, At

\* A clone counts what the original counts.
LEMMA CloneCounts ==
  ASSUME NEW v \in Vectors
  PROVE  /\ CloneVector(v) \in Vectors
         /\ \A d : At(CloneVector(v), d) = At(v, d)
         /\ \A d \in DOMAIN CloneVector(v) : CloneVector(v)[d] > 0
<1> DEFINE c == CloneVector(v)
<1>1. c \in [{e \in DOMAIN v : v[e] > 0} -> Nat]
  BY Counters DEF CloneVector
<1>2. {e \in DOMAIN v : v[e] > 0} \in SUBSET Devices
  BY Counters
<1>3. c \in Vectors
  BY <1>1, <1>2 DEF Vectors
<1>4. \A d : At(c, d) = At(v, d)
  BY Counters DEF CloneVector, At
<1>. QED
  BY <1>3, <1>4 DEF CloneVector

\* A merge counts the larger of the two counters.
LEMMA MergeCounts ==
  ASSUME NEW v \in Vectors, NEW w \in Vectors
  PROVE  /\ MergeVectors(v, w) \in Vectors
         /\ \A d : At(MergeVectors(v, w), d) =
                     IF At(w, d) > At(v, d) THEN At(w, d) ELSE At(v, d)
<1> DEFINE c == CloneVector(v)
           raised == {d \in DOMAIN w : w[d] > At(c, d)}
           m == [d \in DOMAIN c \cup raised |-> IF d \in raised THEN w[d] ELSE c[d]]
<1>1. MergeVectors(v, w) = m
  BY DEF MergeVectors
<1>2. c \in Vectors /\ \A d : At(c, d) = At(v, d)
  BY CloneCounts
<1> HIDE DEF c
<1>3. m \in [DOMAIN c \cup raised -> Nat]
  BY <1>2, Counters
<1>4. DOMAIN c \cup raised \in SUBSET Devices
  BY <1>2, Counters
<1>5. m \in Vectors
  BY <1>3, <1>4 DEF Vectors
<1>6. ASSUME NEW d
      PROVE  At(m, d) = IF At(w, d) > At(v, d) THEN At(w, d) ELSE At(v, d)
  <2>1. DOMAIN m = DOMAIN c \cup raised
    OBVIOUS
  <2>2. d \in raised <=> At(w, d) > At(c, d)
    BY <1>2, Counters
  <2>3. CASE d \in raised
    BY <2>1, <2>2, <2>3, <1>2, Counters DEF At
  <2>4. CASE d \notin raised /\ d \in DOMAIN c
    BY <2>1, <2>2, <2>4, <1>2, Counters DEF At
  <2>5. CASE d \notin raised /\ d \notin DOMAIN c
    BY <2>1, <2>2, <2>5, <1>2, Counters DEF At
  <2>. QED
    BY <2>3, <2>4, <2>5
<1>. QED
  BY <1>1, <1>5, <1>6

\* An increment raises the device's own counter, or its legacy version, by one.
LEMMA IncrementCounts ==
  ASSUME NEW v \in Vectors, NEW device \in Devices, NEW n \in Nat
  PROVE  /\ IncrementVector(v, device, n) \in Vectors
         /\ \A d : d # device => At(IncrementVector(v, device, n), d) = At(v, d)
         /\ At(IncrementVector(v, device, n), device) =
              (IF Leq(v, NoVector) /\ n > 0 THEN n ELSE At(v, device)) + 1
<1> DEFINE c == CloneVector(v)
           b == IF DOMAIN c = {} /\ n > 0 THEN [d \in {device} |-> n] ELSE c
           i == [d \in DOMAIN b \cup {device} |-> IF d = device THEN At(b, d) + 1 ELSE b[d]]
<1>1. IncrementVector(v, device, n) = i
  BY DEF IncrementVector
<1>2. c \in Vectors /\ (\A d : At(c, d) = At(v, d)) /\ \A d \in DOMAIN c : c[d] > 0
  BY CloneCounts
<1>3. DOMAIN c = {} <=> Leq(v, NoVector)
  <2>1. \A d : At(NoVector, d) = 0
    BY DEF NoVector, At
  <2>2. ASSUME DOMAIN c = {} PROVE Leq(v, NoVector)
    BY <1>2, <2>1, <2>2, Counters DEF Leq
  <2>3. ASSUME NEW d \in DOMAIN c PROVE ~Leq(v, NoVector)
    <3>1. d \in Devices /\ At(v, d) > 0
      BY <1>2, <2>3, Counters
    <3>. QED
      BY <2>1, <3>1, Counters DEF Leq
  <2>. QED
    BY <2>2, <2>3
<1> HIDE DEF c
<1>4. b \in Vectors
  <2>1. [d \in {device} |-> n] \in [{device} -> Nat]
    OBVIOUS
  <2>. QED
    BY <1>2, <2>1 DEF Vectors
<1>5. /\ \A d : d # device => At(b, d) = At(v, d)
      /\ At(b, device) = IF Leq(v, NoVector) /\ n > 0 THEN n ELSE At(v, device)
  <2>1. CASE DOMAIN c = {} /\ n > 0
    <3>1. b = [d \in {device} |-> n]
      BY <2>1
    <3>2. \A d : At(v, d) = 0
      BY <1>2, <2>1, Counters
    <3>. QED
      BY <3>1, <3>2, <2>1, <1>3 DEF At
  <2>2. CASE ~(DOMAIN c = {} /\ n > 0)
    BY <2>2, <1>2, <1>3
  <2>. QED
    BY <2>1, <2>2
<1> HIDE DEF b
<1>6. i \in [DOMAIN b \cup {device} -> Nat] /\ DOMAIN b \cup {device} \in SUBSET Devices
  BY <1>4, Counters
<1>7. i \in Vectors
  BY <1>6 DEF Vectors
<1>8. \A d : At(i, d) = IF d = device THEN At(b, d) + 1 ELSE At(b, d)
  BY <1>4, Counters DEF At
<1>. QED
  BY <1>1, <1>5, <1>7, <1>8

-------------------------------------------------------------------------------
\* compareVectors is the causal order.
THEOREM CompareIsCausalOrder == \A v, w \in Vectors : OrderLaw(v, w)
<1> SUFFICES ASSUME NEW v \in Vectors, NEW w \in Vectors PROVE OrderLaw(v, w)
  OBVIOUS
<1>1. LeftGreater(v, w) <=> ~Leq(v, w)
  BY Counters DEF LeftGreater, Leq
<1>2. RightGreater(v, w) <=> ~Leq(w, v)
  BY Counters DEF RightGreater, Leq
<1>. QED
  BY <1>1, <1>2 DEF OrderLaw, CompareVectors

\* mergeVectors is the least upper bound of its arguments.
THEOREM MergeIsLeastUpperBound == \A v, w, u \in Vectors : JoinLaw(v, w, u)
<1> SUFFICES ASSUME NEW v \in Vectors, NEW w \in Vectors, NEW u \in Vectors
             PROVE  JoinLaw(v, w, u)
  OBVIOUS
<1>1. \A d : At(v, d) \in Nat /\ At(w, d) \in Nat /\ At(u, d) \in Nat
  BY Counters
<1>. QED
  BY <1>1, MergeCounts DEF JoinLaw, Leq

\* The order of versions is transitive: a device that compares with the last version
\* it applied does not need the earlier ones.
THEOREM CausalOrderIsTransitive ==
  \A v, w, u \in Vectors : Leq(v, w) /\ Leq(w, u) => Leq(v, u)
<1> SUFFICES ASSUME NEW v \in Vectors, NEW w \in Vectors, NEW u \in Vectors
             PROVE  Leq(v, w) /\ Leq(w, u) => Leq(v, u)
  OBVIOUS
<1>1. ASSUME Leq(v, w), Leq(w, u), NEW d \in Devices
      PROVE  At(v, d) <= At(u, d)
  <2>1. At(v, d) <= At(w, d) /\ At(w, d) <= At(u, d)
    BY <1>1, Zenon DEF Leq
  <2>2. At(v, d) \in Nat /\ At(w, d) \in Nat /\ At(u, d) \in Nat
    BY Counters, Zenon
  <2>. QED
    BY <2>1, <2>2
<1>. QED
  BY <1>1, Zenon DEF Leq

\* incrementVector makes a version that nobody has seen.
THEOREM IncrementIsNew ==
  \A v, w \in Vectors, device \in Devices, n \in Nat : NewVersionLaw(v, w, device, n)
<1> SUFFICES ASSUME NEW v \in Vectors, NEW w \in Vectors, NEW device \in Devices,
                    NEW n \in Nat
             PROVE  NewVersionLaw(v, w, device, n)
  OBVIOUS
<1> DEFINE next == IncrementVector(v, device, n)
           old  == IF Leq(v, NoVector) /\ n > 0 THEN [d \in {device} |-> n] ELSE v
<1>1. \A d : At(v, d) \in Nat /\ At(w, d) \in Nat
  BY Counters
<1>2. /\ next \in Vectors
      /\ \A d : d # device => At(next, d) = At(v, d)
      /\ At(next, device) =
              (IF Leq(v, NoVector) /\ n > 0 THEN n ELSE At(v, device)) + 1
  BY IncrementCounts
<1>3. /\ old \in Vectors
      /\ \A d \in Devices : d # device => At(old, d) = At(v, d)
      /\ At(old, device) = IF Leq(v, NoVector) /\ n > 0 THEN n ELSE At(v, device)
  <2>1. CASE Leq(v, NoVector) /\ n > 0
    <3>1. [d \in {device} |-> n] \in [{device} -> Nat]
      OBVIOUS
    <3>2. \A d \in Devices : At(v, d) = 0
      <4>1. \A d : At(NoVector, d) = 0
        BY DEF NoVector, At
      <4>2. ASSUME NEW d \in Devices PROVE At(v, d) <= 0
        <5>1. At(v, d) <= At(NoVector, d)
          BY <2>1, Zenon DEF Leq
        <5>. QED
          BY <4>1, <5>1
      <4>3. ASSUME NEW d \in Devices PROVE At(v, d) = 0
        <5>1. At(v, d) \in Nat /\ At(v, d) <= 0
          BY <1>1, <4>2, Zenon
        <5>. QED
          BY <5>1
      <4>. QED
        BY <4>3, Zenon
    <3>. QED
      BY <2>1, <3>1, <3>2 DEF Vectors, At
  <2>2. CASE ~(Leq(v, NoVector) /\ n > 0)
    BY <2>2
  <2>. QED
    BY <2>1, <2>2
<1> HIDE DEF next, old
<1>4. At(old, device) \in Nat /\ At(next, device) = At(old, device) + 1
  BY <1>1, <1>2, <1>3
<1>5. Leq(old, next) /\ ~Leq(next, old)
  BY <1>1, <1>2, <1>3, <1>4 DEF Leq
<1>6. CompareVectors(old, next) = "before"
  BY <1>2, <1>3, <1>5, CompareIsCausalOrder DEF OrderLaw
<1>7. At(w, device) <= At(old, device) => ~Leq(next, w)
  BY <1>1, <1>4 DEF Leq
<1>. QED
  BY <1>6, <1>7 DEF NewVersionLaw, next, old


-------------------------------------------------------------------------------
(***************************************************************************)
(* Types, by setting s and log l.                                          *)
(***************************************************************************)
Data(s) == [s.fields -> Nat]

Clocks == [vector : Vectors, writer : Devices, val : Nat]

Entries(s) ==
  [vector : Vectors, hash : Data(s) \cup {NoHash, Grave}, tomb : BOOLEAN,
   fields : [s.fields -> Clocks \cup {NoClock}]]

\* The clock of field f with value v; a field that is left out may have none.
ClockOf(s, f, v, clock) ==
  IF clock = NoClock THEN f \in s.mayLack /\ v = 0 ELSE clock.val = v

\* A version in the log, or on its way: the clock of each field has its value.
Lives(s) ==
  {m \in [id : s.ids, dev : Devices, tomb : {FALSE}, vector : Vectors \ {NoVector},
          data : Data(s), fields : [s.fields -> Clocks \cup {NoClock}]] :
     \A f \in s.fields : ClockOf(s, f, m.data[f], m.fields[f])}

Graves(s) ==
  [id : s.ids, dev : Devices, tomb : {TRUE}, vector : Vectors \ {NoVector}, data : {Grave},
   fields : [s.fields -> {NoClock}]]

Records(s) == Lives(s) \cup Graves(s)

States(s, l) ==
  [rec : [s.ids -> Entries(s)], cursor : Nat, deferred : SUBSET (DOMAIN l)]

Pendings(s) == UNION {[I -> Entries(s)] : I \in SUBSET s.ids}

\* A run until it pulls, and one that applies what it has pulled.
Pushes(s, l) ==
  [pc : {"collect", "push", "drop", "pull", "failed"}, kinds : SUBSET Kinds,
   rec : [s.ids -> Entries(s)], cursor : Nat, deferred : SUBSET (DOMAIN l),
   out : Seq(Records(s)), pending : Pendings(s), drops : SUBSET s.ids]

Pulls(s, l) ==
  [pc : {"apply", "failed"}, kinds : SUBSET Kinds, rec : [s.ids -> Entries(s)],
   cursor : Nat, deferred : SUBSET (DOMAIN l), pending : Pendings(s),
   old : SUBSET (DOMAIN l), new : SUBSET (DOMAIN l), next : Nat,
   data : [s.ids -> Data(s) \cup {NoData}]]

Operations(s) ==
  [op : {"edit"}, dev : Devices, id : s.ids, field : s.fields, value : Nat]
  \cup [op : {"create", "delete"}, dev : Devices, id : s.ids]
  \cup [op : {"toggle"}, dev : Devices, kind : Kinds]

TypeOK ==
  /\ setting \in Settings
  /\ local \in [Devices -> [Ids -> Data(setting) \cup {NoData}]]
  /\ journal \in [Devices -> SUBSET Ids]
  /\ accepts \in [Devices -> SUBSET Kinds]
  /\ state \in [Devices -> States(setting, log)]
  /\ run \in [Runs -> {IdleRun} \cup Pushes(setting, log) \cup Pulls(setting, log)]
  /\ log \in Seq(Records(setting))
  /\ ops \in Seq(Operations(setting))

-------------------------------------------------------------------------------
(***************************************************************************)
(* What the log backs.                                                     *)
(***************************************************************************)

\* Somebody has sent value v of field f, or everybody has it from the beginning.
Backed(s, l, i, f, v) ==
  \/ i \in s.seeded /\ v = 0
  \/ \E k \in DOMAIN l : l[k].id = i /\ ~l[k].tomb /\ l[k].data[f] = v

\* What an entry of State.Records claims to be synchronised is backed.
EntryOK(s, l, i, e) ==
  \A f \in s.fields :
    /\ e.fields[f] # NoClock => Backed(s, l, i, f, e.fields[f].val)
    /\ e.hash \in Data(s) =>
         \/ Backed(s, l, i, f, e.hash[f])
         \/ s.midSync /\ e.fields[f] # NoClock /\ e.fields[f].val # e.hash[f]

\* All records but the copies that conflicts of credentials make.
Own(s, i) == i \in s.ids /\ (s.kind = "credential" => i \notin s.spare)

Recorded ==
  \A i \in Ids : Own(setting, i) =>
    /\ \A d \in Devices : EntryOK(setting, log, i, state[d].rec[i])
    /\ \A r \in Runs : run[r].pc # "idle" => EntryOK(setting, log, i, run[r].rec[i])

Holds(l, i, e) == \E k \in DOMAIN l : l[k].id = i /\ e = EntryOf(l[k])

Buries(l, i, d) == \E k \in DOMAIN l : l[k].id = i /\ l[k].tomb /\ l[k].dev = d

\* The versions to be pushed are in the request, and then in the log.
Sends(r) ==
  /\ run[r].pc \in {"collect", "push"} =>
       \A i \in DOMAIN run[r].pending : Holds(run[r].out, i, run[r].pending[i])
  /\ run[r].pc \in {"drop", "pull", "apply"} =>
       \A i \in DOMAIN run[r].pending : Holds(log, i, run[r].pending[i])
  /\ run[r].pc = "push" => \A i \in run[r].drops : Buries(run[r].out, i, Host[r])
  /\ run[r].pc = "drop" => \A i \in run[r].drops : Buries(log, i, Host[r])

\* Between two edits: whatever a device has is in the request of a run, and then in the log.
Merges == Kind # "credential" /\ ~MidSync

Ships(r) ==
  /\ Merges /\ run[r].pc \in {"collect", "push"} =>
       \A i \in Ids : Export(Host[r], run[r].kinds)[i] # NoData => \A f \in Fields :
         \/ Backed(setting, log, i, f, local[Host[r]][i][f])
         \/ Backed(setting, run[r].out, i, f, local[Host[r]][i][f])
  /\ Merges /\ run[r].pc \in {"drop", "pull", "apply"} =>
       \A i \in Ids : Export(Host[r], run[r].kinds)[i] # NoData => \A f \in Fields :
         Backed(setting, log, i, f, local[Host[r]][i][f])
  /\ Merges /\ run[r].pc = "apply" =>
       \A i \in Ids : run[r].data[i] # NoData => \A f \in Fields :
         Backed(setting, log, i, f, run[r].data[i][f])

\* What a run knows of the records in the journal.
Remembers(r) ==
  /\ OwnRuns /\ run[r].pc = "collect" => run[r].rec = state[Host[r]].rec
  /\ ~MidSync /\ run[r].pc # "idle" =>
       \A i \in journal[Host[r]] :
         /\ Known(run[r].rec[i]) <=> Known(state[Host[r]].rec[i])
         /\ run[r].pc # "collect" => Known(run[r].rec[i])

IInv ==
  /\ TypeOK
  /\ Recorded
  /\ \A r \in Runs : Sends(r) /\ Ships(r) /\ Remembers(r)

-------------------------------------------------------------------------------
(***************************************************************************)
(* Sequences, and what the log backs as it grows.                          *)
(***************************************************************************)

\* Log m holds what log l holds, at the same places.
Grows(l, m) == DOMAIN l \subseteq DOMAIN m /\ \A k \in DOMAIN l : m[k] = l[k]

\* What a concatenation holds.
LEMMA Joined ==
  ASSUME NEW S, NEW l \in Seq(S), NEW m \in Seq(S)
  PROVE  /\ l \o m \in Seq(S)
         /\ Grows(l, l \o m)
         /\ \A n \in DOMAIN m : Len(l) + n \in DOMAIN (l \o m) /\ (l \o m)[Len(l) + n] = m[n]
         /\ \A n \in DOMAIN (l \o m) :
              \/ n \in DOMAIN l /\ (l \o m)[n] = l[n]
              \/ n - Len(l) \in DOMAIN m /\ (l \o m)[n] = m[n - Len(l)]
BY DEF Grows

\* The elements of a finite set in some order.
LEMMA Listed ==
  ASSUME NEW S, IsFiniteSet(S), NEW T, S \subseteq T
  PROVE  /\ SetToSeq(S) \in Seq(T)
         /\ \A x \in S : \E n \in DOMAIN SetToSeq(S) : SetToSeq(S)[n] = x
<1> DEFINE N == Cardinality(S)
           sq == SetToSeq(S)
<1>1. N \in Nat /\ ExistsBijection(1..N, S)
  BY FS_CardinalityType
<1>2. PICK b \in [1..N -> S] : IsInjective(b)
  BY <1>1 DEF ExistsBijection, Bijection, Injection, IsInjective
<1>3. sq \in [1..N -> S] /\ IsInjective(sq)
  BY <1>2 DEF SetToSeq
<1>4. Cardinality(1..N) = N
  BY <1>1, FS_Interval
<1>5. sq \in Injection(1..N, S)
  BY <1>3 DEF Injection, IsInjective
<1>6. sq \in Surjection(1..N, S)
  BY <1>4, <1>5, FS_Injection
<1>7. \A x \in S : \E n \in 1..N : sq[n] = x
  BY <1>6 DEF Surjection
<1>8. sq \in Seq(T) /\ DOMAIN sq = 1..N
  BY <1>1, <1>3
<1> QED
  BY <1>7, <1>8

\* What is in the log, or backed by it, stays so.
LEMMA GrowsKeeps ==
  ASSUME NEW l, NEW m, Grows(l, m)
  PROVE  /\ \A s, i, f, v : Backed(s, l, i, f, v) => Backed(s, m, i, f, v)
         /\ \A s, i, e : EntryOK(s, l, i, e) => EntryOK(s, m, i, e)
         /\ \A i, e : Holds(l, i, e) => Holds(m, i, e)
         /\ \A i, d : Buries(l, i, d) => Buries(m, i, d)
<1>1. \A s, i, f, v : Backed(s, l, i, f, v) => Backed(s, m, i, f, v)
  BY DEF Grows, Backed
<1>2. \A s, i, e : EntryOK(s, l, i, e) => EntryOK(s, m, i, e)
  BY <1>1 DEF EntryOK
<1>3. \A i, e : Holds(l, i, e) => Holds(m, i, e)
  BY DEF Grows, Holds
<1>4. \A i, d : Buries(l, i, d) => Buries(m, i, d)
  BY DEF Grows, Buries
<1> QED
  BY <1>1, <1>2, <1>3, <1>4

\* What is in the request is in the log once the server has it.
LEMMA RequestLogged ==
  ASSUME NEW S, NEW l \in Seq(S), NEW m \in Seq(S)
  PROVE  /\ \A s, i, f, v : Backed(s, m, i, f, v) => Backed(s, l \o m, i, f, v)
         /\ \A i, e : Holds(m, i, e) => Holds(l \o m, i, e)
         /\ \A i, d : Buries(m, i, d) => Buries(l \o m, i, d)
<1> DEFINE q == l \o m
<1>1. \A n \in DOMAIN m : Len(l) + n \in DOMAIN q /\ q[Len(l) + n] = m[n]
  BY Joined
<1> HIDE DEF q
<1>2. \A s, i, f, v : Backed(s, m, i, f, v) => Backed(s, q, i, f, v)
  BY <1>1 DEF Backed
<1>3. \A i, e : Holds(m, i, e) => Holds(q, i, e)
  BY <1>1 DEF Holds
<1>4. \A i, d : Buries(m, i, d) => Buries(q, i, d)
  BY <1>1 DEF Buries
<1> QED
  BY <1>2, <1>3, <1>4 DEF q

\* The types that depend on the log only gain members.
LEMMA TypesGrow ==
  ASSUME NEW l, NEW m, Grows(l, m), NEW s
  PROVE  /\ States(s, l) \subseteq States(s, m)
         /\ Pushes(s, l) \subseteq Pushes(s, m)
         /\ Pulls(s, l) \subseteq Pulls(s, m)
<1>1. SUBSET (DOMAIN l) \subseteq SUBSET (DOMAIN m)
  BY DEF Grows
<1>2. States(s, l) \subseteq States(s, m)
  BY <1>1 DEF States
<1>3. Pushes(s, l) \subseteq Pushes(s, m)
  BY <1>1 DEF Pushes
<1>4. Pulls(s, l) \subseteq Pulls(s, m)
  BY <1>1 DEF Pulls
<1> QED
  BY <1>2, <1>3, <1>4

-------------------------------------------------------------------------------
(***************************************************************************)
(* Versions.                                                               *)
(***************************************************************************)

\* The vector of a record that is not known.
LEMMA NoVectorIs == NoVector \in Vectors /\ DOMAIN NoVector = {}
BY DEF NoVector, Vectors

\* A version that counts a change is not the empty one.
LEMMA IncrementIsKnown ==
  ASSUME NEW v \in Vectors, NEW d \in Devices
  PROVE  IncrementVector(v, d, 0) \in Vectors \ {NoVector}
<1>1. IncrementVector(v, d, 0) \in Vectors
  BY IncrementCounts
<1>2. d \in DOMAIN IncrementVector(v, d, 0)
  BY DEF IncrementVector
<1> QED
  BY <1>1, <1>2, NoVectorIs

\* A version that another one precedes, or that it does not follow, counts something.
LEMMA MergeIsKnown ==
  ASSUME NEW v \in Vectors, NEW w \in Vectors, CompareVectors(v, w) \in {"before", "concurrent"}
  PROVE  MergeVectors(v, w) \in Vectors \ {NoVector}
<1>1. RightGreater(v, w)
  BY DEF CompareVectors
<1>2. PICK d \in Devices : At(v, d) < At(w, d)
  BY <1>1, Counters DEF RightGreater
<1>3. MergeVectors(v, w) \in Vectors /\ At(MergeVectors(v, w), d) = At(w, d)
  BY <1>2, MergeCounts, Counters
<1>4. At(NoVector, d) = 0
  BY NoVectorIs DEF At
<1>5. At(w, d) # 0
  BY <1>2, Counters
<1> QED
  BY <1>3, <1>4, <1>5

-------------------------------------------------------------------------------
(***************************************************************************)
(* What is pushed, and what is made of it.                                 *)
(***************************************************************************)
\* What every setting promises (SettingAssumption).
LEMMA SettingIs ==
  ASSUME setting \in Settings
  PROVE  /\ Kind \in Kinds /\ IsFiniteSet(Ids)
         /\ Seeded \subseteq Ids /\ Spare \subseteq Ids
         /\ Host \in [Runs -> Devices]
         /\ Alone \in BOOLEAN /\ MidSync \in BOOLEAN
BY SettingAssumption DEF IsSetting, Kind, Ids, Seeded, Spare, Host, Alone, MidSync

\* The markers are not data.
LEMMA MarkersApart ==
  ASSUME setting \in Settings
  PROVE  NoData \notin Data(setting) /\ NoHash \notin Data(setting) /\ Grave \notin Data(setting)
BY MarkerAssumption DEF Data

\* The marker of a missing clock is not a clock.
LEMMA ClocksApart == NoClock \notin Clocks
BY MarkerAssumption DEF Clocks

\* makeSyncEnvelope gives every field a clock with the field's value, or none where it is left
\* out.
LEMMA Stamped ==
  ASSUME setting \in Settings,
         NEW data \in Data(setting), NEW previous \in [Fields -> Clocks \cup {NoClock}],
         NEW v \in Vectors, NEW d \in Devices
  PROVE  /\ StampFields(data, previous, v, d) \in [Fields -> Clocks \cup {NoClock}]
         /\ \A f \in Fields :
              ClockOf(setting, f, data[f], StampFields(data, previous, v, d)[f])
<1> DEFINE new(f) == [vector |-> v, writer |-> d, val |-> data[f]]
           keep(f) == \/ previous[f] = NoClock /\ Omits(f, data[f])
                      \/ /\ previous[f] # NoClock /\ previous[f].val = data[f]
                         /\ ~Omits(f, data[f])
           clock(f) == IF keep(f) THEN previous[f] ELSE new(f)
<1>1. ASSUME NEW f \in Fields
      PROVE  clock(f) \in Clocks \cup {NoClock} /\ ClockOf(setting, f, data[f], clock(f))
  <2>1. data[f] \in Nat
    BY <1>1 DEF Data, Fields
  <2>2. new(f) \in Clocks /\ new(f) # NoClock /\ new(f).val = data[f]
    BY <2>1, ClocksApart DEF Clocks
  <2>3. CASE keep(f)
    BY <1>1, <2>3 DEF ClockOf, Omits, MayLack
  <2>4. CASE ~keep(f)
    <3>1. clock(f) = new(f)
      BY <2>4
    <3> HIDE DEF clock, new, keep
    <3> QED
      BY <2>2, <3>1 DEF ClockOf
  <2> QED
    BY <2>3, <2>4
<1> HIDE DEF clock
<1>2. StampFields(data, previous, v, d) = [f \in Fields |-> clock(f)]
  BY DEF StampFields, clock
<1> HIDE DEF keep
<1> QED
  BY <1>1, <1>2

\* The version that Begin makes of a changed record.
LEMMA ChangedIs ==
  ASSUME setting \in Settings, NEW i \in Ids, NEW d \in Devices,
         NEW entry \in Entries(setting), NEW data \in Data(setting)
  PROVE  /\ Changed(d, i, entry, data) \in Records(setting)
         /\ Changed(d, i, entry, data).id = i
         /\ ~Changed(d, i, entry, data).tomb
         /\ Changed(d, i, entry, data).data = data
<1> DEFINE v == IncrementVector(entry.vector, d, 0)
           new == Changed(d, i, entry, data)
<1>1. entry.vector \in Vectors /\ entry.fields \in [Fields -> Clocks \cup {NoClock}]
  BY DEF Entries, Fields
<1>2. v \in Vectors \ {NoVector}
  BY <1>1, IncrementIsKnown
<1> HIDE DEF v
<1> DEFINE clocks == StampFields(data, entry.fields, v, d)
<1>3. /\ clocks \in [Fields -> Clocks \cup {NoClock}]
      /\ \A f \in Fields : ClockOf(setting, f, data[f], clocks[f])
  BY <1>1, <1>2, Stamped
<1>4. new = [id |-> i, dev |-> d, tomb |-> FALSE, vector |-> v, data |-> data,
             fields |-> clocks]
  BY DEF Changed, v
<1> HIDE DEF new, clocks
<1>5. new \in Lives(setting)
  BY <1>2, <1>3, <1>4 DEF Lives, Ids, Fields
<1> QED
  BY <1>4, <1>5 DEF Records, new

\* The tombstone that Collect makes of an entry of the journal.
LEMMA RemovedIs ==
  ASSUME setting \in Settings, NEW i \in Ids, NEW d \in Devices, NEW entry \in Entries(setting)
  PROVE  /\ Removed(d, i, entry) \in Records(setting)
         /\ Removed(d, i, entry).id = i
         /\ Removed(d, i, entry).tomb
         /\ Removed(d, i, entry).dev = d
<1> DEFINE v == IncrementVector(entry.vector, d, 0)
<1>1. entry.vector \in Vectors
  BY DEF Entries
<1>2. v \in Vectors \ {NoVector}
  BY <1>1, IncrementIsKnown
<1> HIDE DEF v
<1>3. Removed(d, i, entry) = [id |-> i, dev |-> d, tomb |-> TRUE, vector |-> v, data |-> Grave,
                              fields |-> NoFields]
  BY DEF Removed, v
<1>4. Removed(d, i, entry) \in Graves(setting)
  BY <1>2, <1>3 DEF Graves, NoFields, Ids, Fields
<1> QED
  BY <1>3, <1>4 DEF Records

\* The fields of a record of the log.
LEMMA RecordIs ==
  ASSUME setting \in Settings, NEW m \in Records(setting)
  PROVE  /\ m.id \in Ids /\ m.dev \in Devices /\ m.tomb \in BOOLEAN
         /\ m.vector \in Vectors \ {NoVector}
         /\ ~m.tomb => /\ m.data \in Data(setting)
                       /\ m.fields \in [Fields -> Clocks \cup {NoClock}]
                       /\ \A f \in Fields : ClockOf(setting, f, m.data[f], m.fields[f])
         /\ m.tomb => m.data = Grave /\ m.fields = NoFields
<1>1. CASE m \in Lives(setting)
  BY <1>1 DEF Lives, Ids, Fields
<1>2. CASE m \in Graves(setting)
  BY <1>2 DEF Graves, Ids, Fields, NoFields
<1> QED
  BY <1>1, <1>2 DEF Records

\* The RecordState of a pushed version.
LEMMA EntryOfIs ==
  ASSUME setting \in Settings, NEW m \in Records(setting)
  PROVE  EntryOf(m) \in Entries(setting) /\ Known(EntryOf(m))
<1>1. /\ m.tomb \in BOOLEAN
      /\ m.vector \in Vectors \ {NoVector}
      /\ m.data \in Data(setting) \cup {Grave}
      /\ m.fields \in [Fields -> Clocks \cup {NoClock}]
  BY RecordIs DEF NoFields
<1> QED
  BY <1>1 DEF EntryOf, Entries, Known, Fields

\* A version in the log backs what its entry says.
LEMMA LoggedIsBacked ==
  ASSUME setting \in Settings, NEW l \in Seq(Records(setting)), NEW k \in DOMAIN l
  PROVE  /\ EntryOK(setting, l, l[k].id, EntryOf(l[k]))
         /\ ~l[k].tomb => \A f \in Fields : Backed(setting, l, l[k].id, f, l[k].data[f])
<1> DEFINE m == l[k]
<1>1. m \in Records(setting)
  OBVIOUS
<1>2. ~m.tomb => \A f \in Fields : Backed(setting, l, m.id, f, m.data[f])
  BY DEF Backed
<1> HIDE DEF m
<1> DEFINE e == EntryOf(m)
<1>e. e.hash = m.data /\ e.fields = m.fields
  BY DEF EntryOf
<1> HIDE DEF e
<1>3. ASSUME m.tomb PROVE EntryOK(setting, l, m.id, e)
  <2>1. e.hash \notin Data(setting) /\ e.fields = NoFields
    BY <1>1, <1>3, <1>e, RecordIs, MarkersApart
  <2>2. \A f \in setting.fields : e.fields[f] = NoClock
    BY <2>1 DEF NoFields, Fields
  <2> QED
    BY <2>1, <2>2 DEF EntryOK
<1>4. ASSUME ~m.tomb PROVE EntryOK(setting, l, m.id, e)
  <2>1. \A f \in Fields : ClockOf(setting, f, m.data[f], m.fields[f])
    BY <1>1, <1>4, RecordIs
  <2>2. ASSUME NEW f \in setting.fields
        PROVE  /\ e.fields[f] # NoClock => Backed(setting, l, m.id, f, e.fields[f].val)
               /\ Backed(setting, l, m.id, f, e.hash[f])
    BY <2>1, <2>2, <1>2, <1>4, <1>e DEF Fields, ClockOf
  <2> QED
    BY <2>2 DEF EntryOK
<1>5. EntryOK(setting, l, m.id, e)
  BY <1>3, <1>4
<1> QED
  BY <1>2, <1>5 DEF m, e

-------------------------------------------------------------------------------
(***************************************************************************)
(* What a step leaves alone.                                               *)
(***************************************************************************)
\* What the types say of a run in each of its states.
LEMMA RunIs ==
  ASSUME TypeOK, NEW r \in Runs
  PROVE  /\ Host[r] \in Devices
         /\ run[r].pc = "idle" => run[r] = IdleRun
         /\ run[r].pc \in {"collect", "push", "drop", "pull"} => run[r] \in Pushes(setting, log)
         /\ run[r].pc = "apply" => run[r] \in Pulls(setting, log)
         /\ run[r].pc # "idle" =>
              /\ run[r] \in Pushes(setting, log) \cup Pulls(setting, log)
              /\ run[r].pc \in {"collect", "push", "drop", "pull", "apply", "failed"}
              /\ run[r].rec \in [Ids -> Entries(setting)]
              /\ run[r].cursor \in Nat
              /\ run[r].deferred \in SUBSET (DOMAIN log)
<1>1. run[r] \in {IdleRun} \cup Pushes(setting, log) \cup Pulls(setting, log)
  BY DEF TypeOK
<1>2. Host[r] \in Devices
  BY SettingIs DEF TypeOK
<1>3. ASSUME run[r] = IdleRun PROVE run[r].pc = "idle"
  BY <1>3 DEF IdleRun
<1>4. ASSUME run[r] \in Pushes(setting, log)
      PROVE  /\ run[r].pc \in {"collect", "push", "drop", "pull", "failed"}
             /\ run[r].rec \in [Ids -> Entries(setting)]
             /\ run[r].cursor \in Nat
             /\ run[r].deferred \in SUBSET (DOMAIN log)
  BY <1>4 DEF Pushes, Ids
<1>5. ASSUME run[r] \in Pulls(setting, log)
      PROVE  /\ run[r].pc \in {"apply", "failed"}
             /\ run[r].rec \in [Ids -> Entries(setting)]
             /\ run[r].cursor \in Nat
             /\ run[r].deferred \in SUBSET (DOMAIN log)
  BY <1>5 DEF Pulls, Ids
<1> QED
  BY <1>1, <1>2, <1>3, <1>4, <1>5

\* One run changes, the others are as they were.
LEMMA RunTyped ==
  ASSUME TypeOK, setting' = setting, Grows(log, log'), NEW r \in Runs, NEW u,
         u \in {IdleRun} \cup Pushes(setting, log') \cup Pulls(setting, log'),
         run' = [run EXCEPT ![r] = u]
  PROVE  /\ run' \in [Runs -> {IdleRun} \cup Pushes(setting', log') \cup Pulls(setting', log')]
         /\ run'[r] = u
         /\ \A q \in Runs \ {r} : run'[q] = run[q]
<1>1. run \in [Runs -> {IdleRun} \cup Pushes(setting, log') \cup Pulls(setting, log')]
  BY TypesGrow DEF TypeOK
<1> QED
  BY <1>1

\* Entries that do not change are still backed.
LEMMA RecordedKept ==
  ASSUME Recorded, setting' = setting, Grows(log, log'), state' = state,
         \A q \in Runs :
           \/ run'[q].pc = "idle"
           \/ run[q].pc # "idle" /\ run'[q].rec = run[q].rec
  PROVE  Recorded'
BY GrowsKeeps DEF Recorded, Ids

\* A run that does not change still has its versions in the request, or the log.
LEMMA SendsKept ==
  ASSUME setting' = setting, Grows(log, log'), NEW q \in Runs, run'[q] = run[q], Sends(q)
  PROVE  Sends(q)'
BY GrowsKeeps DEF Sends, Host

\* What a device has may change meanwhile, to something that is in the log.
LEMMA ShipsKept ==
  ASSUME setting' = setting, Grows(log, log'), NEW q \in Runs, run'[q] = run[q], Ships(q),
         Merges => \A i \in Ids :
           \/ local'[Host[q]][i] = local[Host[q]][i]
           \/ local'[Host[q]][i] = NoData
           \/ \A f \in Fields : Backed(setting, log', i, f, local'[Host[q]][i][f])
  PROVE  Ships(q)'
<1> DEFINE d == Host[q]
           Now(i) == Export(d, run[q].kinds)[i]
           Then(i) == Export(d, run[q].kinds)'[i]
<1>1. \A i \in Ids : Then(i) # NoData =>
        \/ Now(i) # NoData /\ local'[d][i] = local[d][i]
        \/ ~Merges
        \/ \A f \in Fields : Backed(setting, log', i, f, local'[d][i][f])
  BY DEF Export, Allowed, Ids, Kind, Host
<1>2. /\ d' = d /\ Ids' = Ids /\ Fields' = Fields
      /\ Merges' <=> Merges
      /\ run'[q].kinds = run[q].kinds
  BY DEF Host, Ids, Fields, Merges, Kind, MidSync
<1>3. \A i : Export(Host[q], run[q].kinds)'[i] = Then(i)
  OBVIOUS
<1>4. \A s, i, f, v : Backed(s, log, i, f, v) => Backed(s, log', i, f, v)
  BY GrowsKeeps
<1> HIDE DEF Now, Then, d
<1>5. ASSUME Merges, run[q].pc \in {"collect", "push"}, NEW i \in Ids, Then(i) # NoData,
             NEW f \in Fields
      PROVE  \/ Backed(setting, log', i, f, local'[d][i][f])
             \/ Backed(setting, run[q].out, i, f, local'[d][i][f])
  BY <1>1, <1>4, <1>5 DEF Ships, Now, d
<1>6. ASSUME Merges, run[q].pc \in {"drop", "pull", "apply"}, NEW i \in Ids, Then(i) # NoData,
             NEW f \in Fields
      PROVE  Backed(setting, log', i, f, local'[d][i][f])
  BY <1>1, <1>4, <1>6 DEF Ships, Now, d
<1>7. ASSUME Merges, run[q].pc = "apply", NEW i \in Ids, run[q].data[i] # NoData, NEW f \in Fields
      PROVE  Backed(setting, log', i, f, run[q].data[i][f])
  BY <1>4, <1>7 DEF Ships
<1> QED
  BY <1>2, <1>3, <1>5, <1>6, <1>7 DEF Ships, d

\* A run that does not change still knows the journal, unless it has grown.
LEMMA RemembersKept ==
  ASSUME setting' = setting, NEW q \in Runs, run'[q] = run[q], Remembers(q),
         journal'[Host[q]] \subseteq journal[Host[q]], state'[Host[q]] = state[Host[q]]
  PROVE  Remembers(q)'
BY DEF Remembers, Host, OwnRuns, MidSync

\* A run that goes on with the entries it has.
LEMMA RemembersOn ==
  ASSUME setting' = setting, NEW r \in Runs, Remembers(r),
         run[r].pc \notin {"idle", "collect"}, run'[r].pc # "collect",
         run'[r].pc = "idle" \/ run'[r].rec = run[r].rec,
         journal'[Host[r]] \subseteq journal[Host[r]], state'[Host[r]] = state[Host[r]]
  PROVE  Remembers(r)'
BY DEF Remembers, Host, OwnRuns, MidSync

\* All that is left to show of a step of run r that changes nothing else but the log.
LEMMA OthersKept ==
  ASSUME IInv, setting' = setting, Grows(log, log'), NEW r \in Runs,
         \A q \in Runs \ {r} : run'[q] = run[q],
         local' = local, state' = state, \A d \in Devices : journal'[d] \subseteq journal[d],
         Sends(r)', Ships(r)', Remembers(r)'
  PROVE  \A q \in Runs : (Sends(q) /\ Ships(q) /\ Remembers(q))'
<1> SUFFICES ASSUME NEW q \in Runs \ {r} PROVE Sends(q)' /\ Ships(q)' /\ Remembers(q)'
  OBVIOUS
<1>1. Sends(q) /\ Ships(q) /\ Remembers(q) /\ Host[q] \in Devices
  BY RunIs DEF IInv
<1>2. Sends(q)'
  BY <1>1, SendsKept
<1>3. Ships(q)'
  BY <1>1, ShipsKept
<1>4. Remembers(q)'
  BY <1>1, RemembersKept
<1> QED
  BY <1>2, <1>3, <1>4

\* An idle run, and one that has failed, claims nothing.
LEMMA Silent ==
  ASSUME NEW r \in Runs, run'[r].pc \in {"idle", "failed"}
  PROVE  Sends(r)' /\ Ships(r)'
BY DEF Sends, Ships

-------------------------------------------------------------------------------
(***************************************************************************)
(* The steps of a run, but for those of pull.                              *)
(***************************************************************************)
\* A log holds what it holds.
LEMMA GrowsSame == \A l : Grows(l, l)
BY DEF Grows

\* Push: what was in the request is in the log.
LEMMA PushStep ==
  ASSUME IInv, NEW r \in Runs, Push(r)
  PROVE  IInv'
<1> USE DEF Push
<1>1. run[r] \in Pushes(setting, log) /\ run[r].out \in Seq(Records(setting))
  BY RunIs DEF IInv, Pushes
<1>2. log \in Seq(Records(setting)) /\ setting' = setting
  BY DEF IInv, TypeOK
<1>3. Grows(log, log') /\ log' \in Seq(Records(setting))
  BY <1>1, <1>2, Joined
<1> DEFINE u == [run[r] EXCEPT !.pc = IF run[r].drops = {} THEN "pull" ELSE "drop"]
<1>4. u \in Pushes(setting, log')
  <2>1. run[r] \in Pushes(setting, log')
    BY <1>1, <1>3, TypesGrow
  <2> QED
    BY <2>1 DEF Pushes
<1>5. /\ u.pc = (IF run[r].drops = {} THEN "pull" ELSE "drop")
      /\ u.rec = run[r].rec /\ u.drops = run[r].drops
      /\ u.pending = run[r].pending /\ u.kinds = run[r].kinds
  BY <1>1 DEF Pushes
<1>6. run' = [run EXCEPT ![r] = u]
  OBVIOUS
<1> HIDE DEF u
<1>7. /\ run' \in [Runs -> {IdleRun} \cup Pushes(setting', log') \cup Pulls(setting', log')]
      /\ run'[r] = u
      /\ \A q \in Runs \ {r} : run'[q] = run[q]
  BY <1>2, <1>3, <1>4, <1>6, RunTyped DEF IInv
<1>8. TypeOK'
  BY <1>2, <1>3, <1>7, TypesGrow DEF IInv, TypeOK, Ids
<1>9. Recorded'
  BY <1>2, <1>3, <1>5, <1>7, RecordedKept DEF IInv
<1>10. Sends(r)'
  BY <1>1, <1>2, <1>5, <1>7, RequestLogged DEF IInv, Sends, Host
<1>11. Ships(r)'
  <2>1. /\ \A s, i, f, v : Backed(s, run[r].out, i, f, v) => Backed(s, log', i, f, v)
        /\ \A s, i, f, v : Backed(s, log, i, f, v) => Backed(s, log', i, f, v)
    BY <1>1, <1>2, <1>3, RequestLogged, GrowsKeeps
  <2>2. Ships(r) /\ run[r].pc = "push" /\ run'[r].pc \in {"drop", "pull"}
    BY <1>5, <1>7 DEF IInv
  <2>3. /\ Export(Host[r], run[r].kinds)' = Export(Host[r], run[r].kinds)
        /\ run'[r].kinds = run[r].kinds
        /\ Host' = Host /\ Ids' = Ids /\ Fields' = Fields /\ (Merges' <=> Merges)
        /\ local' = local
    BY <1>2, <1>5, <1>7 DEF Export, Allowed, Ids, Kind, Host, Fields, Merges, MidSync
  <2>4. ASSUME Merges, NEW i \in Ids, Export(Host[r], run[r].kinds)[i] # NoData, NEW f \in Fields
        PROVE  Backed(setting, log', i, f, local[Host[r]][i][f])
    BY <2>1, <2>2, <2>4 DEF Ships
  <2> QED
    BY <1>2, <1>5, <1>7, <2>2, <2>3, <2>4 DEF Ships
<1>12. Remembers(r)'
  BY <1>2, <1>5, <1>7, RemembersOn DEF IInv
<1> QED
  BY <1>2, <1>3, <1>7, <1>8, <1>9, <1>10, <1>11, <1>12, OthersKept DEF IInv

\* A step to "failed" or "idle" that changes nothing else, but perhaps the log.
LEMMA Ends ==
  ASSUME IInv, NEW r \in Runs, NEW u, run' = [run EXCEPT ![r] = u],
         setting' = setting, Grows(log, log'), log' \in Seq(Records(setting)),
         u.pc \in {"idle", "failed"},
         u \in {IdleRun} \cup Pushes(setting, log') \cup Pulls(setting, log'),
         u.pc = "failed" => run[r].pc \notin {"idle", "collect"} /\ u.rec = run[r].rec,
         UNCHANGED <<local, journal, accepts, state, ops>>
  PROVE  IInv'
<1>1. /\ run' \in [Runs -> {IdleRun} \cup Pushes(setting', log') \cup Pulls(setting', log')]
      /\ run'[r] = u
      /\ \A q \in Runs \ {r} : run'[q] = run[q]
  BY RunTyped DEF IInv
<1>2. TypeOK'
  BY <1>1, TypesGrow DEF IInv, TypeOK, Ids
<1>3. Recorded'
  <2>1. \A q \in Runs : run'[q].pc = "idle" \/ (run[q].pc # "idle" /\ run'[q].rec = run[q].rec)
    BY <1>1
  <2> QED
    BY <2>1, RecordedKept DEF IInv
<1>4. Sends(r)' /\ Ships(r)'
  BY <1>1, Silent
<1>5. Remembers(r)'
  <2>1. CASE u.pc = "failed"
    BY <1>1, <2>1, RemembersOn DEF IInv
  <2>2. CASE u.pc = "idle"
    BY <1>1, <2>2 DEF Remembers
  <2> QED
    BY <2>1, <2>2
<1>6. local' = local /\ state' = state /\ \A d \in Devices : journal'[d] \subseteq journal[d]
  OBVIOUS
<1>7. \A q \in Runs : (Sends(q) /\ Ships(q) /\ Remembers(q))'
  BY <1>1, <1>4, <1>5, <1>6, OthersKept
<1> QED
  BY <1>2, <1>3, <1>7 DEF IInv

\* PushFails: the log has the request, or not.
LEMMA PushFailsStep ==
  ASSUME IInv, NEW r \in Runs, PushFails(r)
  PROVE  IInv'
<1> DEFINE u == [run[r] EXCEPT !.pc = "failed"]
<1>1. run[r] \in Pushes(setting, log) /\ run[r].out \in Seq(Records(setting))
  BY RunIs DEF IInv, Pushes, PushFails
<1>2. log \in Seq(Records(setting)) /\ setting' = setting
  BY DEF IInv, TypeOK, PushFails
<1>3. Grows(log, log') /\ log' \in Seq(Records(setting))
  <2>1. log' = log \/ log' = log \o run[r].out
    BY DEF PushFails
  <2>2. /\ Grows(log, log) /\ Grows(log, log \o run[r].out)
        /\ log \o run[r].out \in Seq(Records(setting))
    BY <1>1, <1>2, Joined, GrowsSame
  <2> QED
    BY <1>2, <2>1, <2>2
<1>4. u \in Pushes(setting, log') /\ u.pc = "failed" /\ u.rec = run[r].rec
  <2>1. run[r] \in Pushes(setting, log')
    BY <1>1, <1>3, TypesGrow
  <2> QED
    BY <2>1 DEF Pushes
<1>5. run' = [run EXCEPT ![r] = u] /\ run[r].pc = "push"
  BY DEF PushFails
<1>6. UNCHANGED <<local, journal, accepts, state, ops>>
  BY DEF PushFails
<1> HIDE DEF u
<1> QED
  BY <1>2, <1>3, <1>4, <1>5, <1>6, Ends

\* Drop: the journal loses what has been buried.
LEMMA DropStep ==
  ASSUME IInv, NEW r \in Runs, Drop(r)
  PROVE  IInv'
<1> DEFINE u == [run[r] EXCEPT !.pc = "pull"]
<1>1. run[r] \in Pushes(setting, log) /\ run[r].pc = "drop"
  BY RunIs DEF IInv, Drop
<1>2. setting' = setting /\ log' = log /\ local' = local /\ state' = state
  BY DEF Drop
<1>3. Grows(log, log')
  BY <1>2, GrowsSame
<1>4. /\ u \in Pushes(setting, log') /\ u.pc = "pull" /\ u.rec = run[r].rec
      /\ u.pending = run[r].pending /\ u.kinds = run[r].kinds
  BY <1>1, <1>2 DEF Pushes
<1>5. run' = [run EXCEPT ![r] = u]
  BY DEF Drop
<1> HIDE DEF u
<1>6. /\ run' \in [Runs -> {IdleRun} \cup Pushes(setting', log') \cup Pulls(setting', log')]
      /\ run'[r] = u
      /\ \A q \in Runs \ {r} : run'[q] = run[q]
  BY <1>2, <1>3, <1>4, <1>5, RunTyped DEF IInv
<1>7. journal' \in [Devices -> SUBSET Ids] /\ \A d \in Devices : journal'[d] \subseteq journal[d]
  BY DEF Drop, IInv, TypeOK
<1>8. TypeOK'
  BY <1>2, <1>6, <1>7 DEF Drop, IInv, TypeOK, Ids
<1>9. Recorded'
  BY <1>1, <1>2, <1>3, <1>4, <1>6, RecordedKept DEF IInv
<1>10. Sends(r)'
  BY <1>1, <1>2, <1>4, <1>6 DEF IInv, Sends, Host
<1>11. Ships(r)'
  <2>1. Ships(r) /\ run'[r].pc = "pull"
    BY <1>4, <1>6 DEF IInv
  <2> QED
    BY <1>1, <1>2, <1>4, <1>6, <2>1
       DEF Ships, Export, Allowed, Ids, Kind, Host, Fields, Merges, MidSync
<1>12. Remembers(r)'
  <2>1. journal'[Host[r]] \subseteq journal[Host[r]]
    BY <1>7, RunIs DEF IInv
  <2> QED
    BY <1>1, <1>2, <1>4, <1>6, <2>1, RemembersOn DEF IInv
<1> QED
  BY <1>2, <1>3, <1>6, <1>7, <1>8, <1>9, <1>10, <1>11, <1>12, OthersKept DEF IInv

\* PullFails, ApplyFails and Interrupt: the run claims nothing any more.
LEMMA FailSteps ==
  ASSUME IInv, NEW r \in Runs, PullFails(r) \/ ApplyFails(r) \/ Interrupt(r)
  PROVE  IInv'
<1>1. /\ setting' = setting /\ log' = log /\ log \in Seq(Records(setting))
      /\ UNCHANGED <<local, journal, accepts, state, ops>>
  BY DEF PullFails, ApplyFails, Interrupt, IInv, TypeOK
<1>2. Grows(log, log')
  BY <1>1, GrowsSame
<1>3. CASE PullFails(r)
  <2> DEFINE u == [run[r] EXCEPT !.pc = "failed"]
  <2>1. run[r] \in Pushes(setting, log) /\ run[r].pc = "pull" /\ run' = [run EXCEPT ![r] = u]
    BY <1>3, RunIs DEF IInv, PullFails
  <2>2. u \in Pushes(setting, log') /\ u.pc = "failed" /\ u.rec = run[r].rec
    BY <1>1, <2>1 DEF Pushes
  <2> HIDE DEF u
  <2> QED
    BY <1>1, <1>2, <2>1, <2>2, Ends
<1>4. CASE ApplyFails(r)
  <2>1. PICK k \in Upcoming(r) :
          run' = [run EXCEPT ![r].pc = "failed", ![r].deferred = @ \ {k}]
    BY <1>4 DEF ApplyFails
  <2> DEFINE u == [run[r] EXCEPT !.pc = "failed", !.deferred = @ \ {k}]
  <2>2. run[r] \in Pulls(setting, log) /\ run[r].pc = "apply" /\ run' = [run EXCEPT ![r] = u]
    BY <1>4, <2>1, RunIs DEF IInv, ApplyFails, TypeOK
  <2>3. u \in Pulls(setting, log') /\ u.pc = "failed" /\ u.rec = run[r].rec
    BY <1>1, <2>2 DEF Pulls
  <2> HIDE DEF u
  <2> QED
    BY <1>1, <1>2, <2>2, <2>3, Ends
<1>5. CASE Interrupt(r)
  <2>1. run' = [run EXCEPT ![r] = IdleRun] /\ IdleRun.pc = "idle"
    BY <1>5 DEF Interrupt, IdleRun
  <2> QED
    BY <1>1, <1>2, <2>1, Ends
<1> QED
  BY <1>3, <1>4, <1>5

-------------------------------------------------------------------------------
(***************************************************************************)
(* Begin, Collect and Pull.                                                *)
(***************************************************************************)

\* The values of a function on a finite set.
LEMMA FiniteImage ==
  ASSUME NEW S, IsFiniteSet(S), NEW g, DOMAIN g = S
  PROVE  IsFiniteSet({g[x] : x \in S})
<1> DEFINE T == {g[x] : x \in S}
           h == [x \in S |-> g[x]]
<1>1. h \in [S -> T] /\ \A t \in T : \E x \in S : h[x] = t
  OBVIOUS
<1>2. h \in Surjection(S, T)
  BY <1>1 DEF Surjection
<1> QED
  BY <1>2, FS_Surjection

\* Begin: whatever the device has is in the log, or in the request.
LEMMA BeginStep ==
  ASSUME IInv, NEW r \in Runs, Begin(r)
  PROVE  IInv'
<1> DEFINE d == Host[r]
           rec == state[d].rec
           data == Export(d, accepts[d])
           changed == {i \in Ids : /\ data[i] # NoData
                                   /\ PayloadAllowed(accepts[d], i)
                                   /\ Unpushed(rec[i], data[i])}
           pushed == [i \in changed |-> Changed(d, i, rec[i], data[i])]
           req == SetToSeq({pushed[i] : i \in changed})
           pend == [i \in changed |-> EntryOf(pushed[i])]
           u == [pc |-> "collect", kinds |-> accepts[d], rec |-> rec,
                 cursor |-> state[d].cursor, deferred |-> state[d].deferred,
                 out |-> req, pending |-> pend, drops |-> {}]
<1>1. /\ run[r].pc = "idle" /\ run' = [run EXCEPT ![r] = u]
      /\ UNCHANGED <<setting, local, journal, accepts, state, log, ops, faults>>
  BY DEF Begin
<1>2. d \in Devices /\ setting \in Settings /\ log \in Seq(Records(setting))
  BY RunIs DEF IInv, TypeOK
<1>3. /\ rec \in [Ids -> Entries(setting)]
      /\ state[d].cursor \in Nat /\ state[d].deferred \in SUBSET (DOMAIN log)
      /\ accepts[d] \in SUBSET Kinds
      /\ \A i \in Ids : data[i] # NoData => data[i] = local[d][i] /\ data[i] \in Data(setting)
  <2>1. state[d] \in States(setting, log) /\ accepts[d] \in SUBSET Kinds
        /\ local[d] \in [Ids -> Data(setting) \cup {NoData}]
    BY <1>2 DEF IInv, TypeOK
  <2>2. /\ rec \in [Ids -> Entries(setting)]
        /\ state[d].cursor \in Nat /\ state[d].deferred \in SUBSET (DOMAIN log)
    BY <2>1 DEF States, Ids
  <2>3. ASSUME NEW i \in Ids, data[i] # NoData
        PROVE  data[i] = local[d][i] /\ data[i] \in Data(setting)
    BY <2>1, <2>3 DEF Export
  <2> QED
    BY <2>1, <2>2, <2>3
<1>4. /\ changed \subseteq Ids
      /\ \A i \in changed : data[i] \in Data(setting) /\ rec[i] \in Entries(setting)
  BY <1>3
<1> HIDE DEF changed, data, rec, d
<1>5. ASSUME NEW i \in changed
      PROVE  /\ pushed[i] \in Records(setting)
             /\ pushed[i].id = i /\ ~pushed[i].tomb /\ pushed[i].data = data[i]
  BY <1>2, <1>4, <1>5, ChangedIs
<1>6. /\ DOMAIN pushed = changed /\ DOMAIN pend = changed
      /\ \A i \in changed : pend[i] = EntryOf(pushed[i])
  OBVIOUS
<1> HIDE DEF pushed
<1>7. pend \in Pendings(setting)
  <2>1. \A i \in changed : pend[i] \in Entries(setting)
    BY <1>2, <1>5, <1>6, EntryOfIs
  <2>2. changed \in SUBSET setting.ids
    BY <1>4 DEF Ids
  <2>3. pend \in [changed -> Entries(setting)]
    BY <2>1
  <2> QED
    BY <2>2, <2>3 DEF Pendings
<1>8. /\ req \in Seq(Records(setting))
      /\ \A i \in changed : \E n \in DOMAIN req : req[n] = pushed[i]
  <2>1. IsFiniteSet(changed)
    BY <1>2, <1>4, SettingIs, FS_Subset
  <2>2. IsFiniteSet({pushed[i] : i \in changed})
    BY <1>6, <2>1, FiniteImage
  <2>3. {pushed[i] : i \in changed} \subseteq Records(setting)
    BY <1>5
  <2> QED
    BY <2>2, <2>3, Listed
<1> HIDE DEF req, pend
<1>9. u \in Pushes(setting, log)
  BY <1>3, <1>7, <1>8 DEF Pushes, Ids
<1>10. /\ u.pc = "collect" /\ u.kinds = accepts[d] /\ u.rec = rec /\ u.out = req
       /\ u.pending = pend /\ u.drops = {}
  OBVIOUS
<1> HIDE DEF u
<1>11. setting' = setting /\ log' = log /\ Grows(log, log') /\ local' = local /\ state' = state
       /\ \A e \in Devices : journal'[e] \subseteq journal[e]
  BY <1>1, GrowsSame
<1>12. /\ run' \in [Runs -> {IdleRun} \cup Pushes(setting', log') \cup Pulls(setting', log')]
       /\ run'[r] = u
       /\ \A q \in Runs \ {r} : run'[q] = run[q]
  BY <1>1, <1>9, <1>11, RunTyped DEF IInv
<1>13. TypeOK'
  BY <1>1, <1>12 DEF IInv, TypeOK, Ids
<1>14. Recorded'
  <2>1. \A i \in Ids : Own(setting, i) => EntryOK(setting, log, i, rec[i])
    BY <1>2 DEF IInv, Recorded, rec
  <2>2. \A q \in Runs : run'[q].rec = rec \/ (q # r /\ run'[q] = run[q])
    BY <1>10, <1>12
  <2> QED
    BY <1>11, <2>1, <2>2 DEF IInv, Recorded, Ids
<1>15. Sends(r)'
  <2>1. ASSUME NEW i \in changed PROVE Holds(req, i, pend[i])
    BY <1>5, <1>6, <1>8, <2>1 DEF Holds
  <2> QED
    BY <1>6, <1>10, <1>12, <2>1 DEF Sends
<1>16. Ships(r)'
  <2>1. ASSUME Merges, NEW i \in Ids, data[i] # NoData, NEW f \in Fields
        PROVE  \/ Backed(setting, log, i, f, local[d][i][f])
               \/ Backed(setting, req, i, f, local[d][i][f])
    <3>1. CASE i \in changed
      <4>1. PICK n \in DOMAIN req : req[n] = pushed[i]
        BY <1>8, <3>1
      <4> QED
        BY <1>3, <1>5, <2>1, <3>1, <4>1 DEF Backed
    <3>2. CASE i \notin changed
      <4>1. data[i] = rec[i].hash /\ data[i] \in Data(setting) /\ data[i] = local[d][i]
        BY <1>3, <2>1, <3>2 DEF changed, PayloadAllowed, Unpushed, Merges
      <4>2. EntryOK(setting, log, i, rec[i])
        BY <1>2, <2>1 DEF IInv, Recorded, rec, Own, Merges, Kind, Ids
      <4>3. Backed(setting, log, i, f, rec[i].hash[f])
        BY <4>1, <4>2, <2>1 DEF EntryOK, Merges, MidSync, Fields
      <4> QED
        BY <4>1, <4>3
    <3> QED
      BY <3>1, <3>2
  <2>2. /\ Host'[r] = d /\ Ids' = Ids /\ Fields' = Fields /\ (Merges' <=> Merges)
    BY <1>10, <1>11, <1>12 DEF Export, Allowed, Ids, Kind, Host, Fields, Merges, MidSync, data, d
  <2>3. Export(Host[r], run[r].kinds)' = data
    BY <1>10, <1>11, <1>12 DEF Export, Allowed, Ids, Kind, Host, data, d
  <2> QED
    BY <1>10, <1>11, <1>12, <2>1, <2>2, <2>3 DEF Ships
<1>17. Remembers(r)'
  BY <1>10, <1>11, <1>12 DEF Remembers, Host, rec, d
<1>18. \A q \in Runs : (Sends(q) /\ Ships(q) /\ Remembers(q))'
  BY <1>11, <1>12, <1>15, <1>16, <1>17, OthersKept
<1> QED
  BY <1>13, <1>14, <1>18 DEF IInv

\* Collect: so are the tombstones of what the journal keeps.
LEMMA CollectStep ==
  ASSUME IInv, NEW r \in Runs, Collect(r)
  PROVE  IInv'
<1> DEFINE d == Host[r]
           drops == {i \in journal[d] : Known(run[r].rec[i])}
           graves == [i \in drops |-> Removed(d, i, run[r].rec[i])]
           tail == SetToSeq({graves[i] : i \in drops})
           req == run[r].out \o tail
           dead == [i \in drops |-> EntryOf(graves[i])]
           pend == OnTop(dead, run[r].pending)
           u == [run[r] EXCEPT !.pc = IF req = <<>> THEN "pull" ELSE "push", !.out = req,
                               !.pending = pend, !.drops = drops]
<1>1. /\ run[r].pc = "collect" /\ journal' = [journal EXCEPT ![d] = drops]
      /\ UNCHANGED <<setting, local, accepts, state, log, ops, faults>>
  BY DEF Collect
<1>2. /\ d \in Devices /\ setting \in Settings /\ log \in Seq(Records(setting))
      /\ run[r] \in Pushes(setting, log) /\ journal[d] \in SUBSET Ids
      /\ run \in [Runs -> {IdleRun} \cup Pushes(setting, log) \cup Pulls(setting, log)]
  BY <1>1, RunIs DEF IInv, TypeOK
<1>3. run' = [run EXCEPT ![r] = u]
  BY <1>2 DEF Collect
<1>4. /\ run[r].out \in Seq(Records(setting)) /\ run[r].rec \in [Ids -> Entries(setting)]
      /\ run[r].pending \in Pendings(setting)
      /\ drops \subseteq Ids
  BY <1>2 DEF Pushes, Ids
<1> HIDE DEF d, drops
<1>5. ASSUME NEW i \in drops
      PROVE  /\ graves[i] \in Records(setting)
             /\ graves[i].id = i /\ graves[i].tomb /\ graves[i].dev = d
  BY <1>2, <1>4, <1>5, RemovedIs
<1>6. /\ DOMAIN graves = drops
      /\ DOMAIN dead = drops /\ \A i \in drops : dead[i] = EntryOf(graves[i])
  OBVIOUS
<1> HIDE DEF graves
<1>7. /\ tail \in Seq(Records(setting))
      /\ \A i \in drops : \E n \in DOMAIN tail : tail[n] = graves[i]
  <2>1. IsFiniteSet(drops)
    BY <1>2, <1>4, SettingIs, FS_Subset
  <2>2. IsFiniteSet({graves[i] : i \in drops})
    BY <1>6, <2>1, FiniteImage
  <2>3. {graves[i] : i \in drops} \subseteq Records(setting)
    BY <1>5
  <2> QED
    BY <2>2, <2>3, Listed
<1> HIDE DEF tail
<1>8. req \in Seq(Records(setting)) /\ Grows(run[r].out, req)
  BY <1>4, <1>7, Joined
<1>9. \A i \in drops : Holds(req, i, dead[i]) /\ Buries(req, i, d)
  <2>1. \A i \in drops : Holds(tail, i, dead[i]) /\ Buries(tail, i, d)
    BY <1>5, <1>6, <1>7 DEF Holds, Buries
  <2> QED
    BY <1>4, <1>7, <2>1, RequestLogged
<1> HIDE DEF dead, req
<1>10. /\ DOMAIN pend = drops \cup DOMAIN run[r].pending
       /\ \A i \in drops : pend[i] = dead[i]
       /\ \A i \in DOMAIN run[r].pending \ drops : pend[i] = run[r].pending[i]
       /\ pend = [i \in DOMAIN pend |-> pend[i]]
  BY <1>6 DEF OnTop
<1> HIDE DEF pend
<1>11. \A i \in DOMAIN pend : Holds(req, i, pend[i])
  <2>1. \A i \in DOMAIN run[r].pending : Holds(run[r].out, i, run[r].pending[i])
    BY <1>1 DEF IInv, Sends
  <2>2. \A i \in DOMAIN run[r].pending : Holds(req, i, run[r].pending[i])
    BY <1>8, <2>1, GrowsKeeps
  <2> QED
    BY <1>9, <1>10, <2>2
<1>12. pend \in Pendings(setting)
  <2>1. \A i \in DOMAIN pend : pend[i] \in Entries(setting) /\ i \in setting.ids
    <3>1. ASSUME NEW i \in DOMAIN pend PROVE pend[i] \in Entries(setting) /\ i \in Ids
      <4>1. PICK k \in DOMAIN req : req[k].id = i /\ pend[i] = EntryOf(req[k])
        BY <1>11, <3>1 DEF Holds
      <4>2. req[k] \in Records(setting)
        BY <1>8
      <4> QED
        BY <1>2, <4>1, <4>2, EntryOfIs, RecordIs
    <3> QED
      BY <3>1 DEF Ids
  <2>2. pend \in [DOMAIN pend -> Entries(setting)] /\ DOMAIN pend \in SUBSET setting.ids
    BY <1>10, <2>1
  <2> QED
    BY <2>2 DEF Pendings
<1>13. u \in Pushes(setting, log)
  BY <1>2, <1>4, <1>8, <1>12 DEF Pushes, Ids
<1>14. /\ u.pc = (IF req = <<>> THEN "pull" ELSE "push") /\ u.kinds = run[r].kinds
       /\ u.rec = run[r].rec /\ u.out = req /\ u.pending = pend /\ u.drops = drops
  BY <1>2 DEF Pushes
<1> HIDE DEF u
<1>15. setting' = setting /\ log' = log /\ Grows(log, log') /\ local' = local /\ state' = state
  BY <1>1, GrowsSame
<1>16. /\ journal' \in [Devices -> SUBSET Ids]
       /\ journal'[d] = drops
       /\ \A e \in Devices : journal'[e] \subseteq journal[e]
  <2>1. journal \in [Devices -> SUBSET Ids] /\ drops \subseteq journal[d]
    BY DEF IInv, TypeOK, drops
  <2> QED
    BY <1>1, <1>2, <1>4, <2>1
<1>17. /\ run' \in [Runs -> {IdleRun} \cup Pushes(setting', log') \cup Pulls(setting', log')]
       /\ run'[r] = u
       /\ \A q \in Runs \ {r} : run'[q] = run[q]
  BY <1>3, <1>13, <1>15, RunTyped DEF IInv
<1>18. TypeOK'
  BY <1>1, <1>16, <1>17 DEF IInv, TypeOK, Ids
<1>19. Recorded'
  BY <1>1, <1>14, <1>15, <1>17, RecordedKept DEF IInv
<1>20. req = <<>> =>
         /\ DOMAIN pend = {}
         /\ \A i, f, v : Backed(setting, req, i, f, v) => Backed(setting, log, i, f, v)
  BY <1>11 DEF Holds, Backed
<1>21. Sends(r)'
  BY <1>9, <1>11, <1>14, <1>15, <1>17, <1>20 DEF Sends, Host, d
<1>22. Ships(r)'
  <2>1. ASSUME Merges, NEW i \in Ids, Export(d, run[r].kinds)[i] # NoData, NEW f \in Fields
        PROVE  \/ Backed(setting, log, i, f, local[d][i][f])
               \/ Backed(setting, req, i, f, local[d][i][f])
    <3>1. \/ Backed(setting, log, i, f, local[d][i][f])
          \/ Backed(setting, run[r].out, i, f, local[d][i][f])
      BY <1>1, <2>1 DEF IInv, Ships, d
    <3> QED
      BY <1>8, <3>1, GrowsKeeps
  <2>2. /\ Export(Host[r], run[r].kinds)' = Export(d, run[r].kinds)
        /\ Host'[r] = d /\ Ids' = Ids /\ Fields' = Fields /\ (Merges' <=> Merges)
    BY <1>14, <1>15, <1>17 DEF Export, Allowed, Ids, Kind, Host, Fields, Merges, MidSync, d
  <2> QED
    BY <1>14, <1>15, <1>17, <1>20, <2>1, <2>2 DEF Ships
<1>23. Remembers(r)'
  <2>1. ~MidSync => \A i \in drops : Known(run[r].rec[i]) <=> Known(state[d].rec[i])
    BY <1>1 DEF IInv, Remembers, drops, d
  <2>2. \A i \in drops : Known(run[r].rec[i])
    BY DEF drops
  <2> QED
    BY <1>14, <1>15, <1>16, <1>17, <2>1, <2>2 DEF Remembers, Host, MidSync, d
<1>24. \A q \in Runs : (Sends(q) /\ Ships(q) /\ Remembers(q))'
  BY <1>15, <1>16, <1>17, <1>21, <1>22, <1>23, OthersKept
<1> QED
  BY <1>18, <1>19, <1>24 DEF IInv

\* Pull: the run has a copy of the data, all of which the log backs.
LEMMA PullStep ==
  ASSUME IInv, NEW r \in Runs, Pull(r)
  PROVE  IInv'
<1> DEFINE d == Host[r]
           data == Export(d, run[r].kinds)
           u == [pc |-> "apply", kinds |-> run[r].kinds, rec |-> run[r].rec,
                 pending |-> run[r].pending, deferred |-> run[r].deferred,
                 cursor |-> run[r].cursor, old |-> run[r].deferred, new |-> Response(r),
                 next |-> Len(log), data |-> data]
<1>1. /\ run[r].pc = "pull" /\ run' = [run EXCEPT ![r] = u]
      /\ UNCHANGED <<setting, local, journal, accepts, state, log, ops, faults>>
  BY DEF Pull
<1>2. /\ d \in Devices /\ setting \in Settings /\ log \in Seq(Records(setting))
      /\ run[r] \in Pushes(setting, log)
  BY <1>1, RunIs DEF IInv, TypeOK
<1>3. /\ data \in [Ids -> Data(setting) \cup {NoData}]
      /\ \A i \in Ids : data[i] # NoData => data[i] = local[d][i]
  BY <1>2 DEF IInv, TypeOK, Export
<1>4. Response(r) \subseteq DOMAIN log /\ Len(log) \in Nat
  BY <1>2 DEF Response, Pushes
<1> HIDE DEF data, d
<1>5. u \in Pulls(setting, log)
  BY <1>2, <1>3, <1>4 DEF Pushes, Pulls, Ids
<1>6. /\ u.pc = "apply" /\ u.kinds = run[r].kinds /\ u.rec = run[r].rec /\ u.data = data
      /\ u.pending = run[r].pending
  OBVIOUS
<1> HIDE DEF u
<1>7. setting' = setting /\ log' = log /\ Grows(log, log') /\ local' = local /\ state' = state
       /\ \A e \in Devices : journal'[e] \subseteq journal[e]
  BY <1>1, GrowsSame
<1>8. /\ run' \in [Runs -> {IdleRun} \cup Pushes(setting', log') \cup Pulls(setting', log')]
      /\ run'[r] = u
      /\ \A q \in Runs \ {r} : run'[q] = run[q]
  BY <1>1, <1>5, <1>7, RunTyped DEF IInv
<1>9. TypeOK'
  BY <1>1, <1>8 DEF IInv, TypeOK, Ids
<1>10. Recorded'
  BY <1>1, <1>6, <1>7, <1>8, RecordedKept DEF IInv
<1>11. Sends(r)'
  BY <1>1, <1>6, <1>7, <1>8 DEF IInv, Sends
<1>12. Ships(r)'
  <2>1. ASSUME Merges, NEW i \in Ids, data[i] # NoData, NEW f \in Fields
        PROVE  Backed(setting, log, i, f, local[d][i][f])
    BY <1>1, <2>1 DEF IInv, Ships, data, d
  <2>2. /\ Export(Host[r], run[r].kinds)' = data
        /\ Host'[r] = d /\ Ids' = Ids /\ Fields' = Fields /\ (Merges' <=> Merges)
    BY <1>6, <1>7, <1>8 DEF Export, Allowed, Ids, Kind, Host, Fields, Merges, MidSync, data, d
  <2> QED
    BY <1>3, <1>6, <1>7, <1>8, <2>1, <2>2 DEF Ships
<1>13. Remembers(r)'
  <2>1. d \in Devices /\ journal'[d] \subseteq journal[d] /\ state'[d] = state[d]
    BY <1>2, <1>7
  <2> QED
    BY <1>1, <1>6, <1>7, <1>8, <2>1, RemembersOn DEF IInv, d
<1>14. \A q \in Runs : (Sends(q) /\ Ships(q) /\ Remembers(q))'
  BY <1>7, <1>8, <1>11, <1>12, <1>13, OthersKept
<1> QED
  BY <1>9, <1>10, <1>14 DEF IInv

-------------------------------------------------------------------------------
(***************************************************************************)
(* What pull applies.                                                      *)
(***************************************************************************)

\* The merge of a record: each field comes with its clock, from one side; what the clock of
\* that side has for missing is left out.
LEMMA Merged ==
  ASSUME setting \in Settings, NEW l \in Seq(Records(setting)), NEW k \in DOMAIN l, ~l[k].tomb,
         NEW e \in Entries(setting), EntryOK(setting, l, l[k].id, e),
         NEW mine \in Data(setting),
         ~MidSync => \A f \in Fields : Backed(setting, l, l[k].id, f, mine[f])
  PROVE  LET data   == MergeData(e.fields, l[k].fields, mine, l[k].data)
             fields == MergeClocks(e.fields, l[k].fields)
         IN  /\ data \in Data(setting)
             /\ fields \in [Fields -> Clocks \cup {NoClock}]
             /\ \A f \in Fields :
                  /\ fields[f] # NoClock => Backed(setting, l, l[k].id, f, fields[f].val)
                  /\ \/ Backed(setting, l, l[k].id, f, data[f])
                     \/ MidSync /\ fields[f] # NoClock /\ fields[f].val # data[f]
                  /\ ~MidSync => Backed(setting, l, l[k].id, f, data[f])
<1> DEFINE m == l[k]
           data   == MergeData(e.fields, m.fields, mine, m.data)
           fields == MergeClocks(e.fields, m.fields)
           remote(f) == UseRemote(e.fields[f], m.fields[f])
           lacks(f) == fields[f] = NoClock \/ Omits(f, fields[f].val)
<1>1. m \in Records(setting)
  OBVIOUS
<1>2. \A f \in Fields : Backed(setting, l, m.id, f, m.data[f])
  BY LoggedIsBacked
<1>3. ~m.tomb
  OBVIOUS
<1>e. /\ EntryOK(setting, l, m.id, e)
      /\ ~MidSync => \A f \in Fields : Backed(setting, l, m.id, f, mine[f])
  OBVIOUS
<1> HIDE DEF m
<1>4. /\ m.data \in [Fields -> Nat] /\ m.fields \in [Fields -> Clocks \cup {NoClock}]
      /\ \A f \in Fields : ClockOf(setting, f, m.data[f], m.fields[f])
  BY <1>1, <1>3, RecordIs DEF Data, Fields
<1>5. e.fields \in [Fields -> Clocks \cup {NoClock}] /\ mine \in [Fields -> Nat]
  BY DEF Entries, Data, Fields
<1>6. MidSync \in BOOLEAN
  BY SettingIs
<1>7. \A f \in Fields : ~remote(f) => e.fields[f] # NoClock
  BY DEF UseRemote
<1>8. \A f \in Fields : /\ fields[f] = IF remote(f) THEN m.fields[f] ELSE e.fields[f]
                        /\ data[f] = IF lacks(f) THEN 0
                                      ELSE IF remote(f) THEN m.data[f] ELSE mine[f]
  BY DEF MergeData, MergeClocks
<1>9. DOMAIN data = Fields /\ DOMAIN fields = Fields
      /\ data = [f \in Fields |-> data[f]] /\ fields = [f \in Fields |-> fields[f]]
  BY DEF MergeData, MergeClocks
<1>n. \A f \in Fields : lacks(f) /\ fields[f] # NoClock => fields[f].val = 0
  BY DEF Omits
<1>d. \A f \in Fields : fields[f] = NoClock => lacks(f)
  OBVIOUS
<1> HIDE DEF data, fields, remote, lacks
<1>10. ASSUME NEW f \in Fields
       PROVE  /\ data[f] \in Nat /\ fields[f] \in Clocks \cup {NoClock}
              /\ fields[f] # NoClock => Backed(setting, l, m.id, f, fields[f].val)
              /\ \/ Backed(setting, l, m.id, f, data[f])
                 \/ MidSync /\ fields[f] # NoClock /\ fields[f].val # data[f]
              /\ ~MidSync => Backed(setting, l, m.id, f, data[f])
  <2>1. CASE remote(f)
    <3>1. fields[f] = m.fields[f] /\ ClockOf(setting, f, m.data[f], fields[f])
      BY <1>4, <1>8, <1>10, <2>1
    <3>2. lacks(f) => m.data[f] = 0
      BY <1>n, <1>10, <3>1 DEF ClockOf
    <3>3. data[f] = m.data[f]
      BY <1>8, <1>10, <2>1, <3>2
    <3>4. fields[f] # NoClock => fields[f].val = m.data[f]
      BY <3>1 DEF ClockOf
    <3> QED
      BY <1>2, <1>4, <1>10, <3>1, <3>3, <3>4
  <2>2. CASE ~remote(f)
    <3>1. fields[f] = e.fields[f] /\ e.fields[f] # NoClock
      BY <1>7, <1>8, <1>10, <2>2
    <3>2. Backed(setting, l, m.id, f, e.fields[f].val)
      BY <1>e, <1>10, <3>1 DEF EntryOK, Fields
    <3>3. ~MidSync => Backed(setting, l, m.id, f, mine[f])
      BY <1>e, <1>10
    <3>4. CASE lacks(f)
      <4>1. data[f] = 0 /\ fields[f].val = 0
        BY <1>8, <1>n, <1>10, <3>1, <3>4
      <4> QED
        BY <1>5, <1>10, <3>1, <3>2, <4>1
    <3>5. CASE ~lacks(f)
      <4>1. data[f] = mine[f]
        BY <1>8, <1>10, <2>2, <3>5
      <4> QED
        BY <1>5, <1>6, <1>10, <3>1, <3>2, <3>3, <4>1
    <3> QED
      BY <3>4, <3>5
  <2> QED
    BY <2>1, <2>2
<1>11. data \in Data(setting) /\ fields \in [Fields -> Clocks \cup {NoClock}]
  BY <1>9, <1>10 DEF Data, Fields
<1> QED
  BY <1>10, <1>11 DEF data, fields, m

\* The entry for a version that is taken, or merged.
LEMMA Known2 ==
  ASSUME setting \in Settings, NEW e \in Entries(setting), NEW m \in Records(setting),
         CompareVectors(e.vector, m.vector) \in {"before", "concurrent"}
  PROVE  MergeVectors(e.vector, m.vector) \in Vectors \ {NoVector}
BY MergeIsKnown, RecordIs DEF Entries

\* A step of pull: one record less, and an entry that is as good.
LEMMA Applied ==
  ASSUME IInv, NEW r \in Runs, run[r].pc = "apply",
         NEW u \in Pulls(setting, log), run' = [run EXCEPT ![r] = u],
         UNCHANGED <<setting, journal, accepts, state, log, ops>>,
         u.pc = "apply", u.kinds = run[r].kinds, u.pending = run[r].pending,
         \A i \in Ids :
           \/ u.rec[i] = run[r].rec[i]
           \/ /\ Known(u.rec[i])
              /\ Own(setting, i) => EntryOK(setting, log, i, u.rec[i])
              /\ Known(run[r].rec[i]) \/ i \notin journal[Host[r]] \/ MidSync,
         Merges => \A i \in Ids :
           \/ u.data[i] = run[r].data[i]
           \/ u.data[i] = NoData
           \/ \A f \in Fields : Backed(setting, log, i, f, u.data[i][f]),
         local' \in [Devices -> [Ids -> Data(setting) \cup {NoData}]],
         \A d \in Devices \ {Host[r]} : local'[d] = local[d],
         \A i \in Ids :
           \/ local'[Host[r]][i] = local[Host[r]][i]
           \/ /\ local'[Host[r]][i] = u.data[i]
              /\ Merges => \A f \in Fields : Backed(setting, log, i, f, u.data[i][f])
           \/ local'[Host[r]][i] = NoData
  PROVE  IInv'
<1> DEFINE d == Host[r]
<1>1. /\ d \in Devices /\ setting \in Settings
      /\ setting' = setting /\ log' = log /\ Grows(log, log')
      /\ state' = state /\ journal' = journal
  BY RunIs, GrowsSame DEF IInv, TypeOK
<1>2. /\ run' \in [Runs -> {IdleRun} \cup Pushes(setting', log') \cup Pulls(setting', log')]
      /\ run'[r] = u
      /\ \A q \in Runs \ {r} : run'[q] = run[q]
  BY <1>1, RunTyped DEF IInv
<1>3. TypeOK'
  BY <1>1, <1>2 DEF IInv, TypeOK, Ids
<1>4. Recorded'
  <2>1. ASSUME NEW i \in Ids, Own(setting, i) PROVE EntryOK(setting, log, i, u.rec[i])
    <3>1. EntryOK(setting, log, i, run[r].rec[i])
      BY <2>1 DEF IInv, Recorded
    <3> QED
      BY <2>1, <3>1
  <2> QED
    BY <1>1, <1>2, <2>1 DEF IInv, Recorded, Ids
<1>5. ASSUME NEW q \in Runs \ {r} PROVE Sends(q)' /\ Ships(q)' /\ Remembers(q)'
  <2>1. Sends(q) /\ Ships(q) /\ Remembers(q) /\ Host[q] \in Devices /\ run'[q] = run[q]
    BY <1>2, RunIs DEF IInv
  <2>2. Merges => \A i \in Ids :
           \/ local'[Host[q]][i] = local[Host[q]][i]
           \/ local'[Host[q]][i] = NoData
           \/ \A f \in Fields : Backed(setting, log', i, f, local'[Host[q]][i][f])
    <3>1. CASE Host[q] = d
      BY <1>1, <3>1
    <3>2. CASE Host[q] # d
      BY <2>1, <3>2
    <3> QED
      BY <3>1, <3>2
  <2>3. Sends(q)'
    BY <1>1, <2>1, SendsKept
  <2>4. Ships(q)'
    BY <1>1, <2>1, <2>2, ShipsKept
  <2>5. Remembers(q)'
    BY <1>1, <2>1, RemembersKept
  <2> QED
    BY <2>3, <2>4, <2>5
<1>6. Sends(r)'
  BY <1>1, <1>2 DEF IInv, Sends
<1>7. Ships(r)'
  <2> DEFINE was == Export(d, run[r].kinds)
             now == Export(d, run[r].kinds)'
  <2>1. \A i \in Ids : now[i] # NoData =>
          \/ was[i] # NoData /\ local'[d][i] = local[d][i]
          \/ Merges => \A f \in Fields : Backed(setting, log, i, f, local'[d][i][f])
    BY <1>1, <1>2 DEF Export, Allowed, Ids, Kind, Host
  <2>2. /\ Export(Host[r], run[r].kinds)' = now
        /\ Host'[r] = d /\ Ids' = Ids /\ Fields' = Fields /\ (Merges' <=> Merges)
    BY <1>1 DEF Ids, Host, Fields, Merges, MidSync, Kind
  <2>3. /\ Merges => \A i \in Ids : was[i] # NoData =>
               \A f \in Fields : Backed(setting, log, i, f, local[d][i][f])
        /\ Merges => \A i \in Ids : run[r].data[i] # NoData =>
               \A f \in Fields : Backed(setting, log, i, f, run[r].data[i][f])
    BY DEF IInv, Ships
  <2> HIDE DEF was, now, d
  <2>4. ASSUME Merges, NEW i \in Ids, now[i] # NoData, NEW f \in Fields
        PROVE  Backed(setting, log, i, f, local'[d][i][f])
    BY <2>1, <2>3, <2>4
  <2>5. ASSUME Merges, NEW i \in Ids, u.data[i] # NoData, NEW f \in Fields
        PROVE  Backed(setting, log, i, f, u.data[i][f])
    BY <2>3, <2>5
  <2> QED
    BY <1>1, <1>2, <2>2, <2>4, <2>5 DEF Ships
<1>8. Remembers(r)'
  <2>1. ~MidSync => \A i \in journal[d] :
          /\ Known(run[r].rec[i]) <=> Known(state[d].rec[i])
          /\ Known(run[r].rec[i])
    BY DEF IInv, Remembers
  <2>2. ~MidSync => \A i \in journal[d] :
          /\ Known(u.rec[i]) <=> Known(state[d].rec[i])
          /\ Known(u.rec[i])
    <3>1. journal[d] \subseteq Ids
      BY <1>1 DEF IInv, TypeOK
    <3> QED
      BY <2>1, <3>1
  <2> QED
    BY <1>1, <1>2, <2>2 DEF Remembers, Host, MidSync
<1> QED
  BY <1>3, <1>4, <1>5, <1>6, <1>7, <1>8 DEF IInv


\* The record of the run, and the version, that a step of pull is about.
LEMMA UpcomingIs ==
  ASSUME IInv, NEW r \in Runs, run[r].pc = "apply", NEW k \in Upcoming(r)
  PROVE  /\ run[r] \in Pulls(setting, log) /\ Host[r] \in Devices
         /\ setting \in Settings /\ log \in Seq(Records(setting))
         /\ k \in DOMAIN log /\ log[k] \in Records(setting) /\ log[k].id \in Ids
         /\ run[r].rec[log[k].id] \in Entries(setting)
         /\ run[r].data[log[k].id] \in Data(setting) \cup {NoData}
         /\ Wanted(r, k) =>
              MergeVectors(run[r].rec[log[k].id].vector, log[k].vector) \in Vectors \ {NoVector}
         /\ Known(run[r].rec[log[k].id]) \/ log[k].id \notin journal[Host[r]] \/ MidSync
<1>1. /\ run[r] \in Pulls(setting, log) /\ Host[r] \in Devices
      /\ setting \in Settings /\ log \in Seq(Records(setting))
  BY RunIs DEF IInv, TypeOK
<1>2. k \in DOMAIN log
  BY <1>1 DEF Upcoming, Pulls
<1>3. log[k] \in Records(setting) /\ log[k].id \in Ids
  BY <1>1, <1>2, RecordIs
<1>4. /\ run[r].rec[log[k].id] \in Entries(setting)
      /\ run[r].data[log[k].id] \in Data(setting) \cup {NoData}
  BY <1>1, <1>3 DEF Pulls, Ids
<1>5. Wanted(r, k) =>
        MergeVectors(run[r].rec[log[k].id].vector, log[k].vector) \in Vectors \ {NoVector}
  BY <1>1, <1>3, <1>4, Known2 DEF Wanted, Relation
<1>6. Known(run[r].rec[log[k].id]) \/ log[k].id \notin journal[Host[r]] \/ MidSync
  BY DEF IInv, Remembers
<1> QED
  BY <1>1, <1>2, <1>3, <1>4, <1>5, <1>6

\* A version that is passed over.
LEMMA PassedOver ==
  ASSUME IInv, NEW r \in Runs, run[r].pc = "apply", NEW k \in Upcoming(r),
         NEW later \in SUBSET (DOMAIN log),
         run' = [run EXCEPT ![r] = Take(r, k, later)],
         UNCHANGED <<setting, local, journal, accepts, state, log, ops>>
  PROVE  IInv'
<1> DEFINE u == Take(r, k, later)
<1>1. run[r] \in Pulls(setting, log)
  BY UpcomingIs
<1>2. u \in Pulls(setting, log)
  BY <1>1 DEF Take, Pulls
<1>3. /\ u.pc = "apply" /\ u.kinds = run[r].kinds /\ u.pending = run[r].pending
      /\ u.rec = run[r].rec /\ u.data = run[r].data
  BY <1>1 DEF Take, Pulls
<1>4. local' \in [Devices -> [Ids -> Data(setting) \cup {NoData}]] /\ local' = local
  BY DEF IInv, TypeOK
<1>5. run' = [run EXCEPT ![r] = u]
  OBVIOUS
<1> HIDE DEF u
<1> QED
  BY <1>2, <1>3, <1>4, <1>5, Applied

\* A version that gives record i an entry, and perhaps other data.
LEMMA TakenOver ==
  ASSUME IInv, NEW r \in Runs, run[r].pc = "apply", NEW k \in Upcoming(r),
         NEW i \in Ids, NEW e \in Entries(setting), NEW data \in Data(setting) \cup {NoData},
         run' = [run EXCEPT ![r] =
                   [Take(r, k, run[r].deferred \ {k}) EXCEPT !.data[i] = data, !.rec[i] = e]],
         local' = [local EXCEPT ![Host[r]][i] = data],
         UNCHANGED <<setting, journal, accepts, state, log, ops>>,
         Known(e), Own(setting, i) => EntryOK(setting, log, i, e),
         Known(run[r].rec[i]) \/ i \notin journal[Host[r]] \/ MidSync,
         Merges /\ data # NoData => \A f \in Fields : Backed(setting, log, i, f, data[f])
  PROVE  IInv'
<1> DEFINE d == Host[r]
           u == [Take(r, k, run[r].deferred \ {k}) EXCEPT !.data[i] = data, !.rec[i] = e]
<1>1. run[r] \in Pulls(setting, log) /\ d \in Devices
  BY UpcomingIs
<1>2. u \in Pulls(setting, log)
  BY <1>1 DEF Take, Pulls, Ids
<1>3. /\ u.pc = "apply" /\ u.kinds = run[r].kinds /\ u.pending = run[r].pending
      /\ u.rec[i] = e /\ u.data[i] = data
      /\ \A j \in Ids \ {i} : u.rec[j] = run[r].rec[j] /\ u.data[j] = run[r].data[j]
  BY <1>1 DEF Take, Pulls, Ids
<1>4. local \in [Devices -> [Ids -> Data(setting) \cup {NoData}]]
  BY DEF IInv, TypeOK
<1>5. /\ local' \in [Devices -> [Ids -> Data(setting) \cup {NoData}]]
      /\ local'[d][i] = data
      /\ \A j \in Ids \ {i} : local'[d][j] = local[d][j]
      /\ \A c \in Devices \ {d} : local'[c] = local[c]
  BY <1>1, <1>4
<1> HIDE DEF u
<1>6. \A j \in Ids :
        \/ u.rec[j] = run[r].rec[j]
        \/ /\ Known(u.rec[j])
           /\ Own(setting, j) => EntryOK(setting, log, j, u.rec[j])
           /\ Known(run[r].rec[j]) \/ j \notin journal[Host[r]] \/ MidSync
  BY <1>3
<1>7. Merges => \A j \in Ids :
        \/ u.data[j] = run[r].data[j]
        \/ u.data[j] = NoData
        \/ \A f \in Fields : Backed(setting, log, j, f, u.data[j][f])
  BY <1>3
<1>8. \A j \in Ids :
        \/ local'[Host[r]][j] = local[Host[r]][j]
        \/ /\ local'[Host[r]][j] = u.data[j]
           /\ Merges => \A f \in Fields : Backed(setting, log, j, f, u.data[j][f])
        \/ local'[Host[r]][j] = NoData
  BY <1>3, <1>5
<1>9. run' = [run EXCEPT ![r] = u]
  BY DEF u
<1> QED
  BY <1>2, <1>3, <1>5, <1>6, <1>7, <1>8, <1>9, Applied

\* What Store makes of a version: as it is, or merged with what the device has.
LEMMA Stored ==
  ASSUME IInv, NEW r \in Runs, run[r].pc = "apply", NEW k \in Upcoming(r),
         Wanted(r, k), ~log[k].tomb, NEW i \in Ids, Store(r, k, i),
         UNCHANGED <<setting, journal, accepts, state, log, ops>>,
         Known(run[r].rec[i]) \/ i \notin journal[Host[r]] \/ MidSync,
         i = log[k].id \/ (Kind = "credential" /\ i \in Spare)
  PROVE  IInv'
<1> DEFINE m == log[k]
           entry == run[r].rec[m.id]
           mine == run[r].data[m.id]
           merge == Conflicting(r, k) /\ Present(r, k) /\ Kind # "credential"
           data == IF merge THEN MergeData(entry.fields, m.fields, mine, m.data) ELSE m.data
           fields == IF merge THEN MergeClocks(entry.fields, m.fields) ELSE m.fields
           vector == MergeVectors(entry.vector, m.vector)
           e == [vector |-> vector, hash |-> data, fields |-> fields, tomb |-> FALSE]
<1>1. /\ setting \in Settings /\ log \in Seq(Records(setting)) /\ k \in DOMAIN log
      /\ m \in Records(setting) /\ ~m.tomb
      /\ entry \in Entries(setting) /\ mine \in Data(setting) \cup {NoData}
      /\ vector \in Vectors \ {NoVector}
  BY UpcomingIs
<1>2. /\ run' = [run EXCEPT ![r] =
                   [Take(r, k, run[r].deferred \ {k}) EXCEPT !.data[i] = data, !.rec[i] = e]]
      /\ local' = [local EXCEPT ![Host[r]][i] = data]
  BY DEF Store
<1>3. ASSUME merge
      PROVE  /\ i = m.id
             /\ data \in Data(setting) /\ fields \in [Fields -> Clocks \cup {NoClock}]
             /\ \A f \in Fields :
                  /\ fields[f] # NoClock => Backed(setting, log, i, f, fields[f].val)
                  /\ \/ Backed(setting, log, i, f, data[f])
                     \/ MidSync /\ fields[f] # NoClock /\ fields[f].val # data[f]
                  /\ ~MidSync => Backed(setting, log, i, f, data[f])
  <2>1. i = m.id /\ Own(setting, m.id)
    BY <1>1, <1>3 DEF Own, Kind, Ids
  <2>2. EntryOK(setting, log, m.id, entry)
    BY <2>1 DEF IInv, Recorded, Own, Ids
  <2>3. mine \in Data(setting)
    BY <1>1, <1>3 DEF Present
  <2>4. ~MidSync => \A f \in Fields : Backed(setting, log, m.id, f, mine[f])
    BY <1>3, <2>1 DEF IInv, Ships, Present, Merges
  <2>5. /\ data = MergeData(entry.fields, m.fields, mine, m.data)
        /\ fields = MergeClocks(entry.fields, m.fields)
    BY <1>3
  <2> HIDE DEF data, fields, merge, entry, mine
  <2> QED
    BY <1>1, <2>1, <2>2, <2>3, <2>4, <2>5, Merged
<1>4. ASSUME ~merge
      PROVE  /\ data \in Data(setting) /\ fields \in [Fields -> Clocks \cup {NoClock}]
             /\ \A f \in Fields : ClockOf(setting, f, data[f], fields[f])
             /\ i = m.id => \A f \in Fields : Backed(setting, log, i, f, data[f])
  <2>1. data = m.data /\ fields = m.fields
    BY <1>4
  <2>2. \A f \in Fields : Backed(setting, log, m.id, f, m.data[f])
    BY <1>1, LoggedIsBacked
  <2> HIDE DEF data, fields, merge
  <2> QED
    BY <1>1, <2>1, <2>2, RecordIs
<1> HIDE DEF merge, data, fields, vector
<1>5. /\ data \in Data(setting) /\ fields \in [Fields -> Clocks \cup {NoClock}]
      /\ data # NoData
  BY <1>1, <1>3, <1>4, MarkersApart
<1>6. e \in Entries(setting) /\ Known(e)
  BY <1>1, <1>5 DEF Entries, Known, Fields
<1>7. ASSUME Own(setting, i) PROVE EntryOK(setting, log, i, e)
  <2>1. i = m.id
    BY <1>7 DEF Own, Kind, Spare
  <2>2. ASSUME NEW f \in setting.fields
        PROVE  /\ fields[f] # NoClock => Backed(setting, log, i, f, fields[f].val)
               /\ \/ Backed(setting, log, i, f, data[f])
                  \/ setting.midSync /\ fields[f] # NoClock /\ fields[f].val # data[f]
    BY <1>3, <1>4, <2>1, <2>2 DEF Fields, MidSync, ClockOf
  <2>3. e.hash = data /\ e.fields = fields
    OBVIOUS
  <2> HIDE DEF e
  <2> QED
    BY <2>2, <2>3 DEF EntryOK
<1>8. Merges /\ data # NoData => \A f \in Fields : Backed(setting, log, i, f, data[f])
  <2>1. Merges => ~MidSync /\ i = m.id
    BY DEF Merges
  <2> QED
    BY <1>3, <1>4, <2>1
<1> HIDE DEF e
<1> QED
  BY <1>2, <1>5, <1>6, <1>7, <1>8, TakenOver

\* Keep: the record differs from what is recorded, so that it goes out again.
LEMMA KeepStep ==
  ASSUME IInv, NEW r \in Runs, run[r].pc = "apply", NEW k \in Upcoming(r), Keep(r, k),
         UNCHANGED <<setting, journal, accepts, state, log, ops>>
  PROVE  IInv'
<1> DEFINE i == log[k].id
           entry == run[r].rec[i]
           e == [vector |-> MergeVectors(entry.vector, log[k].vector), hash |-> NoHash,
                 fields |-> entry.fields, tomb |-> FALSE]
           u == [Take(r, k, run[r].deferred \ {k}) EXCEPT !.rec[i] = e]
<1>1. /\ run[r] \in Pulls(setting, log) /\ setting \in Settings
      /\ i \in Ids /\ entry \in Entries(setting)
      /\ MergeVectors(entry.vector, log[k].vector) \in Vectors \ {NoVector}
      /\ Known(run[r].rec[i]) \/ i \notin journal[Host[r]] \/ MidSync
  BY UpcomingIs DEF Keep
<1>2. run' = [run EXCEPT ![r] = u] /\ local' = local
  BY DEF Keep
<1>3. e \in Entries(setting) /\ Known(e)
  BY <1>1 DEF Entries, Known
<1>4. ASSUME Own(setting, i) PROVE EntryOK(setting, log, i, e)
  <2>1. EntryOK(setting, log, i, entry)
    BY <1>1, <1>4 DEF IInv, Recorded
  <2>2. e.hash \notin Data(setting) /\ e.fields = entry.fields
    BY <1>1, MarkersApart
  <2> HIDE DEF e, entry, i
  <2> QED
    BY <2>1, <2>2 DEF EntryOK
<1> HIDE DEF e, i
<1>5. u \in Pulls(setting, log)
  BY <1>1, <1>3 DEF Take, Pulls, Ids
<1>6. /\ u.pc = "apply" /\ u.kinds = run[r].kinds /\ u.pending = run[r].pending
      /\ u.rec[i] = e /\ u.data = run[r].data
      /\ \A j \in Ids \ {i} : u.rec[j] = run[r].rec[j]
  BY <1>1 DEF Take, Pulls, Ids
<1> HIDE DEF u
<1>7. \A j \in Ids :
        \/ u.rec[j] = run[r].rec[j]
        \/ /\ Known(u.rec[j])
           /\ Own(setting, j) => EntryOK(setting, log, j, u.rec[j])
           /\ Known(run[r].rec[j]) \/ j \notin journal[Host[r]] \/ MidSync
  BY <1>1, <1>3, <1>4, <1>6
<1>8. local' \in [Devices -> [Ids -> Data(setting) \cup {NoData}]]
  BY <1>2 DEF IInv, TypeOK
<1> QED
  BY <1>2, <1>5, <1>6, <1>7, <1>8, Applied

\* Bury: nothing of the record is left.
LEMMA BuryStep ==
  ASSUME IInv, NEW r \in Runs, run[r].pc = "apply", NEW k \in Upcoming(r), Bury(r, k),
         UNCHANGED <<setting, journal, accepts, state, log, ops>>
  PROVE  IInv'
<1> DEFINE i == log[k].id
           v == MergeVectors(run[r].rec[i].vector, log[k].vector)
           e == [vector |-> v, hash |-> Grave, fields |-> NoFields, tomb |-> TRUE]
<1>1. /\ setting \in Settings /\ i \in Ids /\ v \in Vectors \ {NoVector}
      /\ Known(run[r].rec[i]) \/ i \notin journal[Host[r]] \/ MidSync
  BY UpcomingIs DEF Bury
<1>2. /\ run' = [run EXCEPT ![r] =
                   [Take(r, k, run[r].deferred \ {k}) EXCEPT !.data[i] = NoData, !.rec[i] = e]]
      /\ local' = [local EXCEPT ![Host[r]][i] = NoData]
  BY DEF Bury
<1> HIDE DEF v, i
<1>3. e \in Entries(setting) /\ Known(e)
  BY <1>1 DEF Entries, Known, NoFields, Fields
<1>4. EntryOK(setting, log, i, e)
  <2>1. e.hash \notin Data(setting) /\ e.fields = NoFields
    BY <1>1, MarkersApart
  <2>2. \A f \in setting.fields : e.fields[f] = NoClock
    BY <2>1 DEF NoFields, Fields
  <2> QED
    BY <2>1, <2>2 DEF EntryOK
<1> HIDE DEF e
<1> QED
  BY <1>1, <1>2, <1>3, <1>4, TakenOver

\* Apply: one of the cases above.
LEMMA ApplyStep ==
  ASSUME IInv, NEW r \in Runs, Apply(r)
  PROVE  IInv'
<1>1. run[r].pc = "apply" /\ UNCHANGED <<setting, journal, accepts, state, log, ops>>
  BY DEF Apply
<1>2. PICK k \in Upcoming(r) :
        \/ Postpone(r, k) \/ Skip(r, k) \/ Write(r, k)
        \/ WriteCopy(r, k) \/ Keep(r, k) \/ Bury(r, k)
  BY DEF Apply
<1>3. /\ run[r] \in Pulls(setting, log) /\ setting \in Settings
      /\ k \in DOMAIN log /\ log[k].id \in Ids
      /\ Known(run[r].rec[log[k].id]) \/ log[k].id \notin journal[Host[r]] \/ MidSync
  BY <1>1, UpcomingIs
<1>4. run[r].deferred \in SUBSET (DOMAIN log)
  BY <1>3 DEF Pulls
<1>5. CASE Postpone(r, k)
  <2>1. run' = [run EXCEPT ![r] = Take(r, k, run[r].deferred \cup {k})] /\ UNCHANGED local
    BY <1>5 DEF Postpone
  <2>2. run[r].deferred \cup {k} \in SUBSET (DOMAIN log)
    BY <1>3, <1>4
  <2> QED
    BY <1>1, <2>1, <2>2, PassedOver
<1>6. CASE Skip(r, k)
  <2>1. run' = [run EXCEPT ![r] = Take(r, k, run[r].deferred \ {k})] /\ UNCHANGED local
    BY <1>6 DEF Skip
  <2>2. run[r].deferred \ {k} \in SUBSET (DOMAIN log)
    BY <1>4
  <2> QED
    BY <1>1, <2>1, <2>2, PassedOver
<1>7. CASE Write(r, k)
  BY <1>1, <1>3, <1>7, Stored DEF Write
<1>8. CASE WriteCopy(r, k)
  <2>1. PICK i \in Spare : Unused(i) /\ Store(r, k, i)
    BY <1>8 DEF WriteCopy
  <2>2. Wanted(r, k) /\ ~log[k].tomb /\ Kind = "credential" /\ i \in Ids
    BY <1>3, <1>8, SettingIs DEF WriteCopy
  <2>3. ~Known(run[r].rec[i])
    BY <1>1, <2>1 DEF Unused
  <2>4. i \notin journal[Host[r]] \/ MidSync
    BY <1>1, <2>3 DEF IInv, Remembers
  <2> QED
    BY <1>1, <2>1, <2>2, <2>4, Stored
<1>9. CASE Keep(r, k)
  BY <1>1, <1>9, KeepStep
<1>10. CASE Bury(r, k)
  BY <1>1, <1>10, BuryStep
<1> QED
  BY <1>2, <1>5, <1>6, <1>7, <1>8, <1>9, <1>10

-------------------------------------------------------------------------------
(***************************************************************************)
(* The end of a run, and the user.                                         *)
(***************************************************************************)

\* A run saves entries that are as good as those it has applied.
LEMMA Saves ==
  ASSUME IInv, NEW r \in Runs, run[r].pc \notin {"idle", "collect"},
         NEW rec \in [Ids -> Entries(setting)],
         NEW cursor \in Nat, NEW deferred \in SUBSET (DOMAIN log),
         \A i \in Ids : Own(setting, i) => EntryOK(setting, log, i, rec[i]),
         \A i \in Ids : Known(rec[i]) \/ rec[i] = run[r].rec[i],
         state' = [state EXCEPT ![Host[r]] =
                     [rec |-> rec, cursor |-> cursor, deferred |-> deferred]],
         run' = [run EXCEPT ![r] = IdleRun],
         UNCHANGED <<setting, local, journal, accepts, log, ops>>
  PROVE  IInv'
<1> DEFINE d == Host[r]
           st == [rec |-> rec, cursor |-> cursor, deferred |-> deferred]
<1>1. /\ d \in Devices /\ setting' = setting /\ log' = log /\ Grows(log, log')
      /\ local' = local /\ journal' = journal
  BY RunIs, GrowsSame DEF IInv
<1>2. /\ run' \in [Runs -> {IdleRun} \cup Pushes(setting', log') \cup Pulls(setting', log')]
      /\ run'[r].pc = "idle"
      /\ \A q \in Runs \ {r} : run'[q] = run[q]
  BY <1>1, RunTyped DEF IInv, IdleRun
<1>3. st \in States(setting, log) /\ st.rec = rec
  BY DEF States, Ids
<1>4. state' = [state EXCEPT ![d] = st]
  OBVIOUS
<1> HIDE DEF st
<1>5. /\ state' \in [Devices -> States(setting, log)]
      /\ state'[d].rec = rec
      /\ \A e \in Devices \ {d} : state'[e] = state[e]
  BY <1>1, <1>3, <1>4 DEF IInv, TypeOK
<1>6. TypeOK'
  BY <1>1, <1>2, <1>5 DEF IInv, TypeOK, Ids
<1>7. Recorded'
  <2>1. ASSUME NEW i \in Ids, Own(setting, i), NEW e \in Devices
        PROVE  EntryOK(setting, log, i, state'[e].rec[i])
    <3>1. CASE e = d
      BY <1>5, <2>1, <3>1
    <3>2. CASE e # d
      BY <1>5, <2>1, <3>2 DEF IInv, Recorded
    <3> QED
      BY <3>1, <3>2
  <2>2. ASSUME NEW i \in Ids, Own(setting, i), NEW q \in Runs, run'[q].pc # "idle"
        PROVE  EntryOK(setting, log, i, run'[q].rec[i])
    BY <1>2, <2>2 DEF IInv, Recorded
  <2> QED
    BY <1>1, <2>1, <2>2 DEF Recorded, Ids
<1>8. ASSUME NEW q \in Runs PROVE (Sends(q) /\ Ships(q) /\ Remembers(q))'
  <2>1. CASE q = r
    BY <1>2, <2>1, Silent DEF Remembers
  <2>2. CASE q # r
    <3>1. Sends(q) /\ Ships(q) /\ Remembers(q) /\ Host[q] \in Devices /\ run'[q] = run[q]
      BY <1>2, <2>2, RunIs DEF IInv
    <3>2. Sends(q)'
      BY <1>1, <3>1, SendsKept
    <3>3. Ships(q)'
      BY <1>1, <3>1, ShipsKept
    <3>4. CASE Host[q] # d
      <4>1. Remembers(q)'
        BY <1>1, <1>5, <3>1, <3>4, RemembersKept
      <4> QED
        BY <3>2, <3>3, <4>1
    <3>5. CASE Host[q] = d
      <4>1. ~OwnRuns
        BY <2>2, <3>5 DEF OwnRuns
      <4>2. ~MidSync => \A i \in journal[d] : Known(run[r].rec[i]) /\ Known(state[d].rec[i])
        BY DEF IInv, Remembers
      <4>3. ~MidSync => \A i \in journal[d] : Known(rec[i])
        <5>1. journal[d] \subseteq Ids
          BY <1>1 DEF IInv, TypeOK
        <5> QED
          BY <4>2, <5>1
      <4>4. OwnRuns' <=> OwnRuns
        BY <1>1 DEF OwnRuns, Host
      <4>5. Remembers(q)'
        BY <1>1, <1>5, <3>1, <3>5, <4>1, <4>2, <4>3, <4>4 DEF Remembers, Host, MidSync
      <4> QED
        BY <3>2, <3>3, <4>5
    <3> QED
      BY <3>4, <3>5
  <2> QED
    BY <2>1, <2>2
<1> QED
  BY <1>6, <1>7, <1>8 DEF IInv

\* Finish: the pushed versions are in the log, the applied ones as well.
LEMMA FinishStep ==
  ASSUME IInv, NEW r \in Runs, Finish(r)
  PROVE  IInv'
<1> DEFINE rec == OnTop(run[r].pending, run[r].rec)
<1>1. /\ run[r].pc = "apply"
      /\ run[r] \in Pulls(setting, log) /\ setting \in Settings /\ log \in Seq(Records(setting))
  BY RunIs DEF Finish, IInv, TypeOK
<1>2. /\ run[r].rec \in [Ids -> Entries(setting)]
      /\ run[r].pending \in Pendings(setting)
      /\ run[r].next \in Nat /\ run[r].deferred \in SUBSET (DOMAIN log)
  BY <1>1 DEF Pulls, Ids
<1>3. DOMAIN run[r].pending \subseteq Ids
  BY <1>2 DEF Pendings, Ids
<1>4. /\ DOMAIN rec = Ids /\ rec = [i \in Ids |-> rec[i]]
      /\ \A i \in Ids : rec[i] = IF i \in DOMAIN run[r].pending THEN run[r].pending[i]
                                                                ELSE run[r].rec[i]
  BY <1>2, <1>3 DEF OnTop
<1>5. state' = [state EXCEPT ![Host[r]] =
                  [rec |-> rec, cursor |-> run[r].next, deferred |-> run[r].deferred]]
  BY DEF Finish
<1> HIDE DEF rec
<1>6. ASSUME NEW i \in Ids
      PROVE  /\ rec[i] \in Entries(setting)
             /\ Own(setting, i) => EntryOK(setting, log, i, rec[i])
             /\ Known(rec[i]) \/ rec[i] = run[r].rec[i]
  <2>1. CASE i \in DOMAIN run[r].pending
    <3>1. Holds(log, i, rec[i])
      BY <1>1, <1>4, <2>1 DEF IInv, Sends
    <3>2. PICK k \in DOMAIN log : log[k].id = i /\ rec[i] = EntryOf(log[k])
      BY <3>1 DEF Holds
    <3>3. log[k] \in Records(setting)
      BY <1>1
    <3> QED
      BY <1>1, <3>2, <3>3, EntryOfIs, LoggedIsBacked
  <2>2. CASE i \notin DOMAIN run[r].pending
    BY <1>1, <1>2, <1>4, <2>2 DEF IInv, Recorded
  <2> QED
    BY <2>1, <2>2
<1>7. rec \in [Ids -> Entries(setting)]
  BY <1>4, <1>6
<1>8. run' = [run EXCEPT ![r] = IdleRun] /\ UNCHANGED <<setting, local, journal, accepts, log, ops>>
  BY DEF Finish
<1>9. /\ run[r].pc \notin {"idle", "collect"}
      /\ \A i \in Ids : Own(setting, i) => EntryOK(setting, log, i, rec[i])
      /\ \A i \in Ids : Known(rec[i]) \/ rec[i] = run[r].rec[i]
  BY <1>1, <1>6
<1> DEFINE cursor == run[r].next
           deferred == run[r].deferred
<1>10. /\ cursor \in Nat /\ deferred \in SUBSET (DOMAIN log)
       /\ state' = [state EXCEPT ![Host[r]] =
                      [rec |-> rec, cursor |-> cursor, deferred |-> deferred]]
  BY <1>2, <1>5
<1> HIDE DEF cursor, deferred
<1> QED
  BY <1>7, <1>8, <1>9, <1>10, Saves

\* GiveUp: only what has been applied is saved.
LEMMA GiveUpStep ==
  ASSUME IInv, NEW r \in Runs, GiveUp(r)
  PROVE  IInv'
<1>1. /\ run[r].pc = "failed"
      /\ run[r].rec \in [Ids -> Entries(setting)]
      /\ run[r].cursor \in Nat /\ run[r].deferred \in SUBSET (DOMAIN log)
  BY RunIs DEF GiveUp, IInv
<1>2. \A i \in Ids : Own(setting, i) => EntryOK(setting, log, i, run[r].rec[i])
  BY <1>1 DEF IInv, Recorded
<1> QED
  BY <1>1, <1>2, Saves DEF GiveUp

\* The user of device d changes the vault, between two runs of the device or not.
LEMMA UserKeeps ==
  ASSUME IInv, NEW d \in Devices,
         UNCHANGED <<setting, state, run, log>>,
         local' \in [Devices -> [Ids -> Data(setting) \cup {NoData}]],
         journal' \in [Devices -> SUBSET Ids],
         accepts' \in [Devices -> SUBSET Kinds],
         ops' \in Seq(Operations(setting)),
         \A e \in Devices \ {d} : local'[e] = local[e] /\ journal'[e] = journal[e],
         \/ MidSync
         \/ local' = local /\ journal' = journal
         \/ \A q \in Runs : Host[q] = d => run[q].pc = "idle"
  PROVE  IInv'
<1>1. setting' = setting /\ log' = log /\ run' = run /\ state' = state /\ Grows(log, log')
  BY GrowsSame
<1>2. TypeOK'
  BY <1>1 DEF IInv, TypeOK, Ids
<1>3. Recorded'
  BY <1>1 DEF IInv, Recorded, Ids
<1>4. ASSUME NEW q \in Runs PROVE (Sends(q) /\ Ships(q) /\ Remembers(q))'
  <2>1. Sends(q) /\ Ships(q) /\ Remembers(q) /\ Host[q] \in Devices /\ run'[q] = run[q]
    BY <1>1, RunIs DEF IInv
  <2>2. Sends(q)'
    BY <1>1, <2>1, SendsKept
  <2>3. CASE local'[Host[q]] = local[Host[q]] /\ journal'[Host[q]] = journal[Host[q]]
    <3>1. Ships(q)'
      BY <1>1, <2>1, <2>3, ShipsKept
    <3>2. Remembers(q)'
      BY <1>1, <2>1, <2>3, RemembersKept
    <3> QED
      BY <2>2, <3>1, <3>2
  <2>4. CASE MidSync
    BY <1>1, <2>1, <2>2, <2>4 DEF Ships, Merges, MidSync, Remembers, OwnRuns, Host
  <2>5. CASE run[q].pc = "idle"
    BY <1>1, <2>2, <2>5, Silent DEF Remembers
  <2> QED
    BY <2>1, <2>3, <2>4, <2>5
<1> QED
  BY <1>2, <1>3, <1>4 DEF IInv

\* Edit, Create, Delete and Toggle.
LEMMA UserStep ==
  ASSUME IInv, NEW d \in Devices, User(d)
  PROVE  IInv'
<1>1. /\ setting \in Settings /\ Len(ops) \in Nat
      /\ local \in [Devices -> [Ids -> Data(setting) \cup {NoData}]]
      /\ journal \in [Devices -> SUBSET Ids] /\ accepts \in [Devices -> SUBSET Kinds]
      /\ ops \in Seq(Operations(setting))
  BY DEF IInv, TypeOK
<1>2. ASSUME NEW i \in Ids, NEW f \in Fields, NEW value \in {0, Len(ops) + 1},
             Edit(d, i, f, value)
      PROVE  IInv'
  <2>1. /\ local[d][i] \in [Fields -> Nat] /\ value \in Nat
        /\ UNCHANGED <<setting, journal, accepts, state, run, log>>
        /\ local' = [local EXCEPT ![d][i][f] = value]
    BY <1>1, <1>2 DEF Edit, Data, Fields
  <2>2. [local[d][i] EXCEPT ![f] = value] \in Data(setting)
    BY <1>1, <2>1 DEF Data, Fields
  <2>3. /\ local' \in [Devices -> [Ids -> Data(setting) \cup {NoData}]]
        /\ \A e \in Devices \ {d} : local'[e] = local[e]
    BY <1>1, <2>1, <2>2
  <2>4. [op |-> "edit", dev |-> d, id |-> i, field |-> f, value |-> value]
          \in Operations(setting)
    BY <1>2, <2>1 DEF Operations, Ids, Fields
  <2>5. ops' \in Seq(Operations(setting))
    BY <1>1, <1>2, <2>4 DEF Edit
  <2> QED
    BY <1>1, <1>2, <2>1, <2>3, <2>5, UserKeeps DEF Edit, Editable
<1>3. ASSUME NEW i \in Ids, Create(d, i) PROVE IInv'
  <2>1. /\ UNCHANGED <<setting, journal, accepts, state, run, log>>
        /\ local' = [local EXCEPT ![d][i] = [f \in Fields |-> Len(ops) + 1]]
    BY <1>3 DEF Create
  <2>2. [f \in Fields |-> Len(ops) + 1] \in Data(setting)
    BY <1>1 DEF Data, Fields
  <2>3. /\ local' \in [Devices -> [Ids -> Data(setting) \cup {NoData}]]
        /\ \A e \in Devices \ {d} : local'[e] = local[e]
    BY <1>1, <2>1, <2>2
  <2>4. [op |-> "create", dev |-> d, id |-> i] \in Operations(setting)
    BY <1>3 DEF Operations, Ids
  <2>5. ops' \in Seq(Operations(setting))
    BY <1>1, <1>3, <2>4 DEF Create
  <2> QED
    BY <1>1, <1>3, <2>1, <2>3, <2>5, UserKeeps DEF Create, Editable
<1>4. ASSUME NEW i \in Ids, Delete(d, i) PROVE IInv'
  <2>1. /\ UNCHANGED <<setting, accepts, state, run, log>>
        /\ local' = [local EXCEPT ![d][i] = NoData]
        /\ journal' = [journal EXCEPT ![d] = @ \cup {i}]
    BY <1>4 DEF Delete
  <2>2. /\ local' \in [Devices -> [Ids -> Data(setting) \cup {NoData}]]
        /\ journal' \in [Devices -> SUBSET Ids]
        /\ \A e \in Devices \ {d} : local'[e] = local[e] /\ journal'[e] = journal[e]
    BY <1>1, <1>4, <2>1
  <2>3. [op |-> "delete", dev |-> d, id |-> i] \in Operations(setting)
    BY <1>4 DEF Operations, Ids
  <2>4. ops' \in Seq(Operations(setting))
    BY <1>1, <1>4, <2>3 DEF Delete
  <2> QED
    BY <1>1, <1>4, <2>1, <2>2, <2>4, UserKeeps DEF Delete, Editable
<1>5. ASSUME NEW kind \in Optional, Toggle(d, kind) PROVE IInv'
  <2>1. /\ UNCHANGED <<setting, local, journal, state, run, log>>
        /\ accepts' = [accepts EXCEPT ![d] = (@ \ {kind}) \cup ({kind} \ @)]
    BY <1>5 DEF Toggle
  <2>2. kind \in Kinds
    BY <1>1, SettingIs DEF Optional
  <2>3. accepts' \in [Devices -> SUBSET Kinds]
    BY <1>1, <2>1, <2>2
  <2>4. [op |-> "toggle", dev |-> d, kind |-> kind] \in Operations(setting)
    BY <2>2 DEF Operations
  <2>5. ops' \in Seq(Operations(setting))
    BY <1>1, <1>5, <2>4 DEF Toggle
  <2> QED
    BY <1>1, <2>1, <2>3, <2>5, UserKeeps
<1> QED
  BY <1>2, <1>3, <1>4, <1>5 DEF User

-------------------------------------------------------------------------------
(***************************************************************************)
(* The invariant.                                                          *)
(***************************************************************************)

\* There is a first device.
LEMMA FirstIs ==
  ASSUME Devices # {}
  PROVE  First \in Devices
<1> DEFINE Before == OpToRel(<, Nat)
<1>1. \A d \in Nat, e \in Nat : <<e, d>> \in Before <=> e < d
  BY DEF OpToRel
<1>2. IsWellFoundedOn(Before, Nat)
  BY NatLessThanWellFounded
<1> HIDE DEF Before
<1>3. PICK d \in Devices : \A e \in Devices : ~(<<e, d>> \in Before)
  BY <1>2, WFMin, DeviceAssumption
<1>4. ASSUME NEW e \in Devices PROVE d <= e
  <2>1. d \in Nat /\ e \in Nat
    BY DeviceAssumption
  <2>2. ~(e < d)
    BY <1>1, <1>3, <2>1
  <2> QED
    BY <2>1, <2>2
<1> QED
  BY <1>4 DEF First

\* The entry of a record that every device has from the beginning.
LEMMA SeedIs ==
  ASSUME setting \in Settings, Devices # {}, NEW l
  PROVE  /\ SeedData \in Data(setting)
         /\ SeedEntry \in Entries(setting)
         /\ \A i \in Seeded : EntryOK(setting, l, i, SeedEntry)
<1>1. First \in Devices
  BY FirstIs
<1>2. SeedVector \in Vectors
  <2> HIDE DEF First
  <2>1. {First} \in SUBSET Devices /\ SeedVector \in [{First} -> Nat]
    BY <1>1 DEF SeedVector
  <2> QED
    BY <2>1 DEF Vectors
<1>3. SeedData \in Data(setting) /\ \A f \in Fields : SeedData[f] = 0
  BY DEF SeedData, Data, Fields
<1> HIDE DEF SeedData, SeedVector, First
<1>4. [vector |-> SeedVector, writer |-> First, val |-> 0] \in Clocks
  BY <1>1, <1>2 DEF Clocks
<1>5. /\ SeedEntry.hash = SeedData
      /\ \A f \in Fields :
           SeedEntry.fields[f] \in {NoClock, [vector |-> SeedVector, writer |-> First, val |-> 0]}
  BY DEF SeedEntry
<1>6. SeedEntry \in Entries(setting)
  BY <1>2, <1>3, <1>4 DEF SeedEntry, Entries, Fields
<1>7. \A i \in Seeded : EntryOK(setting, l, i, SeedEntry)
  BY <1>3, <1>4, <1>5, ClocksApart DEF EntryOK, Backed, Fields, Seeded
<1> QED
  BY <1>3, <1>6, <1>7

\* The entry of a record that is not known claims nothing.
LEMMA UnknownIs ==
  ASSUME setting \in Settings, NEW l
  PROVE  /\ Unknown \in Entries(setting)
         /\ \A i \in Ids : EntryOK(setting, l, i, Unknown)
<1>1. Unknown \in Entries(setting)
  BY NoVectorIs DEF Unknown, Entries, NoFields, Fields
<1>2. Unknown.hash \notin Data(setting) /\ \A f \in Fields : Unknown.fields[f] = NoClock
  BY MarkersApart DEF Unknown, NoFields
<1> QED
  BY <1>1, <1>2 DEF EntryOK, Fields

\* The invariant holds at first.
LEMMA InitIInv ==
  ASSUME Init
  PROVE  IInv
<1>1. setting \in Settings /\ log = <<>> /\ ops = <<>> /\ \A r \in Runs : run[r].pc = "idle"
  BY DEF Init, IdleRun
<1>2. local \in [Devices -> [Ids -> Data(setting) \cup {NoData}]]
  <2>1. ASSUME NEW d \in Devices
        PROVE  [i \in Ids |-> IF i \in Seeded THEN SeedData ELSE NoData]
                 \in [Ids -> Data(setting) \cup {NoData}]
    BY <1>1, SeedIs
  <2> QED
    BY <2>1 DEF Init
<1>3. \A d \in Devices : /\ state[d] \in States(setting, log)
                         /\ \A i \in Ids : EntryOK(setting, log, i, state[d].rec[i])
  <2> SUFFICES ASSUME NEW d \in Devices
               PROVE  /\ state[d] \in States(setting, log)
                      /\ \A i \in Ids : EntryOK(setting, log, i, state[d].rec[i])
    OBVIOUS
  <2> DEFINE rec == [i \in Ids |-> IF i \in Seeded THEN SeedEntry ELSE Unknown]
  <2>1. state[d] = [rec |-> rec, cursor |-> 0, deferred |-> {}]
    BY DEF Init
  <2>2. \A i \in Ids : rec[i] \in Entries(setting) /\ EntryOK(setting, log, i, rec[i])
    BY <1>1, SeedIs, UnknownIs
  <2>3. rec \in [Ids -> Entries(setting)]
    BY <2>2
  <2> HIDE DEF rec
  <2> QED
    BY <2>1, <2>2, <2>3 DEF States, Ids
<1>4. journal \in [Devices -> SUBSET Ids] /\ accepts \in [Devices -> SUBSET Kinds]
  BY DEF Init, Optional, Kinds
<1>5. state \in [Devices -> States(setting, log)]
  <2>1. state = [d \in Devices |-> state[d]]
    BY DEF Init
  <2> QED
    BY <1>3, <2>1
<1>6. /\ run \in [Runs -> {IdleRun} \cup Pushes(setting, log) \cup Pulls(setting, log)]
      /\ log \in Seq(Records(setting)) /\ ops \in Seq(Operations(setting))
  BY <1>1 DEF Init
<1>7. TypeOK
  BY <1>1, <1>2, <1>4, <1>5, <1>6 DEF TypeOK
<1>8. Recorded
  BY <1>1, <1>3 DEF Recorded
<1>9. \A r \in Runs : Sends(r) /\ Ships(r) /\ Remembers(r)
  BY <1>1 DEF Sends, Ships, Remembers
<1> QED
  BY <1>7, <1>8, <1>9 DEF IInv

\* Every step keeps the invariant.
LEMMA StepIInv ==
  ASSUME IInv, [Next]_vars
  PROVE  IInv'
<1>1. ASSUME NEW r \in Runs, Begin(r) \/ SyncStep(r) \/ Interrupt(r) PROVE IInv'
  BY <1>1, BeginStep, CollectStep, PushStep, PushFailsStep, DropStep, PullStep, FailSteps,
     ApplyStep, FinishStep, GiveUpStep DEF SyncStep
<1>2. ASSUME NEW d \in Devices, User(d) PROVE IInv'
  BY <1>2, UserStep
<1>3. ASSUME UNCHANGED vars PROVE IInv'
  <2>1. /\ setting' = setting /\ local' = local /\ journal' = journal /\ accepts' = accepts
        /\ state' = state /\ run' = run /\ log' = log /\ ops' = ops
    BY <1>3 DEF vars
  <2>2. TypeOK'
    BY <2>1 DEF IInv, TypeOK, Ids
  <2>3. Recorded'
    BY <2>1 DEF IInv, Recorded, Ids
  <2>4. ASSUME NEW q \in Runs PROVE (Sends(q) /\ Ships(q) /\ Remembers(q))'
    BY <2>1, RunIs, SendsKept, ShipsKept, RemembersKept, GrowsSame DEF IInv
  <2> QED
    BY <2>2, <2>3, <2>4 DEF IInv
<1> QED
  BY <1>1, <1>2, <1>3 DEF Next

\* A behaviour has one setting.
LEMMA SettingStays == [Next]_vars => setting' = setting
<1>1. ASSUME NEW r \in Runs, Begin(r) \/ Interrupt(r) PROVE setting' = setting
  BY <1>1 DEF Begin, Interrupt
<1>2. ASSUME NEW r \in Runs, SyncStep(r) PROVE setting' = setting
  BY <1>2 DEF SyncStep, Collect, Push, PushFails, Drop, Pull, PullFails, Apply, ApplyFails,
              Finish, GiveUp
<1>3. ASSUME NEW d \in Devices, User(d) PROVE setting' = setting
  BY <1>3 DEF User, Edit, Create, Delete, Toggle
<1>4. UNCHANGED vars => setting' = setting
  BY DEF vars
<1> QED
  BY <1>1, <1>2, <1>3, <1>4 DEF Next

\* The types, what the log backs and what the runs have in hand stay so, whatever fails and
\* whenever users change something.
THEOREM Inductive == Safety => []IInv
<1>1. Init => IInv
  BY InitIInv
<1>2. IInv /\ [Next]_vars => IInv'
  BY StepIInv
<1> QED
  BY <1>1, <1>2, PTL DEF Safety

-------------------------------------------------------------------------------
(***************************************************************************)
(* Nothing is forgotten before the server has it.                          *)
(***************************************************************************)

\* A device never takes for synchronised what is not in the log (Sync, its deferred
\* function and pull).
LEMMA InvPublished ==
  ASSUME IInv, NEW d \in Devices, NEW i \in Ids, Kind = "credential" => i \notin Spare
  PROVE  Published(d, i)
<1> DEFINE e == state[d].rec[i]
<1>1. EntryOK(setting, log, i, e)
  BY DEF IInv, Recorded, Own, Kind, Spare, Ids
<1>2. local[d][i] \in Data(setting) \cup {NoData}
  BY DEF IInv, TypeOK
<1>3. ASSUME local[d][i] # NoData, local[d][i] = e.hash, NEW f \in Fields
      PROVE  \/ i \in Seeded /\ local[d][i][f] = 0
             \/ \E k \in DOMAIN log :
                  log[k].id = i /\ ~log[k].tomb /\ log[k].data[f] = local[d][i][f]
             \/ MidSync /\ e.fields[f] # NoClock /\ e.fields[f].val # local[d][i][f]
  <2>1. \/ Backed(setting, log, i, f, e.hash[f])
        \/ MidSync /\ e.fields[f] # NoClock /\ e.fields[f].val # e.hash[f]
    BY <1>1, <1>2, <1>3 DEF EntryOK, Fields, MidSync
  <2> QED
    BY <1>3, <2>1 DEF Backed, Seeded
<1> QED
  BY <1>3 DEF Published

\* What leaves the journal was never synchronised, or its tombstone is in the log.
LEMMA StepJournal ==
  ASSUME IInv, [Next]_vars, ~MidSync \/ OwnRuns,
         NEW d \in Devices, NEW i \in journal[d] \ journal'[d], Known(state[d].rec[i])
  PROVE  Buries(log, i, d)
<1>1. journal \in [Devices -> SUBSET Ids] /\ \A r \in Runs : Host[r] \in Devices
  BY RunIs DEF IInv, TypeOK
<1>2. ASSUME NEW r \in Runs, Collect(r) PROVE Buries(log, i, d)
  <2> DEFINE drops == {j \in journal[Host[r]] : Known(run[r].rec[j])}
  <2>1. journal' = [journal EXCEPT ![Host[r]] = drops] /\ run[r].pc = "collect"
    BY <1>2 DEF Collect
  <2>2. d = Host[r] /\ ~Known(run[r].rec[i])
    BY <1>1, <2>1
  <2>3. Known(run[r].rec[i])
    BY <2>1, <2>2 DEF IInv, Remembers
  <2> QED
    BY <2>2, <2>3
<1>3. ASSUME NEW r \in Runs, Drop(r) PROVE Buries(log, i, d)
  <2>1. journal' = [journal EXCEPT ![Host[r]] = @ \ run[r].drops] /\ run[r].pc = "drop"
    BY <1>3 DEF Drop
  <2>2. d = Host[r] /\ i \in run[r].drops
    BY <1>1, <2>1
  <2> QED
    BY <2>1, <2>2 DEF IInv, Sends
<1>4. ASSUME NEW e \in Devices, User(e) PROVE FALSE
  <2>1. journal' = journal \/ \E j \in Ids : journal' = [journal EXCEPT ![e] = @ \cup {j}]
    BY <1>4 DEF User, Edit, Create, Delete, Toggle
  <2> QED
    BY <1>1, <2>1
<1>5. ASSUME journal' = journal PROVE FALSE
  BY <1>5
<1>6. ASSUME NEW r \in Runs, Begin(r) \/ SyncStep(r) \/ Interrupt(r)
      PROVE  Collect(r) \/ Drop(r) \/ journal' = journal
  BY <1>6 DEF Begin, SyncStep, Interrupt, Push, PushFails, Pull, PullFails, Apply, ApplyFails,
              Finish, GiveUp
<1> QED
  BY <1>2, <1>3, <1>4, <1>5, <1>6 DEF Next, vars

\* Whatever fails, and however the runs of the devices interleave, what a device takes for
\* synchronised has been sent, and a deletion stays in the journal until its tombstone has
\* (Sync and its deferred function, pull, and the journal of internal/store).
THEOREM PublishedFirst == Safety => PublishedBeforeForgotten
<1> DEFINE Sent ==
             \A d \in Devices, i \in Ids :
               (Kind = "credential" => i \notin Spare) => Published(d, i)
           Step ==
             \A d \in Devices :
               /\ \A i \in Ids : (Kind = "credential" => i \notin Spare) => Published(d, i)'
               /\ ~MidSync \/ OwnRuns =>
                    \A i \in journal[d] \ journal'[d] :
                      Known(state[d].rec[i]) =>
                        \E k \in DOMAIN log : log[k].id = i /\ log[k].tomb /\ log[k].dev = d
<1>1. IInv => Sent
  BY InvPublished
<1>2. ASSUME IInv, [Next]_vars, Sent' PROVE Step
  <2>1. setting' = setting
    BY <1>2, SettingStays
  <2>2. ASSUME NEW d \in Devices, NEW i \in Ids, Kind = "credential" => i \notin Spare
        PROVE  Published(d, i)'
    <3>1. i \in Ids' /\ (Kind = "credential" => i \notin Spare)'
      BY <2>1, <2>2 DEF Ids, Kind, Spare
    <3> QED
      BY <1>2, <3>1
  <2>3. ASSUME ~MidSync \/ OwnRuns, NEW d \in Devices, NEW i \in journal[d] \ journal'[d],
               Known(state[d].rec[i])
        PROVE  \E k \in DOMAIN log : log[k].id = i /\ log[k].tomb /\ log[k].dev = d
    BY <1>2, <2>3, StepJournal DEF Buries
  <2> QED
    BY <2>2, <2>3
<1>3. IInv /\ [Next]_vars /\ Sent' => [Step]_vars
  BY <1>2
<1> QED
  BY <1>1, <1>3, Inductive, PTL DEF Safety, PublishedBeforeForgotten

-------------------------------------------------------------------------------
(***************************************************************************)
(* One device makes changes: what all devices have seen of them.           *)
(***************************************************************************)

\* The condition of SeenIsRemembered.
Solo == Cardinality(Editors) = 1 /\ OwnRuns /\ Unbroken

\* What a run has pushed counts from the answer on.
Answered == {"drop", "pull", "apply"}

\* The records as state st of a device has them, or as one of the runs rn will leave them there.
MemoryIn(s, rn, st, d) ==
  IF \E r \in Runs : s.host[r] = d /\ rn[r].pc \in Answered
    THEN LET r == CHOOSE r \in Runs : s.host[r] = d /\ rn[r].pc \in Answered
         IN  OnTop(rn[r].pending, rn[r].rec)
    ELSE st[d].rec

Memory(d) == MemoryIn(setting, run, state, d)

\* The versions in the log are the editor's, each on top of those before it.
LogOrdered ==
  \A k \in DOMAIN log :
    /\ log[k].dev \in Editors
    /\ \A j \in DOMAIN log : j <= k /\ log[j].id = log[k].id => Leq(log[j].vector, log[k].vector)

\* The editor knows all of them.
AllSeen ==
  \A e \in Editors : \A k \in DOMAIN log : Leq(log[k].vector, Memory(e)[log[k].id].vector)

Comparable(v, w) == Leq(v, w) \/ Leq(w, v)

\* What another device has is one of these versions, or from before them.
Follows(d) ==
  \A i \in Ids :
    /\ \A e \in Editors : Leq(Memory(d)[i].vector, Memory(e)[i].vector)
    /\ \A k \in DOMAIN log : log[k].id = i => Comparable(Memory(d)[i].vector, log[k].vector)

\* It has nothing of its own to send.
Mirrors(d) ==
  /\ journal[d] = {}
  /\ \A i \in Ids :
       IF Known(Memory(d)[i]) /\ ~Memory(d)[i].tomb
         THEN local[d][i] = Memory(d)[i].hash
         ELSE local[d][i] = NoData

\* So its runs read only.
Reads(r) ==
  /\ run[r].pc \in {"idle", "collect", "pull", "apply"}
  /\ run[r].pc # "idle" => DOMAIN run[r].pending = {}
  /\ run[r].pc = "collect" => run[r].out = <<>>
  /\ run[r].pc = "apply" => run[r].data = Export(Host[r], run[r].kinds)

\* What the editor is about to push follows what its state knows.
Prepares(r) ==
  run[r].pc \in {"collect", "push"} =>
    /\ \A n \in DOMAIN run[r].out :
         /\ run[r].out[n].dev = Host[r] /\ run[r].out[n].id \in DOMAIN run[r].pending
         /\ run[r].out[n].vector =
              IncrementVector(run[r].rec[run[r].out[n].id].vector, Host[r], 0)
    /\ \A i \in DOMAIN run[r].pending :
         run[r].pending[i].vector = IncrementVector(run[r].rec[i].vector, Host[r], 0)

\* Until it applies what it has pulled a run leaves its copy of the state alone.
Copies(r) ==
  run[r].pc \notin {"idle", "apply"} =>
    /\ run[r].rec = state[Host[r]].rec
    /\ run[r].cursor = state[Host[r]].cursor
    /\ run[r].deferred = state[Host[r]].deferred

\* SeenIsRemembered of the state, and of a run that is on the way there.
Passed(d) ==
  /\ state[d].cursor <= Len(log)
  /\ \A k \in 1..state[d].cursor :
       k \in state[d].deferred \/ Leq(log[k].vector, state[d].rec[log[k].id].vector)

Passing(r) ==
  run[r].pc = "apply" =>
    /\ run[r].next <= Len(log)
    /\ Host[r] \notin Editors =>
         \A k \in 1..run[r].next :
           \/ k \in run[r].old \cup run[r].new \cup run[r].deferred
           \/ Leq(log[k].vector, run[r].rec[log[k].id].vector)

RunSeen(r) ==
  /\ Copies(r) /\ Passing(r)
  /\ Host[r] \in Editors => Prepares(r)
  /\ Host[r] \notin Editors => Reads(r)

SeenInv ==
  /\ LogOrdered /\ AllSeen
  /\ \A d \in Devices : Passed(d)
  /\ \A d \in Devices \ Editors : Follows(d) /\ Mirrors(d)
  /\ \A r \in Runs : RunSeen(r)

SInv == Solo => SeenInv

\* A device has one run, or none that counts.
LEMMA MemoryRun ==
  ASSUME NEW s, NEW rn, NEW st, NEW r \in Runs, rn[r].pc \in Answered,
         \A p, q \in Runs : s.host[p] = s.host[q] => p = q
  PROVE  MemoryIn(s, rn, st, s.host[r]) = OnTop(rn[r].pending, rn[r].rec)
<1> DEFINE c == CHOOSE q \in Runs : s.host[q] = s.host[r] /\ rn[q].pc \in Answered
<1>1. c \in Runs /\ s.host[c] = s.host[r]
  OBVIOUS
<1>2. c = r
  BY <1>1
<1> QED
  BY <1>2 DEF MemoryIn

LEMMA MemoryState ==
  ASSUME NEW s, NEW rn, NEW st, NEW d,
         \A q \in Runs : s.host[q] = d => rn[q].pc \notin Answered
  PROVE  MemoryIn(s, rn, st, d) = st[d].rec
BY DEF MemoryIn

\* A run that does not count leaves the memory to the state.
LEMMA MemoryBefore ==
  ASSUME NEW s, NEW rn, NEW st, NEW r \in Runs, rn[r].pc \notin Answered,
         \A p, q \in Runs : s.host[p] = s.host[q] => p = q
  PROVE  MemoryIn(s, rn, st, s.host[r]) = st[s.host[r]].rec
<1>1. \A q \in Runs : s.host[q] = s.host[r] => rn[q].pc \notin Answered
  OBVIOUS
<1> QED
  BY <1>1, MemoryState

\* The memory of a device depends on its run and on its state only.
LEMMA MemoryLocal ==
  ASSUME NEW s, NEW rn, NEW rm, NEW st, NEW su, NEW d, su[d] = st[d],
         \A p, q \in Runs : s.host[p] = s.host[q] => p = q,
         \A q \in Runs : s.host[q] = d => rm[q] = rn[q]
  PROVE  MemoryIn(s, rm, su, d) = MemoryIn(s, rn, st, d)
<1>1. CASE \E q \in Runs : s.host[q] = d /\ rn[q].pc \in Answered
  <2>1. PICK q \in Runs : s.host[q] = d /\ rn[q].pc \in Answered
    BY <1>1
  <2>2. rm[q] = rn[q] /\ rm[q].pc \in Answered
    BY <2>1
  <2>3. MemoryIn(s, rn, st, d) = OnTop(rn[q].pending, rn[q].rec)
    BY <2>1, MemoryRun
  <2>4. MemoryIn(s, rm, su, d) = OnTop(rm[q].pending, rm[q].rec)
    BY <2>1, <2>2, MemoryRun
  <2> QED
    BY <2>2, <2>3, <2>4
<1>2. CASE \A q \in Runs : s.host[q] = d => rn[q].pc \notin Answered
  <2>1. \A q \in Runs : s.host[q] = d => rm[q].pc \notin Answered
    BY <1>2
  <2> QED
    BY <1>2, <2>1, MemoryState
<1> QED
  BY <1>1, <1>2

-------------------------------------------------------------------------------
(***************************************************************************)
(* What a step leaves alone of that.                                       *)
(***************************************************************************)

\* There is one editor, no two runs of a device, and no run that is cut short after its push.
LEMMA SoloIs ==
  ASSUME setting \in Settings, Solo
  PROVE  /\ \E e \in Devices : Editors = {e}
         /\ Editors \subseteq Devices
         /\ \A p, q \in Runs : Host[p] = Host[q] => p = q
         /\ \A p, q \in Runs : setting.host[p] = setting.host[q] => p = q
         /\ Faults \subseteq {"refused"}
<1>1. Editors \subseteq Devices /\ IsFiniteSet(Editors)
  BY SettingAssumption DEF IsSetting, Editors
<1>2. \E e : Editors = {e}
  BY <1>1, FS_Singleton DEF Solo
<1> QED
  BY <1>1, <1>2 DEF Solo, OwnRuns, Unbroken, Host

\* The condition is one on the setting.
LEMMA SoloSame ==
  ASSUME setting' = setting
  PROVE  Solo' <=> Solo
BY DEF Solo, Editors, OwnRuns, Host, Unbroken, Faults

\* The order of vectors, as the lemmas below need it.
LEMMA VectorOrder ==
  /\ \A v \in Vectors : Leq(v, v)
  /\ \A v \in Vectors : Leq(NoVector, v)
  /\ \A v, w, u \in Vectors : Leq(v, w) /\ Leq(w, u) => Leq(v, u)
  /\ \A v \in Vectors, d \in Devices : Leq(v, IncrementVector(v, d, 0))
  /\ \A v, w \in Vectors : Leq(v, MergeVectors(v, w)) /\ Leq(w, MergeVectors(v, w))
  /\ \A v, w \in Vectors : Leq(v, w) => Leq(MergeVectors(v, w), w)
<1>1. ASSUME NEW v \in Vectors PROVE Leq(v, v) /\ Leq(NoVector, v)
  <2>1. \A d : At(v, d) \in Nat /\ At(NoVector, d) = 0
    BY Counters, NoVectorIs DEF At
  <2> QED
    BY <2>1 DEF Leq
<1>2. ASSUME NEW v \in Vectors, NEW d \in Devices PROVE Leq(v, IncrementVector(v, d, 0))
  <2>1. /\ \A c : c # d => At(IncrementVector(v, d, 0), c) = At(v, c)
        /\ At(IncrementVector(v, d, 0), d) = At(v, d) + 1
        /\ \A c : At(v, c) \in Nat
    BY IncrementCounts, Counters
  <2> QED
    BY <2>1 DEF Leq
<1>3. \A v, w \in Vectors : Leq(v, MergeVectors(v, w)) /\ Leq(w, MergeVectors(v, w))
  BY MergeIsLeastUpperBound DEF JoinLaw
<1>4. ASSUME NEW v \in Vectors, NEW w \in Vectors, Leq(v, w) PROVE Leq(MergeVectors(v, w), w)
  <2>1. JoinLaw(v, w, w) /\ Leq(w, w)
    BY MergeIsLeastUpperBound, <1>1
  <2> QED
    BY <1>4, <2>1 DEF JoinLaw
<1> QED
  BY <1>1, <1>2, <1>3, <1>4, CausalOrderIsTransitive

\* The entries of a run, with those it has pushed on top.
LEMMA OnTopIs ==
  ASSUME NEW s, NEW rec \in [s.ids -> Entries(s)], NEW over \in Pendings(s)
  PROVE  /\ OnTop(over, rec) \in [s.ids -> Entries(s)]
         /\ \A i \in s.ids :
              OnTop(over, rec)[i] = IF i \in DOMAIN over THEN over[i] ELSE rec[i]
         /\ DOMAIN over = {} => OnTop(over, rec) = rec
         /\ DOMAIN over \subseteq s.ids
<1>1. PICK I \in SUBSET s.ids : over \in [I -> Entries(s)]
  BY DEF Pendings
<1>2. DOMAIN over = I /\ DOMAIN rec = s.ids
  BY <1>1
<1>3. DOMAIN over \cup DOMAIN rec = s.ids
  BY <1>2
<1>4. OnTop(over, rec) = [i \in s.ids |-> IF i \in DOMAIN over THEN over[i] ELSE rec[i]]
  BY <1>3 DEF OnTop
<1>5. \A i \in s.ids : (IF i \in DOMAIN over THEN over[i] ELSE rec[i]) \in Entries(s)
  BY <1>1, <1>2
<1>6. DOMAIN over = {} => OnTop(over, rec) = rec
  BY <1>4
<1> QED
  BY <1>2, <1>4, <1>5, <1>6

\* The memory of a device is of the type of the records of a state.
LEMMA MemoryTyped ==
  ASSUME TypeOK, Solo, NEW d \in Devices
  PROVE  /\ Memory(d) \in [Ids -> Entries(setting)]
         /\ \A i \in Ids : Memory(d)[i].vector \in Vectors
<1>1. \A p, q \in Runs : setting.host[p] = setting.host[q] => p = q
  BY SoloIs DEF TypeOK
<1>2. ASSUME NEW r \in Runs, setting.host[r] = d, run[r].pc \in Answered
      PROVE  Memory(d) \in [Ids -> Entries(setting)]
  <2>1. Memory(d) = OnTop(run[r].pending, run[r].rec)
    BY <1>1, <1>2, MemoryRun DEF Memory
  <2>2. run[r].rec \in [setting.ids -> Entries(setting)] /\ run[r].pending \in Pendings(setting)
    <3>1. run[r] \in Pushes(setting, log) \cup Pulls(setting, log)
      BY <1>2, RunIs DEF Answered
    <3> QED
      BY <3>1 DEF Pushes, Pulls
  <2> QED
    BY <2>1, <2>2, OnTopIs DEF Ids
<1>3. ASSUME \A r \in Runs : setting.host[r] = d => run[r].pc \notin Answered
      PROVE  Memory(d) \in [Ids -> Entries(setting)]
  <2>1. Memory(d) = state[d].rec
    BY <1>3, MemoryState DEF Memory
  <2>2. state[d] \in States(setting, log)
    BY DEF TypeOK
  <2> QED
    BY <2>1, <2>2 DEF States, Ids
<1>4. Memory(d) \in [Ids -> Entries(setting)]
  BY <1>2, <1>3
<1> QED
  BY <1>4 DEF Entries

\* A step that leaves what all devices have seen, and what the readers have.
LEMMA SteadyLog ==
  ASSUME SeenInv, Solo, setting \in Settings, setting' = setting, log' = log,
         \A d \in Devices : Memory(d)' = Memory(d),
         \A d \in Devices \ Editors : local'[d] = local[d] /\ journal'[d] = journal[d]
  PROVE  /\ LogOrdered' /\ AllSeen'
         /\ \A d \in Devices \ Editors : Follows(d)' /\ Mirrors(d)'
<1>1. Editors' = Editors /\ Ids' = Ids /\ Editors \subseteq Devices
  BY SoloIs DEF Editors, Ids
<1>2. LogOrdered'
  BY <1>1 DEF SeenInv, LogOrdered
<1>3. AllSeen'
  BY <1>1 DEF SeenInv, AllSeen
<1>4. ASSUME NEW d \in Devices \ Editors PROVE Follows(d)' /\ Mirrors(d)'
  <2>1. Follows(d) /\ Mirrors(d)
    BY DEF SeenInv
  <2>2. Memory(d)' = Memory(d) /\ \A e \in Editors : Memory(e)' = Memory(e)
    BY <1>1
  <2>3. Follows(d)'
    BY <1>1, <2>1, <2>2 DEF Follows
  <2>4. Mirrors(d)'
    BY <1>1, <2>1, <2>2 DEF Mirrors
  <2> QED
    BY <2>3, <2>4
<1> QED
  BY <1>2, <1>3, <1>4

\* What a device has passed does not change with what follows in the log.
LEMMA PassedKept ==
  ASSUME TypeOK, NEW d \in Devices, Passed(d), Grows(log, log'), log' \in Seq(Records(setting)),
         state'[d] = state[d]
  PROVE  Passed(d)'
<1>1. /\ log \in Seq(Records(setting)) /\ state[d].cursor \in Nat
      /\ Len(log) \in Nat /\ Len(log') \in Nat
  BY DEF TypeOK, States
<1>2. DOMAIN log = 1..Len(log) /\ DOMAIN log' = 1..Len(log')
  BY <1>1
<1>3. Len(log) <= Len(log')
  BY <1>1, <1>2 DEF Grows
<1>4. \A k \in 1..state[d].cursor : log'[k] = log[k]
  BY <1>1, <1>2 DEF Grows, Passed
<1> QED
  BY <1>1, <1>3, <1>4 DEF Passed

\* Nor does what the runs have in hand.
LEMMA RunSeenKept ==
  ASSUME TypeOK, setting' = setting, NEW q \in Runs, run'[q] = run[q], RunSeen(q),
         Grows(log, log'), log' \in Seq(Records(setting)), state'[Host[q]] = state[Host[q]],
         Host[q] \notin Editors => local'[Host[q]] = local[Host[q]]
  PROVE  RunSeen(q)'
<1>1. Host' = Host /\ Editors' = Editors /\ Ids' = Ids
  BY DEF Host, Editors, Ids
<1>2. Copies(q)'
  BY <1>1 DEF RunSeen, Copies
<1>3. Passing(q)'
  <2>1. CASE run[q].pc # "apply"
    BY <2>1 DEF Passing
  <2>2. CASE run[q].pc = "apply"
    <3>1. /\ log \in Seq(Records(setting)) /\ run[q].next \in Nat
          /\ Len(log) \in Nat /\ Len(log') \in Nat
      BY <2>2, RunIs DEF TypeOK, Pulls
    <3>2. DOMAIN log = 1..Len(log) /\ DOMAIN log' = 1..Len(log')
      BY <3>1
    <3>3. Len(log) <= Len(log')
      BY <3>1, <3>2 DEF Grows
    <3>4. Passing(q) /\ run[q].next <= Len(log)
      BY <2>2 DEF RunSeen, Passing
    <3>5. \A k \in 1..run[q].next : log'[k] = log[k]
      BY <3>1, <3>2, <3>4 DEF Grows
    <3> QED
      BY <1>1, <2>2, <3>1, <3>3, <3>4, <3>5 DEF Passing
  <2> QED
    BY <2>1, <2>2
<1>4. Prepares(q) => Prepares(q)'
  BY <1>1 DEF Prepares
<1>5. ASSUME Host[q] \notin Editors PROVE Reads(q)'
  <2>1. Reads(q) /\ local'[Host[q]] = local[Host[q]]
    BY <1>5 DEF RunSeen
  <2>2. Export(Host[q], run[q].kinds)' = Export(Host[q], run[q].kinds)
    BY <1>1, <2>1 DEF Export, Allowed, Kind
  <2> QED
    BY <2>1, <2>2 DEF Reads
<1> QED
  BY <1>1, <1>2, <1>3, <1>4, <1>5 DEF RunSeen

\* All that is left to show of a step of run r that leaves the states alone.
LEMMA SeenOthers ==
  ASSUME IInv, Solo, SeenInv, setting' = setting, NEW r \in Runs,
         \A q \in Runs \ {r} : run'[q] = run[q],
         Grows(log, log'), log' \in Seq(Records(setting)), state' = state,
         \A d \in Devices \ (Editors \cup {Host[r]}) : local'[d] = local[d],
         RunSeen(r)'
  PROVE  /\ \A d \in Devices : Passed(d)'
         /\ \A q \in Runs : RunSeen(q)'
<1>1. \A d \in Devices : Passed(d)'
  BY PassedKept DEF IInv, SeenInv
<1>2. ASSUME NEW q \in Runs \ {r} PROVE RunSeen(q)'
  <2>1. /\ Host[q] \in Devices /\ Host[r] \in Devices /\ Host[q] # Host[r]
        /\ RunSeen(q)
    BY RunIs, SoloIs DEF IInv, TypeOK, SeenInv
  <2>2. Host[q] \notin Editors => local'[Host[q]] = local[Host[q]]
    BY <2>1
  <2> QED
    BY <2>1, <2>2, RunSeenKept DEF IInv
<1> QED
  BY <1>1, <1>2

\* What the other devices have seen.
LEMMA MemoryOthers ==
  ASSUME IInv, Solo, setting' = setting, NEW r \in Runs,
         \A q \in Runs \ {r} : run'[q] = run[q],
         \A d \in Devices \ {Host[r]} : state'[d] = state[d]
  PROVE  \A d \in Devices \ {Host[r]} : Memory(d)' = Memory(d)
<1> SUFFICES ASSUME NEW d \in Devices \ {Host[r]} PROVE Memory(d)' = Memory(d)
  OBVIOUS
<1>1. \A p, q \in Runs : setting.host[p] = setting.host[q] => p = q
  BY SoloIs DEF IInv, TypeOK
<1>2. \A q \in Runs : setting.host[q] = d => run'[q] = run[q]
  BY DEF Host
<1>3. MemoryIn(setting, run', state', d) = MemoryIn(setting, run, state, d)
  BY <1>1, <1>2, MemoryLocal
<1> QED
  BY <1>3 DEF Memory

\* The memory of the device of a run, before and after a step.
LEMMA MemoryOfRun ==
  ASSUME TypeOK, Solo, NEW r \in Runs, NEW d, d = Host[r], setting' = setting
  PROVE  /\ run[r].pc \in Answered => Memory(d) = OnTop(run[r].pending, run[r].rec)
         /\ run[r].pc \notin Answered => Memory(d) = state[d].rec
         /\ run'[r].pc \in Answered => Memory(d)' = OnTop(run'[r].pending, run'[r].rec)
         /\ run'[r].pc \notin Answered => Memory(d)' = state'[d].rec
<1>1. \A p, q \in Runs : setting.host[p] = setting.host[q] => p = q
  BY SoloIs DEF TypeOK
<1>2. setting.host[r] = d
  BY DEF Host
<1>3. run[r].pc \in Answered =>
        MemoryIn(setting, run, state, d) = OnTop(run[r].pending, run[r].rec)
  BY <1>1, <1>2, MemoryRun
<1>4. run[r].pc \notin Answered => MemoryIn(setting, run, state, d) = state[d].rec
  BY <1>1, <1>2, MemoryBefore
<1>5. run'[r].pc \in Answered =>
        MemoryIn(setting, run', state', d) = OnTop(run'[r].pending, run'[r].rec)
  BY <1>1, <1>2, MemoryRun
<1>6. run'[r].pc \notin Answered => MemoryIn(setting, run', state', d) = state'[d].rec
  BY <1>1, <1>2, MemoryBefore
<1> QED
  BY <1>3, <1>4, <1>5, <1>6 DEF Memory

\* A step of a run that leaves what its device has seen.
LEMMA SeenQuiet ==
  ASSUME IInv, Solo, SeenInv, setting' = setting, log' = log, state' = state, NEW r \in Runs,
         \A q \in Runs \ {r} : run'[q] = run[q],
         NEW d, d = Host[r], Memory(d)' = Memory(d),
         \A c \in Devices \ Editors : local'[c] = local[c] /\ journal'[c] = journal[c],
         RunSeen(r)'
  PROVE  SeenInv'
<1>1. /\ setting \in Settings /\ Grows(log, log') /\ log' \in Seq(Records(setting))
      /\ Editors' = Editors
  BY GrowsSame DEF IInv, TypeOK, Editors
<1>2. \A c \in Devices : Memory(c)' = Memory(c)
  BY MemoryOthers
<1>3. /\ LogOrdered' /\ AllSeen'
      /\ \A c \in Devices \ Editors : Follows(c)' /\ Mirrors(c)'
  BY <1>1, <1>2, SteadyLog
<1>4. /\ \A c \in Devices : Passed(c)'
      /\ \A q \in Runs : RunSeen(q)'
  BY <1>1, SeenOthers
<1> QED
  BY <1>1, <1>3, <1>4 DEF SeenInv

\* The elements of an empty set.
LEMMA ListedNone == SetToSeq({}) = <<>>
<1>1. SetToSeq({}) \in Seq({})
  BY Listed, FS_EmptySet
<1> QED
  BY <1>1

\* A listing of the values of a function holds each of them, and nothing else.
LEMMA ListedImage ==
  ASSUME NEW S, IsFiniteSet(S), NEW g, DOMAIN g = S,
         NEW T, \A t \in T : \E x \in S : t = g[x], \A x \in S : g[x] \in T
  PROVE  /\ \A n \in DOMAIN SetToSeq(T) : \E x \in S : SetToSeq(T)[n] = g[x]
         /\ \A x \in S : \E n \in DOMAIN SetToSeq(T) : SetToSeq(T)[n] = g[x]
         /\ \A U : (\A x \in S : g[x] \in U) => SetToSeq(T) \in Seq(U)
<1>1. IsFiniteSet({g[x] : x \in S})
  BY FiniteImage
<1>2. IsFiniteSet(T)
  <2>1. T = {g[x] : x \in S}
    OBVIOUS
  <2> QED
    BY <1>1, <2>1
<1> DEFINE sq == SetToSeq(T)
<1>3. sq \in Seq(T) /\ \A t \in T : \E n \in DOMAIN sq : sq[n] = t
  BY <1>2, Listed
<1>4. ASSUME NEW U, \A x \in S : g[x] \in U PROVE sq \in Seq(U)
  <2>1. T \subseteq U
    BY <1>4
  <2> QED
    BY <1>2, <2>1, Listed
<1> HIDE DEF sq
<1>5. \A n \in DOMAIN sq : sq[n] \in T
  BY <1>3
<1>6. /\ \A n \in DOMAIN sq : \E x \in S : sq[n] = g[x]
      /\ \A x \in S : \E n \in DOMAIN sq : sq[n] = g[x]
  BY <1>3, <1>5
<1> QED
  BY <1>4, <1>6 DEF sq

\* Begin: a reader has nothing to send, an editor counts its changes on top of what it has.
LEMMA SeenBegin ==
  ASSUME IInv, Solo, SeenInv, NEW r \in Runs, Begin(r)
  PROVE  SeenInv'
<1> DEFINE d == Host[r]
           rec == state[d].rec
           data == Export(d, accepts[d])
           changed == {i \in Ids : /\ data[i] # NoData
                                   /\ PayloadAllowed(accepts[d], i)
                                   /\ Unpushed(rec[i], data[i])}
           pushed == [i \in changed |-> Changed(d, i, rec[i], data[i])]
           all == {pushed[i] : i \in changed}
           req == SetToSeq(all)
           pend == [i \in changed |-> EntryOf(pushed[i])]
           u == [pc |-> "collect", kinds |-> accepts[d], rec |-> rec,
                 cursor |-> state[d].cursor, deferred |-> state[d].deferred,
                 out |-> req, pending |-> pend, drops |-> {}]
<1>1. /\ run[r].pc = "idle" /\ run' = [run EXCEPT ![r] = u]
      /\ UNCHANGED <<setting, local, journal, accepts, state, log, ops, faults>>
  BY DEF Begin
<1>2. /\ d \in Devices /\ setting \in Settings /\ setting' = setting
      /\ run \in [Runs -> {IdleRun} \cup Pushes(setting, log) \cup Pulls(setting, log)]
      /\ Host' = Host /\ Editors' = Editors
  BY <1>1, RunIs DEF IInv, TypeOK, Host, Editors
<1>3. run'[r] = u /\ \A q \in Runs \ {r} : run'[q] = run[q]
  BY <1>1, <1>2
<1>4. Memory(d) = rec
  BY <1>1, MemoryOfRun DEF IInv, Answered
<1>5. ASSUME NEW i \in changed
      PROVE  /\ pushed[i].id = i /\ pushed[i].dev = d
             /\ pushed[i].vector = IncrementVector(rec[i].vector, d, 0)
             /\ pend[i].vector = IncrementVector(rec[i].vector, d, 0)
  BY DEF Changed, EntryOf
<1>6. /\ DOMAIN pushed = changed /\ IsFiniteSet(changed)
      /\ (\A t \in all : \E i \in changed : t = pushed[i]) /\ \A i \in changed : pushed[i] \in all
  BY <1>2, SettingIs, FS_Subset
<1>7. d \notin Editors => changed = {}
  <2> SUFFICES ASSUME d \notin Editors, NEW i \in Ids, data[i] # NoData PROVE data[i] = rec[i].hash
    BY DEF Unpushed
  <2>1. Mirrors(d)
    BY <1>2 DEF SeenInv
  <2>2. data[i] = local[d][i]
    BY DEF Export
  <2> QED
    BY <1>4, <2>1, <2>2 DEF Mirrors
<1>8. DOMAIN pend = changed
  OBVIOUS
<1>9. d \notin Editors => req = <<>>
  <2>2. SUFFICES ASSUME d \notin Editors PROVE req = <<>>
    OBVIOUS
  <2>3. all = {}
    BY <1>7, <2>2
  <2> QED
    BY <2>3, ListedNone
<1> HIDE DEF changed, data, pushed, all, pend
<1>10. \A n \in DOMAIN req : \E i \in changed : req[n] = pushed[i]
  BY <1>6, ListedImage
<1> HIDE DEF req
<1>11. /\ u.pc = "collect" /\ u.rec = rec /\ u.out = req /\ u.pending = pend
       /\ u.cursor = state[d].cursor /\ u.deferred = state[d].deferred
  OBVIOUS
<1> HIDE DEF u
<1>12. Memory(d)' = Memory(d)
  <2>1. setting' = setting /\ run'[r].pc \notin Answered /\ TypeOK /\ state' = state
    BY <1>1, <1>3, <1>11 DEF IInv, Answered
  <2> HIDE DEF rec
  <2>2. Memory(d)' = state'[d].rec
    BY <1>2, <2>1, MemoryOfRun
  <2> QED
    BY <1>4, <2>1, <2>2 DEF rec
<1>13. RunSeen(r)'
  <2>1. Copies(r)' /\ Passing(r)'
    BY <1>1, <1>2, <1>3, <1>11 DEF Copies, Passing
  <2>2. d \in Editors => Prepares(r)'
    BY <1>2, <1>3, <1>5, <1>8, <1>11, <1>10 DEF Prepares
  <2>3. d \notin Editors => Reads(r)'
    BY <1>3, <1>7, <1>8, <1>9, <1>11 DEF Reads
  <2> QED
    BY <1>2, <2>1, <2>2, <2>3 DEF RunSeen
<1>14. log' = log /\ state' = state
       /\ \A c \in Devices \ Editors : local'[c] = local[c] /\ journal'[c] = journal[c]
  BY <1>1
<1> QED
  BY <1>2, <1>3, <1>12, <1>13, <1>14, SeenQuiet

\* Collect: the tombstones count on top as well; a run with nothing to push pulls.
LEMMA SeenCollect ==
  ASSUME IInv, Solo, SeenInv, NEW r \in Runs, Collect(r)
  PROVE  SeenInv'
<1> DEFINE d == Host[r]
           drops == {i \in journal[d] : Known(run[r].rec[i])}
           graves == [i \in drops |-> Removed(d, i, run[r].rec[i])]
           all == {graves[i] : i \in drops}
           tail == SetToSeq(all)
           req == run[r].out \o tail
           dead == [i \in drops |-> EntryOf(graves[i])]
           pend == OnTop(dead, run[r].pending)
           u == [run[r] EXCEPT !.pc = IF req = <<>> THEN "pull" ELSE "push", !.out = req,
                               !.pending = pend, !.drops = drops]
<1>1. /\ run[r].pc = "collect" /\ journal' = [journal EXCEPT ![d] = drops]
      /\ UNCHANGED <<setting, local, accepts, state, log, ops, faults>>
  BY DEF Collect
<1>2. /\ d \in Devices /\ setting \in Settings /\ setting' = setting
      /\ run[r] \in Pushes(setting, log) /\ journal \in [Devices -> SUBSET Ids]
      /\ run \in [Runs -> {IdleRun} \cup Pushes(setting, log) \cup Pulls(setting, log)]
      /\ Host' = Host /\ Editors' = Editors
  BY <1>1, RunIs DEF IInv, TypeOK, Host, Editors
<1>3. run' = [run EXCEPT ![r] = u]
  BY <1>2 DEF Collect
<1>4. run'[r] = u /\ \A q \in Runs \ {r} : run'[q] = run[q]
  BY <1>2, <1>3
<1>5. /\ u.pc = (IF req = <<>> THEN "pull" ELSE "push") /\ u.out = req /\ u.pending = pend
      /\ u.rec = run[r].rec /\ u.cursor = run[r].cursor /\ u.deferred = run[r].deferred
  BY <1>2 DEF Pushes
<1> HIDE DEF u
<1>6. drops \subseteq Ids /\ run[r].out \in Seq(Records(setting))
      /\ run[r].pending \in Pendings(setting)
  BY <1>2 DEF Pushes
<1>7. RunSeen(r)
  BY DEF SeenInv
<1>8. run[r].rec = state[d].rec /\ Memory(d) = state[d].rec
  <2>1. run[r].rec = state[d].rec
    BY <1>1, <1>7 DEF RunSeen, Copies
  <2>2. Memory(d) = state[d].rec
    BY <1>1, <1>2, MemoryOfRun DEF IInv, Answered
  <2> QED
    BY <2>1, <2>2
<1>9. DOMAIN dead = drops /\ DOMAIN pend = drops \cup DOMAIN run[r].pending
      /\ \A i \in DOMAIN pend : pend[i] = IF i \in drops THEN dead[i] ELSE run[r].pending[i]
  BY DEF OnTop
<1>10. ASSUME NEW i \in drops
       PROVE  /\ graves[i].id = i /\ graves[i].dev = d
              /\ graves[i].vector = IncrementVector(run[r].rec[i].vector, d, 0)
              /\ dead[i].vector = IncrementVector(run[r].rec[i].vector, d, 0)
              /\ graves[i] \in Records(setting)
  <2>1. run[r].rec[i] \in Entries(setting)
    BY <1>2, <1>6 DEF Pushes, Ids
  <2>2. graves[i] \in Records(setting)
    BY <1>2, <1>6, <2>1, RemovedIs
  <2> QED
    BY <2>2 DEF Removed, EntryOf
<1>11. /\ DOMAIN graves = drops
       /\ (\A t \in all : \E i \in drops : t = graves[i]) /\ \A i \in drops : graves[i] \in all
  OBVIOUS
<1>12. d \notin Editors => drops = {} /\ req = <<>>
  <2> SUFFICES ASSUME d \notin Editors PROVE drops = {} /\ req = <<>>
    OBVIOUS
  <2>1. journal[d] = {} /\ run[r].out = <<>>
    BY <1>1, <1>2, <1>7 DEF SeenInv, Mirrors, RunSeen, Reads
  <2>2. drops = {}
    BY <2>1
  <2>3. all = {}
    BY <2>2
  <2>4. tail = <<>>
    BY <2>3, ListedNone
  <2> QED
    BY <2>1, <2>2, <2>4
<1>13. journal'[d] = drops /\ \A c \in Devices \ {d} : journal'[c] = journal[c]
  BY <1>1, <1>2
<1> HIDE DEF drops, graves, all, dead, pend
<1>14. /\ tail \in Seq(Records(setting))
       /\ \A n \in DOMAIN tail : \E i \in drops : tail[n] = graves[i]
       /\ \A i \in drops : \E n \in DOMAIN tail : tail[n] = graves[i]
  <2>1. IsFiniteSet(drops)
    BY <1>2, <1>6, SettingIs, FS_Subset
  <2>2. \A i \in drops : graves[i] \in Records(setting)
    BY <1>10
  <2> QED
    BY <1>11, <2>1, <2>2, ListedImage
<1> HIDE DEF tail
<1>15. \A n \in DOMAIN req :
         \/ n \in DOMAIN run[r].out /\ req[n] = run[r].out[n]
         \/ \E m \in DOMAIN tail : req[n] = tail[m]
  BY <1>6, <1>14, Joined
<1>16. req = <<>> => DOMAIN pend = {}
  <2> SUFFICES ASSUME req = <<>> PROVE drops = {} /\ DOMAIN run[r].pending = {}
    BY <1>9
  <2>1. run[r].out = <<>> /\ tail = <<>>
    BY <1>6, <1>14
  <2>2. drops = {}
    BY <1>14, <2>1
  <2>3. Sends(r)
    BY DEF IInv
  <2>4. \A i \in DOMAIN run[r].pending : Holds(run[r].out, i, run[r].pending[i])
    BY <1>1, <2>3 DEF Sends
  <2>5. DOMAIN run[r].pending = {}
    BY <2>1, <2>4 DEF Holds
  <2> QED
    BY <2>2, <2>5
<1> HIDE DEF req
<1>17. RunSeen(r)'
  <2>1. Copies(r)' /\ Passing(r)'
    <3>1. Copies(r)
      BY <1>7 DEF RunSeen
    <3> QED
      BY <1>1, <1>2, <1>4, <1>5, <3>1 DEF Copies, Passing
  <2>2. ASSUME d \in Editors PROVE Prepares(r)'
    <3>1. Prepares(r)
      BY <1>7, <2>2 DEF RunSeen
    <3>2. ASSUME NEW n \in DOMAIN req
          PROVE  /\ req[n].dev = d /\ req[n].id \in DOMAIN pend
                 /\ req[n].vector = IncrementVector(run[r].rec[req[n].id].vector, d, 0)
      <4>1. CASE n \in DOMAIN run[r].out /\ req[n] = run[r].out[n]
        BY <1>1, <1>9, <3>1, <4>1 DEF Prepares
      <4>2. CASE \E m \in DOMAIN tail : req[n] = tail[m]
        <5>1. PICK i \in drops : req[n] = graves[i]
          BY <1>14, <4>2
        <5> QED
          BY <1>9, <1>10, <5>1
      <4> QED
        BY <1>15, <4>1, <4>2
    <3>3. \A i \in DOMAIN pend : pend[i].vector = IncrementVector(run[r].rec[i].vector, d, 0)
      BY <1>1, <1>9, <1>10, <3>1 DEF Prepares
    <3> QED
      BY <1>2, <1>4, <1>5, <3>2, <3>3 DEF Prepares
  <2>3. d \notin Editors => Reads(r)'
    BY <1>4, <1>5, <1>12, <1>16 DEF Reads
  <2> QED
    BY <1>2, <2>1, <2>2, <2>3 DEF RunSeen
<1>18. Memory(d)' = Memory(d)
  <2>1. CASE req = <<>>
    <3>1. Memory(d)' = OnTop(pend, run[r].rec)
      BY <1>2, <1>4, <1>5, <2>1, MemoryOfRun DEF IInv, Answered
    <3>2. run[r].rec \in [setting.ids -> Entries(setting)]
      BY <1>2 DEF Pushes
    <3>3. OnTop(pend, run[r].rec) = run[r].rec
      BY <1>16, <2>1, <3>2 DEF OnTop
    <3> QED
      BY <1>8, <3>1, <3>3
  <2>2. CASE req # <<>>
    <3>1. Memory(d)' = state'[d].rec
      BY <1>2, <1>4, <1>5, <2>2, MemoryOfRun DEF IInv, Answered
    <3> QED
      BY <1>1, <1>8, <3>1
  <2> QED
    BY <2>1, <2>2
<1>19. /\ log' = log /\ state' = state
       /\ \A c \in Devices \ Editors : local'[c] = local[c] /\ journal'[c] = journal[c]
  <2>1. d \notin Editors => journal'[d] = journal[d]
    BY <1>2, <1>12, <1>13 DEF SeenInv, Mirrors
  <2> QED
    BY <1>1, <1>13, <2>1
<1> QED
  BY <1>2, <1>4, <1>17, <1>18, <1>19, SeenQuiet

\* Push: what the editor has sent follows all that was sent before.
LEMMA SeenPush ==
  ASSUME IInv, Solo, SeenInv, NEW r \in Runs, Push(r)
  PROVE  SeenInv'
<1> DEFINE d == Host[r]
           req == run[r].out
           rec == run[r].rec
           pend == run[r].pending
           u == [run[r] EXCEPT !.pc = IF run[r].drops = {} THEN "pull" ELSE "drop"]
           New(i) == IncrementVector(rec[i].vector, d, 0)
<1>1. /\ run[r].pc = "push" /\ log' = log \o req /\ run' = [run EXCEPT ![r] = u]
      /\ UNCHANGED <<setting, local, journal, accepts, state, ops, faults>>
  BY DEF Push
<1>2. /\ d \in Devices /\ setting \in Settings /\ setting' = setting
      /\ run[r] \in Pushes(setting, log) /\ log \in Seq(Records(setting))
      /\ run \in [Runs -> {IdleRun} \cup Pushes(setting, log) \cup Pulls(setting, log)]
      /\ Host' = Host /\ Editors' = Editors /\ Ids' = Ids
  BY <1>1, RunIs DEF IInv, TypeOK, Host, Editors, Ids
<1>3. run'[r] = u /\ \A q \in Runs \ {r} : run'[q] = run[q]
  BY <1>1, <1>2
<1>4. /\ u.pc \in {"pull", "drop"} /\ u.out = req /\ u.pending = pend
      /\ u.rec = rec /\ u.cursor = run[r].cursor /\ u.deferred = run[r].deferred
      /\ req \in Seq(Records(setting)) /\ rec \in [setting.ids -> Entries(setting)]
      /\ pend \in Pendings(setting)
  BY <1>2 DEF Pushes
<1> HIDE DEF u
<1>5. RunSeen(r)
  BY DEF SeenInv
<1>6. Editors = {d}
  <2>1. d \in Editors
    BY <1>1, <1>5 DEF RunSeen, Reads
  <2> QED
    BY <1>2, <2>1, SoloIs
<1>7. rec = state[d].rec /\ Memory(d) = rec
  <2>1. rec = state[d].rec
    BY <1>1, <1>5 DEF RunSeen, Copies
  <2>2. Memory(d) = state[d].rec
    BY <1>1, <1>2, MemoryOfRun DEF IInv, Answered
  <2> QED
    BY <2>1, <2>2
<1>8. Memory(d)' = OnTop(pend, rec)
  BY <1>2, <1>3, <1>4, MemoryOfRun DEF IInv, Answered
<1>9. \A c \in Devices \ {d} : Memory(c)' = Memory(c)
  BY <1>1, <1>2, <1>3, MemoryOthers
<1>10. /\ \A n \in DOMAIN req : req[n].dev = d /\ req[n].id \in DOMAIN pend
                                /\ req[n].vector = New(req[n].id)
       /\ \A i \in DOMAIN pend : pend[i].vector = New(i)
  BY <1>1, <1>5, <1>6 DEF RunSeen, Prepares
<1>11. /\ \A c \in Devices, i \in Ids : Memory(c)[i].vector \in Vectors
       /\ \A i \in Ids : rec[i].vector \in Vectors /\ New(i) \in Vectors
                         /\ Leq(rec[i].vector, New(i)) /\ Leq(rec[i].vector, rec[i].vector)
       /\ \A k \in DOMAIN log : log[k].vector \in Vectors /\ log[k].id \in Ids
       /\ \A i \in Ids : Memory(d)'[i].vector \in Vectors
  <2>1. \A c \in Devices, i \in Ids : Memory(c)[i].vector \in Vectors
    BY MemoryTyped DEF IInv
  <2>2. \A i \in Ids : rec[i].vector \in Vectors /\ New(i) \in Vectors
    BY <1>2, <1>4, IncrementIsKnown DEF Entries, Ids
  <2>3. \A k \in DOMAIN log : log[k].vector \in Vectors /\ log[k].id \in Ids
    BY <1>2, RecordIs
  <2>4. \A i \in Ids : Memory(d)'[i] \in Entries(setting)
    BY <1>4, <1>8, OnTopIs DEF Ids
  <2>5. \A i \in Ids : Leq(rec[i].vector, New(i)) /\ Leq(rec[i].vector, rec[i].vector)
    BY <1>2, <2>2, VectorOrder
  <2> QED
    BY <2>1, <2>2, <2>3, <2>4, <2>5 DEF Entries
<1> HIDE DEF New
<1>12. \A i \in Ids : /\ Memory(d)'[i].vector = IF i \in DOMAIN pend THEN New(i) ELSE rec[i].vector
                      /\ Leq(rec[i].vector, Memory(d)'[i].vector)
  <2>1. \A i \in Ids : Memory(d)'[i] = IF i \in DOMAIN pend THEN pend[i] ELSE rec[i]
    BY <1>4, <1>8, OnTopIs DEF Ids
  <2>2. \A i \in Ids : Memory(d)'[i].vector = IF i \in DOMAIN pend THEN New(i) ELSE rec[i].vector
    BY <1>10, <2>1
  <2> QED
    BY <1>11, <2>2
<1>13. /\ Grows(log, log') /\ log' \in Seq(Records(setting))
       /\ \A n \in DOMAIN log' :
            \/ n \in DOMAIN log /\ log'[n] = log[n]
            \/ n \notin DOMAIN log /\ n - Len(log) \in DOMAIN req /\ log'[n] = req[n - Len(log)]
  <2>1. /\ Grows(log, log') /\ log' \in Seq(Records(setting))
        /\ \A n \in DOMAIN log' :
             \/ n \in DOMAIN log /\ log'[n] = log[n]
             \/ n - Len(log) \in DOMAIN req /\ log'[n] = req[n - Len(log)]
    BY <1>1, <1>2, <1>4, Joined
  <2>2. \A n \in DOMAIN log : n - Len(log) \notin DOMAIN req
    BY <1>2, <1>4
  <2> QED
    BY <2>1, <2>2
<1>14. \A j \in DOMAIN log', k \in DOMAIN log' : j <= k /\ k \in DOMAIN log => j \in DOMAIN log
  BY <1>2, <1>13
<1>15. \A n \in DOMAIN log' \ DOMAIN log :
         /\ log'[n].dev = d /\ log'[n].id \in DOMAIN pend /\ log'[n].id \in Ids
         /\ log'[n].vector = New(log'[n].id)
  <2>1. DOMAIN pend \subseteq Ids
    BY <1>4, OnTopIs DEF Ids
  <2> QED
    BY <1>10, <1>13, <2>1
<1>16. \A n \in DOMAIN log : log'[n] = log[n] /\ Leq(log[n].vector, rec[log[n].id].vector)
  BY <1>6, <1>7, <1>13 DEF SeenInv, AllSeen, Grows
<1>17. LogOrdered'
  <2> SUFFICES ASSUME NEW k \in DOMAIN log'
               PROVE  /\ log'[k].dev \in Editors
                      /\ \A j \in DOMAIN log' : j <= k /\ log'[j].id = log'[k].id =>
                           Leq(log'[j].vector, log'[k].vector)
    BY <1>2 DEF LogOrdered
  <2>1. CASE k \in DOMAIN log
    BY <1>14, <1>16, <2>1 DEF SeenInv, LogOrdered
  <2>2. CASE k \notin DOMAIN log
    <3>1. /\ log'[k].dev \in Editors /\ log'[k].id \in Ids
          /\ log'[k].vector = New(log'[k].id)
      BY <1>6, <1>15, <2>2
    <3>2. ASSUME NEW j \in DOMAIN log, log'[j].id = log'[k].id
          PROVE  Leq(log'[j].vector, log'[k].vector)
      <4>1. /\ Leq(log[j].vector, rec[log'[k].id].vector)
            /\ Leq(rec[log'[k].id].vector, log'[k].vector)
            /\ log'[j].vector = log[j].vector /\ log[j].vector \in Vectors
        BY <1>11, <1>16, <3>1, <3>2
      <4>2. rec[log'[k].id].vector \in Vectors /\ log'[k].vector \in Vectors
        BY <1>11, <3>1
      <4> QED
        BY <4>1, <4>2, VectorOrder
    <3>3. ASSUME NEW j \in DOMAIN log' \ DOMAIN log, log'[j].id = log'[k].id
          PROVE  Leq(log'[j].vector, log'[k].vector)
      BY <1>11, <1>15, <3>1, <3>3, VectorOrder
    <3> QED
      BY <3>1, <3>2, <3>3
  <2> QED
    BY <2>1, <2>2
<1>18. AllSeen'
  <2>1. ASSUME NEW k \in DOMAIN log' PROVE Leq(log'[k].vector, Memory(d)'[log'[k].id].vector)
    <3>1. CASE k \in DOMAIN log
      <4> DEFINE i == log[k].id
      <4>1. /\ i \in Ids /\ log[k].vector \in Vectors /\ rec[i].vector \in Vectors
            /\ Memory(d)'[i].vector \in Vectors
            /\ Leq(log[k].vector, rec[i].vector) /\ Leq(rec[i].vector, Memory(d)'[i].vector)
            /\ log'[k] = log[k]
        BY <1>11, <1>12, <1>16, <3>1
      <4> QED
        BY <4>1, VectorOrder
    <3>2. CASE k \notin DOMAIN log
      BY <1>11, <1>12, <1>15, <3>2, VectorOrder
    <3> QED
      BY <3>1, <3>2
  <2> QED
    BY <1>2, <1>6, <2>1 DEF AllSeen
<1>19. ASSUME NEW c \in Devices \ Editors PROVE Follows(c)' /\ Mirrors(c)'
  <2>1. /\ Follows(c) /\ Mirrors(c) /\ Memory(c)' = Memory(c)
        /\ local' = local /\ journal' = journal
    BY <1>1, <1>6, <1>9 DEF SeenInv
  <2>2. ASSUME NEW i \in Ids PROVE Leq(Memory(c)[i].vector, Memory(d)'[i].vector)
    <3>1. /\ Leq(Memory(c)[i].vector, rec[i].vector) /\ Leq(rec[i].vector, Memory(d)'[i].vector)
          /\ Memory(c)[i].vector \in Vectors /\ rec[i].vector \in Vectors
          /\ Memory(d)'[i].vector \in Vectors
      BY <1>6, <1>7, <1>11, <1>12, <2>1 DEF Follows
    <3> QED
      BY <3>1, VectorOrder
  <2>3. ASSUME NEW k \in DOMAIN log'
        PROVE  Comparable(Memory(c)[log'[k].id].vector, log'[k].vector)
    <3>1. CASE k \in DOMAIN log
      BY <1>11, <1>16, <2>1, <3>1 DEF Follows
    <3>2. CASE k \notin DOMAIN log
      <4> DEFINE i == log'[k].id
      <4>1. i \in Ids /\ log'[k].vector = New(i) /\ i \in DOMAIN pend
        BY <1>15, <3>2
      <4>2. Memory(d)'[i].vector = New(i)
        BY <1>12, <4>1
      <4> QED
        BY <2>2, <4>1, <4>2 DEF Comparable
    <3> QED
      BY <3>1, <3>2
  <2>4. Follows(c)'
    BY <1>2, <1>6, <2>1, <2>2, <2>3 DEF Follows
  <2>5. Mirrors(c)'
    BY <1>2, <2>1 DEF Mirrors
  <2> QED
    BY <2>4, <2>5
<1>20. RunSeen(r)'
  <2>1. Copies(r)
    BY <1>5 DEF RunSeen
  <2>2. Copies(r)' /\ Passing(r)' /\ Prepares(r)'
    BY <1>1, <1>2, <1>3, <1>4, <2>1 DEF Copies, Passing, Prepares
  <2> QED
    BY <1>2, <1>6, <2>2 DEF RunSeen
<1>21. /\ \A c \in Devices : Passed(c)'
       /\ \A q \in Runs : RunSeen(q)'
  BY <1>1, <1>2, <1>3, <1>13, <1>20, SeenOthers
<1> QED
  BY <1>2, <1>17, <1>18, <1>19, <1>21 DEF SeenInv

\* PushFails: the server has refused the request.
LEMMA SeenPushFails ==
  ASSUME IInv, Solo, SeenInv, NEW r \in Runs, PushFails(r)
  PROVE  SeenInv'
<1> DEFINE d == Host[r]
           u == [run[r] EXCEPT !.pc = "failed"]
<1>1. /\ run[r].pc = "push" /\ run' = [run EXCEPT ![r] = u]
      /\ UNCHANGED <<setting, local, journal, accepts, state, ops>>
  BY DEF PushFails
<1>2. /\ d \in Devices /\ setting \in Settings /\ setting' = setting
      /\ run[r] \in Pushes(setting, log)
      /\ run \in [Runs -> {IdleRun} \cup Pushes(setting, log) \cup Pulls(setting, log)]
      /\ Host' = Host /\ Editors' = Editors
  BY <1>1, RunIs DEF IInv, TypeOK, Host, Editors
<1>3. log' = log
  <2>1. "unanswered" \notin Faults
    BY <1>2, SoloIs
  <2> QED
    BY <2>1 DEF PushFails
<1>4. run'[r] = u /\ \A q \in Runs \ {r} : run'[q] = run[q]
  BY <1>1, <1>2
<1>5. /\ u.pc = "failed" /\ u.rec = run[r].rec
      /\ u.cursor = run[r].cursor /\ u.deferred = run[r].deferred
  BY <1>2 DEF Pushes
<1> HIDE DEF u
<1>6. RunSeen(r) /\ d \in Editors
  <2>1. RunSeen(r)
    BY DEF SeenInv
  <2> QED
    BY <1>1, <2>1 DEF RunSeen, Reads
<1>7. RunSeen(r)'
  <2>1. Copies(r)
    BY <1>6 DEF RunSeen
  <2>2. Copies(r)' /\ Passing(r)' /\ Prepares(r)'
    BY <1>1, <1>2, <1>4, <1>5, <2>1 DEF Copies, Passing, Prepares
  <2> QED
    BY <1>2, <1>6, <2>2 DEF RunSeen
<1>8. Memory(d)' = Memory(d)
  <2>1. Memory(d) = state[d].rec
    BY <1>1, <1>2, MemoryOfRun DEF IInv, Answered
  <2>2. Memory(d)' = state'[d].rec
    BY <1>2, <1>4, <1>5, MemoryOfRun DEF IInv, Answered
  <2> QED
    BY <1>1, <2>1, <2>2
<1>9. /\ state' = state
      /\ \A c \in Devices \ Editors : local'[c] = local[c] /\ journal'[c] = journal[c]
  BY <1>1
<1> QED
  BY <1>2, <1>3, <1>4, <1>7, <1>8, <1>9, SeenQuiet

\* Drop: only an editor has something in its journal.
LEMMA SeenDrop ==
  ASSUME IInv, Solo, SeenInv, NEW r \in Runs, Drop(r)
  PROVE  SeenInv'
<1> DEFINE d == Host[r]
           u == [run[r] EXCEPT !.pc = "pull"]
<1>1. /\ run[r].pc = "drop" /\ run' = [run EXCEPT ![r] = u]
      /\ journal' = [journal EXCEPT ![d] = @ \ run[r].drops]
      /\ UNCHANGED <<setting, local, accepts, state, log, ops>>
  BY DEF Drop
<1>2. /\ d \in Devices /\ setting \in Settings /\ setting' = setting
      /\ run[r] \in Pushes(setting, log) /\ journal \in [Devices -> SUBSET Ids]
      /\ run \in [Runs -> {IdleRun} \cup Pushes(setting, log) \cup Pulls(setting, log)]
      /\ Host' = Host /\ Editors' = Editors
  BY <1>1, RunIs DEF IInv, TypeOK, Host, Editors
<1>3. run'[r] = u /\ \A q \in Runs \ {r} : run'[q] = run[q]
  BY <1>1, <1>2
<1>4. /\ u.pc = "pull" /\ u.rec = run[r].rec /\ u.pending = run[r].pending
      /\ u.cursor = run[r].cursor /\ u.deferred = run[r].deferred
  BY <1>2 DEF Pushes
<1> HIDE DEF u
<1>5. RunSeen(r) /\ d \in Editors
  <2>1. RunSeen(r)
    BY DEF SeenInv
  <2> QED
    BY <1>1, <2>1 DEF RunSeen, Reads
<1>6. RunSeen(r)'
  <2>1. Copies(r)
    BY <1>5 DEF RunSeen
  <2>2. Copies(r)' /\ Passing(r)' /\ Prepares(r)'
    BY <1>1, <1>2, <1>3, <1>4, <2>1 DEF Copies, Passing, Prepares
  <2> QED
    BY <1>2, <1>5, <2>2 DEF RunSeen
<1>7. Memory(d)' = Memory(d)
  <2>1. Memory(d) = OnTop(run[r].pending, run[r].rec)
    BY <1>1, <1>2, MemoryOfRun DEF IInv, Answered
  <2>2. Memory(d)' = OnTop(run[r].pending, run[r].rec)
    BY <1>2, <1>3, <1>4, MemoryOfRun DEF IInv, Answered
  <2> QED
    BY <2>1, <2>2
<1>8. /\ log' = log /\ state' = state
      /\ \A c \in Devices \ Editors : local'[c] = local[c] /\ journal'[c] = journal[c]
  BY <1>1, <1>2, <1>5
<1> QED
  BY <1>2, <1>3, <1>6, <1>7, <1>8, SeenQuiet

\* Pull: what follows the cursor is to be applied.
LEMMA SeenPull ==
  ASSUME IInv, Solo, SeenInv, NEW r \in Runs, Pull(r)
  PROVE  SeenInv'
<1> DEFINE d == Host[r]
           u == [pc |-> "apply", kinds |-> run[r].kinds, rec |-> run[r].rec,
                 pending |-> run[r].pending, deferred |-> run[r].deferred,
                 cursor |-> run[r].cursor, old |-> run[r].deferred,
                 new |-> Response(r),
                 next |-> Len(log), data |-> Export(d, run[r].kinds)]
<1>1. /\ run[r].pc = "pull" /\ run' = [run EXCEPT ![r] = u]
      /\ UNCHANGED <<setting, local, journal, accepts, state, log, ops, faults>>
  BY DEF Pull
<1>2. /\ d \in Devices /\ setting \in Settings /\ setting' = setting
      /\ run[r] \in Pushes(setting, log) /\ log \in Seq(Records(setting))
      /\ run \in [Runs -> {IdleRun} \cup Pushes(setting, log) \cup Pulls(setting, log)]
      /\ Host' = Host /\ Editors' = Editors
  BY <1>1, RunIs DEF IInv, TypeOK, Host, Editors
<1>3. run'[r] = u /\ \A q \in Runs \ {r} : run'[q] = run[q]
  BY <1>1, <1>2
<1>4. /\ u.pc = "apply" /\ u.rec = run[r].rec /\ u.pending = run[r].pending
      /\ u.old = run[r].deferred /\ u.new = Response(r) /\ u.next = Len(log)
      /\ u.data = Export(d, run[r].kinds) /\ u.kinds = run[r].kinds
  OBVIOUS
<1> HIDE DEF u
<1>5. RunSeen(r)
  BY DEF SeenInv
<1>6. Len(log) \in Nat /\ DOMAIN log = 1..Len(log) /\ run[r].cursor \in Nat
  BY <1>2 DEF Pushes
<1>7. Passing(r)'
  <2>1. ASSUME d \notin Editors, NEW k \in 1..Len(log)
        PROVE  \/ k \in run[r].deferred \cup Response(r)
               \/ Leq(log[k].vector, run[r].rec[log[k].id].vector)
    <3>1. CASE k > run[r].cursor
      <4>1. log[k].dev \in Editors
        BY <1>6, <2>1 DEF SeenInv, LogOrdered
      <4> QED
        BY <1>6, <2>1, <3>1, <4>1 DEF Response
    <3>2. CASE k <= run[r].cursor
      <4>1. Copies(r) /\ Passed(d)
        BY <1>2, <1>5 DEF SeenInv, RunSeen
      <4>2. /\ run[r].rec = state[d].rec /\ run[r].cursor = state[d].cursor
            /\ run[r].deferred = state[d].deferred
        BY <1>1, <4>1 DEF Copies
      <4>3. k \in 1..state[d].cursor
        BY <1>6, <3>2, <4>2
      <4> QED
        BY <4>1, <4>2, <4>3 DEF Passed
    <3> QED
      BY <1>6, <3>1, <3>2
  <2> QED
    BY <1>1, <1>2, <1>3, <1>4, <1>6, <2>1 DEF Passing
<1>8. RunSeen(r)'
  <2>1. Copies(r)' /\ Prepares(r)'
    BY <1>3, <1>4 DEF Copies, Prepares
  <2>2. ASSUME d \notin Editors PROVE Reads(r)'
    <3>1. Reads(r)
      BY <1>5, <2>2 DEF RunSeen
    <3>2. Export(Host[r], run[r].kinds)' = Export(d, run[r].kinds)
      BY <1>1, <1>2, <1>3, <1>4 DEF Export, Allowed, Ids, Kind
    <3> QED
      BY <1>1, <1>3, <1>4, <3>1, <3>2 DEF Reads
  <2> QED
    BY <1>2, <1>7, <2>1, <2>2 DEF RunSeen
<1>9. Memory(d)' = Memory(d)
  <2>1. Memory(d) = OnTop(run[r].pending, run[r].rec)
    BY <1>1, <1>2, MemoryOfRun DEF IInv, Answered
  <2>2. Memory(d)' = OnTop(run[r].pending, run[r].rec)
    BY <1>2, <1>3, <1>4, MemoryOfRun DEF IInv, Answered
  <2> QED
    BY <2>1, <2>2
<1>10. /\ log' = log /\ state' = state
       /\ \A c \in Devices \ Editors : local'[c] = local[c] /\ journal'[c] = journal[c]
  BY <1>1
<1> QED
  BY <1>2, <1>3, <1>8, <1>9, <1>10, SeenQuiet

\* A step of pull on the editor: nothing is forgotten.
LEMMA EditorApplies ==
  ASSUME IInv, Solo, SeenInv, NEW r \in Runs, NEW d, d = Host[r], d \in Editors,
         run[r].pc = "apply", run'[r].pc = "apply", run'[r].pending = run[r].pending,
         run'[r].next = run[r].next,
         \A i \in Ids : /\ run'[r].rec[i] \in Entries(setting)
                        /\ Leq(run[r].rec[i].vector, run'[r].rec[i].vector),
         run'[r].rec \in [Ids -> Entries(setting)],
         \A q \in Runs \ {r} : run'[q] = run[q],
         \A c \in Devices \ {d} : local'[c] = local[c],
         UNCHANGED <<setting, journal, state, log>>
  PROVE  SeenInv'
<1>1. /\ d \in Devices /\ setting \in Settings /\ setting' = setting /\ log' = log
      /\ log \in Seq(Records(setting)) /\ state' = state /\ journal' = journal
      /\ run[r] \in Pulls(setting, log)
      /\ Host' = Host /\ Editors' = Editors /\ Ids' = Ids
  BY RunIs DEF IInv, TypeOK, Host, Editors, Ids
<1>2. Editors = {d}
  BY <1>1, SoloIs
<1>3. /\ run[r].rec \in [setting.ids -> Entries(setting)] /\ run[r].pending \in Pendings(setting)
      /\ run'[r].rec \in [setting.ids -> Entries(setting)]
  BY <1>1 DEF Pulls, Ids
<1>4. /\ Memory(d) = OnTop(run[r].pending, run[r].rec)
      /\ Memory(d)' = OnTop(run[r].pending, run'[r].rec)
  BY <1>1, MemoryOfRun DEF IInv, Answered
<1>5. \A i \in Ids : /\ Memory(d)[i].vector \in Vectors /\ Memory(d)'[i].vector \in Vectors
                     /\ Leq(Memory(d)[i].vector, Memory(d)'[i].vector)
  <2>1. \A i \in Ids :
          /\ Memory(d)[i] = IF i \in DOMAIN run[r].pending THEN run[r].pending[i] ELSE run[r].rec[i]
          /\ Memory(d)'[i] =
               IF i \in DOMAIN run[r].pending THEN run[r].pending[i] ELSE run'[r].rec[i]
          /\ Memory(d)[i] \in Entries(setting) /\ Memory(d)'[i] \in Entries(setting)
    BY <1>3, <1>4, OnTopIs DEF Ids
  <2>2. \A i \in Ids : Memory(d)[i].vector \in Vectors /\ Memory(d)'[i].vector \in Vectors
    BY <2>1 DEF Entries
  <2> QED
    BY <2>1, <2>2, VectorOrder
<1>6. \A c \in Devices \ {d} : Memory(c)' = Memory(c)
  BY <1>1, MemoryOthers
<1>7. \A k \in DOMAIN log : log[k].vector \in Vectors /\ log[k].id \in Ids
  BY <1>1, RecordIs
<1>8. LogOrdered'
  BY <1>1 DEF SeenInv, LogOrdered
<1>9. AllSeen'
  <2>1. ASSUME NEW k \in DOMAIN log PROVE Leq(log[k].vector, Memory(d)'[log[k].id].vector)
    <3>1. Leq(log[k].vector, Memory(d)[log[k].id].vector)
      BY <1>2 DEF SeenInv, AllSeen
    <3>2. /\ log[k].vector \in Vectors
          /\ Memory(d)[log[k].id].vector \in Vectors /\ Memory(d)'[log[k].id].vector \in Vectors
          /\ Leq(Memory(d)[log[k].id].vector, Memory(d)'[log[k].id].vector)
      BY <1>5, <1>7
    <3> QED
      BY <3>1, <3>2, VectorOrder
  <2> QED
    BY <1>1, <1>2, <2>1 DEF AllSeen
<1>10. ASSUME NEW c \in Devices \ Editors PROVE Follows(c)' /\ Mirrors(c)'
  <2>1. Follows(c) /\ Mirrors(c) /\ Memory(c)' = Memory(c) /\ local'[c] = local[c]
    BY <1>2, <1>6 DEF SeenInv
  <2>2. ASSUME NEW i \in Ids PROVE Leq(Memory(c)[i].vector, Memory(d)'[i].vector)
    <3>1. Memory(c)[i].vector \in Vectors /\ Leq(Memory(c)[i].vector, Memory(d)[i].vector)
      BY <1>2, <2>1, MemoryTyped DEF IInv, Follows
    <3> QED
      BY <1>5, <3>1, VectorOrder
  <2>3. Follows(c)'
    BY <1>1, <1>2, <2>1, <2>2 DEF Follows
  <2>4. Mirrors(c)'
    BY <1>1, <2>1 DEF Mirrors
  <2> QED
    BY <2>3, <2>4
<1>11. RunSeen(r)'
  <2>1. RunSeen(r)
    BY DEF SeenInv
  <2>2. Copies(r)' /\ Passing(r)' /\ Prepares(r)'
    BY <1>1, <2>1 DEF RunSeen, Copies, Passing, Prepares
  <2> QED
    BY <1>1, <2>2 DEF RunSeen
<1>12. Grows(log, log')
  BY <1>1, GrowsSame
<1>13. \A c \in Devices \ (Editors \cup {Host[r]}) : local'[c] = local[c]
  OBVIOUS
<1>14. /\ \A c \in Devices : Passed(c)'
       /\ \A q \in Runs : RunSeen(q)'
  BY <1>1, <1>11, <1>12, <1>13, SeenOthers
<1> QED
  BY <1>1, <1>8, <1>9, <1>10, <1>14 DEF SeenInv

\* A step of pull on a reader: version k is taken as it is, or was known, or is deferred.
LEMMA ReaderApplies ==
  ASSUME IInv, Solo, SeenInv, NEW r \in Runs, NEW d, d = Host[r], d \notin Editors,
         run[r].pc = "apply", run'[r].pc = "apply", run'[r].pending = run[r].pending,
         run'[r].next = run[r].next, run'[r].rec \in [Ids -> Entries(setting)],
         NEW k \in DOMAIN log,
         run'[r].old = run[r].old \ {k}, run'[r].new = run[r].new \ {k},
         run[r].deferred \ {k} \subseteq run'[r].deferred,
         k \in run'[r].deferred \/ Leq(log[k].vector, run'[r].rec[log[k].id].vector),
         \A i \in Ids :
           \/ run'[r].rec[i] = run[r].rec[i] /\ local'[d][i] = local[d][i]
           \/ /\ i = log[k].id /\ Known(run'[r].rec[i])
              /\ Leq(run[r].rec[i].vector, run'[r].rec[i].vector)
              /\ Leq(run'[r].rec[i].vector, log[k].vector)
              /\ Leq(log[k].vector, run'[r].rec[i].vector)
              /\ local'[d][i] = IF run'[r].rec[i].tomb THEN NoData ELSE run'[r].rec[i].hash,
         run'[r].data = [i \in Ids |-> IF Allowed(run'[r].kinds, i) THEN local'[d][i] ELSE NoData],
         \A q \in Runs \ {r} : run'[q] = run[q],
         \A c \in Devices \ {d} : local'[c] = local[c],
         UNCHANGED <<setting, journal, state, log>>
  PROVE  SeenInv'
<1>1. /\ d \in Devices /\ setting \in Settings /\ setting' = setting /\ log' = log
      /\ log \in Seq(Records(setting)) /\ state' = state /\ journal' = journal
      /\ run[r] \in Pulls(setting, log)
      /\ Host' = Host /\ Editors' = Editors /\ Ids' = Ids
  BY RunIs DEF IInv, TypeOK, Host, Editors, Ids
<1> DEFINE old == run[r].rec
           new == run'[r].rec
<1>2. RunSeen(r) /\ Reads(r) /\ DOMAIN run[r].pending = {} /\ Follows(d) /\ Mirrors(d)
  <2>1. RunSeen(r) /\ Follows(d) /\ Mirrors(d)
    BY <1>1 DEF SeenInv
  <2> QED
    BY <2>1 DEF RunSeen, Reads
<1>3. Memory(d) = old /\ Memory(d)' = new
  <2>1. /\ Memory(d) = OnTop(run[r].pending, old)
        /\ Memory(d)' = OnTop(run[r].pending, new)
    BY <1>1, MemoryOfRun DEF IInv, Answered
  <2>2. /\ old \in [setting.ids -> Entries(setting)] /\ run[r].pending \in Pendings(setting)
        /\ new \in [setting.ids -> Entries(setting)]
    BY <1>1 DEF Pulls, Ids
  <2> QED
    BY <1>2, <2>1, <2>2, OnTopIs
<1>4. \A c \in Devices \ {d} : Memory(c)' = Memory(c)
  BY <1>1, MemoryOthers
<1>5. /\ \A n \in DOMAIN log : log[n].vector \in Vectors /\ log[n].id \in Ids
      /\ \A i \in Ids : old[i].vector \in Vectors /\ new[i].vector \in Vectors
                        /\ Leq(old[i].vector, new[i].vector)
  <2>1. \A n \in DOMAIN log : log[n].vector \in Vectors /\ log[n].id \in Ids
    BY <1>1, RecordIs
  <2>2. \A i \in Ids : old[i].vector \in Vectors /\ new[i].vector \in Vectors
    BY <1>1 DEF Pulls, Ids, Entries
  <2> QED
    BY <2>1, <2>2, VectorOrder
<1>6. LogOrdered'
  BY <1>1 DEF SeenInv, LogOrdered
<1>7. \A e \in Editors : e \in Devices \ {d} /\ Memory(e)' = Memory(e)
                         /\ \A i \in Ids : Memory(e)[i].vector \in Vectors
  BY <1>1, <1>4, SoloIs, MemoryTyped DEF IInv
<1>8. AllSeen'
  BY <1>1, <1>7 DEF SeenInv, AllSeen
<1>9. Follows(d)'
  <2>1. ASSUME NEW i \in Ids, NEW e \in Editors PROVE Leq(new[i].vector, Memory(e)[i].vector)
    <3>1. CASE new[i] = old[i]
      BY <1>2, <1>3, <3>1 DEF Follows
    <3>2. CASE new[i] # old[i]
      <4>1. Leq(new[i].vector, log[k].vector) /\ i = log[k].id
        BY <3>2
      <4>2. Leq(log[k].vector, Memory(e)[i].vector)
        BY <4>1 DEF SeenInv, AllSeen
      <4> QED
        BY <1>5, <1>7, <4>1, <4>2, VectorOrder
    <3> QED
      BY <3>1, <3>2
  <2>2. ASSUME NEW n \in DOMAIN log PROVE Comparable(new[log[n].id].vector, log[n].vector)
    <3> DEFINE i == log[n].id
    <3>1. CASE new[i] = old[i]
      BY <1>2, <1>3, <1>5, <3>1 DEF Follows
    <3>2. CASE new[i] # old[i]
      <4>1. /\ i = log[k].id
            /\ Leq(new[i].vector, log[k].vector) /\ Leq(log[k].vector, new[i].vector)
        BY <1>5, <3>2
      <4>2. n <= k \/ k <= n
        BY <1>1
      <4>3. Leq(log[n].vector, log[k].vector) \/ Leq(log[k].vector, log[n].vector)
        BY <4>1, <4>2 DEF SeenInv, LogOrdered
      <4>4. log[n].vector \in Vectors /\ log[k].vector \in Vectors /\ new[i].vector \in Vectors
        BY <1>5
      <4> HIDE DEF i, new
      <4> QED
        BY <4>1, <4>3, <4>4, VectorOrder DEF Comparable, i
    <3> QED
      BY <3>1, <3>2
  <2> QED
    BY <1>1, <1>3, <1>7, <2>1, <2>2 DEF Follows
<1>10. Mirrors(d)'
  <2>1. ASSUME NEW i \in Ids
        PROVE  local'[d][i] = IF Known(new[i]) /\ ~new[i].tomb THEN new[i].hash ELSE NoData
    BY <1>2, <1>3 DEF Mirrors
  <2> QED
    BY <1>1, <1>2, <1>3, <2>1 DEF Mirrors, Known
<1>11. ASSUME NEW c \in Devices \ (Editors \cup {d}) PROVE Follows(c)' /\ Mirrors(c)'
  <2>1. Follows(c) /\ Mirrors(c) /\ Memory(c)' = Memory(c) /\ local'[c] = local[c]
    BY <1>4 DEF SeenInv
  <2>2. Follows(c)'
    BY <1>1, <1>7, <2>1 DEF Follows
  <2>3. Mirrors(c)'
    BY <1>1, <2>1 DEF Mirrors
  <2> QED
    BY <2>2, <2>3
<1>12. RunSeen(r)'
  <2>1. Passing(r)'
    <3>1. Passing(r) /\ Host[r] \notin Editors
      BY <1>2 DEF RunSeen
    <3>2. run[r].next <= Len(log) /\ run[r].next \in Nat /\ Len(log) \in Nat
          /\ DOMAIN log = 1..Len(log)
      BY <1>1, <3>1 DEF Passing, Pulls
    <3>3. ASSUME NEW n \in 1..run[r].next
          PROVE  \/ n \in run'[r].old \cup run'[r].new \cup run'[r].deferred
                 \/ Leq(log[n].vector, new[log[n].id].vector)
      <4>1. CASE n = k
        BY <4>1
      <4>2. CASE n # k /\ n \in run[r].old \cup run[r].new \cup run[r].deferred
        BY <4>2
      <4>3. CASE Leq(log[n].vector, old[log[n].id].vector)
        <5>1. n \in DOMAIN log
          BY <3>2
        <5>2. log[n].vector \in Vectors /\ old[log[n].id].vector \in Vectors
              /\ new[log[n].id].vector \in Vectors
              /\ Leq(old[log[n].id].vector, new[log[n].id].vector)
          BY <1>5, <5>1
        <5>3. Leq(log[n].vector, new[log[n].id].vector)
          <6> HIDE DEF old, new
          <6> QED
            BY <4>3, <5>2, VectorOrder
        <5> QED
          BY <5>3
      <4>4. \/ n \in run[r].old \cup run[r].new \cup run[r].deferred
            \/ Leq(log[n].vector, old[log[n].id].vector)
        BY <3>1 DEF Passing
      <4> QED
        BY <4>1, <4>2, <4>3, <4>4
    <3> QED
      BY <1>1, <3>2, <3>3 DEF Passing
  <2>2. Copies(r)'
    BY DEF Copies
  <2>3. Reads(r)'
    <3>1. run'[r].data = Export(Host[r], run[r].kinds)'
      BY <1>1 DEF Export, Allowed, Ids, Kind
    <3> QED
      BY <1>2, <3>1 DEF Reads
  <2> QED
    BY <1>1, <2>1, <2>2, <2>3 DEF RunSeen
<1>13. Grows(log, log')
  BY <1>1, GrowsSame
<1>14. \A c \in Devices \ (Editors \cup {Host[r]}) : local'[c] = local[c]
  OBVIOUS
<1>15. /\ \A c \in Devices : Passed(c)'
       /\ \A q \in Runs : RunSeen(q)'
  BY <1>1, <1>12, <1>13, <1>14, SeenOthers
<1> QED
  BY <1>1, <1>6, <1>8, <1>9, <1>10, <1>11, <1>15 DEF SeenInv

\* On a reader no version is in conflict with what it has.
LEMMA NoConflict ==
  ASSUME IInv, Solo, SeenInv, NEW r \in Runs, Host[r] \notin Editors, run[r].pc = "apply",
         NEW k \in Upcoming(r), Wanted(r, k)
  PROVE  /\ ~Conflicting(r, k)
         /\ Leq(run[r].rec[log[k].id].vector, log[k].vector)
<1> DEFINE d == Host[r]
           i == log[k].id
           entry == run[r].rec[i]
<1>1. /\ run[r] \in Pulls(setting, log) /\ d \in Devices /\ k \in DOMAIN log /\ i \in Ids
      /\ log[k].vector \in Vectors /\ entry.vector \in Vectors
  BY UpcomingIs, RecordIs DEF Entries
<1>2. Reads(r) /\ Follows(d) /\ Mirrors(d)
  BY <1>1 DEF SeenInv, RunSeen
<1>3. DOMAIN run[r].pending = {} /\ run[r].data = Export(d, run[r].kinds)
  BY <1>2 DEF Reads
<1>4. Memory(d) = run[r].rec
  <2>1. run[r].rec \in [setting.ids -> Entries(setting)] /\ run[r].pending \in Pendings(setting)
    BY <1>1 DEF Pulls
  <2>2. OnTop(run[r].pending, run[r].rec) = run[r].rec
    BY <1>3, <2>1, OnTopIs
  <2>3. setting \in Settings /\ \A p, q \in Runs : setting.host[p] = setting.host[q] => p = q
    BY SoloIs DEF IInv, TypeOK
  <2>4. MemoryIn(setting, run, state, setting.host[r]) = OnTop(run[r].pending, run[r].rec)
    BY <2>3, MemoryRun DEF Answered
  <2> QED
    BY <2>2, <2>4 DEF Memory, Host
<1>5. Comparable(entry.vector, log[k].vector)
  BY <1>1, <1>2, <1>4 DEF Follows
<1>6. CompareVectors(entry.vector, log[k].vector) \in {"before", "concurrent"}
  BY DEF Wanted, Relation
<1>7. OrderLaw(entry.vector, log[k].vector)
  BY <1>1, CompareIsCausalOrder
<1>8. Relation(r, k) # "concurrent" /\ Leq(entry.vector, log[k].vector)
  BY <1>5, <1>6, <1>7 DEF OrderLaw, Comparable, Relation
<1>9. ~LocallyChanged(r, k)
  <2> SUFFICES ASSUME Known(entry), ~entry.tomb PROVE run[r].data[i] = entry.hash
    BY DEF LocallyChanged
  <2>1. local[d][i] = entry.hash
    BY <1>1, <1>2, <1>4 DEF Mirrors
  <2>2. run[r].data[i] = local[d][i]
    BY <1>1, <1>3 DEF Export, Wanted
  <2> QED
    BY <2>1, <2>2
<1> QED
  BY <1>8, <1>9 DEF Conflicting

\* What pull makes of the run when it passes a version over.
LEMMA HandledOver ==
  ASSUME IInv, NEW r \in Runs, run[r].pc = "apply", NEW k \in Upcoming(r),
         NEW later \in SUBSET (DOMAIN log),
         NEW t, t = Take(r, k, later), run' = [run EXCEPT ![r] = t]
  PROVE  /\ \A q \in Runs \ {r} : run'[q] = run[q]
         /\ run'[r].pc = "apply" /\ run'[r].pending = run[r].pending
         /\ run'[r].next = run[r].next /\ run'[r].kinds = run[r].kinds
         /\ run'[r].old = run[r].old \ {k} /\ run'[r].new = run[r].new \ {k}
         /\ run'[r].deferred = later
         /\ run'[r].rec \in [Ids -> Entries(setting)]
         /\ run'[r].rec = run[r].rec /\ run'[r].data = run[r].data
<1>1. /\ run[r] \in Pulls(setting, log)
      /\ run \in [Runs -> {IdleRun} \cup Pushes(setting, log) \cup Pulls(setting, log)]
  BY UpcomingIs DEF IInv, TypeOK
<1>2. /\ t.pc = "apply" /\ t.pending = run[r].pending /\ t.next = run[r].next
      /\ t.kinds = run[r].kinds /\ t.old = run[r].old \ {k} /\ t.new = run[r].new \ {k}
      /\ t.deferred = later /\ t.rec = run[r].rec /\ t.data = run[r].data
      /\ t.rec \in [Ids -> Entries(setting)]
  BY <1>1 DEF Take, Pulls, Ids
<1>3. run'[r] = t /\ \A q \in Runs \ {r} : run'[q] = run[q]
  BY <1>1
<1> QED
  BY <1>2, <1>3

\* Every version that pull handles gives one record an entry that knows what the one before
\* knew, or leaves it.
LEMMA HandledGrows ==
  ASSUME IInv, NEW r \in Runs, Apply(r)
  PROVE  /\ \A q \in Runs \ {r} : run'[q] = run[q]
         /\ run'[r].pc = "apply" /\ run'[r].pending = run[r].pending
         /\ run'[r].next = run[r].next
         /\ run'[r].rec \in [Ids -> Entries(setting)]
         /\ \A j \in Ids : Leq(run[r].rec[j].vector, run'[r].rec[j].vector)
         /\ \A c \in Devices \ {Host[r]} : local'[c] = local[c]
<1> DEFINE Goal == /\ \A q \in Runs \ {r} : run'[q] = run[q]
                   /\ run'[r].pc = "apply" /\ run'[r].pending = run[r].pending
                   /\ run'[r].next = run[r].next
                   /\ run'[r].rec \in [Ids -> Entries(setting)]
                   /\ \A j \in Ids : Leq(run[r].rec[j].vector, run'[r].rec[j].vector)
<1>1. run[r].pc = "apply"
  BY DEF Apply
<1>2. PICK k \in Upcoming(r) : Postpone(r, k) \/ Skip(r, k) \/ Write(r, k) \/ WriteCopy(r, k)
                                 \/ Keep(r, k) \/ Bury(r, k)
  BY DEF Apply
<1> DEFINE m == log[k]
           entry == run[r].rec[m.id]
           v == MergeVectors(entry.vector, m.vector)
<1>3. /\ run[r] \in Pulls(setting, log) /\ setting \in Settings /\ k \in DOMAIN log
      /\ m \in Records(setting) /\ m.id \in Ids /\ entry \in Entries(setting)
      /\ run[r].data[m.id] \in Data(setting) \cup {NoData}
      /\ Wanted(r, k) => v \in Vectors \ {NoVector}
  BY <1>1, UpcomingIs
<1>4. \A j \in Ids : run[r].rec[j].vector \in Vectors
                     /\ Leq(run[r].rec[j].vector, run[r].rec[j].vector)
  <2>1. \A j \in Ids : run[r].rec[j].vector \in Vectors
    BY <1>3 DEF Pulls, Ids, Entries
  <2> QED
    BY <2>1, VectorOrder
<1>5. m.vector \in Vectors /\ Leq(entry.vector, v)
  <2>1. m.vector \in Vectors /\ entry.vector \in Vectors
    BY <1>3, RecordIs DEF Entries
  <2> QED
    BY <2>1, VectorOrder
<1>6. /\ run[r].deferred \ {k} \in SUBSET (DOMAIN log)
      /\ run[r].deferred \cup {k} \in SUBSET (DOMAIN log)
  BY <1>3 DEF Pulls
<1>7. local \in [Devices -> [Ids -> Data(setting) \cup {NoData}]] /\ Host[r] \in Devices
  BY <1>1, RunIs DEF IInv, TypeOK
<1>8. ASSUME Postpone(r, k) \/ Skip(r, k) PROVE Goal
  <2>1. \E later \in SUBSET (DOMAIN log) : run' = [run EXCEPT ![r] = Take(r, k, later)]
    BY <1>6, <1>8 DEF Postpone, Skip
  <2>2. PICK later \in SUBSET (DOMAIN log) : run' = [run EXCEPT ![r] = Take(r, k, later)]
    BY <2>1
  <2> QED
    BY <1>1, <1>4, <2>2, HandledOver
<1>9. ASSUME NEW i \in Ids, NEW e \in Entries(setting), NEW x,
             run' = [run EXCEPT ![r] =
                       [Take(r, k, run[r].deferred \ {k}) EXCEPT !.data[i] = x, !.rec[i] = e]],
             Leq(run[r].rec[i].vector, e.vector)
      PROVE  Goal
  <2> DEFINE t == Take(r, k, run[r].deferred \ {k})
             u == [t EXCEPT !.data[i] = x, !.rec[i] = e]
  <2>1. /\ t.pc = "apply" /\ t.pending = run[r].pending /\ t.next = run[r].next
        /\ t.rec = run[r].rec /\ t \in Pulls(setting, log)
    BY <1>1, <1>3 DEF Take, Pulls
  <2> HIDE DEF t
  <2>2. /\ u.pc = "apply" /\ u.pending = run[r].pending /\ u.next = run[r].next
        /\ u.rec = [run[r].rec EXCEPT ![i] = e]
    BY <2>1 DEF Pulls
  <2>3. run' = [run EXCEPT ![r] = u]
    BY <1>9 DEF t
  <2> HIDE DEF u
  <2>4. run'[r] = u /\ \A q \in Runs \ {r} : run'[q] = run[q]
    BY <1>3, <2>3 DEF IInv, TypeOK
  <2>5. /\ u.rec \in [Ids -> Entries(setting)]
        /\ u.rec[i] = e /\ \A j \in Ids \ {i} : u.rec[j] = run[r].rec[j]
    BY <1>3, <1>9, <2>2 DEF Pulls, Ids
  <2>6. \A j \in Ids : Leq(run[r].rec[j].vector, u.rec[j].vector)
    BY <1>4, <1>9, <2>5
  <2> QED
    BY <2>2, <2>4, <2>5, <2>6
<1>10. ASSUME NEW i \in Ids, Store(r, k, i), Wanted(r, k), ~m.tomb,
             i = m.id \/ run[r].rec[i].vector = NoVector
      PROVE  Goal
  <2> DEFINE merge == Conflicting(r, k) /\ Present(r, k) /\ Kind # "credential"
             mine == run[r].data[m.id]
             data == IF merge THEN MergeData(entry.fields, m.fields, mine, m.data) ELSE m.data
             fields == IF merge THEN MergeClocks(entry.fields, m.fields) ELSE m.fields
             e == [vector |-> v, hash |-> data, fields |-> fields, tomb |-> FALSE]
  <2>1. run' = [run EXCEPT ![r] =
                  [Take(r, k, run[r].deferred \ {k}) EXCEPT !.data[i] = data, !.rec[i] = e]]
    BY <1>10 DEF Store
  <2>2. IInv' /\ run'[r].pc = "apply"
    <3>1. Next
      BY DEF Next, SyncStep
    <3>2. IInv'
      BY <3>1, StepIInv
    <3>3. run'[r].pc = "apply"
      BY <1>1, <1>3, <2>1 DEF IInv, TypeOK, Take, Pulls
    <3> QED
      BY <3>2, <3>3
  <2>3. run'[r].rec[i] = e
    <3> HIDE DEF e, data
    <3> QED
      BY <1>3, <2>1 DEF IInv, TypeOK, Take, Pulls, Ids
  <2>4. e \in Entries(setting)
    <3>1. setting' = setting /\ log' = log
      BY DEF Apply
    <3>2. run'[r] \in Pulls(setting, log)
      <4>1. run'[r] \in {IdleRun} \cup Pushes(setting, log) \cup Pulls(setting, log)
        BY <2>2, <3>1 DEF IInv, TypeOK
      <4> QED
        BY <2>2, <4>1 DEF IdleRun, Pushes
    <3>3. run'[r].rec[i] \in Entries(setting)
      BY <3>2 DEF Pulls, Ids
    <3> QED
      BY <2>3, <3>3
  <2>5. Leq(run[r].rec[i].vector, e.vector)
    <3>1. e.vector = v /\ v \in Vectors
      BY <1>3, <1>10
    <3> HIDE DEF e
    <3> QED
      BY <1>5, <1>10, <3>1, VectorOrder
  <2> HIDE DEF e, data
  <2> QED
    BY <2>1, <2>4, <2>5, <1>9
<1>11. CASE Write(r, k)
  <2>1. Goal
    BY <1>3, <1>10, <1>11 DEF Write
  <2> QED
    BY <1>7, <1>11, <2>1 DEF Write, Store
<1>12. CASE WriteCopy(r, k)
  <2>1. PICK i \in Spare : Unused(i) /\ Store(r, k, i)
    BY <1>12 DEF WriteCopy
  <2>2. i \in Ids /\ run[r].rec[i].vector = NoVector
    BY <1>1, <1>3, <2>1, SettingIs DEF Unused, Known
  <2>3. Goal
    BY <1>10, <1>12, <2>1, <2>2 DEF WriteCopy
  <2> QED
    BY <1>7, <2>1, <2>3 DEF Store
<1>13. CASE Keep(r, k)
  <2> DEFINE e == [vector |-> v, hash |-> NoHash, fields |-> entry.fields, tomb |-> FALSE]
             t == Take(r, k, run[r].deferred \ {k})
             u == [t EXCEPT !.rec[m.id] = e]
             x == run[r].data[m.id]
  <2>1. run' = [run EXCEPT ![r] = u] /\ Wanted(r, k) /\ local' = local
    BY <1>13 DEF Keep
  <2>2. e \in Entries(setting) /\ e.vector = v
    BY <1>3, <2>1 DEF Entries
  <2>3. t \in Pulls(setting, log) /\ t.data = run[r].data
    BY <1>3 DEF Take, Pulls
  <2> HIDE DEF e, t
  <2>4. u = [t EXCEPT !.data[m.id] = x, !.rec[m.id] = e]
    <3>1. [t.data EXCEPT ![m.id] = x] = t.data
      BY <1>3, <2>3 DEF Pulls, Ids
    <3> QED
      BY <2>3, <3>1 DEF Pulls
  <2>5. run' = [run EXCEPT ![r] = [t EXCEPT !.data[m.id] = x, !.rec[m.id] = e]]
    BY <2>1, <2>4
  <2>6. Goal
    BY <1>3, <1>5, <1>9, <2>2, <2>5 DEF t
  <2> QED
    BY <2>1, <2>6
<1>14. CASE Bury(r, k)
  <2> DEFINE e == [vector |-> v, hash |-> Grave, fields |-> NoFields, tomb |-> TRUE]
  <2>1. /\ run' = [run EXCEPT ![r] =
                     [Take(r, k, run[r].deferred \ {k}) EXCEPT !.data[m.id] = NoData,
                                                                !.rec[m.id] = e]]
        /\ Wanted(r, k) /\ local' = [local EXCEPT ![Host[r]][m.id] = NoData]
    BY <1>14 DEF Bury
  <2>2. e \in Entries(setting) /\ e.vector = v
    BY <1>3, <2>1 DEF Entries, NoFields, Fields
  <2> HIDE DEF e
  <2>3. Goal
    BY <1>3, <1>5, <1>9, <2>1, <2>2
  <2> QED
    BY <1>7, <2>1, <2>3
<1>15. CASE Postpone(r, k) \/ Skip(r, k)
  <2>1. local' = local
    BY <1>15 DEF Postpone, Skip
  <2> QED
    BY <1>8, <1>15, <2>1
<1> QED
  BY <1>2, <1>11, <1>12, <1>13, <1>14, <1>15

\* A reader takes a version as it is.
LEMMA SeenReaderApply ==
  ASSUME IInv, Solo, SeenInv, NEW r \in Runs, Apply(r), Host[r] \notin Editors
  PROVE  SeenInv'
<1> DEFINE d == Host[r]
<1>1. /\ run[r].pc = "apply" /\ UNCHANGED <<setting, journal, state, log>>
      /\ d \in Devices
  BY RunIs DEF Apply, IInv
<1>2. PICK k \in Upcoming(r) : Postpone(r, k) \/ Skip(r, k) \/ Write(r, k) \/ WriteCopy(r, k)
                                 \/ Keep(r, k) \/ Bury(r, k)
  BY DEF Apply
<1> DEFINE m == log[k]
           entry == run[r].rec[m.id]
           v == MergeVectors(entry.vector, m.vector)
           Then == [i \in Ids |-> IF Allowed(run[r].kinds, i) THEN local'[d][i] ELSE NoData]
<1>3. /\ run[r] \in Pulls(setting, log) /\ setting \in Settings /\ k \in DOMAIN log
      /\ m \in Records(setting) /\ m.id \in Ids /\ entry \in Entries(setting)
      /\ Wanted(r, k) => v \in Vectors \ {NoVector}
      /\ run \in [Runs -> {IdleRun} \cup Pushes(setting, log) \cup Pulls(setting, log)]
      /\ local \in [Devices -> [Ids -> Data(setting) \cup {NoData}]]
  BY <1>1, UpcomingIs DEF IInv, TypeOK
<1>4. m.vector \in Vectors /\ entry.vector \in Vectors
  BY <1>3, RecordIs DEF Entries
<1>5. run[r].data = [i \in Ids |-> IF Allowed(run[r].kinds, i) THEN local[d][i] ELSE NoData]
  <2>1. Reads(r)
    BY DEF SeenInv, RunSeen
  <2> QED
    BY <1>1, <2>1 DEF Reads, Export
<1>6. /\ run[r].deferred \ {k} \in SUBSET (DOMAIN log)
      /\ run[r].deferred \cup {k} \in SUBSET (DOMAIN log)
  BY <1>3 DEF Pulls
<1>7. /\ \A q \in Runs \ {r} : run'[q] = run[q]
      /\ run'[r].pc = "apply" /\ run'[r].pending = run[r].pending
      /\ run'[r].next = run[r].next
      /\ run'[r].rec \in [Ids -> Entries(setting)]
      /\ \A c \in Devices \ {d} : local'[c] = local[c]
  BY HandledGrows
<1>8. CASE Postpone(r, k) \/ Skip(r, k)
  <2>1. PICK later \in SUBSET (DOMAIN log) :
          /\ run' = [run EXCEPT ![r] = Take(r, k, later)]
          /\ run[r].deferred \ {k} \subseteq later
          /\ k \in later \/ Relation(r, k) \in {"equal", "after"}
    BY <1>6, <1>8 DEF Postpone, Skip
  <2>2. /\ run'[r].kinds = run[r].kinds
        /\ run'[r].old = run[r].old \ {k} /\ run'[r].new = run[r].new \ {k}
        /\ run'[r].deferred = later /\ run'[r].rec = run[r].rec /\ run'[r].data = run[r].data
    <3> DEFINE t == Take(r, k, later)
    <3>1. /\ t.kinds = run[r].kinds /\ t.old = run[r].old \ {k} /\ t.new = run[r].new \ {k}
          /\ t.deferred = later /\ t.rec = run[r].rec /\ t.data = run[r].data
      BY <1>1, <1>3 DEF Take, Pulls
    <3>2. run' = [run EXCEPT ![r] = t]
      BY <2>1
    <3> HIDE DEF t
    <3>3. run'[r] = t
      BY <1>3, <3>2
    <3> QED
      BY <3>1, <3>3
  <2>3. local' = local
    BY <1>8 DEF Postpone, Skip
  <2>4. k \in run'[r].deferred \/ Leq(m.vector, run'[r].rec[m.id].vector)
    <3>1. OrderLaw(entry.vector, m.vector)
      BY <1>4, CompareIsCausalOrder
    <3>2. Relation(r, k) \in {"equal", "after"} => Leq(m.vector, entry.vector)
      BY <3>1 DEF OrderLaw, Relation
    <3> QED
      BY <2>1, <2>2, <3>2
  <2>5. /\ run'[r].data = [i \in Ids |-> IF Allowed(run'[r].kinds, i) THEN local'[d][i] ELSE NoData]
        /\ run[r].deferred \ {k} \subseteq run'[r].deferred
        /\ \A i \in Ids : run'[r].rec[i] = run[r].rec[i] /\ local'[d][i] = local[d][i]
    BY <1>5, <2>1, <2>2, <2>3
  <2> HIDE DEF d
  <2>6. d = Host[r] /\ d \notin Editors
    BY DEF d
  <2> QED
    BY <1>1, <1>3, <1>7, <2>2, <2>4, <2>5, <2>6, ReaderApplies
<1>9. ASSUME Wanted(r, k), NEW e \in Entries(setting), NEW x,
             run' = [run EXCEPT ![r] =
                       [Take(r, k, run[r].deferred \ {k}) EXCEPT !.data[m.id] = x,
                                                                !.rec[m.id] = e]],
             local' = [local EXCEPT ![d][m.id] = x],
             e.vector = v, x = IF e.tomb THEN NoData ELSE e.hash
      PROVE  SeenInv'
  <2> DEFINE t == Take(r, k, run[r].deferred \ {k})
             u == [t EXCEPT !.data[m.id] = x, !.rec[m.id] = e]
  <2>1. /\ t.pc = "apply" /\ t.kinds = run[r].kinds /\ t.deferred = run[r].deferred \ {k}
        /\ t.old = run[r].old \ {k} /\ t.new = run[r].new \ {k}
        /\ t.rec = run[r].rec /\ t.data = run[r].data /\ t \in Pulls(setting, log)
    BY <1>1, <1>3 DEF Take, Pulls
  <2> HIDE DEF t
  <2>2. /\ u.kinds = run[r].kinds /\ u.deferred = run[r].deferred \ {k}
        /\ u.old = run[r].old \ {k} /\ u.new = run[r].new \ {k}
        /\ u.rec = [run[r].rec EXCEPT ![m.id] = e]
        /\ u.data = [run[r].data EXCEPT ![m.id] = x]
    BY <2>1 DEF Pulls
  <2>3. run' = [run EXCEPT ![r] = u]
    BY <1>9 DEF t
  <2> HIDE DEF u
  <2>4. run'[r] = u
    BY <1>3, <2>3
  <2>5. u.rec[m.id] = e /\ \A j \in Ids \ {m.id} : u.rec[j] = run[r].rec[j]
    BY <1>3, <2>2 DEF Pulls, Ids
  <2>6. local'[d][m.id] = x /\ \A j \in Ids \ {m.id} : local'[d][j] = local[d][j]
    BY <1>1, <1>3, <1>9
  <2>7. /\ Leq(entry.vector, e.vector) /\ Leq(m.vector, e.vector) /\ Leq(e.vector, m.vector)
        /\ Known(e)
    <3>1. Leq(entry.vector, m.vector)
      BY <1>1, <1>9, NoConflict
    <3> QED
      BY <1>3, <1>4, <1>9, <3>1, VectorOrder DEF Known
  <2>8. u.data = [i \in Ids |-> IF Allowed(u.kinds, i) THEN local'[d][i] ELSE NoData]
    <3>1. Allowed(run[r].kinds, m.id)
      BY <1>9 DEF Wanted
    <3>2. ASSUME NEW i \in Ids
          PROVE  u.data[i] = IF Allowed(u.kinds, i) THEN local'[d][i] ELSE NoData
      BY <1>5, <2>2, <2>6, <3>1, <3>2
    <3>3. DOMAIN u.data = Ids /\ u.data = [i \in DOMAIN u.data |-> u.data[i]]
      BY <1>5, <2>2
    <3> QED
      BY <3>2, <3>3
  <2>9. \A i \in Ids :
          \/ run'[r].rec[i] = run[r].rec[i] /\ local'[d][i] = local[d][i]
          \/ /\ i = m.id /\ Known(run'[r].rec[i])
             /\ Leq(run[r].rec[i].vector, run'[r].rec[i].vector)
             /\ Leq(run'[r].rec[i].vector, m.vector)
             /\ Leq(m.vector, run'[r].rec[i].vector)
             /\ local'[d][i] = IF run'[r].rec[i].tomb THEN NoData ELSE run'[r].rec[i].hash
    BY <1>9, <2>4, <2>5, <2>6, <2>7
  <2>10. Leq(m.vector, run'[r].rec[m.id].vector)
    BY <2>4, <2>5, <2>7
  <2>11. /\ run'[r].old = run[r].old \ {k} /\ run'[r].new = run[r].new \ {k}
         /\ run[r].deferred \ {k} \subseteq run'[r].deferred
         /\ run'[r].data =
              [i \in Ids |-> IF Allowed(run'[r].kinds, i) THEN local'[d][i] ELSE NoData]
    BY <2>2, <2>4, <2>8
  <2>12. d = Host[r] /\ d \notin Editors
    OBVIOUS
  <2> HIDE DEF d
  <2> QED
    BY <1>1, <1>3, <1>7, <2>9, <2>10, <2>11, <2>12, ReaderApplies, SMTT(60)
<1>10. CASE Write(r, k)
  <2> DEFINE e == [vector |-> v, hash |-> m.data, fields |-> m.fields, tomb |-> FALSE]
  <2>1. Wanted(r, k) /\ ~m.tomb /\ Store(r, k, m.id) /\ ~Conflicting(r, k)
    BY <1>1, <1>10, NoConflict DEF Write
  <2>2. /\ run' = [run EXCEPT ![r] =
                     [Take(r, k, run[r].deferred \ {k}) EXCEPT !.data[m.id] = m.data,
                                                               !.rec[m.id] = e]]
        /\ local' = [local EXCEPT ![d][m.id] = m.data]
    BY <2>1 DEF Store
  <2>3. e \in Entries(setting) /\ e.vector = v /\ e.hash = m.data /\ e.tomb = FALSE
    BY <1>3, <2>1, RecordIs DEF Entries, Fields
  <2> HIDE DEF e
  <2> QED
    BY <1>9, <2>1, <2>2, <2>3
<1>11. CASE Bury(r, k)
  <2> DEFINE e == [vector |-> v, hash |-> Grave, fields |-> NoFields, tomb |-> TRUE]
  <2>1. /\ Wanted(r, k)
        /\ run' = [run EXCEPT ![r] =
                     [Take(r, k, run[r].deferred \ {k}) EXCEPT !.data[m.id] = NoData,
                                                               !.rec[m.id] = e]]
        /\ local' = [local EXCEPT ![d][m.id] = NoData]
    BY <1>11 DEF Bury
  <2>2. e \in Entries(setting) /\ e.vector = v /\ e.tomb = TRUE
    BY <1>3, <2>1 DEF Entries, NoFields, Fields
  <2> HIDE DEF e
  <2> QED
    BY <1>9, <2>1, <2>2
<1>12. ~WriteCopy(r, k) /\ ~Keep(r, k)
  BY <1>1, NoConflict DEF WriteCopy, Keep
<1> QED
  BY <1>2, <1>8, <1>10, <1>11, <1>12

\* Apply: on the editor nothing is forgotten, and a reader takes what it gets.
LEMMA SeenApply ==
  ASSUME IInv, Solo, SeenInv, NEW r \in Runs, Apply(r)
  PROVE  SeenInv'
<1>1. CASE Host[r] \in Editors
  <2> DEFINE d == Host[r]
  <2>1. /\ run[r].pc = "apply" /\ UNCHANGED <<setting, journal, state, log>>
        /\ d = Host[r] /\ d \in Editors
    BY <1>1 DEF Apply
  <2>2. /\ \A q \in Runs \ {r} : run'[q] = run[q]
        /\ run'[r].pc = "apply" /\ run'[r].pending = run[r].pending
        /\ run'[r].next = run[r].next
        /\ run'[r].rec \in [Ids -> Entries(setting)]
        /\ \A j \in Ids : /\ run'[r].rec[j] \in Entries(setting)
                          /\ Leq(run[r].rec[j].vector, run'[r].rec[j].vector)
        /\ \A c \in Devices \ {d} : local'[c] = local[c]
    BY HandledGrows
  <2> HIDE DEF d
  <2> QED
    BY <2>1, <2>2, EditorApplies
<1> QED
  BY <1>1, SeenReaderApply

\* The end of a run leaves what the device has seen in its state.
LEMMA SeenSaves ==
  ASSUME IInv, Solo, SeenInv, NEW r \in Runs, NEW d, d = Host[r],
         run' = [run EXCEPT ![r] = IdleRun],
         \A c \in Devices \ {d} : state'[c] = state[c],
         state'[d].rec = Memory(d), Passed(d)',
         UNCHANGED <<setting, local, journal, log>>
  PROVE  SeenInv'
<1>1. /\ d \in Devices /\ setting \in Settings /\ setting' = setting /\ log' = log
      /\ log' \in Seq(Records(setting)) /\ Grows(log, log')
      /\ Host' = Host /\ Editors' = Editors
      /\ run \in [Runs -> {IdleRun} \cup Pushes(setting, log) \cup Pulls(setting, log)]
  BY RunIs, GrowsSame DEF IInv, TypeOK, Host, Editors
<1>2. run'[r].pc = "idle" /\ \A q \in Runs \ {r} : run'[q] = run[q]
  BY <1>1 DEF IdleRun
<1>3. \A c \in Devices : Memory(c)' = Memory(c)
  <2>1. Memory(d)' = state'[d].rec
    BY <1>1, <1>2, MemoryOfRun DEF IInv, Answered
  <2>2. \A c \in Devices \ {d} : Memory(c)' = Memory(c)
    BY <1>1, <1>2, MemoryOthers
  <2> QED
    BY <2>1, <2>2
<1>4. /\ LogOrdered' /\ AllSeen'
      /\ \A c \in Devices \ Editors : Follows(c)' /\ Mirrors(c)'
  BY <1>1, <1>3, SteadyLog
<1>5. \A c \in Devices : Passed(c)'
  <2>1. \A c \in Devices \ {d} : Passed(c)'
    BY <1>1, PassedKept DEF IInv, SeenInv
  <2> QED
    BY <2>1
<1>6. ASSUME NEW q \in Runs PROVE RunSeen(q)'
  <2>1. CASE q = r
    BY <1>2, <2>1 DEF RunSeen, Copies, Passing, Prepares, Reads
  <2>2. CASE q # r
    <3>1. /\ Host[q] \in Devices /\ Host[q] # d /\ RunSeen(q)
      BY <1>1, <2>2, RunIs, SoloIs DEF IInv, SeenInv
    <3> QED
      BY <1>1, <1>2, <2>2, <3>1, RunSeenKept DEF IInv
  <2> QED
    BY <2>1, <2>2
<1> QED
  BY <1>1, <1>4, <1>5, <1>6 DEF SeenInv

\* Finish: the cursor passes what has been applied.
LEMMA SeenFinish ==
  ASSUME IInv, Solo, SeenInv, NEW r \in Runs, Finish(r)
  PROVE  SeenInv'
<1> DEFINE d == Host[r]
           rec == OnTop(run[r].pending, run[r].rec)
           st == [rec |-> rec, cursor |-> run[r].next, deferred |-> run[r].deferred]
<1>1. /\ run[r].pc = "apply" /\ run[r].old = {} /\ run[r].new = {}
      /\ state' = [state EXCEPT ![d] = st]
      /\ run' = [run EXCEPT ![r] = IdleRun]
      /\ UNCHANGED <<setting, local, journal, log>>
  BY DEF Finish
<1>2. /\ d \in Devices /\ run[r] \in Pulls(setting, log) /\ log \in Seq(Records(setting))
      /\ setting \in Settings /\ setting' = setting
      /\ state \in [Devices -> States(setting, log)]
  BY <1>1, RunIs DEF IInv, TypeOK
<1>3. st.rec = rec /\ st.cursor = run[r].next /\ st.deferred = run[r].deferred
  OBVIOUS
<1>4. Memory(d) = rec
  BY <1>1, <1>2, MemoryOfRun DEF IInv, Answered
<1>5. RunSeen(r)
  BY DEF SeenInv
<1>6. run[r].next <= Len(log) /\ run[r].next \in Nat /\ DOMAIN log = 1..Len(log)
  BY <1>1, <1>2, <1>5 DEF RunSeen, Passing, Pulls
<1>7. ASSUME NEW k \in 1..run[r].next
      PROVE  k \in run[r].deferred \/ Leq(log[k].vector, rec[log[k].id].vector)
  <2>1. CASE d \in Editors
    <3>1. k \in DOMAIN log
      BY <1>2, <1>6
    <3> QED
      BY <1>4, <2>1, <3>1 DEF SeenInv, AllSeen
  <2>2. CASE d \notin Editors
    <3>1. DOMAIN run[r].pending = {}
      BY <1>1, <1>5, <2>2 DEF RunSeen, Reads
    <3>2. rec = run[r].rec
      <4>1. run[r].rec \in [setting.ids -> Entries(setting)] /\ run[r].pending \in Pendings(setting)
        BY <1>2 DEF Pulls
      <4> QED
        BY <3>1, <4>1, OnTopIs
    <3>3. k \in run[r].deferred \/ Leq(log[k].vector, run[r].rec[log[k].id].vector)
      BY <1>1, <1>5, <2>2 DEF RunSeen, Passing
    <3> QED
      BY <3>2, <3>3
  <2> QED
    BY <2>1, <2>2
<1> HIDE DEF st, rec, d
<1>8. state'[d] = st /\ \A c \in Devices \ {d} : state'[c] = state[c]
  BY <1>1, <1>2
<1>9. Passed(d)'
  <2>1. d' = d
    BY <1>2 DEF d, Host
  <2> QED
    BY <1>1, <1>3, <1>6, <1>7, <1>8, <2>1 DEF Passed
<1>10. d = Host[r] /\ state'[d].rec = Memory(d) /\ d' = d
  BY <1>2, <1>3, <1>4, <1>8 DEF d, Host
<1> QED
  BY <1>1, <1>8, <1>9, <1>10, SeenSaves

\* GiveUp: what is saved is what was loaded.
LEMMA SeenGiveUp ==
  ASSUME IInv, Solo, SeenInv, NEW r \in Runs, GiveUp(r)
  PROVE  SeenInv'
<1> DEFINE d == Host[r]
           st == [rec |-> run[r].rec, cursor |-> run[r].cursor, deferred |-> run[r].deferred]
<1>1. /\ run[r].pc = "failed"
      /\ state' = [state EXCEPT ![d] = st]
      /\ run' = [run EXCEPT ![r] = IdleRun]
      /\ UNCHANGED <<setting, local, journal, log>>
  BY DEF GiveUp
<1>2. /\ d \in Devices /\ setting \in Settings /\ setting' = setting
      /\ state \in [Devices -> States(setting, log)]
  BY <1>1, RunIs DEF IInv, TypeOK
<1>3. Copies(r) /\ Passed(d)
  BY <1>2 DEF SeenInv, RunSeen
<1>4. st.rec = state[d].rec /\ st.cursor = state[d].cursor /\ st.deferred = state[d].deferred
  BY <1>1, <1>3 DEF Copies
<1>5. Memory(d) = state[d].rec
  BY <1>1, <1>2, MemoryOfRun DEF IInv, Answered
<1> HIDE DEF st, d
<1>6. state'[d] = st /\ \A c \in Devices \ {d} : state'[c] = state[c]
  BY <1>1, <1>2
<1>7. d = Host[r] /\ state'[d].rec = Memory(d) /\ d' = d
  BY <1>2, <1>4, <1>5, <1>6 DEF d, Host
<1>8. Passed(d)'
  BY <1>1, <1>3, <1>4, <1>6, <1>7 DEF Passed
<1> QED
  BY <1>1, <1>6, <1>7, <1>8, SeenSaves

\* Users change what the editor has, and what the devices accept.
LEMMA SeenUser ==
  ASSUME IInv, Solo, SeenInv, NEW d \in Devices, User(d)
  PROVE  SeenInv'
<1>1. /\ setting \in Settings /\ log \in Seq(Records(setting))
      /\ local \in [Devices -> [Ids -> Data(setting) \cup {NoData}]]
      /\ journal \in [Devices -> SUBSET Ids]
  BY DEF IInv, TypeOK
<1>2. /\ setting' = setting /\ state' = state /\ run' = run /\ log' = log
      /\ \A c \in Devices \ Editors : local'[c] = local[c] /\ journal'[c] = journal[c]
  <2>1. ASSUME NEW i \in Ids, NEW f \in Fields, NEW value, Edit(d, i, f, value)
        PROVE  /\ setting' = setting /\ state' = state /\ run' = run /\ log' = log
               /\ \A c \in Devices \ Editors : local'[c] = local[c] /\ journal'[c] = journal[c]
    BY <1>1, <2>1 DEF Edit, Editable
  <2>2. ASSUME NEW i \in Ids, Create(d, i) \/ Delete(d, i)
        PROVE  /\ setting' = setting /\ state' = state /\ run' = run /\ log' = log
               /\ \A c \in Devices \ Editors : local'[c] = local[c] /\ journal'[c] = journal[c]
    BY <1>1, <2>2 DEF Create, Delete, Editable
  <2>3. ASSUME NEW kind \in Optional, Toggle(d, kind)
        PROVE  /\ setting' = setting /\ state' = state /\ run' = run /\ log' = log
               /\ \A c \in Devices \ Editors : local'[c] = local[c] /\ journal'[c] = journal[c]
    BY <2>3 DEF Toggle
  <2> QED
    BY <2>1, <2>2, <2>3 DEF User
<1>3. \A c \in Devices : Memory(c)' = Memory(c)
  BY <1>2 DEF Memory
<1>4. /\ LogOrdered' /\ AllSeen'
      /\ \A c \in Devices \ Editors : Follows(c)' /\ Mirrors(c)'
  BY <1>1, <1>2, <1>3, SteadyLog
<1>5. Grows(log, log') /\ log' \in Seq(Records(setting)) /\ Editors' = Editors
  BY <1>1, <1>2, GrowsSame DEF Editors
<1>6. \A c \in Devices : Passed(c)'
  BY <1>2, <1>5, PassedKept DEF IInv, SeenInv
<1>7. ASSUME NEW q \in Runs PROVE RunSeen(q)'
  <2>1. Host[q] \in Devices /\ RunSeen(q) /\ run'[q] = run[q] /\ state'[Host[q]] = state[Host[q]]
    BY <1>2, RunIs DEF IInv, SeenInv
  <2>2. Host[q] \notin Editors => local'[Host[q]] = local[Host[q]]
    BY <1>2, <2>1
  <2> QED
    BY <1>2, <1>5, <2>1, <2>2, RunSeenKept DEF IInv
<1> QED
  BY <1>4, <1>5, <1>6, <1>7 DEF SeenInv

\* A run that is not broken off goes on.
LEMMA SeenFaults ==
  ASSUME setting \in Settings, Solo, NEW r \in Runs
  PROVE  ~PullFails(r) /\ ~ApplyFails(r) /\ ~Interrupt(r)
<1>1. {"pull", "apply", "interrupt"} \cap Faults = {}
  BY SoloIs
<1> QED
  BY <1>1 DEF PullFails, ApplyFails, Interrupt

LEMMA InitSeen ==
  ASSUME Init, IInv, Solo
  PROVE  SeenInv
<1>1. /\ setting \in Settings /\ log = <<>> /\ DOMAIN log = {} /\ Len(log) = 0
      /\ \A d \in Devices : journal[d] = {}
      /\ \A d \in Devices, i \in Ids :
           local[d][i] = IF i \in Seeded THEN SeedData ELSE NoData
      /\ \A d \in Devices : state[d].cursor = 0
      /\ \A d \in Devices, i \in Ids :
           state[d].rec[i] = IF i \in Seeded THEN SeedEntry ELSE Unknown
      /\ \A r \in Runs : run[r].pc = "idle"
  BY DEF Init, IdleRun
<1>2. Editors \subseteq Devices /\ Seeded \subseteq Ids
  BY <1>1, SoloIs, SettingIs
<1>3. \A d \in Devices : Memory(d) = state[d].rec
  <2> SUFFICES ASSUME NEW d \in Devices PROVE MemoryIn(setting, run, state, d) = state[d].rec
    BY DEF Memory
  <2>1. \A q \in Runs : setting.host[q] = d => run[q].pc \notin Answered
    BY <1>1 DEF Answered
  <2> QED
    BY <2>1, MemoryState
<1>4. LogOrdered /\ AllSeen /\ \A d \in Devices : Passed(d)
  BY <1>1 DEF LogOrdered, AllSeen, Passed
<1>5. ASSUME NEW d \in Devices PROVE Follows(d)
  <2>1. ASSUME NEW i \in Ids, NEW e \in Editors
        PROVE  Leq(Memory(d)[i].vector, Memory(e)[i].vector)
    <3>1. Memory(d)[i] = Memory(e)[i]
      BY <1>1, <1>2, <1>3
    <3>2. state \in [Devices -> States(setting, log)]
      BY DEF IInv, TypeOK
    <3>3. state[d].rec \in [Ids -> Entries(setting)]
      BY <3>2 DEF States, Ids
    <3>4. state[d].rec[i].vector \in Vectors
      BY <3>3 DEF Entries
    <3> QED
      BY <1>3, <3>1, <3>4, VectorOrder
  <2> QED
    BY <1>1, <2>1 DEF Follows
<1>6. ASSUME NEW d \in Devices PROVE Mirrors(d)
  <2>1. ~Known(Unknown)
    BY DEF Known, Unknown
  <2>2. SeedEntry.tomb = FALSE /\ SeedEntry.hash = SeedData
    BY DEF SeedEntry
  <2>3. Known(SeedEntry)
    <3>1. SeedEntry.vector = SeedVector
      BY DEF SeedEntry
    <3>2. DOMAIN SeedVector = {First} /\ DOMAIN NoVector = {}
      BY DEF SeedVector, NoVector
    <3> QED
      BY <3>1, <3>2 DEF Known
  <2>4. ASSUME NEW i \in Ids
        PROVE  IF Known(Memory(d)[i]) /\ ~Memory(d)[i].tomb
                 THEN local[d][i] = Memory(d)[i].hash
                 ELSE local[d][i] = NoData
    BY <1>1, <1>3, <2>1, <2>2, <2>3
  <2> QED
    BY <1>1, <2>4 DEF Mirrors
<1>7. ASSUME NEW r \in Runs PROVE RunSeen(r)
  BY <1>1 DEF RunSeen, Copies, Passing, Prepares, Reads
<1> QED
  BY <1>2, <1>4, <1>5, <1>6, <1>7 DEF SeenInv

LEMMA StepSeen ==
  ASSUME IInv, Next, Solo, SeenInv
  PROVE  SeenInv'
<1>1. setting \in Settings
  BY DEF IInv, TypeOK
<1>2. ASSUME NEW r \in Runs, SyncStep(r) PROVE SeenInv'
  BY <1>1, <1>2, SeenFaults, SeenCollect, SeenPush, SeenPushFails, SeenDrop, SeenPull,
     SeenApply, SeenFinish, SeenGiveUp DEF SyncStep
<1> QED
  BY <1>1, <1>2, SeenFaults, SeenBegin, SeenUser DEF Next

\* While one device makes the changes, the invariant holds of every reachable state.
THEOREM InductiveSeen == Safety => []SInv
<1>1. Init /\ IInv => SInv
  BY InitSeen DEF SInv
<1>2. ASSUME IInv, [Next]_vars, SInv PROVE SInv'
  <2>1. setting' = setting
    BY <1>2, SettingStays
  <2>2. Solo' <=> Solo
    BY <2>1, SoloSame
  <2>3. CASE Next
    BY <1>2, <2>2, <2>3, StepSeen DEF SInv
  <2>4. CASE UNCHANGED vars
    BY <1>2, <2>2, <2>4 DEF vars, SInv, SeenInv, LogOrdered, AllSeen, Passed, Follows, Mirrors,
       RunSeen, Copies, Passing, Prepares, Reads, Memory, Editors, Ids, Host, Export, Allowed, Kind
  <2> QED
    BY <1>2, <2>3, <2>4
<1> QED
  BY <1>1, <1>2, Inductive, PTL DEF Safety

\* SeenIsRemembered (collectEnvelopes, client.go 983, 1289): a version that the cursor of
\* a device has passed is deferred, or known to what the device remembers of the record.
THEOREM NothingSeenIsForgotten == Safety => []SeenIsRemembered
<1>1. SInv => SeenIsRemembered
  BY DEF SInv, SeenInv, Passed, Solo, SeenIsRemembered
<1> QED
  BY <1>1, InductiveSeen, PTL

===============================================================================
