---------------------------- MODULE SyncScheduler ----------------------------
(***************************************************************************)
(* The automatic synchronization scheduler: triggerSyncSoon, runSyncOnce,  *)
(* syncLoop and the first part of Close in internal/app/app.go.            *)
(*                                                                         *)
(* Every operation of the desktop that changes a synchronized record calls *)
(* triggerSyncSoon; so do a five-minute ticker and the end of a run during *)
(* which somebody asked.  A trigger starts a goroutine, arms a timer, or   *)
(* leaves a note in syncPending.  All of them work on the same five fields *)
(* under syncMu, and each locked section is one action here.               *)
(*                                                                         *)
(* Time is counted in ticks, Window of them standing for the 20 seconds of *)
(* triggerSyncSoon.  Only time since syncLastTrigger matters, and only up  *)
(* to Window.                                                              *)
(***************************************************************************)
EXTENDS Naturals

CONSTANTS
  Threads,   \* goroutines and timers that can exist at a time (a bound)
  Window,    \* the minimum time between two triggers, in ticks
  NoTimer    \* syncTimer = nil

ASSUME WindowAssumption == Window \in Nat \ {0}
ASSUME NoTimerAssumption == NoTimer \notin Threads

VARIABLES
  open,       \* syncStop # nil
  running,    \* syncRunning
  pending,    \* syncPending
  age,        \* time since syncLastTrigger, counted up to Window
  timer,      \* syncTimer: the thread that is the timer, or NoTimer
  pc,         \* where each thread is
  left,       \* time left before an armed timer fires
  loop,       \* the goroutine of syncLoop
  requested   \* history: somebody asked after the last run started

schedulerVars == <<open, running, pending, age, timer, pc, left, loop, requested>>

(***************************************************************************)
(* The control points of a thread:                                         *)
(*   idle       it does not exist                                          *)
(*   armed      a timer made by AfterFunc, not yet due or not yet started  *)
(*   fired      the timer's callback runs, before it takes syncMu          *)
(*   entry      it is about to take syncMu at the top of runSyncOnce       *)
(*   syncing    inside a run, with syncRunning set                         *)
(*   retrigger  after the deferred function's section, about to call       *)
(*              triggerSyncSoon again                                      *)
(***************************************************************************)
Points == {"idle", "armed", "fired", "entry", "syncing", "retrigger"}

\* The goroutine of syncLoop is about to evaluate the select, waits on the
\* channel that Close closes, waits on a nil channel, or has returned.
LoopPoints == {"enter", "live", "nil", "returned"}

SchedulerTypeOK ==
  /\ open \in BOOLEAN
  /\ running \in BOOLEAN
  /\ pending \in BOOLEAN
  /\ age \in 0..Window
  /\ timer \in Threads \cup {NoTimer}
  /\ pc \in [Threads -> Points]
  /\ left \in [Threads -> 0..Window]
  /\ loop \in LoopPoints
  /\ requested \in BOOLEAN

\* After initialize(): syncLastTrigger is the zero time, so long ago.
SchedulerInit ==
  /\ open = TRUE
  /\ running = FALSE
  /\ pending = FALSE
  /\ age = Window
  /\ timer = NoTimer
  /\ pc = [t \in Threads |-> "idle"]
  /\ left = [t \in Threads |-> 0]
  /\ loop = "enter"
  /\ requested = FALSE

-------------------------------------------------------------------------------
(***************************************************************************)
(* triggerSyncSoon                                                         *)
(***************************************************************************)

\* time.Timer.Stop: a timer that has not started its callback never will; one
\* that has is left alone.
Stopped(threads) ==
  [t \in Threads |-> IF t = timer /\ threads[t] = "armed" THEN "idle" ELSE threads[t]]

\* The first condition of triggerSyncSoon: nothing may be started now.
Suspended == ~open \/ running

\* (Mutated form: a trigger during a run is dropped.)
NotePendingIgnored(threads) ==
  /\ Suspended
  /\ pc' = threads
  /\ UNCHANGED <<pending, age, timer, left>>

\* Then a trigger only leaves a note for the end of the run.
NotePending(threads) ==
  /\ Suspended
  /\ pending' = TRUE
  /\ pc' = threads
  /\ UNCHANGED <<age, timer, left>>

\* (Mutated form: the delay starts over with every trigger.)
DelayFromNow == Window

\* A trigger that comes too soon after the previous one: one timer replaces
\* another.  The delay runs from syncLastTrigger, not from now.
Delay == Window - age

ArmTimer(threads) ==
  /\ ~Suspended
  /\ age < Window
  /\ pending' = TRUE
  /\ \E t \in Threads :
       /\ Stopped(threads)[t] = "idle"
       /\ pc' = [Stopped(threads) EXCEPT ![t] = "armed"]
       /\ left' = [left EXCEPT ![t] = Delay]
       /\ timer' = t
  /\ UNCHANGED age

\* A trigger that starts a run at once.
StartNow(threads) ==
  /\ ~Suspended
  /\ age = Window
  /\ age' = 0
  /\ \E t \in Threads :
       /\ threads[t] = "idle"
       /\ pc' = [threads EXCEPT ![t] = "entry"]
  /\ UNCHANGED <<pending, timer, left>>

\* "threads" is pc without the thread that ends with this call, if any.
TriggerSyncSoon(threads) ==
  /\ NotePending(threads) \/ ArmTimer(threads) \/ StartNow(threads)
  /\ UNCHANGED <<open, running>>

\* An operation of the user interface, or Startup, asks for a synchronization.
Trigger ==
  /\ TriggerSyncSoon(pc)
  /\ requested' = TRUE
  /\ UNCHANGED loop

-------------------------------------------------------------------------------
(***************************************************************************)
(* The timer and its callback                                              *)
(***************************************************************************)

Fire(t) ==
  /\ pc[t] = "armed"
  /\ left[t] = 0
  /\ pc' = [pc EXCEPT ![t] = "fired"]
  /\ UNCHANGED <<open, running, pending, age, timer, left, loop, requested>>

\* The callback forgets syncTimer, whichever timer that is by now.
Callback(t) ==
  /\ pc[t] = "fired"
  /\ timer' = NoTimer
  /\ age' = 0
  /\ pc' = [pc EXCEPT ![t] = "entry"]
  /\ UNCHANGED <<open, running, pending, left, loop, requested>>

-------------------------------------------------------------------------------
(***************************************************************************)
(* runSyncOnce                                                             *)
(***************************************************************************)

\* (Mutated form: syncRunning is not looked at.)
MayRunTwice == open

\* (Mutated form: syncStop is not looked at.)
MayRunClosed == ~running

\* The guard at the top of runSyncOnce.
MayRun == ~running /\ open

RunBegin(t) ==
  /\ pc[t] = "entry"
  /\ MayRun
  /\ running' = TRUE
  /\ pending' = FALSE
  /\ age' = 0
  /\ pc' = [pc EXCEPT ![t] = "syncing"]
  /\ requested' = FALSE
  /\ UNCHANGED <<open, timer, left, loop>>

RunRefused(t) ==
  /\ pc[t] = "entry"
  /\ ~MayRun
  /\ pc' = [pc EXCEPT ![t] = "idle"]
  /\ UNCHANGED <<open, running, pending, age, timer, left, loop, requested>>

\* The run ends, early (not logged in, vault locked, ...) or after Sync, and the
\* deferred function takes the note.
RunEnd(t) ==
  /\ pc[t] = "syncing"
  /\ running' = FALSE
  /\ pending' = FALSE
  /\ pc' = [pc EXCEPT ![t] = IF pending THEN "retrigger" ELSE "idle"]
  /\ UNCHANGED <<open, age, timer, left, loop, requested>>

Retrigger(t) ==
  /\ pc[t] = "retrigger"
  /\ TriggerSyncSoon([pc EXCEPT ![t] = "idle"])
  /\ UNCHANGED <<loop, requested>>

-------------------------------------------------------------------------------
(***************************************************************************)
(* syncLoop, Close and the passing of time                                 *)
(***************************************************************************)

\* select evaluates a.syncStop, without syncMu: nil after Close, and then the
\* case can never be taken.
LoopSelect ==
  /\ loop = "enter"
  /\ loop' = IF open THEN "live" ELSE "nil"
  /\ UNCHANGED <<open, running, pending, age, timer, pc, left, requested>>

LoopTick ==
  /\ loop \in {"live", "nil"}
  /\ TriggerSyncSoon(pc)
  /\ requested' = TRUE
  /\ loop' = "enter"

LoopReturn ==
  /\ loop = "live"
  /\ ~open
  /\ loop' = "returned"
  /\ UNCHANGED <<open, running, pending, age, timer, pc, left, requested>>

Close ==
  /\ open
  /\ open' = FALSE
  /\ pc' = Stopped(pc)
  /\ timer' = NoTimer
  /\ UNCHANGED <<running, pending, age, left, loop, requested>>

Tick ==
  /\ age < Window \/ \E t \in Threads : pc[t] = "armed" /\ left[t] > 0
  /\ age' = IF age < Window THEN age + 1 ELSE age
  /\ left' = [t \in Threads |-> IF left[t] > 0 THEN left[t] - 1 ELSE 0]
  /\ UNCHANGED <<open, running, pending, timer, pc, loop, requested>>

ThreadStep(t) ==
  Fire(t) \/ Callback(t) \/ RunBegin(t) \/ RunRefused(t) \/ RunEnd(t) \/ Retrigger(t)

SchedulerNext ==
  \/ Trigger
  \/ \E t \in Threads : ThreadStep(t)
  \/ LoopSelect \/ LoopTick \/ LoopReturn
  \/ Close
  \/ Tick

SchedulerSafety == SchedulerInit /\ [][SchedulerNext]_schedulerVars

(***************************************************************************)
(* Fairness.  A goroutine that can run does (the Go scheduler), time       *)
(* passes, the ticker ticks, and a run ends: every request of a            *)
(* synchronization has the 30 second timeout of Client.http.  Nothing      *)
(* obliges the user to trigger or to close anything.                       *)
(***************************************************************************)
SchedulerFairness ==
  /\ WF_schedulerVars(Tick)
  /\ \A t \in Threads : WF_schedulerVars(ThreadStep(t))
  /\ WF_schedulerVars(LoopSelect)
  /\ WF_schedulerVars(LoopTick)

SchedulerSpec == SchedulerSafety /\ SchedulerFairness

-------------------------------------------------------------------------------
(***************************************************************************)
(* Properties                                                              *)
(***************************************************************************)

Syncing(t) == pc[t] = "syncing"

\* A thread that will still reach the top of runSyncOnce, or triggerSyncSoon.
Coming(t) == pc[t] \in {"armed", "fired", "entry", "retrigger"}

\* At most one thread is between the two locked sections of runSyncOnce, and
\* syncRunning says whether one is (runSyncOnce, which any number of goroutines
\* and timers enter).
SingleFlight ==
  /\ \A s, t \in Threads : Syncing(s) /\ Syncing(t) => s = t
  /\ running <=> \E t \in Threads : Syncing(t)

\* No request is lost: as long as the application is open, a request newer than
\* the last run has a thread coming for it or a note that the current run will
\* find.  Neither a replaced timer, nor a run refused because another is in
\* progress, nor the note that two sections clear, loses it.
RequestCovered ==
  requested /\ open =>
    (running /\ pending) \/ \E t \in Threads : Coming(t)

\* Triggers that keep coming do not push the synchronization further away: an
\* armed timer fires within Window of syncLastTrigger (the delay that
\* triggerSyncSoon computes each time it replaces the timer).
DeadlineKept ==
  \A t \in Threads : pc[t] = "armed" => left[t] + age <= Window

\* The scheduler implements its promise, fairness included: single flight,
\* coalescing, every request followed by a run that starts after it, and no run
\* that starts after Close.
Promise == INSTANCE CoalescedSync
             WITH up <- open, want <- requested, busy <- \E t \in Threads : Syncing(t)

ImplementsPromise == Promise!AbsSpec

===============================================================================
