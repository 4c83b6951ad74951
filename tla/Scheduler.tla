----------------------------- MODULE Scheduler -----------------------------
(***************************************************************************)
(* DefaultScheduler (src/orchestration/scheduler.ts): the queue every      *)
(* agent task of a run goes through.  It starts queued tasks in FIFO order *)
(* while fewer than Concurrency are running, aborts everything on request  *)
(* or, with fail-fast, on the first failure, and lets drain() callers wait *)
(* until nothing is queued or running.                                     *)
(*                                                                         *)
(* The class is single threaded: an action is one run-to-completion turn   *)
(* of the JavaScript event loop, except that the loop of pump() is one     *)
(* step per started task; while "pumping" holds no other turn can happen.  *)
(*                                                                         *)
(* In this and the other modules an operator that no action uses and that  *)
(* stands right before one of the same shape (TimersAfterKept before       *)
(* TimersAfter) is a bug that TLC is shown to catch: see PROJECT.json.     *)
(***************************************************************************)
EXTENDS Naturals, Sequences, FiniteSets

CONSTANTS
  Tasks,         (* the schedule() calls of a run                             *)
  Ids,           (* agent ids                                                 *)
  IdOf,          (* task.id of every call; nothing in the code makes it unique *)
  Concurrency,   (* SchedulerConfig.concurrency                               *)
  FailFastTasks, (* calls for which config.failFast or options.failFast holds *)
  Deferred,      (* calls with options.deferFailFastUntilLogicalResult        *)
  Timed,         (* calls with a finite options.timeoutMs                     *)
  Waiters        (* callers of drain()                                        *)

ASSUME SchedulerAssumption ==
  /\ IsFiniteSet(Tasks)
  /\ IdOf \in [Tasks -> Ids]
  /\ Concurrency \in Nat \ {0}
  /\ FailFastTasks \subseteq Tasks
  /\ Deferred \subseteq Tasks
  /\ Timed \subseteq Tasks

(* What a task's promise resolves to; "new" before schedule(), "pending"   *)
(* until it is settled.                                                    *)
Statuses == {"succeeded", "failed", "timed_out", "cancelled", "skipped"}
Failures == {"failed", "timed_out", "cancelled"}

VARIABLES
  queue,     (* the tasks waiting for a slot                                 *)
  running,   (* the Map "running": at most one task per id                   *)
  live,      (* the tasks whose run() has been called and has not ended      *)
  started,   (* the tasks for which agent.started was emitted                *)
  outcome,   (* what each schedule() promise holds                           *)
  signalled, (* the tasks whose AbortController is aborted                   *)
  timers,    (* the tasks whose timeout timer is armed                       *)
  aborted, abortReason,
  tick,      (* a process.nextTick(pump) is pending                          *)
  pumping,   (* the event loop is inside the loop of pump()                  *)
  waiters    (* drain() callers: idle, waiting or returned                   *)

vars == <<queue, running, live, started, outcome, signalled, timers,
          aborted, abortReason, tick, pumping, waiters>>

Init ==
  /\ queue = <<>>
  /\ running = {}
  /\ live = {}
  /\ started = {}
  /\ outcome = [t \in Tasks |-> "new"]
  /\ signalled = {}
  /\ timers = {}
  /\ aborted = FALSE
  /\ abortReason = "none"
  /\ tick = FALSE
  /\ pumping = FALSE
  /\ waiters = [w \in Waiters |-> "idle"]

-----------------------------------------------------------------------------
(* running.set(id, t) and running.delete(id): a Map holds one entry per id, *)
(* so a second task with the same id replaces, and later deletes, the first.*)
SetRunning(t) == {u \in running : IdOf[u] # IdOf[t]} \cup {t}
DeleteRunning(t) == {u \in running : IdOf[u] # IdOf[t]}

Queued == {queue[i] : i \in 1..Len(queue)}

(* resolve() and reject() clear the timeout timer of the tasks they settle. *)
TimersAfter(settled) == timers \ settled

(* checkDrain(), evaluated on the queue and running set a turn leaves.     *)
DrainedRunning(run, q) == run = {}
Drained(run, q) == run = {} /\ q = <<>>
CheckDrain(run, q) ==
  waiters' = IF Drained(run, q)
             THEN [w \in Waiters |-> IF waiters[w] = "waiting" THEN "returned"
                                     ELSE waiters[w]]
             ELSE waiters

(* schedule(): the timer starts now, not when the task does.  An aborted   *)
(* scheduler settles the call at once and queues nothing.                  *)
ScheduleSkipped(t) ==
  /\ ~pumping /\ outcome[t] = "new"
  /\ aborted
  /\ outcome' = [outcome EXCEPT ![t] = "skipped"]
  /\ UNCHANGED <<queue, running, live, started, signalled, timers, aborted,
                 abortReason, tick, pumping, waiters>>

(* Only a positive, finite timeoutMs arms a timer.                         *)
ArmAlways(t) == timers \cup {t}
Arm(t) == timers \cup ({t} \cap Timed)

ScheduleQueued(t) ==
  /\ ~pumping /\ outcome[t] = "new"
  /\ ~aborted
  /\ outcome' = [outcome EXCEPT ![t] = "pending"]
  /\ queue' = Append(queue, t)
  /\ timers' = Arm(t)
  /\ tick' = TRUE
  /\ UNCHANGED <<running, live, started, signalled, aborted, abortReason,
                 pumping, waiters>>

(* The timeout timer of an unsettled call aborts its controller, whether   *)
(* the task is running or still queued.                                    *)
TimeoutFires(t) ==
  /\ ~pumping
  /\ t \in timers
  /\ timers' = timers \ {t}
  /\ signalled' = signalled \cup {t}
  /\ UNCHANGED <<queue, running, live, started, outcome, aborted,
                 abortReason, tick, pumping, waiters>>

(* The nextTick callback enters pump(), which returns at once when the     *)
(* scheduler is aborted.  Callbacks queued in the same turn run back to    *)
(* back and the second finds nothing to do, so one flag stands for all.    *)
NextTick ==
  /\ ~pumping /\ tick
  /\ tick' = FALSE
  /\ pumping' = ~aborted
  /\ UNCHANGED <<queue, running, live, started, outcome, signalled, timers,
                 aborted, abortReason, waiters>>

(* One iteration of the loop of pump(): the head of the queue starts, even *)
(* when its controller is already aborted.                                 *)
HasSlot == Cardinality(running) < Concurrency

PumpStart ==
  /\ pumping
  /\ HasSlot
  /\ queue # <<>>
  /\ LET t == Head(queue)
     IN  /\ running' = SetRunning(t)
         /\ live' = live \cup {t}
         /\ started' = started \cup {t}
  /\ queue' = Tail(queue)
  /\ UNCHANGED <<outcome, signalled, timers, aborted, abortReason, tick,
                 pumping, waiters>>

(* The loop ends; pump() checks for drain.                                 *)
PumpEnd ==
  /\ pumping
  /\ ~HasSlot \/ queue = <<>>
  /\ pumping' = FALSE
  /\ CheckDrain(running, queue)
  /\ UNCHANGED <<queue, running, live, started, outcome, signalled, timers,
                 aborted, abortReason, tick>>

SkipQueuedForgotten == outcome
SkipQueued ==
  [t \in Tasks |-> IF t \in Queued THEN "skipped" ELSE outcome[t]]

(* Every AbortController of the running map is aborted.                    *)
SignalRunningForgotten(run) == signalled
SignalRunning(run) == signalled \cup run

(* abort(): the first one wins.  Running tasks are signalled, queued ones  *)
(* are settled as skipped.                                                 *)
Abort(reason) ==
  /\ ~pumping /\ ~aborted
  /\ aborted' = TRUE
  /\ abortReason' = reason
  /\ signalled' = SignalRunning(running)
  /\ outcome' = SkipQueued
  /\ timers' = TimersAfter(Queued)
  /\ queue' = <<>>
  /\ CheckDrain(running, <<>>)
  /\ UNCHANGED <<running, live, started, tick, pumping>>

(* The turn after run() has ended: the task leaves the map and settles; a  *)
(* failure that counts for fail-fast aborts the rest; then pump().         *)
TriggersOnFailedOnly(t, status) ==
  status = "failed" /\ t \in FailFastTasks \ Deferred
TriggersFailFast(t, status) ==
  status \in Failures /\ t \in FailFastTasks \ Deferred

(* The finally block: pump(), which returns at once when aborted, then     *)
(* checkDrain().                                                           *)
FinallyPump == pumping' = ~aborted

FinallyNoCheck == UNCHANGED waiters
FinallyCheckDrain == CheckDrain(running', queue')

SettleAndPump(t, status) ==
  /\ running' = DeleteRunning(t)
  /\ live' = live \ {t}
  /\ outcome' = [outcome EXCEPT ![t] = status]
  /\ timers' = TimersAfter({t})
  /\ FinallyPump
  /\ UNCHANGED <<queue, signalled, aborted, abortReason>>

SettleAndAbort(t, status) ==
  /\ running' = DeleteRunning(t)
  /\ live' = live \ {t}
  /\ aborted' = TRUE
  /\ abortReason' = "fail-fast"
  /\ signalled' = SignalRunning(DeleteRunning(t))
  /\ outcome' = [SkipQueued EXCEPT ![t] = status]
  /\ timers' = TimersAfter(Queued \cup {t})
  /\ queue' = <<>>
  /\ UNCHANGED pumping

Settle(t, status) ==
  /\ ~pumping /\ t \in live
  /\ IF TriggersFailFast(t, status) /\ ~aborted
     THEN SettleAndAbort(t, status)
     ELSE SettleAndPump(t, status)
  /\ FinallyCheckDrain
  /\ UNCHANGED <<started, tick>>

(* run() resolves with a result of any status, signalled or not: a task    *)
(* that ignores its signal may still succeed.                              *)
TaskReturns(t) == \E status \in {"succeeded"} \cup Failures : Settle(t, status)

(* run() rejects: cancelled when the task was signalled or threw an        *)
(* AbortError, failed otherwise.                                           *)
TaskThrows(t) ==
  \E abortError \in BOOLEAN :
    Settle(t, IF t \in signalled \/ abortError THEN "cancelled" ELSE "failed")

(* drain().                                                                *)
Drain(w) ==
  /\ ~pumping /\ waiters[w] = "idle"
  /\ waiters' = [waiters EXCEPT ![w] = IF Drained(running, queue)
                                       THEN "returned" ELSE "waiting"]
  /\ UNCHANGED <<queue, running, live, started, outcome, signalled, timers,
                 aborted, abortReason, tick, pumping>>

-----------------------------------------------------------------------------
Next ==
  \/ \E t \in Tasks : \/ ScheduleSkipped(t) \/ ScheduleQueued(t)
                      \/ TimeoutFires(t)
                      \/ TaskReturns(t) \/ TaskThrows(t)
  \/ \E w \in Waiters : Drain(w)
  \/ NextTick \/ PumpStart \/ PumpEnd
  \/ Abort("other")

Spec == Init /\ [][Next]_vars

(* The event loop runs pending callbacks; a started task ends eventually,  *)
(* because every provider process has a timeout that kills it.  Nobody is  *)
(* obliged to schedule, abort or drain, and no timer has to fire.          *)
Fairness ==
  /\ WF_vars(NextTick)
  /\ WF_vars(PumpStart)
  /\ WF_vars(PumpEnd)
  /\ \A t \in Tasks : WF_vars(TaskReturns(t))

FairSpec == Spec /\ Fairness
-----------------------------------------------------------------------------
TypeOK ==
  /\ queue \in Seq(Tasks)
  /\ running \subseteq Tasks
  /\ live \subseteq Tasks
  /\ started \subseteq Tasks
  /\ outcome \in [Tasks -> Statuses \cup {"new", "pending"}]
  /\ signalled \subseteq Tasks
  /\ timers \subseteq Timed
  /\ aborted \in BOOLEAN
  /\ abortReason \in {"none", "other", "fail-fast"}
  /\ tick \in BOOLEAN
  /\ pumping \in BOOLEAN
  /\ waiters \in [Waiters -> {"idle", "waiting", "returned"}]

(* At most Concurrency tasks execute at the same time (pump).              *)
ConcurrencyLimit == Cardinality(live) <= Concurrency

(* A schedule() promise is pending exactly while its task waits in the     *)
(* queue or executes: none is lost between the queue, the running map and  *)
(* its settlement, and none is in two places.                              *)
Accounting ==
  \A t \in Tasks :
    /\ outcome[t] = "pending" <=> t \in Queued \cup live
    /\ t \in Queued => t \notin live
    /\ \A i, j \in 1..Len(queue) : queue[i] = t /\ queue[j] = t => i = j

(* After abort() nothing waits, and every task still executing has been    *)
(* told to stop: none slips between the queue and the running map.         *)
AbortReachesEveryTask == aborted => queue = <<>> /\ live \subseteq signalled

(* When a task that counts for fail-fast has failed, the scheduler is      *)
(* already aborted by the time anyone sees the result.                     *)
FailFastStops ==
  \A t \in FailFastTasks \ Deferred : outcome[t] \in Failures => aborted

(* "skipped" is only reported for tasks that never emitted agent.started.  *)
SkippedNeverStarted ==
  \A t \in Tasks : outcome[t] = "skipped" => t \notin started

(* A settled call leaves no armed timer behind to keep the process alive.  *)
NoLeakedTimer == \A t \in timers : outcome[t] = "pending"

(* What a caller can rely on once its promise has settled.                 *)
SettledCleanly == FailFastStops /\ SkippedNeverStarted /\ NoLeakedTimer

(* No task starts after abort(), whichever turn pump() is called from.     *)
NothingStartsAfterAbort == [][aborted => started' = started]_vars

(* drain() returns only when nothing is queued and nothing executes.       *)
DrainReturnsIdle ==
  [][\A w \in Waiters : waiters[w] # "returned" /\ waiters'[w] = "returned"
       => live' = {} /\ queue' = <<>>]_vars

(* Every scheduled task settles, and every drain() returns.                *)
PromisesSettle ==
  /\ \A t \in Tasks : outcome[t] = "pending" ~> outcome[t] \in Statuses
  /\ \A w \in Waiters : waiters[w] = "waiting" ~> waiters[w] = "returned"

(* The scheduler, when no two calls share an id, is a TaskPool.            *)
Phase(t) ==
  CASE outcome[t] = "new" -> "new"
    [] outcome[t] = "pending" /\ t \in live -> "active"
    [] outcome[t] = "pending" /\ t \notin live -> "waiting"
    [] OTHER -> "done"

Pool == INSTANCE TaskPool WITH
  Tasks <- Tasks, Limit <- Concurrency,
  phase <- [t \in Tasks |-> Phase(t)], closed <- aborted

ImplementsTaskPool == Pool!PoolSpec
=============================================================================
