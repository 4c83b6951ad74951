-------------------------- MODULE SchedulerProofs --------------------------
(***************************************************************************)
(* Proofs about Scheduler, for any number of tasks, ids, slots and drain   *)
(* callers.                                                                *)
(***************************************************************************)
EXTENDS Scheduler, FiniteSetTheorems, TLAPS

USE DEF Arm, TimersAfter, SignalRunning, HasSlot, FinallyPump, FinallyCheckDrain

Elems(q) == {q[i] : i \in 1..Len(q)}

NoRepeats(q) == \A i, j \in 1..Len(q) : q[i] = q[j] => i = j

(* What Append and Tail do to the elements of a queue.                     *)
LEMMA AppendElems ==
  ASSUME NEW S, NEW q \in Seq(S), NEW t \in S
  PROVE  /\ Append(q, t) \in Seq(S)
         /\ Elems(Append(q, t)) = Elems(q) \cup {t}
         /\ NoRepeats(q) /\ t \notin Elems(q) => NoRepeats(Append(q, t))
<1> DEFINE r == Append(q, t)
<1>1. /\ r \in Seq(S)
      /\ Len(r) = Len(q) + 1
      /\ Len(q) \in Nat
      /\ \A i \in 1..Len(q) : r[i] = q[i]
      /\ r[Len(q) + 1] = t
  OBVIOUS
<1>2. Elems(r) \subseteq Elems(q) \cup {t}
  BY <1>1 DEF Elems
<1>3. Elems(q) \cup {t} \subseteq Elems(r)
  BY <1>1 DEF Elems
<1>4. ASSUME NoRepeats(q), t \notin Elems(q) PROVE NoRepeats(r)
  BY <1>1, <1>4 DEF NoRepeats, Elems
<1> QED BY <1>1, <1>2, <1>3, <1>4

LEMMA TailElems ==
  ASSUME NEW S, NEW q \in Seq(S), q # <<>>
  PROVE  /\ Tail(q) \in Seq(S)
         /\ Head(q) \in S
         /\ Elems(q) = Elems(Tail(q)) \cup {Head(q)}
         /\ NoRepeats(q) => NoRepeats(Tail(q)) /\ Head(q) \notin Elems(Tail(q))
<1> DEFINE r == Tail(q)
<1>1. /\ r \in Seq(S)
      /\ Head(q) \in S
      /\ Len(q) \in Nat /\ Len(q) >= 1
      /\ Len(r) = Len(q) - 1
      /\ \A i \in 1..Len(r) : r[i] = q[i + 1]
      /\ Head(q) = q[1]
  OBVIOUS
<1>2. Elems(r) \cup {Head(q)} \subseteq Elems(q)
  BY <1>1 DEF Elems
<1>3. ASSUME NEW x \in Elems(q) PROVE x \in Elems(r) \cup {Head(q)}
  <2>1. PICK i \in 1..Len(q) : x = q[i]
    BY DEF Elems
  <2>2. CASE i = 1
    BY <1>1, <2>1, <2>2
  <2>3. CASE i # 1
    <3>1. i - 1 \in 1..Len(r) /\ r[i - 1] = x
      BY <1>1, <2>1, <2>3
    <3> QED BY <3>1 DEF Elems
  <2> QED BY <2>2, <2>3
<1>4. ASSUME NoRepeats(q) PROVE NoRepeats(r) /\ Head(q) \notin Elems(r)
  <2>1. \A i \in 1..Len(r) : i + 1 \in 1..Len(q) /\ i + 1 # 1
    BY <1>1
  <2> QED BY <1>1, <1>4, <2>1 DEF NoRepeats, Elems
<1> QED BY <1>1, <1>2, <1>3, <1>4

LEMMA EmptyElems == Elems(<<>>) = {} /\ NoRepeats(<<>>)
  BY DEF Elems, NoRepeats

LEMMA QueuedElems == Queued = Elems(queue)
  BY DEF Queued, Elems

-----------------------------------------------------------------------------
(* Type correctness.                                                       *)

LEMMA SettleType ==
  ASSUME TypeOK, NEW t \in Tasks, NEW status \in Statuses, Settle(t, status)
  PROVE  TypeOK'
<1>1. /\ DeleteRunning(t) \subseteq Tasks
      /\ timers \ {t} \subseteq Timed
      /\ timers \ (Queued \cup {t}) \subseteq Timed
  BY DEF TypeOK, DeleteRunning
<1>2. waiters' \in [Waiters -> {"idle", "waiting", "returned"}]
  BY DEF TypeOK, Settle, CheckDrain
<1>3. CASE SettleAndAbort(t, status)
  BY <1>1, <1>2, <1>3 DEF TypeOK, Settle, SettleAndAbort, SkipQueued, Statuses
<1>4. CASE SettleAndPump(t, status)
  BY <1>1, <1>2, <1>4 DEF TypeOK, Settle, SettleAndPump, Statuses
<1> QED BY <1>3, <1>4 DEF Settle

LEMMA StatusesSettled ==
  ASSUME NEW t
  PROVE  /\ TaskReturns(t) => \E s \in Statuses : Settle(t, s)
         /\ TaskThrows(t) => \E s \in Statuses : Settle(t, s)
  BY DEF TaskReturns, TaskThrows, Statuses, Failures

LEMMA TypeInit == Init => TypeOK
<1>1. <<>> \in Seq(Tasks)
  OBVIOUS
<1> QED BY <1>1 DEF Init, TypeOK

LEMMA TypeStep == TypeOK /\ [Next]_vars => TypeOK'
<1> SUFFICES ASSUME TypeOK, [Next]_vars PROVE TypeOK'
  OBVIOUS
<1>1. CASE UNCHANGED vars
  BY <1>1 DEF TypeOK, vars
<1>2. ASSUME NEW t \in Tasks, ScheduleSkipped(t) PROVE TypeOK'
  BY <1>2 DEF TypeOK, ScheduleSkipped, Statuses
<1>3. ASSUME NEW t \in Tasks, ScheduleQueued(t) PROVE TypeOK'
  BY <1>3, AppendElems DEF TypeOK, ScheduleQueued
<1>4. ASSUME NEW t \in Tasks, TimeoutFires(t) PROVE TypeOK'
  BY <1>4 DEF TypeOK, TimeoutFires
<1>5. ASSUME NEW t \in Tasks, TaskReturns(t) \/ TaskThrows(t) PROVE TypeOK'
  BY <1>5, StatusesSettled, SettleType
<1>6. ASSUME NEW w \in Waiters, Drain(w) PROVE TypeOK'
  BY <1>6 DEF TypeOK, Drain
<1>7. CASE NextTick
  BY <1>7 DEF TypeOK, NextTick
<1>8. CASE PumpStart
  BY <1>8, TailElems, SchedulerAssumption DEF TypeOK, PumpStart, SetRunning
<1>9. CASE PumpEnd
  BY <1>9 DEF TypeOK, PumpEnd, CheckDrain
<1>10. CASE Abort("other")
  <2>1. waiters' \in [Waiters -> {"idle", "waiting", "returned"}]
    BY <1>10 DEF TypeOK, Abort, CheckDrain
  <2> QED BY <1>10, <2>1 DEF TypeOK, Abort, SkipQueued, Statuses
<1> QED
  BY <1>1, <1>2, <1>3, <1>4, <1>5, <1>6, <1>7, <1>8, <1>9, <1>10 DEF Next

(* Every variable keeps its type, in every behaviour.                      *)
THEOREM TypeCorrect == Spec => []TypeOK
<1> QED BY TypeInit, TypeStep, PTL DEF Spec

-----------------------------------------------------------------------------
(* The inductive invariant.  Places says where each task is: Accounting is *)
(* not inductive without it, since a step must know that a queued task has *)
(* never started.  Slots bounds the running map, Stopped is what abort()   *)
(* leaves behind.                                                          *)
Places ==
  /\ \A t \in Tasks : outcome[t] = "pending" <=> t \in Elems(queue) \cup live
  /\ Elems(queue) \cap live = {}
  /\ NoRepeats(queue)
  /\ live \subseteq started
  /\ started \cap Elems(queue) = {}
  /\ \A t \in started : outcome[t] \notin {"new", "skipped"}
  /\ \A t \in timers : outcome[t] = "pending"

Slots ==
  /\ running \subseteq live
  /\ \A t, u \in running : IdOf[t] = IdOf[u] => t = u
  /\ IsFiniteSet(running)
  /\ Cardinality(running) <= Concurrency

Stopped ==
  /\ aborted => queue = <<>>
  /\ pumping => ~aborted
  /\ FailFastStops

IInv == TypeOK /\ Places /\ Slots /\ Stopped

(* What holds besides when no two calls share an id: the map knows every   *)
(* executing task, so abort() reaches all of them.                         *)
UniqueIds == \A t, u \in Tasks : IdOf[t] = IdOf[u] => t = u

Mapped ==
  /\ running = live
  /\ aborted => live \subseteq signalled

LEMMA InitIInv == Init => IInv /\ Mapped
<1> SUFFICES ASSUME Init PROVE IInv /\ Mapped
  OBVIOUS
<1>1. TypeOK
  BY TypeInit
<1>2. Places
  BY EmptyElems DEF Init, Places
<1>3. IsFiniteSet({}) /\ Cardinality({}) = 0
  BY FS_EmptySet
<1>4. Slots
  BY <1>3, SchedulerAssumption DEF Init, Slots
<1>5. Stopped
  BY SchedulerAssumption DEF Init, Stopped, FailFastStops, Failures
<1> QED BY <1>1, <1>2, <1>4, <1>5 DEF IInv, Mapped, Init

LEMMA SettlePlaces ==
  ASSUME IInv, NEW t \in Tasks, NEW status \in Statuses \ {"skipped"},
         Settle(t, status)
  PROVE  Places'
<1>1. /\ t \in live /\ t \notin Elems(queue) /\ t \in started
      /\ live' = live \ {t}
      /\ started' = started
  BY DEF IInv, Places, Settle, SettleAndAbort, SettleAndPump
<1>2. CASE SettleAndAbort(t, status)
  <2>1. Elems(queue') = {} /\ NoRepeats(queue')
    BY <1>2, EmptyElems DEF SettleAndAbort
  <2>2. \A u \in Tasks :
          outcome'[u] = IF u = t THEN status
                        ELSE IF u \in Elems(queue) THEN "skipped"
                        ELSE outcome[u]
    BY <1>2, QueuedElems DEF SettleAndAbort, SkipQueued, IInv, TypeOK
  <2>3. timers' = timers \ (Elems(queue) \cup {t})
    BY <1>2, QueuedElems DEF SettleAndAbort
  <2> QED BY <1>1, <2>1, <2>2, <2>3, SchedulerAssumption DEF IInv, TypeOK, Places, Statuses
<1>3. CASE SettleAndPump(t, status)
  <2>1. queue' = queue /\ timers' = timers \ {t}
    BY <1>3 DEF SettleAndPump
  <2>2. \A u \in Tasks : outcome'[u] = IF u = t THEN status ELSE outcome[u]
    BY <1>3 DEF SettleAndPump, IInv, TypeOK
  <2> QED BY <1>1, <2>1, <2>2, SchedulerAssumption DEF IInv, TypeOK, Places, Statuses
<1> QED BY <1>2, <1>3 DEF Settle

LEMMA SettleSlots ==
  ASSUME IInv, NEW t \in Tasks, NEW status \in Statuses, Settle(t, status)
  PROVE  Slots' /\ (UniqueIds /\ Mapped => Mapped')
<1>1. /\ running' = DeleteRunning(t)
      /\ live' = live \ {t}
      /\ aborted' => signalled' = signalled \cup running' \/ aborted
      /\ signalled \subseteq signalled'
  BY DEF Settle, SettleAndAbort, SettleAndPump
<1>2. DeleteRunning(t) \subseteq running /\ t \notin DeleteRunning(t)
  BY DEF DeleteRunning
<1>3. /\ IsFiniteSet(running')
      /\ Cardinality(running') <= Cardinality(running)
      /\ Cardinality(running) \in Nat /\ Cardinality(running') \in Nat
  BY <1>1, <1>2, FS_Subset, FS_CardinalityType DEF IInv, Slots
<1>4. Slots'
  BY <1>1, <1>2, <1>3, SchedulerAssumption DEF IInv, Slots
<1>5. ASSUME UniqueIds, Mapped PROVE Mapped'
  <2>1. DeleteRunning(t) = running \ {t}
    BY <1>5 DEF DeleteRunning, UniqueIds, IInv, TypeOK
  <2> QED BY <1>1, <1>5, <2>1 DEF Mapped
<1> QED BY <1>4, <1>5

LEMMA SettleStopped ==
  ASSUME IInv, NEW t \in Tasks, NEW status \in Statuses, Settle(t, status)
  PROVE  Stopped'
<1>1. CASE SettleAndAbort(t, status)
  BY <1>1 DEF Settle, SettleAndAbort, Stopped, FailFastStops, IInv
<1>2. CASE SettleAndPump(t, status) /\ ~(TriggersFailFast(t, status) /\ ~aborted)
  <2>1. \A u \in Tasks : outcome'[u] = IF u = t THEN status ELSE outcome[u]
    BY <1>2 DEF SettleAndPump, IInv, TypeOK
  <2>2. FailFastStops'
    BY <1>2, <2>1, SchedulerAssumption
       DEF SettleAndPump, TriggersFailFast, FailFastStops, IInv, Stopped
  <2> QED BY <1>2, <2>2 DEF Settle, SettleAndPump, Stopped, IInv
<1> QED BY <1>1, <1>2 DEF Settle

(* The action that starts a task: the only one that fills a slot.          *)
LEMMA PumpStartStep ==
  ASSUME IInv, PumpStart
  PROVE  /\ Places' /\ Slots' /\ Stopped'
         /\ UniqueIds /\ Mapped => Mapped'
<1> DEFINE t == Head(queue)
<1>1. /\ t \in Tasks /\ t \in Elems(queue)
      /\ Elems(queue) = Elems(queue') \cup {t}
      /\ NoRepeats(queue') /\ t \notin Elems(queue')
      /\ live' = live \cup {t} /\ started' = started \cup {t}
      /\ UNCHANGED <<outcome, timers, aborted, pumping, signalled>>
  BY TailElems DEF IInv, TypeOK, Places, PumpStart
<1>2. t \notin live /\ t \notin running
  BY <1>1 DEF IInv, Places, Slots
<1>3. Places'
  BY <1>1, <1>2 DEF IInv, Places
<1>4. ~aborted /\ queue # <<>> /\ running' = SetRunning(t)
  BY DEF IInv, Stopped, PumpStart
<1>5. Slots'
  <2> DEFINE kept == {u \in running : IdOf[u] # IdOf[t]}
  <2>1. kept \subseteq running /\ t \notin kept
    BY <1>2
  <2>2. /\ IsFiniteSet(kept)
        /\ Cardinality(kept) \in Nat /\ Cardinality(running) \in Nat
        /\ Cardinality(kept) <= Cardinality(running)
    BY <2>1, FS_Subset, FS_CardinalityType DEF IInv, Slots
  <2>3. /\ IsFiniteSet(kept \cup {t})
        /\ Cardinality(kept \cup {t}) = Cardinality(kept) + 1
    BY <2>1, <2>2, FS_AddElement
  <2>4. Cardinality(running) < Concurrency
    BY DEF PumpStart
  <2>5. running' = kept \cup {t}
    BY <1>4 DEF SetRunning
  <2>6. Cardinality(running') <= Concurrency
    BY <2>2, <2>3, <2>4, <2>5, SchedulerAssumption
  <2> HIDE DEF kept
  <2>7. running' \subseteq live'
    BY <1>1, <2>1, <2>5 DEF IInv, Slots
  <2>8. \A u, v \in running' : IdOf[u] = IdOf[v] => u = v
    BY <2>1, <2>5 DEF IInv, Slots, kept
  <2> QED BY <2>3, <2>5, <2>6, <2>7, <2>8 DEF Slots
<1>6. Stopped'
  BY <1>1, <1>4 DEF IInv, Stopped, FailFastStops
<1>7. ASSUME UniqueIds, Mapped PROVE Mapped'
  <2>1. SetRunning(t) = running \cup {t}
    BY <1>1, <1>2, <1>7 DEF SetRunning, UniqueIds, IInv, TypeOK
  <2> QED BY <1>1, <1>4, <1>7, <2>1 DEF Mapped
<1> QED BY <1>3, <1>5, <1>6, <1>7

LEMMA AbortStep ==
  ASSUME IInv, Abort("other")
  PROVE  /\ Places' /\ Slots' /\ Stopped'
         /\ UniqueIds /\ Mapped => Mapped'
<1>1. \A u \in Tasks :
        outcome'[u] = IF u \in Elems(queue) THEN "skipped" ELSE outcome[u]
  BY QueuedElems DEF Abort, SkipQueued, IInv, TypeOK
<1>2. /\ queue' = <<>> /\ timers' = timers \ Elems(queue)
      /\ UNCHANGED <<running, live, started, pumping>>
      /\ aborted' /\ ~pumping
      /\ signalled' = signalled \cup running
  BY QueuedElems DEF Abort
<1>3. Elems(queue') = {} /\ NoRepeats(queue')
  BY <1>2, EmptyElems
<1>4. Places'
  BY <1>1, <1>2, <1>3, SchedulerAssumption DEF IInv, TypeOK, Places
<1>5. Slots' /\ Stopped' /\ (Mapped => Mapped')
  BY <1>2 DEF IInv, Slots, Stopped, FailFastStops, Mapped
<1> QED BY <1>4, <1>5

LEMMA StepIInv ==
  ASSUME IInv, [Next]_vars
  PROVE  IInv' /\ (UniqueIds /\ Mapped => Mapped')
<1> SUFFICES /\ Places' /\ Slots' /\ Stopped'
             /\ UniqueIds /\ Mapped => Mapped'
  BY TypeStep DEF IInv
<1> USE DEF IInv
<1>1. CASE UNCHANGED vars
  BY <1>1 DEF vars, Places, Slots, Stopped, FailFastStops, Mapped
<1>2. ASSUME NEW t \in Tasks, ScheduleSkipped(t)
      PROVE  Places' /\ Slots' /\ Stopped' /\ (Mapped => Mapped')
  <2>1. \A u \in Tasks : outcome'[u] = IF u = t THEN "skipped" ELSE outcome[u]
    BY <1>2 DEF ScheduleSkipped, TypeOK
  <2>2. t \notin started /\ t \notin live /\ t \notin Elems(queue)
    BY <1>2 DEF ScheduleSkipped, Places
  <2>3. Places'
    BY <1>2, <2>1, <2>2, SchedulerAssumption DEF ScheduleSkipped, Places, TypeOK
  <2> QED
    BY <1>2, <2>3 DEF ScheduleSkipped, Slots, Stopped, FailFastStops, Mapped
<1>3. ASSUME NEW t \in Tasks, ScheduleQueued(t)
      PROVE  Places' /\ Slots' /\ Stopped' /\ (Mapped => Mapped')
  <2>1. \A u \in Tasks : outcome'[u] = IF u = t THEN "pending" ELSE outcome[u]
    BY <1>3 DEF ScheduleQueued, TypeOK
  <2>2. t \notin started /\ t \notin live /\ t \notin Elems(queue)
    BY <1>3 DEF ScheduleQueued, Places
  <2>3. Elems(queue') = Elems(queue) \cup {t} /\ NoRepeats(queue')
    BY <1>3, <2>2, AppendElems DEF ScheduleQueued, Places, TypeOK
  <2>4. Places'
    BY <1>3, <2>1, <2>2, <2>3, SchedulerAssumption DEF ScheduleQueued, Places, TypeOK
  <2>5. Stopped'
    BY <1>3, <2>1, SchedulerAssumption
       DEF ScheduleQueued, Stopped, FailFastStops, Failures
  <2> QED BY <1>3, <2>4, <2>5 DEF ScheduleQueued, Slots, Mapped
<1>4. ASSUME NEW t \in Tasks, TimeoutFires(t)
      PROVE  Places' /\ Slots' /\ Stopped' /\ (Mapped => Mapped')
  BY <1>4 DEF TimeoutFires, Places, Slots, Stopped, FailFastStops, Mapped
<1>5. ASSUME NEW t \in Tasks, TaskReturns(t) \/ TaskThrows(t)
      PROVE  /\ Places' /\ Slots' /\ Stopped'
             /\ UniqueIds /\ Mapped => Mapped'
  <2>1. PICK s \in Statuses \ {"skipped"} : Settle(t, s)
    BY <1>5 DEF TaskReturns, TaskThrows, Statuses, Failures
  <2> QED BY <2>1, SettlePlaces, SettleSlots, SettleStopped
<1>6. ASSUME NEW w \in Waiters, Drain(w)
      PROVE  Places' /\ Slots' /\ Stopped' /\ (Mapped => Mapped')
  BY <1>6 DEF Drain, Places, Slots, Stopped, FailFastStops, Mapped
<1>7. CASE NextTick
  BY <1>7 DEF NextTick, Places, Slots, Stopped, FailFastStops, Mapped
<1>8. CASE PumpStart
  BY <1>8, PumpStartStep
<1>9. CASE PumpEnd
  BY <1>9 DEF PumpEnd, Places, Slots, Stopped, FailFastStops, Mapped
<1>10. CASE Abort("other")
  BY <1>10, AbortStep
<1> QED
  BY <1>1, <1>2, <1>3, <1>4, <1>5, <1>6, <1>7, <1>8, <1>9, <1>10 DEF Next

LEMMA Invariance == Spec => []IInv
<1> QED BY InitIInv, StepIInv, PTL DEF Spec

LEMMA UniqueInvariance ==
  ASSUME UniqueIds
  PROVE  Spec => [](IInv /\ Mapped)
<1>1. IInv /\ Mapped /\ [Next]_vars => (IInv /\ Mapped)'
  BY StepIInv, UniqueIds
<1> QED BY InitIInv, <1>1, PTL DEF Spec

-----------------------------------------------------------------------------
(* Every call is in exactly one place until it settles, whatever the ids.  *)
THEOREM AccountingHolds == Spec => []Accounting
<1>1. IInv => Accounting
  BY QueuedElems DEF IInv, Places, NoRepeats, Accounting, Elems
<1> QED BY <1>1, Invariance, PTL

(* A skipped task never emitted agent.started, whatever the ids.           *)
THEOREM SkippedNeverStartedHolds == Spec => []SkippedNeverStarted
<1>1. IInv => SkippedNeverStarted
  BY DEF IInv, Places, SkippedNeverStarted
<1> QED BY <1>1, Invariance, PTL

(* A fail-fast failure has aborted the scheduler, whatever the ids.        *)
THEOREM FailFastHolds == Spec => []FailFastStops
<1>1. IInv => FailFastStops
  BY DEF IInv, Stopped
<1> QED BY <1>1, Invariance, PTL

(* No settled call keeps an armed timer, whatever the ids.                 *)
THEOREM NoLeakedTimerHolds == Spec => []NoLeakedTimer
<1>1. IInv => NoLeakedTimer
  BY DEF IInv, Places, NoLeakedTimer
<1> QED BY <1>1, Invariance, PTL

(* What a caller can rely on once its call has settled, whatever the ids.  *)
THEOREM SettledCleanlyHolds == Spec => []SettledCleanly
<1>1. FailFastStops /\ SkippedNeverStarted /\ NoLeakedTimer => SettledCleanly
  BY DEF SettledCleanly
<1> QED BY <1>1, FailFastHolds, SkippedNeverStartedHolds, NoLeakedTimerHolds, PTL

(* With unique ids, at most Concurrency tasks execute at the same time.    *)
THEOREM ConcurrencySafe ==
  ASSUME UniqueIds
  PROVE  Spec => []ConcurrencyLimit
<1>1. IInv /\ Mapped => ConcurrencyLimit
  BY DEF IInv, Slots, Mapped, ConcurrencyLimit
<1> QED BY <1>1, UniqueInvariance, PTL

(* With unique ids, abort() reaches every queued and every executing task. *)
THEOREM AbortComplete ==
  ASSUME UniqueIds
  PROVE  Spec => []AbortReachesEveryTask
<1>1. IInv /\ Mapped => AbortReachesEveryTask
  BY DEF IInv, Stopped, Mapped, AbortReachesEveryTask
<1> QED BY <1>1, UniqueInvariance, PTL

(* No task starts after abort(), whatever the ids.                         *)
THEOREM NothingStartsAfterAbortHolds == Spec => NothingStartsAfterAbort
<1>1. IInv /\ [Next]_vars => [aborted => started' = started]_vars
  <2> SUFFICES ASSUME IInv, Next, aborted PROVE started' = started
    OBVIOUS
  <2>1. ~PumpStart
    BY DEF IInv, Stopped, PumpStart
  <2> QED
    BY <2>1 DEF Next, ScheduleSkipped, ScheduleQueued, TimeoutFires,
         TaskReturns, TaskThrows, Settle, Drain, NextTick, PumpEnd, Abort
<1> QED BY <1>1, Invariance, PTL DEF Spec, NothingStartsAfterAbort

(* With unique ids, drain() returns only when nothing is queued and        *)
(* nothing executes.                                                       *)
THEOREM DrainSound ==
  ASSUME UniqueIds
  PROVE  Spec => DrainReturnsIdle
<1> DEFINE Returns(w) == waiters[w] # "returned" /\ waiters'[w] = "returned"
<1>1. IInv /\ Mapped /\ (IInv /\ Mapped)' /\ [Next]_vars
        => [\A w \in Waiters : Returns(w) => live' = {} /\ queue' = <<>>]_vars
  <2> SUFFICES ASSUME IInv, Mapped, Mapped', Next, NEW w \in Waiters, Returns(w)
               PROVE  running' = {} /\ queue' = <<>>
    BY DEF Mapped
  <2>1. ASSUME NEW t \in Tasks, Settle(t, outcome'[t])
        PROVE  running' = {} /\ queue' = <<>>
    BY <2>1 DEF Settle, CheckDrain, Drained
  <2>2. ASSUME NEW t \in Tasks, TaskReturns(t) \/ TaskThrows(t)
        PROVE  running' = {} /\ queue' = <<>>
    <3>1. PICK s : Settle(t, s)
      BY <2>2 DEF TaskReturns, TaskThrows
    <3> QED BY <3>1 DEF Settle, CheckDrain, Drained
  <2>3. ASSUME NEW v \in Waiters, Drain(v)
        PROVE  running' = {} /\ queue' = <<>>
    BY <2>3 DEF Drain, Drained, IInv, TypeOK
  <2>4. CASE PumpEnd
    BY <2>4 DEF PumpEnd, CheckDrain, Drained
  <2>5. CASE Abort("other")
    BY <2>5 DEF Abort, CheckDrain, Drained
  <2>6. waiters' # waiters
    OBVIOUS
  <2> QED
    BY <2>2, <2>3, <2>4, <2>5, <2>6
       DEF Next, ScheduleSkipped, ScheduleQueued, TimeoutFires, NextTick, PumpStart
<1> QED BY <1>1, UniqueInvariance, PTL DEF Spec, DrainReturnsIdle

-----------------------------------------------------------------------------
(* The scheduler implements TaskPool.                                      *)

LEMMA PhaseValues ==
  ASSUME IInv, NEW t \in Tasks
  PROVE  /\ Phase(t) = "new" <=> outcome[t] = "new"
         /\ Phase(t) = "active" <=> t \in live
         /\ Phase(t) = "waiting" <=> t \in Elems(queue)
         /\ Phase(t) \in {"new", "active", "waiting", "done"}
<1>1. outcome[t] = "new" => t \notin live /\ t \notin Elems(queue)
  BY DEF IInv, Places
<1>2. outcome[t] \in Statuses =>
        t \notin live /\ t \notin Elems(queue) /\ Phase(t) = "done"
  BY DEF IInv, Places, Statuses, Phase
<1>3. outcome[t] = "pending" => /\ t \in Elems(queue) \cup live
                                /\ t \in Elems(queue) => t \notin live
  BY DEF IInv, Places
<1>4. outcome[t] \in Statuses \cup {"new", "pending"}
  BY DEF IInv, TypeOK
<1>5. CASE outcome[t] = "new"
  BY <1>1, <1>5 DEF Phase
<1>6. CASE outcome[t] = "pending"
  BY <1>3, <1>6 DEF Phase
<1>7. CASE outcome[t] \in Statuses
  BY <1>2, <1>7 DEF Phase, Statuses
<1> QED BY <1>4, <1>5, <1>6, <1>7

LEMMA PhaseFrame ==
  ASSUME NEW t \in Tasks, outcome'[t] = outcome[t], t \in live' <=> t \in live
  PROVE  Phase(t)' = Phase(t)
  BY DEF Phase

LEMMA PoolActive ==
  ASSUME IInv
  PROVE  Pool!Active = live
  BY PhaseValues DEF Pool!Active, IInv, TypeOK

(* The instance's copy of Cardinality is Cardinality.                      *)
LEMMA PoolCardinality == \A S : Pool!Cardinality(S) = Cardinality(S)
  BY DEF Pool!Cardinality, Cardinality

LEMMA SettleRefines ==
  ASSUME IInv, IInv', NEW t \in Tasks, NEW status \in Statuses \ {"skipped"},
         Settle(t, status)
  PROVE  Pool!PoolNext
<1> DEFINE ph == [u \in Tasks |-> Phase(u)]
<1>1. t \in live /\ live' = live \ {t} /\ t \notin Elems(queue)
  BY DEF Settle, SettleAndAbort, SettleAndPump, IInv, Places
<1>2. Phase(t) = "active"
  BY <1>1, PhaseValues
<1>3. outcome'[t] = status /\ Phase(t)' = "done"
  <2>1. outcome'[t] = status
    BY DEF Settle, SettleAndAbort, SettleAndPump, SkipQueued, IInv, TypeOK
  <2> QED BY <2>1 DEF Phase, Statuses
<1>4. CASE SettleAndAbort(t, status) /\ ~aborted
  <2>1. ~aborted /\ aborted'
    BY <1>4 DEF SettleAndAbort
  <2>2. \A u \in Tasks : Phase(u)' = IF Phase(u) = "waiting" \/ u \in {t}
                                     THEN "done" ELSE Phase(u)
    <3> SUFFICES ASSUME NEW u \in Tasks, u # t
                 PROVE  Phase(u)' = IF Phase(u) = "waiting" THEN "done" ELSE Phase(u)
      BY <1>3
    <3>1. outcome'[u] = IF u \in Elems(queue) THEN "skipped" ELSE outcome[u]
      BY <1>4, QueuedElems DEF SettleAndAbort, SkipQueued, IInv, TypeOK
    <3>2. CASE u \in Elems(queue)
      BY <3>1, <3>2, PhaseValues DEF Phase
    <3>3. CASE u \notin Elems(queue)
      BY <3>1, <3>3, <1>1, PhaseValues, PhaseFrame
    <3> QED BY <3>2, <3>3
  <2>3. Pool!Close({t})
    BY <1>1, <2>1, <2>2, PoolActive DEF Pool!Close
  <2> QED BY <2>3 DEF Pool!PoolNext
<1>5. CASE SettleAndPump(t, status)
  <2>1. \A u \in Tasks : Phase(u)' = IF u = t THEN "done" ELSE Phase(u)
    BY <1>1, <1>3, <1>5, PhaseFrame DEF SettleAndPump, IInv, TypeOK
  <2>2. Pool!Finish(t)
    BY <1>2, <1>5, <2>1 DEF Pool!Finish, SettleAndPump
  <2> QED BY <2>2 DEF Pool!PoolNext
<1> QED BY <1>4, <1>5 DEF Settle

LEMMA StepRefines ==
  ASSUME IInv, IInv', Mapped, [Next]_vars
  PROVE  [Pool!PoolNext]_(Pool!poolVars)
<1> DEFINE ph == [u \in Tasks |-> Phase(u)]
<1> SUFFICES Pool!PoolNext \/ (ph' = ph /\ aborted' = aborted)
  BY DEF Pool!poolVars
<1>1. CASE UNCHANGED <<outcome, live, aborted>>
  BY <1>1, PhaseFrame
<1>2. ASSUME NEW t \in Tasks, ScheduleSkipped(t) \/ ScheduleQueued(t)
      PROVE  Pool!PoolNext
  <2>1. Phase(t) = "new" /\ UNCHANGED <<live, aborted>>
    BY <1>2 DEF ScheduleSkipped, ScheduleQueued, Phase
  <2>2. \A u \in Tasks : u # t => Phase(u)' = Phase(u)
    BY <1>2, PhaseFrame DEF ScheduleSkipped, ScheduleQueued, IInv, TypeOK
  <2>3. Phase(t)' = IF aborted THEN "done" ELSE "waiting"
    <3>1. t \notin live
      BY <1>2 DEF ScheduleSkipped, ScheduleQueued, IInv, Places
    <3>2. outcome'[t] = IF aborted THEN "skipped" ELSE "pending"
      BY <1>2 DEF ScheduleSkipped, ScheduleQueued, IInv, TypeOK
    <3> QED BY <2>1, <3>1, <3>2 DEF Phase
  <2>4. Pool!Submit(t)
    BY <2>1, <2>2, <2>3 DEF Pool!Submit
  <2> QED BY <2>4 DEF Pool!PoolNext
<1>3. ASSUME NEW t \in Tasks, TaskReturns(t) \/ TaskThrows(t)
      PROVE  Pool!PoolNext
  <2>1. PICK s \in Statuses \ {"skipped"} : Settle(t, s)
    BY <1>3 DEF TaskReturns, TaskThrows, Statuses, Failures
  <2> QED BY <2>1, SettleRefines
<1>4. CASE PumpStart
  <2>1. PICK t \in Tasks : t \in Elems(queue) /\ live' = live \cup {t}
    BY <1>4, TailElems DEF IInv, TypeOK, PumpStart
  <2>2. Phase(t) = "waiting" /\ Phase(t)' = "active"
    <3>1. outcome'[t] = "pending" /\ t \in live' /\ t \notin live
      BY <1>4, <2>1 DEF PumpStart, IInv, Places
    <3>2. Phase(t)' = "active"
      BY <3>1 DEF Phase
    <3> QED BY <2>1, <3>2, PhaseValues
  <2>3. \A u \in Tasks : u # t => Phase(u)' = Phase(u)
    BY <1>4, <2>1, PhaseFrame DEF PumpStart
  <2>4. ~aborted /\ Cardinality(live) < Concurrency /\ UNCHANGED aborted
    BY <1>4 DEF PumpStart, IInv, Stopped, Mapped
  <2>5. Pool!Begin(t)
    BY <2>1, <2>2, <2>3, <2>4, PoolActive, PoolCardinality DEF Pool!Begin
  <2> QED BY <2>1, <2>5 DEF Pool!PoolNext
<1>5. CASE Abort("other")
  <2>1. ~aborted /\ aborted' /\ live' = live
    BY <1>5 DEF Abort
  <2>2. \A u \in Tasks :
          Phase(u)' = IF Phase(u) = "waiting" THEN "done" ELSE Phase(u)
    <3> SUFFICES ASSUME NEW u \in Tasks
                 PROVE  Phase(u)' = IF Phase(u) = "waiting" THEN "done" ELSE Phase(u)
      OBVIOUS
    <3>1. outcome'[u] = IF u \in Elems(queue) THEN "skipped" ELSE outcome[u]
      BY <1>5, QueuedElems DEF Abort, SkipQueued, IInv, TypeOK
    <3>2. CASE u \in Elems(queue)
      BY <3>1, <3>2, PhaseValues DEF Phase
    <3>3. CASE u \notin Elems(queue)
      BY <2>1, <3>1, <3>3, PhaseValues, PhaseFrame
    <3> QED BY <3>2, <3>3
  <2>3. Pool!Close({})
    BY <2>1, <2>2 DEF Pool!Close
  <2> QED BY <2>3 DEF Pool!PoolNext
<1> QED
  BY <1>1, <1>2, <1>3, <1>4, <1>5
     DEF Next, vars, TimeoutFires, Drain, NextTick, PumpEnd

(* With unique ids, the scheduler implements the bounded pool that closes  *)
(* once: every step of its queue, map, timers and event loop is a step of  *)
(* TaskPool or changes nothing there.                                      *)
THEOREM RefinesTaskPool ==
  ASSUME UniqueIds
  PROVE  Spec => ImplementsTaskPool
<1>1. Init => Pool!PoolInit
  BY DEF Init, Pool!PoolInit, Phase
<1>2. (IInv /\ Mapped) /\ (IInv /\ Mapped)' /\ [Next]_vars
        => [Pool!PoolNext]_(Pool!poolVars)
  BY StepRefines
<1> QED
  BY <1>1, <1>2, UniqueInvariance, PTL DEF Spec, ImplementsTaskPool, Pool!PoolSpec
=============================================================================
