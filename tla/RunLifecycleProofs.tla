------------------------- MODULE RunLifecycleProofs -------------------------
(***************************************************************************)
(* Proofs about RunLifecycle, for any number of agents, any concurrency    *)
(* and with or without fail-fast and a seeded context; and about what the  *)
(* run command loads before (WorkflowLoading), for any project.            *)
(***************************************************************************)
EXTENDS RunLifecycle, FiniteSetTheorems, SequenceTheorems, TLAPS

Early == {"creating", "preparing", "recording", "starting"}
Late == {"closing", "finalizing", "publishing", "flushing", "reporting"}

Quiet == Late \cup {"ended"}

-----------------------------------------------------------------------------
(* The inductive invariant.  The bus: links settle in order, so only the   *)
(* first event that has not settled can be in events.jsonl and not shown.  *)
BusOK ==
  /\ logged \in Seq(1..Len(emitted)) /\ shown \in Seq(Nat)
  /\ Len(shown) <= Len(logged)
  /\ \A m, n \in 1..Len(emitted) : m <= n /\ n \in settled => m \in settled
  /\ \A i \in 1..Len(logged) :
       /\ Predecessor(logged[i])
       /\ logged[i] \in settled <=> i <= Len(shown)
       /\ i <= Len(shown) => shown[i] = logged[i]
  /\ \A i, j \in 1..Len(logged) : i < j => logged[i] < logged[j]

(* What was stopped stays so: nothing waits or works in the closed pool    *)
(* once it was drained, and the script that never ran called nothing.      *)
StopOK ==
  /\ script = "none" => ~tool /\ \A t \in Tasks : phase[t] = "new"
  /\ interrupted => closed
  /\ catching => \/ closed
                 \/ /\ script = "none" /\ verdict = "failed"
                    /\ pc \in {"publishing", "flushing", "reporting", "ended"}
  /\ pc = "drained" /\ closed => Idle
  /\ pc \in Quiet /\ verdict \in {"failed", "cancelled"} =>
       Idle /\ (closed \/ script = "none")
  /\ verdict # "none" => script = "none" \/ ~toolsOpen
  /\ verdict # "none" /\ pc # "closing" => ~tool

(* How far the files are, by the place of the command.                     *)
PlaceOK ==
  /\ pc \in Early => script = "none" /\ verdict = "none" /\ ~catching
  /\ pc \in Late => verdict \in Verdicts
  /\ pc = "starting" \/ script # "none" => Resumable
  /\ exit = "none" <=> pc # "ended"
  /\ IF exit \in Verdicts THEN disk["report"] = exit /\ exit = verdict
                          ELSE disk["report"] = "absent"
  /\ writing => InWrite

(* The last terminal event tells the verdict, the manifest that was        *)
(* written after it does too, and the flush waited for it.                 *)
Published == pc \in {"flushing", "reporting"} \/ exit \in Verdicts

LastTold ==
  \E n \in Terminals : emitted[n] = verdict /\ \A m \in Terminals : m <= n

StoryOK ==
  /\ pc = "publishing" \/ Published => LastTold
  /\ Published => /\ disk["manifest"] = verdict
                  /\ \A n \in Terminals : n <= flush
  /\ pc = "reporting" \/ exit \in Verdicts => flush = 0 \/ flush \in settled

IInv ==
  /\ TypeOK
  /\ BusOK
  /\ StopOK
  /\ PlaceOK
  /\ StoryOK

-----------------------------------------------------------------------------
(* What a step does to the pool, to the events and to the rest, whichever  *)
(* action takes it.                                                        *)
Phases == {"new", "waiting", "active", "done"}
Events == Verdicts \cup {"started", "agent"}

PoolStep ==
  \/ UNCHANGED poolVars
  \/ Pool!Close({}) /\ reason' \in {"user", "timeout", "other"} /\ pc # "drained"
  \/ \E t \in Tasks :
       \/ Pool!Close({t}) /\ reason' = "fail-fast" /\ pc # "drained"
       \/ Pool!Submit(t) /\ UNCHANGED reason /\ script = "running"
       \/ (Pool!Begin(t) \/ Pool!Finish(t)) /\ UNCHANGED reason /\ pc # "drained"

LEMMA PoolSteps ==
  ASSUME TypeOK, [Next]_vars
  PROVE  PoolStep
<1> USE DEF PoolStep
<1>1. CASE Program
  <2> USE DEF poolVars, Throw, Catch, AbortScheduler, AbortTypeOf
  <2>1. CASE WriteOpens \/ WriteEnds \/ WriteFails
    BY <2>1 DEF WriteOpens, WriteEnds, WriteFails, InWrite
  <2>2. CASE SeedFails \/ Starts \/ StartsInterrupted \/ RootAborted
    BY <2>2 DEF SeedFails, Starts, StartsInterrupted, RootAborted, RootThrows
  <2>3. CASE /\ pc # "drained"
             /\ \/ \E t \in Tasks : TaskBegins(t) \/ TaskEnds(t) \/ TaskFails(t)
                \/ ToolEnds
                \/ \E n \in 1..Len(emitted) : Bus(n)
    BY <2>3 DEF TaskBegins, TaskEnds, TaskFails, ToolEnds, Bus
  <2>4. CASE Drains \/ Decides \/ ToolsClosed \/ Finalizes \/ ContextUnsaved
    BY <2>4 DEF Drains, Decides, ToolsClosed, Finalizes, ContextUnsaved
  <2>5. CASE Flushes \/ Reports \/ Unreported
    BY <2>5 DEF Flushes, Reports, Unreported
  <2> QED BY <1>1, <2>1, <2>2, <2>3, <2>4, <2>5 DEF Program
<1>2. CASE Script
  BY <1>2 DEF Script, CallsAgent, CallsTool, ScriptEnds, RootReturns, RootThrows,
              Throw, Catch, AbortScheduler, AbortTypeOf, poolVars
<1>3. CASE pc # "drained" /\ Interrupt
  BY <1>3 DEF Interrupt, AbortScheduler, poolVars
<1>4. CASE UNCHANGED vars
  BY <1>4 DEF vars, poolVars
<1> QED BY <1>1, <1>2, <1>3, <1>4 DEF Next

(* The pool is closed once and for all, and nothing moves in it after it   *)
(* was drained.                                                            *)
LEMMA PoolMoves ==
  ASSUME TypeOK, [Next]_vars
  PROVE  /\ phase' \in [Tasks -> Phases]
         /\ closed' \in BOOLEAN
         /\ reason' \in {"none", "user", "timeout", "other", "fail-fast"}
         /\ closed' <=> reason' # "none"
         /\ closed => closed' /\ reason' = reason
         /\ pc = "drained" => closed' = closed
         /\ closed /\ Idle => Idle'
         /\ script = "none" /\ (\A t \in Tasks : phase[t] = "new") =>
              \A t \in Tasks : phase'[t] = "new"
<1>0. PoolStep
  BY PoolSteps
<1> USE DEF TypeOK, Phases, Idle
<1>1. CASE UNCHANGED poolVars
  BY <1>1 DEF poolVars
<1>2. CASE Pool!Close({}) /\ reason' \in {"user", "timeout", "other"} /\ pc # "drained"
  BY <1>2 DEF Pool!Close
<1>3. ASSUME NEW t \in Tasks, Pool!Close({t}), reason' = "fail-fast", pc # "drained"
      PROVE  /\ phase' \in [Tasks -> Phases] /\ ~closed /\ closed' = TRUE
             /\ (\A u \in Tasks : phase[u] = "new") => FALSE
  BY <1>3 DEF Pool!Close, Pool!Active
<1>4. ASSUME NEW t \in Tasks, Pool!Submit(t), UNCHANGED reason, script = "running"
      PROVE  /\ phase' \in [Tasks -> Phases] /\ closed' = closed
             /\ closed /\ Idle => Idle'
  BY <1>4 DEF Pool!Submit
<1>5. ASSUME NEW t \in Tasks, Pool!Begin(t) \/ Pool!Finish(t), UNCHANGED reason,
             pc # "drained"
      PROVE  /\ phase' \in [Tasks -> Phases] /\ closed' = closed
             /\ closed /\ Idle => Idle'
             /\ (\A u \in Tasks : phase[u] = "new") => FALSE
  BY <1>5 DEF Pool!Begin, Pool!Finish
<1> QED BY <1>0, <1>1, <1>2, <1>3, <1>4, <1>5 DEF PoolStep

(* Events are only added, and a terminal one only by the two actions that  *)
(* build a result.                                                         *)
Adds ==
  /\ emitted' \in Seq(Events)
  /\ Len(emitted') >= Len(emitted)
  /\ \A n \in 1..Len(emitted) : emitted'[n] = emitted[n]
  /\ UNCHANGED <<settled, logged, shown>>
Quietly ==
  /\ Adds
  /\ \A n \in (Len(emitted) + 1)..Len(emitted') : emitted'[n] \notin Verdicts

LEMMA EmitsQuietly ==
  ASSUME TypeOK, NEW ev \in {<<>>, <<"started">>}, EmitAfterTasks(ev)
  PROVE  Quietly
<1> DEFINE k == Cardinality(Ended)
           mid == [n \in 1..k |-> "agent"]
<1>1. k \in Nat
  BY FS_Subset, FS_CardinalityType, LifecycleAssumption DEF Ended
<1>2. mid \in Seq({"agent"}) /\ Len(mid) = k
  <2> HIDE DEF k
  <2> QED BY <1>1
<1>3. mid \in Seq(Events)
  <2> HIDE DEF k
  <2> QED BY <1>1 DEF Events
<1> HIDE DEF k, mid
<1>4. ev \in Seq({"started"}) /\ ev \in Seq(Events)
  <2>1. "started" \in Events
    BY DEF Events
  <2>2. <<>> \in Seq({"started"}) /\ <<>> \in Seq(Events)
    OBVIOUS
  <2>3. <<"started">> \in Seq({"started"}) /\ <<"started">> \in Seq(Events)
    BY <2>1
  <2> QED BY <2>2, <2>3
<1>5. /\ emitted \in Seq(Events) /\ ev \in Seq({"started"}) /\ mid \in Seq(Events)
      /\ ev \in Seq(Events)
  BY <1>3, <1>4 DEF TypeOK, Events
<1>6. emitted' = (emitted \o mid) \o ev
  BY DEF EmitAfterTasks, mid, k
<1>7. /\ emitted \o mid \in Seq(Events)
      /\ Len(emitted \o mid) = Len(emitted) + Len(mid)
      /\ \A n \in 1..Len(emitted) : (emitted \o mid)[n] = emitted[n]
      /\ \A n \in 1..Len(mid) : (emitted \o mid)[n + Len(emitted)] = mid[n]
  BY <1>5
<1>8. /\ Len(emitted') = Len(emitted) + Len(mid) + Len(ev)
      /\ \A n \in 1..Len(emitted) : emitted'[n] = emitted[n]
  BY <1>5, <1>6, <1>7
<1>9. \A n \in (Len(emitted) + 1)..Len(emitted') : emitted'[n] \in {"agent", "started"}
  <2> TAKE n \in (Len(emitted) + 1)..Len(emitted')
  <2>1. CASE n <= Len(emitted) + Len(mid)
    <3>1. n - Len(emitted) \in 1..Len(mid)
      BY <1>2, <1>5, <2>1
    <3> QED BY <1>2, <1>5, <1>6, <3>1
  <2>2. CASE n > Len(emitted) + Len(mid)
    <3>1. n - (Len(emitted) + Len(mid)) \in 1..Len(ev)
      BY <1>2, <1>5, <1>8, <2>2
    <3> QED BY <1>2, <1>5, <1>6, <3>1
  <2> QED BY <1>2, <1>5, <2>1, <2>2
<1>10. emitted' \in Seq(Events)
  BY <1>2, <1>5, <1>6 DEF Events
<1>11. UNCHANGED <<settled, logged, shown>>
  BY DEF EmitAfterTasks
<1>12. Len(emitted) \in Nat /\ Len(mid) \in Nat /\ Len(ev) \in Nat
  BY <1>2, <1>5
<1> QED BY <1>8, <1>9, <1>10, <1>11, <1>12 DEF Quietly, Adds, Verdicts

LEMMA SaysNothing ==
  ASSUME TypeOK, UNCHANGED busVars
  PROVE  Quietly
<1>1. emitted' = emitted /\ emitted \in Seq(Events) /\ UNCHANGED <<settled, logged, shown>>
  BY DEF TypeOK, busVars, Events
<1> QED BY <1>1 DEF Quietly, Adds

BusStep ==
  \/ Quietly
  \/ SeedFails \/ Finalizes
  \/ \E n \in 1..Len(emitted) : Bus(n)

LEMMA BusSteps ==
  ASSUME TypeOK, [Next]_vars
  PROVE  BusStep
<1> USE SaysNothing, EmitsQuietly DEF BusStep
<1>1. CASE Program
  <2>1. CASE WriteOpens \/ WriteEnds \/ WriteFails
    BY <2>1 DEF WriteOpens, WriteEnds, WriteFails, Throw
  <2>2. CASE SeedFails \/ StartsInterrupted \/ RootAborted
    BY <2>2 DEF StartsInterrupted, RootAborted, RootThrows, Throw
  <2>3. CASE Starts
    <3>1. emitted' = Append(emitted, "started") /\ UNCHANGED <<settled, logged, shown>>
      BY <2>3 DEF Starts
    <3>2. emitted \in Seq(Events)
      BY DEF TypeOK, Events
    <3> QED BY <3>1, <3>2 DEF Quietly, Adds, Events, Verdicts
  <2>4. CASE /\ pc # "drained"
             /\ \/ \E t \in Tasks : TaskBegins(t) \/ TaskEnds(t) \/ TaskFails(t)
                \/ ToolEnds
                \/ \E n \in 1..Len(emitted) : Bus(n)
    BY <2>4 DEF TaskBegins, TaskEnds, TaskFails, ToolEnds
  <2>5. CASE Drains \/ Decides \/ ToolsClosed \/ Finalizes \/ ContextUnsaved
    BY <2>5 DEF Drains, Decides, ToolsClosed, ContextUnsaved, Throw
  <2>6. CASE Flushes \/ Reports \/ Unreported
    BY <2>6 DEF Flushes, Reports, Unreported
  <2> QED BY <1>1, <2>1, <2>2, <2>3, <2>4, <2>5, <2>6 DEF Program
<1>2. CASE Script
  BY <1>2 DEF Script, CallsAgent, CallsTool, ScriptEnds, RootReturns, RootThrows, Throw
<1>3. CASE pc # "drained" /\ Interrupt
  BY <1>3 DEF Interrupt
<1>4. CASE UNCHANGED vars
  BY <1>4 DEF vars
<1> QED BY <1>1, <1>2, <1>3, <1>4 DEF Next

LEMMA TellsVerdict ==
  ASSUME TypeOK, PlaceOK, SeedFails \/ Finalizes
  PROVE  /\ Adds
         /\ emitted' = Append(emitted, verdict')
         /\ verdict' \in Verdicts /\ pc' = "publishing"
<1>1. /\ emitted' = Append(emitted, verdict') /\ verdict' \in Verdicts
      /\ pc' = "publishing" /\ UNCHANGED <<settled, logged, shown>>
  BY DEF SeedFails, Finalizes, runVars, PlaceOK, Late, Verdicts
<1>2. emitted \in Seq(Events) /\ verdict' \in Events
  BY <1>1 DEF TypeOK, Events
<1> QED BY <1>1, <1>2 DEF Adds

LEMMA BusAdds ==
  ASSUME TypeOK, PlaceOK, [Next]_vars
  PROVE  Adds \/ \E n \in 1..Len(emitted) : Bus(n)
BY BusSteps, TellsVerdict DEF BusStep, Quietly

-----------------------------------------------------------------------------
(* The bus keeps its order.                                                *)
LEMMA BusTypes ==
  ASSUME TypeOK, PlaceOK, [Next]_vars
  PROVE  /\ emitted' \in Seq(Events)
         /\ Len(emitted) \in Nat /\ Len(emitted') \in Nat
         /\ Len(emitted') >= Len(emitted)
         /\ settled \subseteq settled'
         /\ settled' \subseteq 1..Len(emitted')
<1>1. emitted \in Seq(Events) /\ Len(emitted) \in Nat /\ settled \subseteq 1..Len(emitted)
  BY DEF TypeOK, Events
<1>2. CASE Adds
  <2>1. Len(emitted') \in Nat
    BY <1>2 DEF Adds
  <2> QED BY <1>1, <1>2, <2>1 DEF Adds
<1>3. CASE \E n \in 1..Len(emitted) : Bus(n)
  <2>1. emitted' = emitted
    BY <1>3 DEF Bus, Persists, Unpersisted, Shows
  <2>2. \E n \in 1..Len(emitted) : settled' = settled \/ settled' = settled \cup {n}
    BY <1>3 DEF Bus, Persists, Unpersisted, Shows
  <2>3. Len(emitted') = Len(emitted) /\ emitted' \in Seq(Events)
    BY <1>1, <2>1
  <2>4. settled \subseteq settled' /\ settled' \subseteq 1..Len(emitted)
    BY <1>1, <2>2
  <2> QED BY <1>1, <2>3, <2>4
<1> QED BY <1>2, <1>3, BusAdds

LEMMA BusOrder ==
  ASSUME IInv, [Next]_vars
  PROVE  BusOK'
<1> USE DEF IInv
<1>0. /\ Len(emitted) \in Nat /\ settled \subseteq 1..Len(emitted)
      /\ logged \in Seq(1..Len(emitted)) /\ shown \in Seq(Nat)
      /\ Len(logged) \in Nat /\ Len(shown) \in Nat
  BY DEF TypeOK, BusOK
<1>1. CASE Adds
  <2>1. Len(emitted') \in Nat /\ Len(emitted') >= Len(emitted)
        /\ UNCHANGED <<settled, logged, shown>>
    BY <1>1 DEF Adds
  <2>2. logged' \in Seq(1..Len(emitted'))
    BY <1>0, <2>1
  <2>3. \A m, n \in 1..Len(emitted') : m <= n /\ n \in settled' => m \in settled'
    BY <1>0, <2>1 DEF BusOK
  <2> QED BY <1>0, <2>1, <2>2, <2>3 DEF BusOK, Predecessor
<1>2. ASSUME NEW n \in 1..Len(emitted), Bus(n) PROVE BusOK'
  <2>0. emitted' = emitted
    BY <1>2 DEF Bus, Persists, Unpersisted, Shows
  (* The first event that has not settled. *)
  <2>1. ASSUME n \notin settled, Predecessor(n)
        PROVE  /\ \A m \in 1..Len(emitted) : m \in settled <=> m < n
               /\ \A i \in 1..Len(logged) : logged[i] \notin settled => logged[i] = n
    <3>1. \A m \in 1..Len(emitted) : m \in settled => m < n
      BY <1>0, <2>1 DEF BusOK
    <3>2. \A m \in 1..Len(emitted) : m < n => m \in settled
      BY <1>0, <2>1 DEF BusOK, Predecessor
    <3>3. ASSUME NEW i \in 1..Len(logged), logged[i] \notin settled
          PROVE  logged[i] = n
      <4>1. logged[i] \in 1..Len(emitted) /\ Predecessor(logged[i])
        BY <1>0 DEF BusOK
      <4> QED BY <1>0, <3>1, <3>2, <3>3, <4>1 DEF Predecessor
    <3> QED BY <3>1, <3>2, <3>3
  <2>2. CASE Persists(n)
    <3>1. /\ n \notin settled /\ Predecessor(n) /\ ~Appended(n)
          /\ logged' = Append(logged, n) /\ UNCHANGED <<emitted, settled, shown>>
      BY <2>2 DEF Persists
    <3>2. \A i \in 1..Len(logged) : logged[i] \in settled
      BY <2>1, <3>1 DEF Appended
    <3>3. Len(shown) = Len(logged)
      <4>1. Len(logged) # 0 => Len(logged) <= Len(shown)
        BY SMTT(40), <1>0, <3>2 DEF BusOK
      <4> QED BY <1>0, <4>1 DEF BusOK
    <3>4. /\ logged' \in Seq(1..Len(emitted)) /\ Len(logged') = Len(logged) + 1
          /\ \A i \in 1..Len(logged) : logged'[i] = logged[i]
          /\ logged'[Len(logged) + 1] = n
      BY <1>0, <3>1
    <3>5. \A i \in 1..Len(logged) : logged[i] \in 1..Len(emitted) /\ logged[i] < n
      BY <1>0, <2>1, <3>1, <3>2
    <3>6. \A i, j \in 1..Len(logged') : i < j => logged'[i] < logged'[j]
      <4> TAKE i, j \in 1..Len(logged')
      <4> HAVE i < j
      <4>1. i \in 1..Len(logged)
        BY <1>0, <3>4
      <4>2. CASE j \in 1..Len(logged)
        BY <3>4, <4>1, <4>2 DEF BusOK
      <4>3. CASE j = Len(logged) + 1
        BY <3>4, <3>5, <4>1, <4>3
      <4> QED BY <1>0, <3>4, <4>2, <4>3
    <3>7. ASSUME NEW i \in 1..Len(logged')
          PROVE  /\ Predecessor(logged'[i])
                 /\ logged'[i] \in settled <=> i <= Len(shown)
                 /\ i <= Len(shown) => shown[i] = logged'[i]
      <4>1. CASE i = Len(logged) + 1
        BY <1>0, <3>1, <3>3, <3>4, <4>1
      <4>2. CASE i # Len(logged) + 1
        <5>1. i \in 1..Len(logged)
          BY <1>0, <3>4, <4>2
        <5> QED BY <3>4, <5>1 DEF BusOK
      <4> QED BY <4>1, <4>2
    <3> QED BY <1>0, <3>1, <3>3, <3>4, <3>6, <3>7 DEF BusOK, Predecessor
  <2>3. CASE Unpersisted(n)
    <3>1. /\ n \notin settled /\ Predecessor(n) /\ ~Appended(n)
          /\ settled' = settled \cup {n} /\ UNCHANGED <<emitted, logged, shown>>
      BY <2>3 DEF Unpersisted
    <3>2. \A l, m \in 1..Len(emitted) : l <= m /\ m \in settled' => l \in settled'
      BY <1>0, <2>1, <3>1
    <3>3. \A i \in 1..Len(logged) : logged[i] # n
      BY <3>1 DEF Appended
    <3> QED BY <3>1, <3>2, <3>3 DEF BusOK, Predecessor
  <2>4. CASE Shows(n)
    <3>1. /\ n \notin settled /\ Appended(n)
          /\ settled' = settled \cup {n} /\ shown' = Append(shown, n)
          /\ UNCHANGED <<emitted, logged>>
      BY <2>4 DEF Shows
    <3>2. PICK k \in 1..Len(logged) : logged[k] = n
      BY <3>1 DEF Appended
    <3>3. Predecessor(n) /\ k > Len(shown)
      BY <1>0, <3>1, <3>2 DEF BusOK
    <3>4. ASSUME NEW i \in 1..Len(logged), i > Len(shown) PROVE i = k
      <4>1. logged[i] = n
        BY <1>0, <2>1, <3>1, <3>3, <3>4 DEF BusOK
      <4>2. ~(i < k) /\ ~(k < i)
        BY <1>0, <3>2, <4>1 DEF BusOK
      <4> QED BY <1>0, <4>2
    <3>5. k = Len(shown) + 1 /\ Len(logged) = k
      <4>1. Len(shown) + 1 = k
        <5>1. Len(shown) + 1 \in 1..Len(logged)
          BY <1>0, <3>3
        <5> QED BY <1>0, <3>4, <5>1
      <4>2. Len(logged) = k
        <5>1. Len(logged) \in 1..Len(logged) /\ Len(logged) > Len(shown)
          BY <1>0, <3>3
        <5> QED BY <3>4, <5>1
      <4> QED BY <4>1, <4>2
    <3>6. \A l, m \in 1..Len(emitted) : l <= m /\ m \in settled' => l \in settled'
      BY <1>0, <2>1, <3>1, <3>3
    <3>7. /\ shown' \in Seq(Nat) /\ Len(shown') = Len(shown) + 1
          /\ \A i \in 1..Len(shown) : shown'[i] = shown[i]
          /\ shown'[k] = n
      <4>1. n \in Nat
        BY <1>0
      <4> QED BY <1>0, <3>1, <3>5, <4>1
    <3>8. \A i \in 1..Len(logged) :
             /\ logged[i] \in settled'
             /\ i <= Len(shown')
             /\ shown'[i] = logged[i]
      BY <1>0, <3>1, <3>2, <3>5, <3>7 DEF BusOK
    <3> QED BY <1>0, <3>1, <3>5, <3>6, <3>7, <3>8 DEF BusOK, Predecessor
  <2> QED BY <1>2, <2>2, <2>3, <2>4 DEF Bus
<1> QED BY <1>1, <1>2, BusAdds

-----------------------------------------------------------------------------
(* A step is taken beside the command and the runtime, or it is an error   *)
(* thrown into the catch block, the end, or one of their own steps.        *)
Aside ==
  /\ UNCHANGED <<pc, runVars, flush, fileVars, exit>>
  /\ script' = script \/ (script = "running" /\ script' = "ended")
  /\ tool' \in {tool, FALSE} \/ (script = "running" /\ tool' = toolsOpen)
  /\ toolsOpen' \in {toolsOpen, FALSE}
  /\ interrupted' \in {interrupted, TRUE}
  /\ interrupted' => interrupted \/ closed'

Errors == {"failed", "timeout", "cancelled"}

Throws ==
  /\ pc \in {"starting", "executing", "finalizing", "publishing"}
  /\ pc' = "draining" /\ catching' = TRUE /\ error' \in Errors
  /\ closed'
  /\ writing' = (writing /\ pc # "publishing") /\ UNCHANGED disk
  /\ UNCHANGED <<verdict, interrupted, toolVars, script, flush, exit>>

Stops ==
  /\ InWrite \/ pc = "reporting"
  /\ pc' = "ended" /\ exit' = "error"
  /\ writing' = FALSE \/ (pc = "reporting" /\ UNCHANGED writing)
  /\ UNCHANGED disk
  /\ UNCHANGED <<runVars, interrupted, poolVars, toolVars, script, busVars, flush>>

ControlStep ==
  \/ Aside \/ Throws \/ Stops
  \/ WriteOpens \/ WriteEnds \/ SeedFails \/ Starts \/ RootReturns
  \/ Drains \/ Decides \/ ToolsClosed \/ Finalizes \/ Flushes \/ Reports

LEMMA ThrowCloses ==
  ASSUME TypeOK, NEW e \in Errors, NEW ev, Throw(e, ev)
  PROVE  /\ pc' = "draining" /\ catching' = TRUE /\ error' = e
         /\ closed'
         /\ UNCHANGED <<verdict, interrupted, toolVars, script, flush, exit>>
BY DEF Throw, Catch, AbortScheduler, AbortTypeOf, Pool!Close, poolVars, TypeOK

LEMMA ControlSteps ==
  ASSUME TypeOK, [Next]_vars
  PROVE  ControlStep
<1> USE DEF ControlStep
<1> USE DEF TypeOK, runVars, toolVars, fileVars
<1>1. CASE WriteFails
  <2>1. CASE pc = "publishing" /\ ~catching
    <3>1. Throw("failed", <<>>) /\ writing' = FALSE /\ UNCHANGED disk
      BY <1>1, <2>1 DEF WriteFails
    <3> QED BY <2>1, <3>1, ThrowCloses DEF Throws, Errors
  <2>2. CASE ~(pc = "publishing" /\ ~catching)
    BY <1>1, <2>2 DEF WriteFails, Stops
  <2> QED BY <2>1, <2>2
<1>2. CASE StartsInterrupted \/ ContextUnsaved
  BY <1>2, ThrowCloses DEF StartsInterrupted, ContextUnsaved, Throws, Errors
<1>3. ASSUME NEW e \in Errors, RootThrows(e) PROVE Throws
  BY <1>3, ThrowCloses DEF RootThrows, Throws
<1>4. CASE RootAborted
  BY <1>4, <1>3 DEF RootAborted, Errors
<1>5. CASE Unreported
  BY <1>5 DEF Unreported, Stops
<1>6. CASE /\ pc # "drained"
           /\ \/ \E t \in Tasks : TaskBegins(t) \/ TaskEnds(t) \/ TaskFails(t)
              \/ ToolEnds
              \/ \E n \in 1..Len(emitted) : Bus(n)
  BY <1>6 DEF TaskBegins, TaskEnds, TaskFails, ToolEnds, Bus, Aside
<1>7. CASE (\E t \in Tasks : CallsAgent(t)) \/ CallsTool \/ ScriptEnds
  BY <1>7 DEF CallsAgent, CallsTool, ScriptEnds, Aside
<1>8. CASE pc # "drained" /\ Interrupt
  BY <1>8 DEF Interrupt, AbortScheduler, Pool!Close, poolVars, Aside
<1>9. CASE UNCHANGED vars
  BY <1>9 DEF vars, Aside
<1> QED BY <1>1, <1>2, <1>3, <1>4, <1>5, <1>6, <1>7, <1>8, <1>9
           DEF Next, Program, Script, Errors

-----------------------------------------------------------------------------
Places == Early \cup Late \cup {"executing", "draining", "drained", "ended"}
Contents == Verdicts \cup {"absent", "torn", "running", "empty", "v2"}

LEMMA VerdictIsOne == TypeOK => Verdict \in Verdicts
BY DEF TypeOK, Verdict, Verdicts

LEMMA FlagTypes ==
  ASSUME TypeOK, [Next]_vars
  PROVE  /\ catching' \in BOOLEAN /\ interrupted' \in BOOLEAN
         /\ error' \in {"none", "failed", "timeout", "cancelled"}
         /\ tool' \in BOOLEAN /\ toolsOpen' \in BOOLEAN
         /\ script' \in {"none", "running", "ended"}
         /\ writing' \in BOOLEAN
         /\ pc' \in Places
<1>0. /\ catching \in BOOLEAN /\ interrupted \in BOOLEAN
      /\ error \in {"none", "failed", "timeout", "cancelled"}
      /\ tool \in BOOLEAN /\ toolsOpen \in BOOLEAN
      /\ script \in {"none", "running", "ended"}
      /\ writing \in BOOLEAN
      /\ pc \in Places
  BY DEF TypeOK, Places, Early, Late
<1> USE <1>0 DEF Places, Early, Late, runVars, toolVars, fileVars
<1>1. CASE Aside
  <2>1. tool' \in BOOLEAN /\ toolsOpen' \in BOOLEAN
    BY <1>1 DEF Aside
  <2>2. interrupted' \in BOOLEAN /\ catching' \in BOOLEAN /\ writing' \in BOOLEAN
    BY <1>1 DEF Aside
  <2>3. /\ error' \in {"none", "failed", "timeout", "cancelled"}
        /\ script' \in {"none", "running", "ended"}
    BY <1>1 DEF Aside
  <2>4. pc' \in Places
    BY <1>1 DEF Aside
  <2> QED BY <2>1, <2>2, <2>3, <2>4
<1>2. CASE Throws
  BY <1>2 DEF Throws, Errors
<1>3. CASE Stops
  BY <1>3 DEF Stops
<1>4. CASE WriteOpens
  BY <1>4 DEF WriteOpens
<1>5. CASE WriteEnds
  <2>1. InWrite /\ pc' = AfterWrite /\ writing' = FALSE
        /\ UNCHANGED <<runVars, interrupted, toolVars, script>>
    BY <1>5 DEF WriteEnds
  <2>2. AfterWrite \in {"preparing", "recording", "starting", "flushing"}
    BY <2>1 DEF InWrite, AfterWrite
  <2> QED BY <2>1, <2>2
<1>6. CASE SeedFails \/ Starts
  BY <1>6 DEF SeedFails, Starts
<1>7. CASE RootReturns \/ Drains
  BY <1>7 DEF RootReturns, Drains
<1>8. CASE Decides \/ ToolsClosed
  BY <1>8 DEF Decides, ToolsClosed
<1>9. CASE Finalizes \/ Flushes
  BY <1>9 DEF Finalizes, Flushes
<1>10. CASE Reports
  BY <1>10 DEF Reports
<1> QED BY <1>1, <1>2, <1>3, <1>4, <1>5, <1>6, <1>7, <1>8, <1>9, <1>10, ControlSteps
        DEF ControlStep

LEMMA ResultTypes ==
  ASSUME TypeOK, PlaceOK, [Next]_vars
  PROVE  /\ verdict' \in Verdicts \cup {"none"}
         /\ exit' \in Verdicts \cup {"none", "error"}
         /\ disk' \in [{"manifest", "run-input", "report"} -> Contents]
         /\ flush' \in 0..Len(emitted')
<1>1. /\ verdict \in Verdicts \cup {"none"}
      /\ exit \in Verdicts \cup {"none", "error"}
      /\ disk \in [{"manifest", "run-input", "report"} -> Contents]
      /\ flush \in 0..Len(emitted) /\ Len(emitted) \in Nat
  BY DEF TypeOK, Contents
<1>2. Len(emitted') \in Nat /\ Len(emitted') >= Len(emitted)
  BY BusTypes
<1>3. ASSUME flush' \in {flush, Len(emitted)} PROVE flush' \in 0..Len(emitted')
  BY <1>1, <1>2, <1>3
<1> USE DEF runVars, fileVars
<1>4. CASE Aside \/ Throws \/ Stops
  BY <1>1, <1>3, <1>4 DEF Aside, Throws, Stops
<1>5. CASE WriteOpens
  BY <1>1, <1>3, <1>5 DEF WriteOpens, InWrite, File, Contents
<1>6. CASE WriteEnds
  <2>1. Content \in Contents /\ File \in {"manifest", "run-input", "report"}
    BY <1>6 DEF WriteEnds, InWrite, File, Content, Contents, PlaceOK, Late
  <2> QED BY <1>1, <1>3, <1>6, <2>1 DEF WriteEnds
<1>7. CASE SeedFails \/ Starts \/ RootReturns
  BY <1>1, <1>3, <1>7 DEF SeedFails, Starts, RootReturns, Verdicts
<1>8. CASE Drains \/ Decides \/ ToolsClosed \/ Finalizes \/ Flushes
  BY <1>1, <1>3, <1>8, VerdictIsOne DEF Drains, Decides, ToolsClosed, Finalizes, Flushes
<1>9. CASE Reports
  <2>1. verdict \in Verdicts
    BY <1>9 DEF Reports, PlaceOK, Late
  <2> QED BY <1>1, <1>3, <1>9, <2>1 DEF Reports, Contents
<1> QED BY <1>4, <1>5, <1>6, <1>7, <1>8, <1>9, ControlSteps DEF ControlStep

LEMMA StepTypeOK ==
  ASSUME IInv, [Next]_vars
  PROVE  TypeOK'
<1>1. TypeOK /\ PlaceOK
  BY DEF IInv
<1> QED BY <1>1, PoolMoves, BusTypes, FlagTypes, ResultTypes
           DEF TypeOK, Phases, Events, Contents, Places, Early, Late

-----------------------------------------------------------------------------
(* What was stopped stays so, and the places go with the files.            *)
LEMMA StepStopOK ==
  ASSUME IInv, [Next]_vars
  PROVE  StopOK'
<1> USE DEF IInv
<1>0. /\ TypeOK /\ StopOK /\ PlaceOK
      /\ closed => closed'
      /\ pc = "drained" => closed' = closed
      /\ closed /\ Idle => Idle'
      /\ script = "none" /\ (\A t \in Tasks : phase[t] = "new") =>
           \A t \in Tasks : phase'[t] = "new"
  BY PoolMoves
<1>1. (\A t \in Tasks : phase'[t] = "new") => Idle'
  BY DEF Idle
<1>2. (\A t \in Tasks : phase[t] = "new") => Idle
  BY DEF Idle
<1> USE DEF runVars, toolVars, fileVars, poolVars
<1>3. CASE Aside
  <2>1. /\ UNCHANGED <<pc, catching, error, verdict>>
        /\ script' = script \/ (script = "running" /\ script' = "ended")
        /\ tool' \in {tool, FALSE} \/ (script = "running" /\ tool' = toolsOpen)
        /\ toolsOpen' \in {toolsOpen, FALSE}
        /\ interrupted' => interrupted \/ closed'
    BY <1>3 DEF Aside
  <2>2. script' = "none" <=> script = "none"
    BY <2>1
  <2>3. script = "none" => ~tool' /\ \A t \in Tasks : phase'[t] = "new"
    BY <1>0, <2>1 DEF StopOK
  <2>4. verdict # "none" => script = "none" \/ ~toolsOpen'
    BY <1>0, <2>1 DEF StopOK
  <2>5. verdict # "none" /\ pc # "closing" => ~tool'
    BY <1>0, <2>1, <2>3 DEF StopOK
  <2>6. pc \in Quiet /\ verdict \in {"failed", "cancelled"} =>
          Idle' /\ (closed' \/ script = "none")
    BY <1>0, <1>1, <2>3 DEF StopOK
  <2>7. interrupted' => closed'
    BY <1>0, <2>1 DEF StopOK
  <2>8. catching => \/ closed'
                    \/ /\ script = "none" /\ verdict = "failed"
                       /\ pc \in {"publishing", "flushing", "reporting", "ended"}
    BY <1>0 DEF StopOK
  <2>9. pc = "drained" /\ closed' => Idle'
    BY <1>0 DEF StopOK
  <2> QED BY <2>1, <2>2, <2>3, <2>4, <2>5, <2>6, <2>7, <2>8, <2>9 DEF StopOK
<1>4. CASE Throws
  BY <1>0, <1>1, <1>2, <1>4 DEF StopOK, Throws, PlaceOK, Quiet, Late
<1>5. CASE Stops
  BY <1>0, <1>1, <1>2, <1>5 DEF StopOK, Stops, PlaceOK, InWrite, Quiet, Late, Early
<1>6. CASE WriteOpens
  BY <1>0, <1>1, <1>2, <1>6 DEF StopOK, WriteOpens, Idle
<1>7. CASE WriteEnds
  <2>1. InWrite /\ pc' = AfterWrite /\ UNCHANGED <<runVars, interrupted, poolVars, toolVars, script>>
    BY <1>7 DEF WriteEnds
  <2>2. \/ pc = "publishing" /\ pc' = "flushing"
        \/ pc \in Early /\ pc' \in Early
    BY <2>1 DEF InWrite, AfterWrite, Early
  <2> QED BY <1>0, <1>1, <1>2, <2>1, <2>2 DEF StopOK, PlaceOK, Early, Quiet, Late, Idle
<1>8. CASE SeedFails
  BY <1>0, <1>1, <1>2, <1>8 DEF StopOK, SeedFails, PlaceOK, Early
<1>9. CASE Starts \/ RootReturns
  BY <1>0, <1>1, <1>2, <1>9 DEF StopOK, Starts, RootReturns, PlaceOK, Early, Quiet, Late
<1>10. CASE Drains \/ ToolsClosed
  BY <1>0, <1>1, <1>2, <1>10 DEF StopOK, Drains, ToolsClosed, Quiet, Late, Idle
<1>11. CASE Decides
  <2>1. verdict' \in {"failed", "cancelled"} => closed
    BY <1>0, <1>11 DEF Decides, Verdict, StopOK
  <2> QED BY <1>0, <1>1, <1>2, <1>11, <2>1 DEF StopOK, Decides, Quiet, Late, Idle
<1>12. CASE Finalizes \/ Flushes \/ Reports
  BY <1>0, <1>1, <1>2, <1>12 DEF StopOK, Finalizes, Flushes, Reports, Quiet, Late, Idle
<1> QED BY <1>0, <1>3, <1>4, <1>5, <1>6, <1>7, <1>8, <1>9, <1>10, <1>11, <1>12,
           ControlSteps DEF ControlStep

LEMMA StepPlaceOK ==
  ASSUME IInv, [Next]_vars
  PROVE  PlaceOK'
<1> USE DEF IInv
<1>0. TypeOK /\ PlaceOK /\ disk \in [{"manifest", "run-input", "report"} -> Contents]
  BY DEF TypeOK, Contents
<1> USE DEF runVars, toolVars, fileVars, Resumable, Verdicts
<1>1. CASE Aside
  BY <1>0, <1>1 DEF PlaceOK, Aside, InWrite, Early
<1>2. CASE Throws
  BY <1>0, <1>2 DEF PlaceOK, Throws, InWrite, Early, Late
<1>3. CASE Stops
  BY <1>0, <1>3 DEF PlaceOK, Stops, InWrite, Early, Late
<1>4. CASE WriteOpens
  <2>1. File # "report" /\ (File = "run-input" => pc \in {"preparing", "recording"})
        /\ InWrite /\ disk' = [disk EXCEPT ![File] = "torn"]
    BY <1>4 DEF WriteOpens, InWrite, File
  <2> QED BY <1>0, <1>4, <2>1 DEF PlaceOK, WriteOpens, InWrite, Early
<1>5. CASE WriteEnds
  <2>1. /\ InWrite /\ pc' = AfterWrite /\ writing' = FALSE
        /\ disk' = [disk EXCEPT ![File] = Content]
        /\ UNCHANGED <<runVars, script, exit>>
    BY <1>5 DEF WriteEnds
  <2>2. \/ pc = "publishing" /\ pc' = "flushing" /\ File = "manifest"
        \/ pc = "creating" /\ pc' = "preparing" /\ File = "manifest"
        \/ pc = "preparing" /\ pc' = "recording" /\ File = "run-input"
        \/ pc = "recording" /\ pc' = "starting" /\ File = "run-input" /\ Content = "v2"
    BY <2>1 DEF InWrite, AfterWrite, File, Content
  <2> QED BY <1>0, <2>1, <2>2 DEF PlaceOK, Early, Late
<1>6. CASE SeedFails \/ Starts \/ RootReturns
  BY <1>0, <1>6 DEF PlaceOK, SeedFails, Starts, RootReturns, InWrite, Early, Late
<1>7. CASE Drains \/ ToolsClosed \/ Finalizes \/ Flushes
  BY <1>0, <1>7 DEF PlaceOK, Drains, ToolsClosed, Finalizes, Flushes, InWrite, Early, Late
<1>8. CASE Decides
  BY <1>0, <1>8, VerdictIsOne DEF PlaceOK, Decides, InWrite, Early, Late
<1>9. CASE Reports
  BY <1>0, <1>9 DEF PlaceOK, Reports, InWrite, Early, Late
<1> QED BY <1>0, <1>1, <1>2, <1>3, <1>4, <1>5, <1>6, <1>7, <1>8, <1>9, ControlSteps
        DEF ControlStep

-----------------------------------------------------------------------------
(* The terminal events change by the two actions that build a result only. *)
LEMMA TerminalsStay ==
  ASSUME TypeOK, Quietly \/ \E n \in 1..Len(emitted) : Bus(n)
  PROVE  /\ Terminals' = Terminals
         /\ \A n \in Terminals : emitted'[n] = emitted[n]
         /\ settled \subseteq settled'
<1>0. Len(emitted) \in Nat
  BY DEF TypeOK
<1>1. CASE Quietly
  <2>1. Len(emitted') \in Nat /\ Len(emitted') >= Len(emitted) /\ settled' = settled
    BY <1>1 DEF Quietly, Adds
  <2>2. \A n \in 1..Len(emitted') : n \in 1..Len(emitted) \/ n \in (Len(emitted) + 1)..Len(emitted')
    BY <1>0, <2>1
  <2> QED BY <1>0, <1>1, <2>1, <2>2 DEF Quietly, Adds, Terminals
<1>2. CASE \E n \in 1..Len(emitted) : Bus(n)
  <2>1. emitted' = emitted
    BY <1>2 DEF Bus, Persists, Unpersisted, Shows
  <2>2. settled \subseteq settled'
    BY <1>2 DEF Bus, Persists, Unpersisted, Shows
  <2> QED BY <2>1, <2>2 DEF Terminals
<1> QED BY <1>1, <1>2

LEMMA LastStays ==
  ASSUME TypeOK, LastTold, verdict' = verdict,
         Quietly \/ \E n \in 1..Len(emitted) : Bus(n)
  PROVE  LastTold'
BY TerminalsStay DEF LastTold

LEMMA StepStoryOK ==
  ASSUME IInv, [Next]_vars
  PROVE  StoryOK'
<1> USE DEF IInv
<1>0. /\ TypeOK /\ PlaceOK /\ StoryOK
      /\ Len(emitted) \in Nat /\ Terminals \subseteq 1..Len(emitted)
      /\ disk \in [{"manifest", "run-input", "report"} -> Contents]
      /\ verdict # "none" => verdict \in Verdicts
      /\ exit \in Verdicts => pc = "ended"
  BY DEF TypeOK, Terminals, Contents, PlaceOK, Verdicts
<1>1. CASE SeedFails \/ Finalizes
  <2>1. /\ emitted' = Append(emitted, verdict')
        /\ verdict' \in Verdicts /\ pc' = "publishing"
    BY <1>0, <1>1, TellsVerdict
  <2>2. emitted \in Seq(Events) /\ verdict' \in Events
    BY <2>1 DEF TypeOK, Events
  <2>3. /\ Len(emitted') = Len(emitted) + 1
        /\ emitted'[Len(emitted')] = verdict'
    BY <2>1, <2>2
  <2>4. LastTold'
    BY <1>0, <2>1, <2>3 DEF LastTold, Terminals
  <2>5. exit' = exit /\ pc # "ended"
    BY <1>1 DEF SeedFails, Finalizes
  <2> QED BY <1>0, <2>1, <2>4, <2>5 DEF StoryOK, Published
<1>2. CASE ~(SeedFails \/ Finalizes)
  <2>1. Quietly \/ \E n \in 1..Len(emitted) : Bus(n)
    BY <1>2, BusSteps DEF BusStep
  <2>2. /\ Terminals' = Terminals
        /\ settled \subseteq settled'
        /\ LastTold /\ verdict' = verdict => LastTold'
    BY <2>1, TerminalsStay, LastStays
  <2> USE DEF runVars, toolVars, fileVars
  <2>3. CASE Aside
    BY <1>0, <2>2, <2>3 DEF StoryOK, Published, Aside
  <2>4. CASE Throws
    BY <1>0, <2>4 DEF StoryOK, Published, Throws
  <2>5. CASE Stops
    BY <1>0, <2>5 DEF StoryOK, Published, Stops, Verdicts
  <2>6. CASE WriteOpens
    <3>1. pc' = pc /\ exit' = exit /\ verdict' = verdict /\ InWrite
      BY <2>6 DEF WriteOpens
    <3> QED BY <1>0, <2>2, <3>1 DEF StoryOK, Published, InWrite
  <2>7. CASE WriteEnds
    <3>1. /\ InWrite /\ pc' = AfterWrite /\ exit' = exit /\ verdict' = verdict
          /\ disk' = [disk EXCEPT ![File] = Content]
          /\ pc' = "flushing" => flush' = Len(emitted)
      BY <2>7 DEF WriteEnds
    <3>2. \/ /\ pc = "publishing" /\ pc' = "flushing"
             /\ File = "manifest" /\ Content = verdict
          \/ pc' \in Early /\ pc # "publishing"
      BY <3>1 DEF InWrite, AfterWrite, File, Content, Early
    <3>3. \A n \in Terminals : n <= Len(emitted)
      BY <1>0
    <3>4. exit' \notin Verdicts
      BY <1>0, <3>1 DEF InWrite
    <3> QED BY <1>0, <2>2, <3>1, <3>2, <3>3, <3>4 DEF StoryOK, Published, Early
  <2>8. CASE Starts \/ RootReturns \/ Drains \/ Decides \/ ToolsClosed
    <3>1. /\ pc # "ended" /\ exit' = exit
          /\ pc' \in {"executing", "draining", "drained", "closing", "finalizing"}
      BY <2>8 DEF Starts, RootReturns, Drains, Decides, ToolsClosed
    <3> QED BY <1>0, <3>1 DEF StoryOK, Published
  <2>9. CASE Flushes
    BY <1>0, <2>2, <2>9 DEF StoryOK, Published, Flushes
  <2>10. CASE Reports
    BY <1>0, <2>2, <2>10 DEF StoryOK, Published, Reports
  <2> QED BY <1>0, <1>2, <2>3, <2>4, <2>5, <2>6, <2>7, <2>8, <2>9, <2>10, ControlSteps
          DEF ControlStep
<1> QED BY <1>1, <1>2

-----------------------------------------------------------------------------
LEMMA InitIInv == Init => IInv
<1> SUFFICES ASSUME Init PROVE IInv
  OBVIOUS
<1>1. emitted = <<>> /\ logged = <<>> /\ shown = <<>> /\ settled = {} /\ flush = 0
  BY DEF Init
<1>2. TypeOK
  <2>1. /\ emitted \in Seq(Verdicts \cup {"started", "agent"}) /\ Len(emitted) = 0
        /\ settled \subseteq 1..Len(emitted) /\ flush \in 0..Len(emitted)
    BY <1>1
  <2>2. /\ phase \in [Tasks -> {"new", "waiting", "active", "done"}]
        /\ closed \in BOOLEAN
        /\ closed <=> reason # "none"
    BY DEF Init, Pool!PoolInit
  <2>3. disk \in [{"manifest", "run-input", "report"} ->
                   Verdicts \cup {"absent", "torn", "running", "empty", "v2"}]
    BY DEF Init
  <2>4. /\ pc \in {"creating", "preparing", "recording", "starting", "executing",
                   "draining", "drained", "closing", "finalizing", "publishing",
                   "flushing", "reporting", "ended"}
        /\ script \in {"none", "running", "ended"}
        /\ error \in {"none", "failed", "timeout", "cancelled"}
        /\ verdict \in Verdicts \cup {"none"}
        /\ exit \in Verdicts \cup {"none", "error"}
        /\ reason \in {"none", "user", "timeout", "other", "fail-fast"}
    BY DEF Init
  <2>5. /\ catching \in BOOLEAN /\ interrupted \in BOOLEAN /\ writing \in BOOLEAN
        /\ tool \in BOOLEAN /\ toolsOpen \in BOOLEAN
    BY DEF Init
  <2> QED BY <2>1, <2>2, <2>3, <2>4, <2>5 DEF TypeOK
<1>3. BusOK
  BY <1>1 DEF BusOK
<1>4. StopOK
  BY DEF Init, Pool!PoolInit, StopOK, Quiet, Late
<1>5. PlaceOK
  BY DEF Init, PlaceOK, Early, Late, Verdicts
<1>6. StoryOK
  BY DEF Init, StoryOK, Published, Verdicts
<1> QED BY <1>2, <1>3, <1>4, <1>5, <1>6 DEF IInv

LEMMA StepIInv == IInv /\ [Next]_vars => IInv'
BY StepTypeOK, BusOrder, StepStopOK, StepPlaceOK, StepStoryOK DEF IInv

LEMMA Invariance == Spec => []IInv
BY InitIInv, StepIInv, PTL DEF Spec

-----------------------------------------------------------------------------
LEMMA IInvTells == IInv => RunTellsOneStory
<1> SUFFICES ASSUME IInv PROVE RunTellsOneStory
  OBVIOUS
<1> USE DEF IInv
<1>0. /\ Len(emitted) \in Nat /\ settled \subseteq 1..Len(emitted)
      /\ logged \in Seq(1..Len(emitted)) /\ shown \in Seq(Nat)
      /\ Len(logged) \in Nat /\ Len(shown) \in Nat
      /\ Terminals \subseteq 1..Len(emitted)
  BY DEF TypeOK, BusOK, Terminals
<1>1. ASSUME disk["report"] # "absent"
      PROVE  /\ disk["manifest"] = disk["report"] /\ disk["report"] = exit
             /\ emitted[Max(Terminals)] = disk["report"]
             /\ 1..Max(Terminals) \subseteq settled
  <2>1. exit \in Verdicts /\ disk["report"] = exit /\ exit = verdict
    BY <1>1 DEF PlaceOK
  <2>2. /\ LastTold /\ disk["manifest"] = verdict
        /\ \A n \in Terminals : n <= flush
        /\ flush = 0 \/ flush \in settled
    BY <2>1 DEF StoryOK, Published
  <2>3. PICK n \in Terminals : emitted[n] = verdict /\ \A m \in Terminals : m <= n
    BY <2>2 DEF LastTold
  <2>4. Max(Terminals) = n
    <3>1. \A m \in Terminals : n >= m
      BY <1>0, <2>3
    <3>2. \A k \in Terminals : (\A m \in Terminals : k >= m) => k = n
      BY <1>0, <2>3
    <3> QED BY <3>1, <3>2 DEF Max
  <2>5. n \in 1..Len(emitted) /\ n <= flush /\ flush \in settled
    BY <1>0, <2>2, <2>3
  <2>6. 1..n \subseteq settled
    BY <1>0, <2>5 DEF BusOK
  <2> QED BY <2>1, <2>2, <2>3, <2>4, <2>6
<1>2. \A i, j \in 1..Len(logged) : i < j => logged[i] < logged[j]
  BY DEF BusOK
<1>3. Len(shown) \in {Len(logged), Len(logged) - 1}
  <2>1. SUFFICES ASSUME Len(shown) < Len(logged) - 1 PROVE FALSE
    BY <1>0 DEF BusOK
  <2>2. PICK i, j \in 1..Len(logged) : i < j /\ i > Len(shown) /\ j > Len(shown)
    <3>1. /\ Len(logged) - 1 \in 1..Len(logged) /\ Len(logged) \in 1..Len(logged)
          /\ Len(logged) - 1 < Len(logged)
          /\ Len(logged) - 1 > Len(shown) /\ Len(logged) > Len(shown)
      BY <1>0, <2>1
    <3> QED BY <3>1
  <2>3. /\ logged[i] < logged[j] /\ logged[i] \notin settled
        /\ logged[i] \in 1..Len(emitted) /\ logged[j] \in 1..Len(emitted)
        /\ Predecessor(logged[j])
    BY <1>0, <2>2 DEF BusOK
  <2>4. logged[j] - 1 \in settled /\ logged[j] - 1 \in 1..Len(emitted)
        /\ logged[i] <= logged[j] - 1
    BY SMTT(40), <1>0, <2>3 DEF Predecessor
  <2> QED BY <2>3, <2>4 DEF BusOK
<1>4. shown = SubSeq(logged, 1, Len(shown))
  <2>1. Len(shown) <= Len(logged) /\ \A i \in 1..Len(shown) : shown[i] = logged[i]
    BY <1>0 DEF BusOK
  <2>2. /\ SubSeq(logged, 1, Len(shown)) \in Seq(1..Len(emitted))
        /\ Len(SubSeq(logged, 1, Len(shown))) = Len(shown)
        /\ \A i \in 1..Len(shown) : SubSeq(logged, 1, Len(shown))[i] = shown[i]
    BY <1>0, <2>1
  <2> QED BY <1>0, <2>2, SeqEqual
<1>5. ~Idle => Resumable
  BY DEF StopOK, PlaceOK, Idle
<1> QED BY <1>1, <1>2, <1>3, <1>4, <1>5 DEF RunTellsOneStory

(* The files of a run that has a report, the manifest, the last terminal   *)
(* event and the exit code, say the same; events.jsonl is in the order of  *)
(* the sequence numbers and complete up to that event; and agents work     *)
(* only for a run that could be resumed.                                   *)
THEOREM RunTellsOneStoryHolds == Spec => []RunTellsOneStory
BY Invariance, IInvTells, PTL

(* A run that has failed or was cancelled leaves no agent and no tool at   *)
(* work once its verdict was acted upon, and none begins afterwards.       *)
THEOREM QuietEndHolds == Spec => []QuietEnd
<1>1. IInv => QuietEnd
  BY DEF IInv, StopOK, QuietEnd, Quiet, Late
<1> QED BY <1>1, Invariance, PTL

(* A stopped run on its way to its verdict, and what it may still say.     *)
Doomed ==
  /\ closed /\ exit # "succeeded"
  /\ \/ pc \in Early \cup {"executing", "draining", "drained"}
     \/ pc \in Quiet /\ verdict # "succeeded"

LEMMA DoomedStays == IInv /\ Doomed /\ [Next]_vars => Doomed'
<1> SUFFICES ASSUME IInv, Doomed, [Next]_vars PROVE Doomed'
  OBVIOUS
<1>0. /\ TypeOK /\ PlaceOK /\ closed /\ closed'
      /\ exit # "succeeded"
      /\ \/ pc \in Early \cup {"executing", "draining", "drained"}
         \/ pc \in Quiet /\ verdict # "succeeded"
  BY PoolMoves DEF IInv, Doomed
<1>1. Verdict # "succeeded"
  BY <1>0 DEF Verdict
<1> USE DEF runVars, Early, Quiet, Late
<1>2. CASE Aside
  BY <1>0, <1>2 DEF Aside, Doomed
<1>3. CASE Throws
  BY <1>0, <1>3 DEF Throws, Doomed
<1>4. CASE Stops
  BY <1>0, <1>4 DEF Stops, Doomed, InWrite, PlaceOK, Verdicts
<1>5. CASE WriteOpens
  BY <1>0, <1>5 DEF WriteOpens, Doomed
<1>6. CASE WriteEnds
  <2>1. InWrite /\ pc' = AfterWrite /\ verdict' = verdict /\ exit' = exit
    BY <1>6 DEF WriteEnds
  <2>2. \/ pc = "publishing" /\ pc' = "flushing"
        \/ pc' \in Early
    BY <2>1 DEF InWrite, AfterWrite
  <2> QED BY <1>0, <2>1, <2>2 DEF Doomed
<1>7. CASE SeedFails \/ Starts \/ RootReturns \/ Drains
  BY <1>0, <1>7 DEF SeedFails, Starts, RootReturns, Drains, Doomed
<1>8. CASE Decides
  BY <1>0, <1>1, <1>8 DEF Decides, Doomed
<1>9. CASE ToolsClosed \/ Finalizes \/ Flushes
  BY <1>0, <1>9 DEF ToolsClosed, Finalizes, Flushes, Doomed
<1>10. CASE Reports
  BY <1>0, <1>10 DEF Reports, Doomed
<1> QED BY <1>0, <1>2, <1>3, <1>4, <1>5, <1>6, <1>7, <1>8, <1>9, <1>10, ControlSteps
        DEF ControlStep

(* A run that was stopped before its agents were done never ends as a      *)
(* success: the closed pool is what the verdict is read from.              *)
THEOREM StoppedNeverSucceedsHolds == Spec => StoppedNeverSucceeds
<1> DEFINE Stopped == closed /\ pc \in {"starting", "executing", "draining", "drained"}
           NoSuccess == exit # "succeeded"
<1>1. IInv /\ Stopped => Doomed
  BY DEF IInv, PlaceOK, Doomed, Early
<1>2. Doomed => NoSuccess
  BY DEF Doomed
<1>3. [](IInv) /\ [][Next]_vars => [](Stopped => []NoSuccess)
  <2> HIDE DEF Stopped, NoSuccess
  <2> QED BY <1>1, <1>2, DoomedStays, PTL
<1> QED BY <1>3, Invariance, PTL DEF Spec, StoppedNeverSucceeds

-----------------------------------------------------------------------------
(* What the command loads before it creates the run (WorkflowLoading), for *)
(* any projects and any number of rounds.  A workflow is registered with   *)
(* what is written in its file; the walk over the dependencies is what     *)
(* makes the registry fit to run.                                          *)
CONSTANTS ProjectScenarios, ProjectRounds

VARIABLES
  project, files, edits, stage, refusal, collected, target, checked, late, agentFiles, agents,
  contracts, pending, inspected, mirror, temp, tools, queue, seen, ambiguous, registry, stack,
  walked

Load == INSTANCE WorkflowLoading WITH
  Scenarios <- ProjectScenarios, RoundCeiling <- ProjectRounds,
  disk <- files, verdict <- refusal

(* The workflows that the walk has left without an issue.                  *)
LeftClear == {n \in DOMAIN walked : walked[n] = {}}

ClosedUnder(S) == \A n \in S : Load!CallsOf(n) \subseteq S

Called == UNION {Load!CallsOf(n) : n \in DOMAIN registry}
Issues == {"WORKFLOW_VALIDATION_ERROR"} \cup UNION {Load!IssuesOf(n) : n \in DOMAIN registry}
Visits == [name : DOMAIN registry, todo : SUBSET Called, issues : SUBSET Issues]

(* What a workflow without issues on the stack has called so far was left  *)
(* without any, but for the one that is being visited.                     *)
VisitOK(i) ==
  stack[i].issues = {} =>
    /\ Load!IssuesOf(stack[i].name) = {}
    /\ \A d \in Load!CallsOf(stack[i].name) \ stack[i].todo :
         d \in LeftClear \/ (i < Len(stack) /\ stack[i + 1].name = d)

StackOK ==
  /\ stack \in Seq(Visits)
  /\ \A i, j \in 1..Len(stack) : stack[i].name = stack[j].name => i = j
  /\ \A i \in 1..Len(stack) : stack[i].name \notin DOMAIN walked
  /\ \A i \in 1..Len(stack) : VisitOK(i)

(* Each workflow that was left without an issue calls only such as were    *)
(* left before it.                                                         *)
LeftOK ==
  /\ DOMAIN walked \subseteq DOMAIN registry
  /\ \A n \in DOMAIN walked : walked[n] \in SUBSET Issues
  /\ \A n \in LeftClear :
       /\ Load!IssuesOf(n) = {}
       /\ \E S \in SUBSET (LeftClear \ {n}) : ClosedUnder(S) /\ Load!CallsOf(n) \subseteq S

RootThere == \E n \in DOMAIN registry : registry[n].path = target.path

(* The stages in which there may be copies.                                *)
Copying == {"imports", "mirror", "import"}

(* The inductive invariant: until the walk begins nothing is on its stack, *)
(* and from the first file on the root is in the registry.                 *)
LoadingIInv ==
  /\ stage \in Load!Stages
  /\ temp => stage \in Copying
  /\ stage \in {"read", "walk", "ready"} => RootThere
  /\ stage \notin {"walk", "ready", "refused"} => stack = <<>> /\ walked = <<>>
  /\ stage = "walk" => StackOK /\ LeftOK /\ stack # <<>> /\ stack[1].name = Load!RootName
  /\ stage = "ready" => LeftOK /\ Load!RootName \in LeftClear

(* What the walk does not write.                                          *)
scene ==
  <<project, files, edits, Load!scanVars, Load!checkVars, Load!agentVars, Load!toolVars,
    Load!registryVars>>

LEMMA RootIs ==
  ASSUME RootThere
  PROVE  Load!RootName \in DOMAIN registry /\ registry[Load!RootName].path = target.path
BY DEF RootThere, Load!RootName

LEMMA ClearClosed ==
  ASSUME LeftOK
  PROVE  ClosedUnder(LeftClear)
<1> SUFFICES ASSUME NEW n \in LeftClear PROVE Load!CallsOf(n) \subseteq LeftClear
  BY DEF ClosedUnder
<1>1. PICK S \in SUBSET (LeftClear \ {n}) : Load!CallsOf(n) \subseteq S
  BY DEF LeftOK
<1> QED BY <1>1

(* Nothing is reached but what lies in a closed set.                       *)
LEMMA ReachedWithin ==
  ASSUME NEW S \in SUBSET DOMAIN registry, ClosedUnder(S), NEW n, Load!CallsOf(n) \subseteq S
  PROVE  Load!Reached(n) \subseteq S
<1> DEFINE names == DOMAIN registry \cup UNION {Load!CallsOf(k) : k \in DOMAIN registry}
<1>1. S \in SUBSET names
  OBVIOUS
<1>2. \A k \in S \cap DOMAIN registry : Load!CallsOf(k) \subseteq S
  BY DEF ClosedUnder
<1> QED BY <1>1, <1>2 DEF Load!Reached

LEMMA ReadyIsClosed ==
  ASSUME LoadingIInv PROVE Load!RegistryIsClosed
<1>1. stage \in Load!Stages /\ (stage \in {"ready", "refused"} => ~temp)
  BY DEF LoadingIInv, Copying
<1>2. ASSUME stage = "ready", NEW n \in {Load!RootName} \cup Load!Reached(Load!RootName)
      PROVE  n \in DOMAIN registry /\ Load!IssuesOf(n) = {} /\ n \notin Load!Reached(n)
  <2>1. LeftOK /\ Load!RootName \in LeftClear
    BY <1>2 DEF LoadingIInv
  <2>2. LeftClear \in SUBSET DOMAIN registry /\ ClosedUnder(LeftClear)
    BY <2>1, ClearClosed DEF LeftOK, LeftClear
  <2>3. Load!CallsOf(Load!RootName) \subseteq LeftClear
    BY <2>1, <2>2 DEF ClosedUnder
  <2>4. n \in LeftClear
    BY <1>2, <2>1, <2>2, <2>3, ReachedWithin
  <2>5. PICK S \in SUBSET (LeftClear \ {n}) : ClosedUnder(S) /\ Load!CallsOf(n) \subseteq S
    BY <2>1, <2>4 DEF LeftOK
  <2>6. Load!Reached(n) \subseteq S
    BY <2>2, <2>5, ReachedWithin
  <2> QED BY <2>1, <2>2, <2>4, <2>5, <2>6 DEF LeftOK
<1> QED BY <1>1, <1>2 DEF Load!RegistryIsClosed

(* The walk changes nothing of what it looks at.                           *)
LEMMA WalkLooks ==
  ASSUME UNCHANGED scene
  PROVE  /\ Load!RootName' = Load!RootName /\ RootThere' = RootThere
         /\ \A n : Load!CallsOf(n)' = Load!CallsOf(n) /\ Load!IssuesOf(n)' = Load!IssuesOf(n)
         /\ Called' = Called /\ Issues' = Issues /\ Visits' = Visits
<1>1. /\ project' = project /\ target' = target /\ registry' = registry
      /\ tools' = tools /\ agents' = agents
  BY DEF Load!scanVars, Load!agentVars, Load!toolVars, Load!registryVars, scene
<1>2. Load!RootName' = Load!RootName /\ RootThere' = RootThere
  BY <1>1 DEF Load!RootName, RootThere
<1>3. \A n : Load!CallsOf(n)' = Load!CallsOf(n)
  BY <1>1 DEF Load!CallsOf
<1>4. \A n : Load!IssuesOf(n)' = Load!IssuesOf(n)
  BY <1>1 DEF Load!IssuesOf, Load!Env
<1>5. Called' = Called
  BY <1>1, <1>3 DEF Called
<1>6. Issues' = Issues
  BY <1>1, <1>4 DEF Issues
<1> QED BY <1>1, <1>2, <1>3, <1>4, <1>5, <1>6 DEF Visits

LEMMA LoadingInitIInv == Load!Init => LoadingIInv
BY DEF Load!Init, LoadingIInv, Load!Stages

(* Until the walk begins nothing is on its stack.                          *)
Unwalked == stack = <<>> /\ walked = <<>>

LEMMA EarlyIInv ==
  ASSUME LoadingIInv, stage \notin {"walk", "ready", "refused"}, UNCHANGED Load!walkVars,
         stage' \in Load!Stages \ {"walk", "ready"}, temp' => stage' \in Copying,
         stage' = "read" => RootThere'
  PROVE  LoadingIInv'
<1>1. Unwalked /\ Unwalked'
  BY DEF LoadingIInv, Unwalked, Load!walkVars
<1> QED BY <1>1 DEF LoadingIInv, Unwalked

LEMMA EarlyStep ==
  ASSUME LoadingIInv,
         \/ Load!Edit \/ Load!Precollect \/ Load!ResolveTarget \/ Load!ParseTarget
         \/ Load!CheckAgent \/ Load!ReadAgent \/ Load!CheckTool
         \/ Load!CollectWorkflows \/ Load!CheckRoot \/ Load!CheckWorkflow
  PROVE  LoadingIInv'
<1>0. temp => stage \in Copying
  BY DEF LoadingIInv
<1> USE DEF Load!Proceed, Load!Refuse, Load!agentVars, Load!toolVars, Load!registryVars,
            Load!walkVars, Load!scanVars, Load!Stages, Copying
<1>1. CASE Load!Edit
  <2>1. /\ stage \notin {"walk", "ready", "refused"} /\ UNCHANGED Load!walkVars
        /\ UNCHANGED <<stage, temp, registry, target>>
    BY <1>1 DEF Load!Edit
  <2>2. stage = "read" => RootThere'
    BY <2>1 DEF LoadingIInv, RootThere
  <2>3. stage' \in Load!Stages \ {"walk", "ready"}
    BY <2>1 DEF LoadingIInv
  <2> QED BY <1>0, <2>1, <2>2, <2>3, EarlyIInv
<1>2. CASE Load!Precollect
  <2>1. /\ stage = "precollect" /\ UNCHANGED Load!walkVars /\ temp' = temp
        /\ stage' \in {"target", "refused"}
    BY <1>2 DEF Load!Precollect
  <2> QED BY <1>0, <2>1, EarlyIInv
<1>3. CASE Load!ResolveTarget
  <2>1. /\ stage = "target" /\ UNCHANGED Load!walkVars /\ temp' = temp
    BY <1>3 DEF Load!ResolveTarget
  <2>2. stage' \in {"parse", "agents", "refused"}
    BY <1>3 DEF Load!ResolveTarget, Load!AimByPath, Load!NoTarget, Load!Aim
  <2> QED BY <1>0, <2>1, <2>2, EarlyIInv
<1>4. CASE Load!ParseTarget
  <2>1. /\ stage = "parse" /\ UNCHANGED Load!walkVars /\ temp' = temp
        /\ stage' \in {"agents", "refused"}
    BY <1>4 DEF Load!ParseTarget
  <2> QED BY <1>0, <2>1, EarlyIInv
<1>5. CASE Load!CheckAgent
  <2>1. /\ stage = "agents" /\ UNCHANGED Load!walkVars /\ temp' = temp
        /\ stage' \in {"agents", "definitions", "refused"}
    BY <1>5 DEF Load!CheckAgent
  <2> QED BY <1>0, <2>1, EarlyIInv
<1>6. CASE Load!ReadAgent
  <2>1. /\ stage = "definitions" /\ UNCHANGED Load!walkVars /\ temp' = temp
        /\ stage' \in {"definitions", "tools", "refused"}
    BY <1>6 DEF Load!ReadAgent
  <2> QED BY <1>0, <2>1, EarlyIInv
<1>7. CASE Load!CheckTool
  <2>1. /\ stage = "tools" /\ UNCHANGED Load!walkVars /\ temp' = temp
        /\ stage' \in {"tools", "contracts", "refused"}
    BY <1>7 DEF Load!CheckTool
  <2> QED BY <1>0, <2>1, EarlyIInv
<1>8. CASE Load!CollectWorkflows
  <2>1. /\ stage = "collect" /\ UNCHANGED Load!walkVars /\ temp' = temp /\ stage' = "root"
    BY <1>8 DEF Load!CollectWorkflows
  <2> QED BY <1>0, <2>1, EarlyIInv
<1>9. CASE Load!CheckRoot
  <2>1. /\ stage = "root" /\ UNCHANGED Load!walkVars /\ temp' = temp
        /\ stage' \in {"root", "refused"}
    BY <1>9 DEF Load!CheckRoot
  <2> QED BY <1>0, <2>1, EarlyIInv
<1>10. CASE Load!CheckWorkflow
  <2>1. /\ stage = "read" /\ UNCHANGED Load!walkVars /\ temp' = temp
        /\ stage' \in {"read", "refused"} /\ UNCHANGED <<registry, target>>
    BY <1>10 DEF Load!CheckWorkflow
  <2>2. RootThere'
    BY <2>1 DEF LoadingIInv, RootThere
  <2> QED BY <1>0, <2>1, <2>2, EarlyIInv
<1> QED BY <1>1, <1>2, <1>3, <1>4, <1>5, <1>6, <1>7, <1>8, <1>9, <1>10

(* The copies are made when the imports begin, and only ToolImport ends    *)
(* the stages in which they may be there.                                  *)
LEMMA CopyingStep ==
  ASSUME LoadingIInv,
         \/ Load!ReadContract \/ Load!CheckImport \/ Load!InspectFile \/ Load!StartMirror
         \/ Load!CheckEntry \/ Load!CopyEntry \/ Load!MirrorIsComplete \/ Load!ToolImport
  PROVE  LoadingIInv'
<1>0. temp => stage \in Copying
  BY DEF LoadingIInv
<1> USE DEF Load!Proceed, Load!Refuse, Load!Abandon, Load!agentVars, Load!toolVars,
            Load!importVars, Load!registryVars, Load!walkVars, Load!scanVars, Load!Stages,
            Copying
<1>1. CASE Load!ReadContract
  <2>1. /\ stage = "contracts" /\ UNCHANGED Load!walkVars
        /\ \/ stage' = "imports"
           \/ stage' \in {"contracts", "refused"} /\ temp' = temp
    BY <1>1 DEF Load!ReadContract, Load!CompareContracts
  <2> QED BY <1>0, <2>1, EarlyIInv
<1>2. CASE Load!CheckImport
  <2>1. /\ stage = "imports" /\ UNCHANGED Load!walkVars /\ stage' \in {"imports", "import"}
    BY <1>2 DEF Load!CheckImport
  <2> QED BY <2>1, EarlyIInv
<1>3. CASE Load!InspectFile
  <2>1. stage = "imports" /\ UNCHANGED Load!walkVars /\ stage' = stage
    BY <1>3 DEF Load!InspectFile
  <2> QED BY <2>1, EarlyIInv
<1>4. CASE Load!StartMirror
  <2>1. stage = "imports" /\ UNCHANGED Load!walkVars /\ stage' = "mirror"
    BY <1>4 DEF Load!StartMirror
  <2> QED BY <2>1, EarlyIInv
<1>5. CASE Load!CheckEntry
  <2>1. /\ stage = "mirror" /\ UNCHANGED Load!walkVars /\ stage' \in {"mirror", "import"}
    BY <1>5 DEF Load!CheckEntry
  <2> QED BY <2>1, EarlyIInv
<1>6. CASE Load!CopyEntry
  <2>1. stage = "mirror" /\ UNCHANGED Load!walkVars /\ stage' = stage
    BY <1>6 DEF Load!CopyEntry
  <2> QED BY <2>1, EarlyIInv
<1>7. CASE Load!MirrorIsComplete
  <2>1. stage = "mirror" /\ UNCHANGED Load!walkVars /\ stage' = "import"
    BY <1>7 DEF Load!MirrorIsComplete
  <2> QED BY <2>1, EarlyIInv
<1>8. CASE Load!ToolImport
  <2>1. /\ stage = "import" /\ UNCHANGED Load!walkVars /\ temp' = FALSE
        /\ stage' \in {"collect", "refused"}
    BY <1>8 DEF Load!ToolImport
  <2> QED BY <2>1, EarlyIInv
<1> QED BY <1>1, <1>2, <1>3, <1>4, <1>5, <1>6, <1>7, <1>8

LEMMA ReadRootStep ==
  ASSUME LoadingIInv, Load!ReadRoot
  PROVE  LoadingIInv'
<1> DEFINE entry == Load!Entry(files, target.path)
<1>1. /\ stage = "root" /\ UNCHANGED Load!walkVars /\ temp' = temp /\ target' = target
      /\ \/ stage' = "refused"
         \/ stage' = "read" /\ registry' = Load!Put(<<>>, entry.text.name, entry)
  BY DEF Load!ReadRoot, Load!Proceed, Load!Refuse, Load!toolVars, Load!scanVars
<1>2. ASSUME stage' = "read" PROVE RootThere'
  <2>1. entry.text.name \in DOMAIN registry' /\ registry'[entry.text.name] = entry
    BY <1>1, <1>2 DEF Load!Put
  <2>2. entry.path = target.path
    BY DEF Load!Entry
  <2>3. entry.text.name \in DOMAIN registry' /\ registry'[entry.text.name].path = target'.path
    BY <1>1, <2>1, <2>2
  <2> QED BY <2>3 DEF RootThere
<1>3. temp' => stage' \in Copying
  BY <1>1 DEF LoadingIInv, Copying
<1> QED BY <1>1, <1>2, <1>3, EarlyIInv DEF Load!Stages

(* The root stays, whoever bears its name.                                 *)
LEMMA RootStays ==
  ASSUME NEW entry, NEW n \in DOMAIN registry, registry[n].path = target.path
  PROVE  n \in DOMAIN Load!Adopted(entry).defs /\ Load!Adopted(entry).defs[n].path = target.path
<1> DEFINE name == entry.text.name
<1>1. CASE name \in DOMAIN registry
  BY <1>1 DEF Load!Adopted
<1>2. CASE name \notin DOMAIN registry /\ name \in ambiguous
  BY <1>2 DEF Load!Adopted
<1>3. CASE name \notin DOMAIN registry /\ name \notin ambiguous
  BY <1>3 DEF Load!Adopted, Load!Put
<1> QED BY <1>1, <1>2, <1>3

LEMMA ReadWorkflowStep ==
  ASSUME LoadingIInv, Load!ReadWorkflow
  PROVE  LoadingIInv'
<1> DEFINE entry == Load!Entry(files, Head(queue).path)
<1>1. /\ stage = "read" /\ UNCHANGED Load!walkVars /\ temp' = temp /\ target' = target
      /\ \/ stage' = "refused"
         \/ stage' = "read" /\ registry' \in {registry, Load!Adopted(entry).defs}
  BY DEF Load!ReadWorkflow, Load!Proceed, Load!Refuse, Load!toolVars, Load!scanVars
<1>2. PICK n \in DOMAIN registry : registry[n].path = target.path
  BY <1>1 DEF LoadingIInv, RootThere
<1>3. ASSUME stage' = "read" PROVE RootThere'
  <2>1. n \in DOMAIN registry' /\ registry'[n].path = target'.path
    BY <1>1, <1>2, <1>3, RootStays
  <2> QED BY <2>1 DEF RootThere
<1>4. temp' => stage' \in Copying
  BY <1>1 DEF LoadingIInv, Copying
<1> QED BY <1>1, <1>3, <1>4, EarlyIInv DEF Load!Stages

LEMMA FrameType ==
  ASSUME NEW n \in DOMAIN registry
  PROVE  /\ Load!Frame(n) \in Visits /\ Load!Frame(n).name = n
         /\ Load!Frame(n).todo = Load!CallsOf(n) /\ Load!Frame(n).issues = Load!IssuesOf(n)
BY DEF Load!Frame, Visits, Load!CallsOf, Called, Issues

LEMMA StartWalkStep ==
  ASSUME LoadingIInv, Load!StartWalk
  PROVE  LoadingIInv'
<1>1. /\ stage = "read" /\ stage' = "walk" /\ walked' = walked
      /\ stack' = <<Load!Frame(Load!RootName)>>
      /\ UNCHANGED scene
  BY DEF Load!StartWalk, Load!Proceed, scene
<1>2. /\ walked = <<>> /\ RootThere /\ Load!RootName \in DOMAIN registry
  BY <1>1, RootIs DEF LoadingIInv
<1>3. /\ Len(stack') = 1 /\ stack'[1] = Load!Frame(Load!RootName) /\ stack' \in Seq(Visits)
      /\ stack'[1].name = Load!RootName
      /\ stack'[1].todo = Load!CallsOf(Load!RootName)
      /\ stack'[1].issues = Load!IssuesOf(Load!RootName)
  BY <1>1, <1>2, FrameType
<1>4. /\ Load!RootName' = Load!RootName /\ RootThere' = RootThere /\ Visits' = Visits
      /\ \A n : Load!CallsOf(n)' = Load!CallsOf(n) /\ Load!IssuesOf(n)' = Load!IssuesOf(n)
  BY <1>1, WalkLooks
<1>5. DOMAIN walked' = {}
  BY <1>1, <1>2
<1>6. LeftOK'
  BY <1>5 DEF LeftOK, LeftClear
<1>7. StackOK'
  <2>1. VisitOK(1)'
    BY <1>3, <1>4 DEF VisitOK
  <2> QED BY <1>3, <1>4, <1>5, <2>1 DEF StackOK
<1>8. ~temp'
  BY <1>1 DEF LoadingIInv, Load!toolVars, Copying, scene
<1> QED BY <1>1, <1>2, <1>3, <1>4, <1>6, <1>7, <1>8 DEF LoadingIInv, Load!Stages

LEMMA LastOf ==
  ASSUME StackOK, stack # <<>>
  PROVE  /\ Len(stack) \in Nat \ {0} /\ Load!Last(stack) = stack[Len(stack)]
         /\ Load!Last(stack) \in Visits
BY DEF StackOK, Load!Last

(* The stack when its last workflow has heard from one that it calls.      *)
Told(called, issues) ==
  [stack EXCEPT ![Len(stack)] =
     [name |-> @.name, todo |-> @.todo \ {called}, issues |-> @.issues \cup issues]]

LEMMA ToldOf ==
  ASSUME StackOK, stack # <<>>, NEW called, NEW issues \in SUBSET Issues
  PROVE  /\ Told(called, issues) \in Seq(Visits) /\ Len(Told(called, issues)) = Len(stack)
         /\ \A i \in 1..Len(stack) :
              /\ Told(called, issues)[i].name = stack[i].name
              /\ i # Len(stack) => Told(called, issues)[i] = stack[i]
         /\ Told(called, issues)[Len(stack)].todo = stack[Len(stack)].todo \ {called}
         /\ Told(called, issues)[Len(stack)].issues = stack[Len(stack)].issues \cup issues
<1> DEFINE m == Len(stack)
           top == stack[m]
           held == [name |-> top.name, todo |-> top.todo \ {called},
                    issues |-> top.issues \cup issues]
<1>1. /\ m \in Nat \ {0} /\ m \in 1..m /\ top \in Visits /\ stack \in Seq(Visits)
      /\ stack \in [1..m -> Visits]
  BY LastOf DEF StackOK
<1>2. /\ top.name \in DOMAIN registry /\ top.todo \in SUBSET Called
      /\ top.issues \in SUBSET Issues
      /\ top = [name |-> top.name, todo |-> top.todo, issues |-> top.issues]
  BY <1>1 DEF Visits
<1>3. held \in Visits
  BY <1>2 DEF Visits
<1>5. Told(called, issues) = [stack EXCEPT ![m] = held]
  BY DEF Told
<1>6. /\ held.name = stack[m].name /\ held.todo = stack[m].todo \ {called}
      /\ held.issues = stack[m].issues \cup issues
  OBVIOUS
<1> DEFINE told == Told(called, issues)
<1> HIDE DEF held, m
<1>7. /\ told \in [1..m -> Visits] /\ told[m] = held
      /\ \A i \in 1..m : i # m => told[i] = stack[i]
  BY <1>1, <1>3, <1>5
<1>8. told \in Seq(Visits) /\ Len(told) = m
  BY <1>1, <1>7
<1> QED BY <1>1, <1>6, <1>7, <1>8

(* What the walk leaves alone.                                             *)
Looked ==
  /\ walked' = walked /\ LeftClear' = LeftClear /\ Visits' = Visits
  /\ \A n : Load!CallsOf(n)' = Load!CallsOf(n) /\ Load!IssuesOf(n)' = Load!IssuesOf(n)

LEMMA ToldKeeps ==
  ASSUME StackOK, stack # <<>>, Looked, NEW called, NEW issues \in SUBSET Issues,
         stack' = Told(called, issues), issues = {} => called \in LeftClear
  PROVE  StackOK' /\ stack' # <<>> /\ stack'[1].name = stack[1].name
<1> DEFINE m == Len(stack)
<1>1. m \in Nat \ {0}
  BY LastOf
<1>2. /\ stack' \in Seq(Visits) /\ Len(stack') = m
      /\ \A i \in 1..m : stack'[i].name = stack[i].name /\ (i # m => stack'[i] = stack[i])
      /\ stack'[m].todo = stack[m].todo \ {called}
      /\ stack'[m].issues = stack[m].issues \cup issues
  BY ToldOf
<1>3. \A i \in 1..m : /\ stack[i] \in Visits /\ stack[i].name \notin DOMAIN walked
                      /\ \A j \in 1..m : stack[i].name = stack[j].name => i = j
                      /\ VisitOK(i)
  BY DEF StackOK
<1> HIDE DEF m
<1>4. ASSUME NEW i \in 1..m PROVE VisitOK(i)'
  <2> SUFFICES ASSUME stack'[i].issues = {}
               PROVE  /\ Load!IssuesOf(stack'[i].name) = {}
                      /\ \A d \in Load!CallsOf(stack'[i].name) \ stack'[i].todo :
                           d \in LeftClear \/ (i < m /\ stack'[i + 1].name = d)
    BY <1>2 DEF VisitOK, Looked
  <2>1. VisitOK(i)
    BY <1>3
  <2>2. CASE i = m
    <3>1. /\ stack[i].issues = {} /\ issues = {} /\ stack'[i].name = stack[i].name
          /\ stack'[i].todo = stack[i].todo \ {called}
      BY <1>2, <2>2
    <3> QED BY <3>1, <2>1, <2>2 DEF VisitOK, m
  <2>3. CASE i # m
    <3>1. stack'[i] = stack[i] /\ i + 1 \in 1..m
      BY <1>1, <1>2, <2>3
    <3>2. stack'[i + 1].name = stack[i + 1].name
      BY <3>1, <1>2
    <3> QED BY <3>1, <3>2, <2>1 DEF VisitOK, m
  <2> QED BY <2>2, <2>3
<1>5. StackOK'
  BY <1>2, <1>3, <1>4 DEF StackOK, Looked
<1> QED BY <1>1, <1>2, <1>5

LEMMA EnterKeeps ==
  ASSUME StackOK, stack # <<>>, Looked, NEW called \in DOMAIN registry \ DOMAIN walked,
         \A i \in 1..Len(stack) : stack[i].name # called,
         stack' = Append(Told(called, {}), Load!Frame(called))
  PROVE  StackOK' /\ stack' # <<>> /\ stack'[1].name = stack[1].name
<1> DEFINE m == Len(stack)
           told == Told(called, {})
<1>1. m \in Nat \ {0}
  BY LastOf
<1>2. /\ told \in Seq(Visits) /\ Len(told) = m
      /\ \A i \in 1..m : told[i].name = stack[i].name /\ (i # m => told[i] = stack[i])
      /\ told[m].todo = stack[m].todo \ {called}
      /\ told[m].issues = stack[m].issues
  <2>1. {} \in SUBSET Issues /\ stack[m].issues \cup {} = stack[m].issues
    OBVIOUS
  <2> HIDE DEF m
  <2>2. /\ told \in Seq(Visits) /\ Len(told) = Len(stack)
        /\ \A i \in 1..Len(stack) :
             told[i].name = stack[i].name /\ (i # Len(stack) => told[i] = stack[i])
        /\ told[Len(stack)].todo = stack[Len(stack)].todo \ {called}
        /\ told[Len(stack)].issues = stack[Len(stack)].issues \cup {}
    BY <2>1, ToldOf
  <2> QED BY <2>1, <2>2 DEF m
<1>3. /\ Load!Frame(called) \in Visits /\ Load!Frame(called).name = called
      /\ Load!Frame(called).todo = Load!CallsOf(called)
      /\ Load!Frame(called).issues = Load!IssuesOf(called)
  BY FrameType
<1>4. \A i \in 1..m : /\ stack[i] \in Visits /\ stack[i].name \notin DOMAIN walked
                      /\ \A j \in 1..m : stack[i].name = stack[j].name => i = j
                      /\ VisitOK(i) /\ stack[i].name # called
  BY DEF StackOK
<1> HIDE DEF m, told
<1>5. /\ stack' \in Seq(Visits) /\ Len(stack') = m + 1 /\ stack'[m + 1] = Load!Frame(called)
      /\ \A i \in 1..m : stack'[i] = told[i]
  BY <1>1, <1>2, <1>3 DEF told
<1>6. \A i \in 1..m : stack'[i].name = stack[i].name
  BY <1>2, <1>5
<1>7. ASSUME NEW i \in 1..(m + 1) PROVE VisitOK(i)'
  <2> SUFFICES ASSUME stack'[i].issues = {}
               PROVE  /\ Load!IssuesOf(stack'[i].name) = {}
                      /\ \A d \in Load!CallsOf(stack'[i].name) \ stack'[i].todo :
                           d \in LeftClear \/ (i < m + 1 /\ stack'[i + 1].name = d)
    BY <1>5 DEF VisitOK, Looked
  <2>1. CASE i = m + 1
    BY <1>3, <1>5, <2>1
  <2>2. CASE i = m
    <3>1. i \in 1..m /\ VisitOK(i) /\ stack'[i] = told[i]
      BY <1>1, <1>4, <1>5, <2>2
    <3>2. /\ stack[i].issues = {} /\ stack'[i].name = stack[i].name
          /\ stack'[i].todo = stack[i].todo \ {called}
      BY <1>2, <3>1, <2>2
    <3>3. stack'[i + 1].name = called /\ i < m + 1
      BY <1>1, <1>3, <1>5, <2>2
    <3>4. /\ Load!IssuesOf(stack[i].name) = {}
          /\ \A d \in Load!CallsOf(stack[i].name) \ stack[i].todo : d \in LeftClear
      BY <3>1, <3>2, <2>2 DEF VisitOK, m
    <3> QED BY <3>2, <3>3, <3>4
  <2>3. CASE i \in 1..(m - 1)
    <3>1. stack'[i] = stack[i] /\ i + 1 \in 1..m /\ i \in 1..m
      BY <1>1, <1>2, <1>5, <2>3
    <3>2. stack'[i + 1].name = stack[i + 1].name /\ VisitOK(i)
      BY <3>1, <1>6, <1>4
    <3>3. i < Len(stack)
      BY <1>1, <2>3 DEF m
    <3>4. /\ stack[i].issues = {} /\ Load!IssuesOf(stack[i].name) = {}
          /\ \A d \in Load!CallsOf(stack[i].name) \ stack[i].todo :
               d \in LeftClear \/ stack[i + 1].name = d
      BY <3>1, <3>2 DEF VisitOK
    <3>5. i < m + 1
      BY <1>1, <2>3
    <3> QED BY <3>1, <3>2, <3>4, <3>5
  <2>4. i = m + 1 \/ i = m \/ i \in 1..(m - 1)
    BY <1>1
  <2> QED BY <2>1, <2>2, <2>3, <2>4
<1>8. \A i \in 1..(m + 1) : stack'[i].name \notin DOMAIN walked'
  <2> TAKE i \in 1..(m + 1)
  <2>1. CASE i = m + 1
    BY <1>3, <1>5, <2>1 DEF Looked
  <2>2. CASE i \in 1..m
    BY <1>4, <1>6, <2>2 DEF Looked
  <2>3. i = m + 1 \/ i \in 1..m
    BY <1>1
  <2> QED BY <2>1, <2>2, <2>3
<1>9. \A i, j \in 1..(m + 1) : stack'[i].name = stack'[j].name => i = j
  <2>1. stack'[m + 1].name = called
    BY <1>3, <1>5
  <2>2. \A i \in 1..(m + 1) : i \in 1..m \/ i = m + 1
    BY <1>1
  <2>3. \A i \in 1..m : stack'[i].name = stack[i].name /\ stack[i].name # called
    BY <1>4, <1>6
  <2>4. \A i, j \in 1..m : stack'[i].name = stack'[j].name => i = j
    BY <1>4, <2>3
  <2> HIDE DEF m
  <2> TAKE i, j \in 1..(m + 1)
  <2> SUFFICES ASSUME stack'[i].name = stack'[j].name PROVE i = j
    OBVIOUS
  <2>5. CASE i \in 1..m /\ j \in 1..m
    BY <2>4, <2>5
  <2>6. CASE i \in 1..m /\ j = m + 1
    <3>1. stack'[i].name # called /\ stack'[j].name = called
      BY <2>1, <2>3, <2>6
    <3> QED BY <3>1
  <2>7. CASE i = m + 1 /\ j \in 1..m
    <3>1. stack'[j].name # called /\ stack'[i].name = called
      BY <2>1, <2>3, <2>7
    <3> QED BY <3>1
  <2>8. CASE i = m + 1 /\ j = m + 1
    BY <2>8
  <2> QED BY <2>2, <2>5, <2>6, <2>7, <2>8
<1>10. StackOK'
  BY <1>5, <1>7, <1>8, <1>9 DEF StackOK, Looked
<1> QED BY <1>1, <1>5, <1>6, <1>10

LEMMA VisitStep ==
  ASSUME LoadingIInv, Load!VisitDependency
  PROVE  LoadingIInv'
<1> DEFINE m == Len(stack)
           name == CHOOSE n \in Load!Last(stack).todo : TRUE
<1>1. /\ stage = "walk" /\ StackOK /\ LeftOK /\ stack # <<>> /\ stack[1].name = Load!RootName
      /\ RootThere /\ ~temp
  BY DEF LoadingIInv, Load!VisitDependency, Copying
<1>2. m \in Nat \ {0} /\ Load!Last(stack) = stack[m] /\ stack[m] \in Visits
  BY <1>1, LastOf
<1>3. /\ walked' = walked /\ temp' = temp
      /\ UNCHANGED scene
  BY DEF Load!VisitDependency, Load!toolVars, scene
<1>4. /\ Load!RootName' = Load!RootName /\ RootThere' = RootThere
      /\ Visits' = Visits /\ Issues' = Issues
      /\ \A n : Load!CallsOf(n)' = Load!CallsOf(n) /\ Load!IssuesOf(n)' = Load!IssuesOf(n)
      /\ DOMAIN registry' = DOMAIN registry /\ LeftClear' = LeftClear
  BY <1>3, WalkLooks DEF Load!registryVars, LeftClear, scene
<1>5. LeftOK'
  BY <1>1, <1>3, <1>4 DEF LeftOK, ClosedUnder
<1> Looked
  BY <1>3, <1>4 DEF Looked
<1>6. name \in stack[m].todo
  BY <1>2 DEF Load!VisitDependency
<1>7. \/ stage' = "refused"
      \/ /\ stage' = "walk" /\ \A i \in 1..m : stack[i].name # name
         /\ \/ name \in DOMAIN walked /\ stack' = Told(name, walked[name])
            \/ /\ name \notin DOMAIN walked \cup DOMAIN registry
               /\ stack' = Told(name, {"WORKFLOW_VALIDATION_ERROR"})
            \/ /\ name \in DOMAIN registry \ DOMAIN walked
               /\ stack' = Append(Told(name, {}), Load!Frame(name))
  <2>1. DOMAIN stack = 1..m
    BY <1>1 DEF StackOK
  <2> QED BY <1>2, <2>1 DEF Load!VisitDependency, Load!Proceed, Load!Refuse, Told
<1> HIDE DEF name
<1>8. CASE stage' = "refused"
  BY <1>3, <1>1, <1>8 DEF LoadingIInv, Load!Stages
<1>9. ASSUME stage' = "walk" PROVE StackOK' /\ stack' # <<>> /\ stack'[1].name = Load!RootName
  <2>1. CASE name \in DOMAIN walked /\ stack' = Told(name, walked[name])
    <3>1. walked[name] \in SUBSET Issues /\ (walked[name] = {} => name \in LeftClear)
      BY <1>1, <2>1 DEF LeftOK, LeftClear
    <3> QED BY <1>1, <1>3, <1>4, <1>6, <2>1, <3>1, ToldKeeps
  <2>2. CASE stack' = Told(name, {"WORKFLOW_VALIDATION_ERROR"})
    <3>1. {"WORKFLOW_VALIDATION_ERROR"} \in SUBSET Issues
      BY DEF Issues
    <3> QED BY <1>1, <1>3, <1>4, <1>6, <2>2, <3>1, ToldKeeps
  <2>3. CASE /\ name \in DOMAIN registry \ DOMAIN walked
             /\ stack' = Append(Told(name, {}), Load!Frame(name))
             /\ \A i \in 1..m : stack[i].name # name
    BY <1>1, <1>3, <1>4, <1>6, <2>3, EnterKeeps
  <2> QED BY <1>7, <1>9, <2>1, <2>2, <2>3
<1> QED BY <1>1, <1>3, <1>4, <1>5, <1>7, <1>8, <1>9 DEF LoadingIInv, Load!Stages

(* The stack without its last workflow, whose issues the one above has.    *)
LEMMA LeaveOf ==
  ASSUME StackOK, Len(stack) > 1
  PROVE  LET above == Load!Leave(stack)
             k == Len(stack) - 1
         IN /\ k \in Nat \ {0} /\ above \in Seq(Visits) /\ Len(above) = k
            /\ \A i \in 1..k :
                 /\ above[i].name = stack[i].name /\ above[i].todo = stack[i].todo
                 /\ i # k => above[i] = stack[i]
            /\ above[k].issues = stack[k].issues \cup stack[k + 1].issues
<1> DEFINE m == Len(stack)
           k == m - 1
           cut == SubSeq(stack, 1, k)
           above == Load!Leave(stack)
           held == [name |-> stack[k].name, todo |-> stack[k].todo,
                    issues |-> stack[k].issues \cup stack[k + 1].issues]
<1>1. /\ stack \in Seq(Visits) /\ m \in Nat /\ m > 1
  BY DEF StackOK
<1>2. k \in Nat \ {0} /\ m = k + 1
  <2> HIDE DEF m
  <2> QED BY <1>1
<1>3. Load!Last(stack) = stack[k + 1]
  BY <1>2 DEF Load!Last
<1>4. /\ cut \in Seq(Visits) /\ Len(cut) = k
      /\ \A i \in 1..k : cut[i] = stack[i]
  <2>1. \A i \in 1..k : stack[i] \in Visits
    BY <1>1, <1>2
  <2> HIDE DEF k
  <2> QED BY <1>2, <2>1, SubSeqProperties
<1>5. cut # <<>> /\ cut \in [1..k -> Visits]
  <2> HIDE DEF cut, k
  <2> QED BY <1>2, <1>4
<1>6. \A i \in 1..(k + 1) : stack[i] \in Visits
  BY <1>1, <1>2
<1>7. /\ stack[k].name \in DOMAIN registry /\ stack[k].todo \in SUBSET Called
      /\ stack[k].issues \in SUBSET Issues /\ stack[k + 1].issues \in SUBSET Issues
      /\ stack[k] = [name |-> stack[k].name, todo |-> stack[k].todo,
                     issues |-> stack[k].issues]
  BY <1>2, <1>6 DEF Visits
<1>8. above = [cut EXCEPT ![Len(cut)] = [ name |-> @.name, todo |-> @.todo,
                                          issues |-> @.issues \cup Load!Last(stack).issues ]]
  BY <1>5 DEF Load!Leave
<1> HIDE DEF k, cut, above, m
<1>9. above = [cut EXCEPT ![k] = held]
  <2>1. cut[k] = stack[k]
    BY <1>2, <1>4
  <2> QED BY <1>3, <1>4, <1>8, <2>1
<1>11. held \in Visits
  BY <1>7 DEF Visits
<1>12. /\ held.name = stack[k].name /\ held.todo = stack[k].todo
       /\ held.issues = stack[k].issues \cup stack[k + 1].issues
  OBVIOUS
<1> HIDE DEF held
<1>13. /\ above \in [1..k -> Visits] /\ above[k] = held
       /\ \A i \in 1..k : i # k => above[i] = stack[i]
  BY <1>2, <1>4, <1>5, <1>9, <1>11
<1>14. above \in Seq(Visits) /\ Len(above) = k
  BY <1>2, <1>13
<1> QED BY <1>2, <1>12, <1>13, <1>14 DEF k, above, m

LEMMA LeaveStep ==
  ASSUME LoadingIInv, Load!LeaveWorkflow
  PROVE  LoadingIInv'
<1> DEFINE m == Len(stack)
           n == stack[m].name
           issues == stack[m].issues
<1>1. /\ stage = "walk" /\ StackOK /\ LeftOK /\ stack # <<>> /\ stack[1].name = Load!RootName
      /\ RootThere /\ ~temp
  BY DEF LoadingIInv, Load!LeaveWorkflow, Copying
<1>2. m \in Nat \ {0} /\ m \in 1..m /\ Load!Last(stack) = stack[m] /\ stack[m] \in Visits
  BY <1>1, LastOf
<1>3. /\ walked' = Load!Put(walked, n, issues) /\ stack' = Load!Leave(stack) /\ stack[m].todo = {}
      /\ temp' = temp
      /\ UNCHANGED scene
  BY <1>2 DEF Load!LeaveWorkflow, Load!toolVars, scene
<1>4. /\ Load!RootName' = Load!RootName /\ RootThere' = RootThere
      /\ Visits' = Visits /\ Issues' = Issues
      /\ \A k : Load!CallsOf(k)' = Load!CallsOf(k) /\ Load!IssuesOf(k)' = Load!IssuesOf(k)
      /\ DOMAIN registry' = DOMAIN registry
  BY <1>3, WalkLooks DEF Load!registryVars, scene
<1>5. \/ m > 1 /\ stage' = "walk"
      \/ m = 1 /\ issues = {} /\ stage' = "ready"
      \/ m = 1 /\ stage' = "refused"
  <2> DEFINE last == Load!Last(stack)
  <2>1. \/ Len(stack) > 1 /\ stage' = "walk"
        \/ ~(Len(stack) > 1) /\ last.issues = {} /\ stage' = "ready"
        \/ ~(Len(stack) > 1) /\ stage' = "refused"
    BY DEF Load!LeaveWorkflow, Load!Proceed, Load!Refuse
  <2>2. issues = last.issues
    BY <1>2
  <2>3. m > 1 \/ m = 1
    <3> HIDE DEF m
    <3> QED BY <1>2
  <2> HIDE DEF last, issues
  <2> QED BY <2>1, <2>2, <2>3
<1>6. n \in DOMAIN registry /\ issues \in SUBSET Issues /\ n \notin DOMAIN walked
  BY <1>1, <1>2 DEF StackOK, Visits
<1>7. VisitOK(m)
  BY <1>1, <1>2 DEF StackOK
<1>8. issues = {} => Load!IssuesOf(n) = {} /\ Load!CallsOf(n) \subseteq LeftClear
  BY <1>2, <1>3, <1>7 DEF VisitOK
<1> HIDE DEF m, n, issues
<1>9. /\ DOMAIN walked' = DOMAIN walked \cup {n}
      /\ walked'[n] = issues
      /\ \A k \in DOMAIN walked : walked'[k] = walked[k]
  BY <1>3, <1>6 DEF Load!Put
<1>10. LeftClear' = IF issues = {} THEN LeftClear \cup {n} ELSE LeftClear
  BY <1>6, <1>9 DEF LeftClear
<1>11. LeftOK'
  <2>1. DOMAIN walked' \subseteq DOMAIN registry'
    BY <1>1, <1>4, <1>6, <1>9 DEF LeftOK
  <2>2. \A k \in DOMAIN walked' : walked'[k] \in SUBSET Issues'
    BY <1>1, <1>4, <1>6, <1>9 DEF LeftOK
  <2>3. ASSUME NEW k \in LeftClear'
        PROVE  /\ Load!IssuesOf(k)' = {}
               /\ \E S \in SUBSET (LeftClear' \ {k}) :
                    ClosedUnder(S)' /\ Load!CallsOf(k)' \subseteq S
    <3>0. \A S : ClosedUnder(S)' = ClosedUnder(S)
      BY <1>4 DEF ClosedUnder
    <3>1. CASE k \in LeftClear
      <4>1. PICK S \in SUBSET (LeftClear \ {k}) : ClosedUnder(S) /\ Load!CallsOf(k) \subseteq S
        BY <1>1, <3>1 DEF LeftOK
      <4>2. S \in SUBSET (LeftClear' \ {k}) /\ ClosedUnder(S)' /\ Load!CallsOf(k)' \subseteq S
        BY <1>4, <1>10, <3>0, <4>1
      <4>3. Load!IssuesOf(k)' = {}
        BY <1>1, <1>4, <3>1 DEF LeftOK
      <4> QED BY <4>2, <4>3
    <3>2. CASE k \notin LeftClear
      <4>1. k = n /\ issues = {}
        BY <1>10, <2>3, <3>2
      <4>2. LeftClear \in SUBSET (LeftClear' \ {k})
        BY <1>10, <3>2
      <4>3. ClosedUnder(LeftClear)
        BY <1>1, ClearClosed
      <4>4. Load!IssuesOf(k)' = {} /\ Load!CallsOf(k)' \subseteq LeftClear
        BY <1>4, <1>8, <4>1
      <4> HIDE DEF LeftClear
      <4>5. \A S : ClosedUnder(S) => ClosedUnder(S)'
        BY <3>0
      <4> DEFINE S == LeftClear
      <4>6. S \in SUBSET (LeftClear' \ {k}) /\ ClosedUnder(S) /\ Load!CallsOf(k)' \subseteq S
        BY <4>2, <4>3, <4>4
      <4> HIDE DEF S
      <4> QED BY <4>4, <4>5, <4>6
    <3> QED BY <3>1, <3>2
  <2> QED BY <2>1, <2>2, <2>3 DEF LeftOK
<1>12. CASE m > 1
  <2> DEFINE k == m - 1
  <2>1. /\ k \in Nat \ {0} /\ stack' \in Seq(Visits) /\ Len(stack') = k /\ k + 1 = m
        /\ \A i \in 1..k : /\ stack'[i].name = stack[i].name /\ stack'[i].todo = stack[i].todo
                           /\ i # k => stack'[i] = stack[i]
        /\ stack'[k].issues = stack[k].issues \cup issues
    BY <1>1, <1>2, <1>3, <1>12, LeaveOf DEF m, issues
  <2>2. \A i \in 1..m : /\ stack[i] \in Visits /\ stack[i].name \notin DOMAIN walked
                        /\ \A j \in 1..m : stack[i].name = stack[j].name => i = j
                        /\ VisitOK(i)
    BY <1>1 DEF StackOK, m
  <2> HIDE DEF k
  <2>3. \A i \in 1..k : i \in 1..m /\ i # m
    BY <1>2, <2>1
  <2>4. ASSUME NEW i \in 1..k PROVE VisitOK(i)'
    <3> SUFFICES ASSUME stack'[i].issues = {}
                 PROVE  /\ Load!IssuesOf(stack'[i].name) = {}
                        /\ \A d \in Load!CallsOf(stack'[i].name) \ stack'[i].todo :
                             d \in LeftClear' \/ (i < k /\ stack'[i + 1].name = d)
      BY <1>4, <2>1 DEF VisitOK
    <3>1. stack'[i].name = stack[i].name /\ stack'[i].todo = stack[i].todo
      BY <2>1
    <3>2. stack[i].issues = {} /\ (i = k => issues = {})
      BY <2>1
    <3>3. /\ Load!IssuesOf(stack[i].name) = {}
          /\ \A d \in Load!CallsOf(stack[i].name) \ stack[i].todo :
               d \in LeftClear \/ stack[i + 1].name = d
      BY <2>2, <2>3, <3>2 DEF VisitOK, m
    <3>4. CASE i = k
      <4>1. stack[i + 1].name = n /\ LeftClear' = LeftClear \cup {n}
        BY <1>10, <2>1, <3>2, <3>4 DEF n
      <4> QED BY <3>1, <3>3, <4>1
    <3>5. CASE i # k
      <4>1. i < k /\ i + 1 \in 1..k
        BY <2>1, <3>5
      <4>2. stack'[i + 1].name = stack[i + 1].name /\ LeftClear \subseteq LeftClear'
        BY <2>1, <1>10, <4>1
      <4> QED BY <3>1, <3>3, <4>1, <4>2
    <3> QED BY <3>4, <3>5
  <2>5. \A i \in 1..k : stack'[i].name \notin DOMAIN walked'
    <3>1. \A i \in 1..k : stack[i].name # n
      BY <1>2, <2>2, <2>3 DEF n
    <3> QED BY <1>9, <2>1, <2>2, <2>3, <3>1
  <2>6. \A i, j \in 1..k : stack'[i].name = stack'[j].name => i = j
    BY <2>1, <2>2, <2>3
  <2>7. StackOK'
    BY <1>4, <2>1, <2>4, <2>5, <2>6 DEF StackOK
  <2>8. stack' # <<>> /\ stack'[1].name = Load!RootName'
    BY <1>1, <1>4, <2>1
  <2>9. stage' = "walk"
    BY <1>5, <1>12
  <2> QED BY <1>1, <1>3, <1>4, <1>11, <2>7, <2>8, <2>9 DEF LoadingIInv, Load!Stages
<1>13. CASE m = 1 /\ issues = {} /\ stage' = "ready"
  <2>1. Load!RootName' \in LeftClear'
    BY <1>1, <1>4, <1>10, <1>13 DEF n
  <2> QED BY <1>1, <1>3, <1>4, <1>11, <1>13, <2>1 DEF LoadingIInv, Load!Stages
<1>14. CASE stage' = "refused"
  BY <1>1, <1>3, <1>14 DEF LoadingIInv, Load!Stages
<1> QED BY <1>5, <1>12, <1>13, <1>14

LEMMA LoadingStutters ==
  ASSUME LoadingIInv, UNCHANGED Load!vars
  PROVE  LoadingIInv'
<1>1. UNCHANGED <<scene, Load!walkVars, stage>>
  BY DEF Load!vars, Load!scanVars, Load!checkVars, Load!agentVars, Load!toolVars,
         Load!importVars, Load!registryVars, Load!walkVars, scene
<1>2. /\ Load!RootName' = Load!RootName /\ RootThere' = RootThere
      /\ Visits' = Visits /\ Issues' = Issues
      /\ \A k : Load!CallsOf(k)' = Load!CallsOf(k) /\ Load!IssuesOf(k)' = Load!IssuesOf(k)
      /\ DOMAIN registry' = DOMAIN registry
  BY <1>1, WalkLooks DEF Load!registryVars, scene
<1>3. walked' = walked /\ stack' = stack /\ stage' = stage /\ temp' = temp
  BY <1>1 DEF Load!walkVars, Load!toolVars, scene
<1>4. LeftClear' = LeftClear
  BY <1>3 DEF LeftClear
<1>5. LeftOK => LeftOK'
  BY <1>2, <1>3, <1>4 DEF LeftOK, ClosedUnder
<1>6. StackOK => StackOK'
  BY <1>2, <1>3, <1>4 DEF StackOK, VisitOK
<1> QED BY <1>2, <1>3, <1>4, <1>5, <1>6 DEF LoadingIInv

(* The registry that a run starts with is closed, for any project, its     *)
(* files edited at any time while it is loaded: discoverWorkflowRegistry   *)
(* keeps the root in it whoever else bears its name, and when              *)
(* validateRegistryDependencies has left the root without an issue, every  *)
(* workflow that it reaches is registered, has no issue and does not reach *)
(* itself.  loadToolRegistry tries to remove its copies, whatever fails.   *)
THEOREM RegistryIsClosedHolds == Load!Spec => []Load!RegistryIsClosed
<1>1. Load!Init => LoadingIInv
  BY LoadingInitIInv
<1>2. LoadingIInv /\ [Load!Next]_(Load!vars) => LoadingIInv'
  BY EarlyStep, CopyingStep, ReadRootStep, ReadWorkflowStep, StartWalkStep, VisitStep, LeaveStep,
     LoadingStutters
     DEF Load!Next
<1>3. LoadingIInv => Load!RegistryIsClosed
  BY ReadyIsClosed
<1> QED BY <1>1, <1>2, <1>3, PTL DEF Load!Spec

-----------------------------------------------------------------------------
(* The stages in which nothing is registered as a tool yet.                *)
BeforeTools ==
  {"precollect", "target", "parse", "agents", "definitions", "tools", "contracts"} \cup Copying

ToolsIInv ==
  /\ stage \in BeforeTools => tools = <<>>
  /\ stage \in Copying =>
       \A p, q \in Load!ToolFiles : contracts[p].name = contracts[q].name => p = q
  /\ Load!ToolsAreAsValidated
  /\ stage \notin BeforeTools \cup {"refused"} =>
       \A path \in Load!ToolFiles : \E id \in DOMAIN tools : tools[id].path = path

(* A registry of copies that keep their contracts.                         *)
LEMMA RegisteredKeeps ==
  ASSUME \A p, q \in Load!ToolFiles : contracts[p].name = contracts[q].name => p = q,
         \A p \in Load!ToolFiles : Load!KeepsContract(p),
         tools' = Load!Registered({[path |-> p, text |-> mirror[p]] : p \in Load!ToolFiles}),
         contracts' = contracts, collected' = collected
  PROVE  /\ Load!ToolsAreAsValidated'
         /\ \A p \in Load!ToolFiles : \E id \in DOMAIN tools' : tools'[id].path = p
<1> DEFINE entries == {[path |-> p, text |-> mirror[p]] : p \in Load!ToolFiles}
<1>1. /\ DOMAIN tools' = {e.text.name : e \in entries}
      /\ \A id \in DOMAIN tools' : tools'[id] = CHOOSE e \in entries : e.text.name = id
  BY DEF Load!Registered
<1>2. \A id \in DOMAIN tools' : tools'[id] \in entries /\ tools'[id].text.name = id
  BY <1>1
<1>3. Load!ToolFiles' = Load!ToolFiles
  BY DEF Load!ToolFiles
<1>4. ASSUME NEW id \in DOMAIN tools'
      PROVE  /\ tools'[id].path \in Load!ToolFiles /\ Load!HasContract(tools'[id].text)
             /\ contracts[tools'[id].path].name = id /\ tools'[id].text.name = id
             /\ contracts[tools'[id].path].version = tools'[id].text.version
  <2>1. PICK p \in Load!ToolFiles : tools'[id] = [path |-> p, text |-> mirror[p]]
    BY <1>2, <1>4
  <2>2. Load!KeepsContract(p)
    OBVIOUS
  <2> QED BY <1>2, <1>4, <2>1, <2>2 DEF Load!KeepsContract
<1>5. ASSUME NEW p \in Load!ToolFiles PROVE \E id \in DOMAIN tools' : tools'[id].path = p
  <2> DEFINE id == mirror[p].name
  <2>1. [path |-> p, text |-> mirror[p]] \in entries
    OBVIOUS
  <2>2. id \in DOMAIN tools'
    BY <1>1, <2>1
  <2>3. tools'[id].path \in Load!ToolFiles /\ contracts[tools'[id].path].name = id
    BY <1>4, <2>2
  <2>4. contracts[p].name = id
    BY DEF Load!KeepsContract
  <2> QED BY <2>2, <2>3, <2>4
<1> QED BY <1>3, <1>4, <1>5 DEF Load!ToolsAreAsValidated

LEMMA ToolsInitially == Load!Init => ToolsIInv
BY DEF Load!Init, ToolsIInv, Load!ToolsAreAsValidated, BeforeTools, Copying

(* Later the registry and what it is compared with stay.                   *)
LEMMA ToolsStay ==
  ASSUME ToolsIInv, UNCHANGED <<tools, contracts, collected>>,
         stage \notin BeforeTools \cup {"refused"} => stage' \notin BeforeTools,
         stage \in BeforeTools => stage' \in BeforeTools \cup {"refused"},
         stage = "refused" => stage' = "refused",
         stage' \in Copying => stage \in Copying
  PROVE  ToolsIInv'
<1>1. Load!ToolFiles' = Load!ToolFiles
  BY DEF Load!ToolFiles
<1>2. Load!ToolsAreAsValidated'
  BY <1>1 DEF ToolsIInv, Load!ToolsAreAsValidated, BeforeTools, Copying
<1> QED BY <1>1, <1>2 DEF ToolsIInv, BeforeTools

LEMMA ToolsStep ==
  ASSUME ToolsIInv, [Load!Next]_(Load!vars)
  PROVE  ToolsIInv'
<1> USE DEF Load!Proceed, Load!Refuse, Load!agentVars, Load!toolVars, Load!registryVars,
            Load!importVars, Load!scanVars, Load!walkVars, Copying
<1>1. CASE Load!Precollect
  <2>1. stage \in BeforeTools /\ stage' \in BeforeTools \cup {"refused"} /\ tools' = tools
        /\ stage' \in {"target", "refused"}
    BY <1>1 DEF Load!Precollect, BeforeTools
  <2>2. tools = <<>>
    BY <2>1 DEF ToolsIInv
  <2> QED BY <2>1, <2>2 DEF ToolsIInv, Load!ToolsAreAsValidated
<1>2. CASE Load!ReadContract
  <2> DEFINE entry(p) == [path |-> p, text |-> contracts[p]]
  <2>1. /\ stage = "contracts" /\ stage' \in {"contracts", "imports", "refused"}
        /\ tools' = tools /\ collected' = collected
        /\ stage' = "imports" =>
             contracts' = contracts /\ ~Load!SharedName({entry(p) : p \in Load!ToolFiles})
    BY <1>2 DEF Load!ReadContract, Load!CompareContracts
  <2>2. tools = <<>> /\ Load!ToolFiles' = Load!ToolFiles
    BY <2>1 DEF ToolsIInv, BeforeTools, Load!ToolFiles
  <2>3. ASSUME stage' = "imports", NEW p \in Load!ToolFiles, NEW q \in Load!ToolFiles,
               contracts'[p].name = contracts'[q].name
        PROVE  p = q
    <3>1. entry(p).text.name = entry(q).text.name /\ entry(p).path = p /\ entry(q).path = q
      BY <2>1, <2>3
    <3> QED BY <2>1, <2>3, <3>1 DEF Load!SharedName
  <2> QED BY <2>1, <2>2, <2>3 DEF ToolsIInv, Load!ToolsAreAsValidated, BeforeTools
<1>3. CASE Load!ToolImport
  <2>1. /\ stage = "import" /\ contracts' = contracts /\ collected' = collected
        /\ \/ stage' = "refused" /\ tools' = tools
           \/ /\ stage' = "collect" /\ \A p \in Load!ToolFiles : Load!KeepsContract(p)
              /\ tools' = Load!Registered({[path |-> p, text |-> mirror[p]] :
                                            p \in Load!ToolFiles})
    BY <1>3 DEF Load!ToolImport
  <2>2. \A p, q \in Load!ToolFiles : contracts[p].name = contracts[q].name => p = q
    BY <2>1 DEF ToolsIInv
  <2>3. CASE stage' = "refused" /\ tools' = tools
    BY <2>1, <2>3, ToolsStay DEF BeforeTools
  <2>4. CASE stage' = "collect"
    <3>1. /\ Load!ToolsAreAsValidated'
          /\ \A p \in Load!ToolFiles : \E id \in DOMAIN tools' : tools'[id].path = p
      BY <2>1, <2>2, <2>4, RegisteredKeeps
    <3>2. Load!ToolFiles' = Load!ToolFiles
      BY <2>1 DEF Load!ToolFiles
    <3> QED BY <2>4, <3>1, <3>2 DEF ToolsIInv, BeforeTools
  <2> QED BY <2>1, <2>3, <2>4
<1>4. CASE UNCHANGED Load!vars
  BY <1>4, ToolsStay DEF Load!vars
<1>5. CASE \/ Load!Edit \/ Load!ResolveTarget \/ Load!ParseTarget
           \/ Load!CheckAgent \/ Load!ReadAgent \/ Load!CheckTool
  <2>1. UNCHANGED <<tools, contracts, collected>>
    BY <1>5 DEF Load!Edit, Load!ResolveTarget, Load!ParseTarget, Load!CheckAgent,
                Load!ReadAgent, Load!CheckTool
  <2>2. \/ stage' = stage
        \/ /\ stage \in {"target", "parse", "agents", "definitions", "tools"}
           /\ stage' \in {"parse", "agents", "definitions", "tools", "contracts", "refused"}
    BY <1>5 DEF Load!Edit, Load!ResolveTarget, Load!ParseTarget, Load!CheckAgent,
                Load!ReadAgent, Load!CheckTool, Load!Aim, Load!AimByPath, Load!NoTarget
  <2> QED BY <2>1, <2>2, ToolsStay DEF BeforeTools
<1>6. CASE \/ Load!CheckImport \/ Load!InspectFile \/ Load!StartMirror
           \/ Load!CheckEntry \/ Load!CopyEntry \/ Load!MirrorIsComplete
  <2>1. UNCHANGED <<tools, contracts, collected>>
    BY <1>6 DEF Load!CheckImport, Load!InspectFile, Load!StartMirror, Load!CheckEntry,
                Load!CopyEntry, Load!MirrorIsComplete
  <2>2. stage \in Copying /\ stage' \in Copying
    BY <1>6 DEF Load!CheckImport, Load!InspectFile, Load!StartMirror, Load!CheckEntry,
                Load!CopyEntry, Load!MirrorIsComplete, Load!Abandon
  <2> QED BY <2>1, <2>2, ToolsStay DEF BeforeTools
<1>7. CASE \/ Load!CollectWorkflows \/ Load!CheckRoot \/ Load!ReadRoot
           \/ Load!CheckWorkflow \/ Load!ReadWorkflow
           \/ Load!StartWalk \/ Load!VisitDependency \/ Load!LeaveWorkflow
  <2>1. UNCHANGED <<tools, contracts, collected>>
    BY <1>7 DEF Load!CollectWorkflows, Load!CheckRoot, Load!ReadRoot, Load!CheckWorkflow,
                Load!ReadWorkflow, Load!StartWalk, Load!VisitDependency, Load!LeaveWorkflow
  <2>2. stage \in {"collect", "root", "read", "walk"}
        /\ stage' \in {"root", "read", "walk", "ready", "refused"}
    BY <1>7 DEF Load!CollectWorkflows, Load!CheckRoot, Load!ReadRoot, Load!CheckWorkflow,
                Load!ReadWorkflow, Load!StartWalk, Load!VisitDependency, Load!LeaveWorkflow
  <2> QED BY <2>1, <2>2, ToolsStay DEF BeforeTools
<1> QED BY <1>1, <1>2, <1>3, <1>4, <1>5, <1>6, <1>7 DEF Load!Next

(* However the files are edited in the four reads of loadToolRegistry, a   *)
(* tool that a run can call has the contract that was validated            *)
(* (assertRuntimeDefinitionMatchesStaticContract), and buildToolRegistry   *)
(* leaves none out.                                                        *)
THEOREM ToolsAreAsValidatedHolds == Load!Spec => []Load!ToolsAreAsValidated
<1>1. ToolsIInv => Load!ToolsAreAsValidated
  BY DEF ToolsIInv
<1> QED BY <1>1, ToolsInitially, ToolsStep, PTL DEF Load!Spec

=============================================================================
