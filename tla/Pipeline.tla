------------------------------ MODULE Pipeline ------------------------------
(* pipeline(): items that pass the same stages, item by item               *)
(* (pipeline/item-streaming.ts) or stage by stage                          *)
(* (pipeline/stage-barrier.ts).                                            *)
(*                                                                         *)
(* An item holds a slot of the pipeline, and in a stage one of the stage,  *)
(* while pipeline/stage-runner.ts runs the function of the stage against   *)
(* its timeout and the signal of the pipeline.  That signal hears the      *)
(* invocation that called pipeline() and, with failFast, the first stage   *)
(* that fails.  A function that ignores its signal is given up.            *)
(*                                                                         *)
(* An operator that no other definition uses is a variant of the one after *)
(* it, with one mistake in it; the runs use it to test the properties.     *)
EXTENDS Naturals, Sequences, FiniteSets, SequencesExt

CONSTANTS
  ItemCount, StageCount,
  Strategies,        \* "item-streaming", "stage-barrier"
  Concurrency,       \* options.concurrency; 0 where a limit is not given
  StageConcurrency,  \* stage.concurrency of every stage
  StageOption,       \* options.stageConcurrency of every stage
  TimedStages,       \* those with timeoutMs
  FailFast, PreserveOrder,
  WritesFail         \* whether files may fail to be written

Items == 1..ItemCount
Stages == 1..StageCount

ASSUME PipelineAssumption ==
  /\ ItemCount \in Nat /\ StageCount \in Nat \ {0}
  /\ Strategies \subseteq {"item-streaming", "stage-barrier"}
  /\ Concurrency \in Nat
  /\ StageConcurrency \in [Stages -> Nat] /\ StageOption \in [Stages -> Nat]
  /\ TimedStages \subseteq Stages
  /\ FailFast \in BOOLEAN /\ PreserveOrder \in BOOLEAN /\ WritesFail \in BOOLEAN

VARIABLES
  strategy,
  phase,     \* how far runPipeline() is
  parent,    \* why the signal of the caller is aborted
  signal,    \* why the signal of the pipeline is aborted
  pc,        \* how far each item is
  outcome,   \* of the stage it is in
  results,   \* stagesResults: the status of each stage it is through with
  status,    \* of each item
  active, queue,  \* the limiters: 0 for items, the others for stages
  order,     \* completedResults
  crashed,   \* a file of an item could not be written
  verdict,   \* the status of the pipeline
  answer     \* what it returned

signalVars == <<parent, signal>>
limiterVars == <<active, queue>>
itemVars == <<pc, outcome, results, status>>
endVars == <<verdict, answer>>
vars == <<strategy, phase, signalVars, itemVars, limiterVars, order, crashed,
          endVars>>

Limiters == {0} \cup Stages

(* getEffectiveStageConcurrency(): the strictest of the given limits.  To  *)
(* be without a limit is to have as many slots as there are items.         *)
Given(s) == {StageConcurrency[s], Concurrency, StageOption[s]} \ {0}
Strictest(limits) ==
  IF limits = {} THEN ItemCount ELSE CHOOSE n \in limits : \A m \in limits : n <= m

Limit(l) == IF l = 0 THEN Strictest({Concurrency} \ {0}) ELSE Strictest(Given(l))

Init ==
  /\ strategy \in Strategies
  /\ phase = "starting"
  /\ parent = "none" /\ signal = "none"
  /\ pc = [i \in Items |-> "ready"]
  /\ outcome = [i \in Items |-> "none"]
  /\ results = [i \in Items |-> <<>>]
  /\ status = [i \in Items |-> "active"]
  /\ active = [l \in Limiters |-> 0] /\ queue = [l \in Limiters |-> <<>>]
  /\ order = <<>> /\ crashed = FALSE
  /\ verdict = "none" /\ answer = <<>>

Streaming == strategy = "item-streaming"
Stage(i) == Len(results[i]) + 1
Skipped(n) == [k \in 1..n |-> "skipped"]

(* Items in the order of their index.                                      *)
Before(items, i) == Cardinality({j \in items : j < i})
InOrder(items) ==
  [k \in 1..Cardinality(items) |-> CHOOSE i \in items : Before(items, i) = k - 1]

-----------------------------------------------------------------------------
(* ConcurrencyLimiter.run(): the slots of an item go to the first that     *)
(* waits for each.                                                         *)
Heirs(released) == {queue[l][1] : l \in {k \in released : queue[k] # <<>>}}
Promoted(position) == IF position = "atItem" THEN "granted" ELSE "entering"

ReleaseUncounted(released, after) ==
  /\ active' = [l \in Limiters |-> IF l \in released THEN active[l] - 1 ELSE active[l]]
  /\ queue' = [l \in Limiters |->
       IF l \in released /\ queue[l] # <<>> THEN Tail(queue[l]) ELSE queue[l]]
  /\ pc' = [i \in Items |-> IF i \in Heirs(released) THEN Promoted(pc[i]) ELSE after[i]]
Release(released, after) ==
  /\ active' = [l \in Limiters |->
       IF l \in released /\ queue[l] = <<>> THEN active[l] - 1 ELSE active[l]]
  /\ queue' = [l \in Limiters |->
       IF l \in released /\ queue[l] # <<>> THEN Tail(queue[l]) ELSE queue[l]]
  /\ pc' = [i \in Items |-> IF i \in Heirs(released) THEN Promoted(pc[i]) ELSE after[i]]

(* The signal of the pipeline is aborted: every stage at work is given up. *)
GivenUpNever == {}
GivenUp == {i \in Items : pc[i] = "running"}
AbortedOutcome(why) == IF why = "timeout" THEN "timed_out" ELSE "cancelled"

Aborts(why) ==
  /\ signal' = IF signal = "none" THEN why ELSE signal
  /\ outcome' = [i \in Items |->
       IF i \in GivenUp /\ signal = "none" THEN AbortedOutcome(why) ELSE outcome[i]]
AfterAbort ==
  [i \in Items |-> IF i \in GivenUp /\ signal = "none" THEN "saving" ELSE pc[i]]

AbortParent(why) ==
  /\ parent = "none" /\ phase # "returned"
  /\ parent' = why
  /\ Aborts(why)
  /\ pc' = AfterAbort
  /\ UNCHANGED <<strategy, phase, results, status, limiterVars, order, crashed,
                 endVars>>

-----------------------------------------------------------------------------
(* Every eligible item asks for a slot of the pipeline, in order: all of   *)
(* them at once, or those still active at every stage.                     *)
Eligible == {i \in Items : status[i] = "active"}

LaunchItems(eligible) ==
  LET first == {i \in eligible : Before(eligible, i) < Limit(0)}
  IN  /\ active' = [active EXCEPT ![0] = Cardinality(first)]
      /\ queue' = [queue EXCEPT ![0] = InOrder(eligible \ first)]
      /\ pc' = [i \in Items |-> IF i \in first THEN "granted"
                                ELSE IF i \in eligible THEN "atItem" ELSE pc[i]]

LaunchStreaming ==
  /\ phase = "starting" /\ Streaming
  /\ phase' = "working"
  /\ LaunchItems(Items)
  /\ UNCHANGED <<strategy, signalVars, outcome, results, status, order, crashed,
                 endVars>>

BarrierIgnored == \E i \in Eligible : pc[i] = "ready"
Barrier == \A i \in Items : pc[i] = "ready"

MoreStages == \E i \in Eligible : Stage(i) <= StageCount

LaunchStage ==
  /\ phase \in {"starting", "working"} /\ ~Streaming /\ ~crashed
  /\ Barrier /\ MoreStages /\ signal = "none"
  /\ phase' = "working"
  /\ LaunchItems({i \in Eligible : pc[i] = "ready"})
  /\ UNCHANGED <<strategy, signalVars, outcome, results, status, order, crashed,
                 endVars>>

(* After the last stage, or when all have failed or the pipeline was       *)
(* aborted in between, the results are put together.                       *)
CancelledAtBarrier == IF MoreStages THEN Eligible ELSE {}

LeaveStages ==
  /\ phase \in {"starting", "working"} /\ ~Streaming /\ ~crashed
  /\ \A i \in Items : pc[i] = "ready"
  /\ MoreStages => signal # "none"
  /\ phase' = "collecting"
  /\ status' = [i \in Items |->
       IF i \in CancelledAtBarrier THEN "cancelled" ELSE status[i]]
  /\ UNCHANGED <<strategy, signalVars, pc, outcome, results, limiterVars, order,
                 crashed, endVars>>

-----------------------------------------------------------------------------
(* An item with a slot of the pipeline: processItem() gives up here when   *)
(* the pipeline was aborted; otherwise it asks for a slot of the stage.    *)
EnterAborted(i) ==
  /\ pc[i] = "granted" /\ Streaming /\ signal # "none"
  /\ status' = [status EXCEPT ![i] = "cancelled"]
  /\ results' = [results EXCEPT ![i] = @ \o Skipped(StageCount - Len(@))]
  /\ pc' = [pc EXCEPT ![i] = "finishing"]
  /\ UNCHANGED <<strategy, phase, signalVars, outcome, limiterVars, order,
                 crashed, endVars>>

Enter(i) ==
  /\ pc[i] = "granted"
  /\ Streaming => signal = "none"
  /\ LET s == Stage(i) IN
       IF active[s] < Limit(s)
       THEN /\ active' = [active EXCEPT ![s] = @ + 1]
            /\ pc' = [pc EXCEPT ![i] = "entering"]
            /\ UNCHANGED queue
       ELSE /\ queue' = [queue EXCEPT ![s] = Append(@, i)]
            /\ pc' = [pc EXCEPT ![i] = "atStage"]
            /\ UNCHANGED active
  /\ UNCHANGED <<strategy, phase, signalVars, outcome, results, status, order,
                 crashed, endVars>>

(* With both slots it looks at the signal again and calls the function.    *)
Begin(i) ==
  /\ pc[i] = "entering" /\ signal = "none"
  /\ pc' = [pc EXCEPT ![i] = "running"]
  /\ UNCHANGED <<strategy, phase, signalVars, outcome, results, status,
                 limiterVars, order, crashed, endVars>>

(* An aborted item is skipped.  Item by item, that is the result of its    *)
(* stage; stage by stage, the item is cancelled at once.                   *)
BeginSkipped(i) ==
  /\ pc[i] = "entering" /\ signal # "none"
  /\ IF Streaming
     THEN /\ Release({Stage(i)}, [pc EXCEPT ![i] = "concluding"])
          /\ outcome' = [outcome EXCEPT ![i] = "skipped"]
          /\ UNCHANGED <<results, status>>
     ELSE /\ Release({0, Stage(i)}, [pc EXCEPT ![i] = "ready"])
          /\ results' = [results EXCEPT ![i] = Append(@, "skipped")]
          /\ status' = [status EXCEPT ![i] = "cancelled"]
          /\ UNCHANGED outcome
  /\ UNCHANGED <<strategy, phase, signalVars, order, crashed, endVars>>

(* runStage(): the function ends, or its timeout does; then the artifact   *)
(* of the stage is written.                                                *)
StageEnds(i, how) ==
  /\ pc[i] = "running"
  /\ pc' = [pc EXCEPT ![i] = "saving"]
  /\ outcome' = [outcome EXCEPT ![i] = how]
  /\ UNCHANGED <<strategy, phase, signalVars, results, status, limiterVars,
                 order, crashed, endVars>>

StageTimesOut(i) == Stage(i) \in TimedStages /\ StageEnds(i, "timed_out")

(* The status of an item whose stage did not succeed.                      *)
StatusOf(how) == IF how \in {"timed_out", "cancelled"} THEN how ELSE "failed"

TriggersFailFast(i) == FailFast /\ outcome[i] # "succeeded"

(* Stage by stage, the item is dealt with before its slots are free.       *)
StageSavedBarrier(i) ==
  /\ pc[i] = "saving" /\ ~Streaming
  /\ results' = [results EXCEPT ![i] = Append(@, outcome[i])]
  /\ status' = IF outcome[i] = "succeeded" THEN status
               ELSE [status EXCEPT ![i] = StatusOf(outcome[i])]
  /\ IF TriggersFailFast(i)
     THEN /\ Aborts("fail-fast")
          /\ Release({0, Stage(i)}, [AfterAbort EXCEPT ![i] = "ready"])
     ELSE /\ UNCHANGED <<signal, outcome>>
          /\ Release({0, Stage(i)}, [pc EXCEPT ![i] = "ready"])
  /\ UNCHANGED <<strategy, phase, parent, order, crashed, endVars>>

(* Item by item, the slot of the stage is free before: the next item may   *)
(* still begin, and its first steps come before those of this one.         *)
StageSavedStreaming(i) ==
  /\ pc[i] = "saving" /\ Streaming
  /\ Release({Stage(i)}, [pc EXCEPT ![i] = "concluding"])
  /\ UNCHANGED <<strategy, phase, signalVars, outcome, results, status, order,
                 crashed, endVars>>

ConcludeSuccess(i) ==
  /\ results' = [results EXCEPT ![i] = Append(@, "succeeded")]
  /\ IF Stage(i) = StageCount
     THEN /\ status' = [status EXCEPT ![i] = "succeeded"]
          /\ pc' = [pc EXCEPT ![i] = "finishing"]
     ELSE /\ pc' = [pc EXCEPT ![i] = "granted"]
          /\ UNCHANGED status
  /\ UNCHANGED <<signal, outcome>>

ConcludeFailure(i) ==
  /\ status' = [status EXCEPT ![i] = StatusOf(outcome[i])]
  /\ results' = [results EXCEPT ![i] =
       Append(@, outcome[i]) \o Skipped(StageCount - Stage(i))]
  /\ IF TriggersFailFast(i)
     THEN /\ Aborts("fail-fast")
          /\ pc' = [AfterAbort EXCEPT ![i] = "finishing"]
     ELSE /\ pc' = [pc EXCEPT ![i] = "finishing"]
          /\ UNCHANGED <<signal, outcome>>

Conclude(i) ==
  /\ pc[i] = "concluding"
  /\ \A j \in Items : pc[j] # "entering"
  /\ IF outcome[i] = "succeeded" THEN ConcludeSuccess(i) ELSE ConcludeFailure(i)
  /\ UNCHANGED <<strategy, phase, parent, limiterVars, order, crashed, endVars>>

(* The artifact of the item is written and its end reported.               *)
Finish(i) ==
  /\ pc[i] = "finishing"
  /\ order' = Append(order, i)
  /\ Release({0}, [pc EXCEPT ![i] = "done"])
  /\ UNCHANGED <<strategy, phase, signalVars, outcome, results, status, crashed,
                 endVars>>

(* Stage by stage, this happens at the end and in order.                   *)
Collect(i) ==
  /\ phase = "collecting" /\ ~crashed /\ i = Len(order) + 1
  /\ status' = [status EXCEPT ![i] = IF @ = "active" THEN "succeeded" ELSE @]
  /\ results' = [results EXCEPT ![i] = @ \o Skipped(StageCount - Len(@))]
  /\ order' = Append(order, i)
  /\ pc' = [pc EXCEPT ![i] = "done"]
  /\ UNCHANGED <<strategy, phase, signalVars, outcome, limiterVars, crashed,
                 endVars>>

(* A file that cannot be written rejects the promise of its item, and with *)
(* it that of the pipeline.  Its slots are given back.                     *)
WriteFails(i) ==
  /\ WritesFail
  /\ \/ pc[i] = "saving" /\ Release({0, Stage(i)}, [pc EXCEPT ![i] = "lost"])
     \/ pc[i] = "finishing" /\ Release({0}, [pc EXCEPT ![i] = "lost"])
     \/ /\ phase = "collecting" /\ i = Len(order) + 1 /\ ~crashed
        /\ pc' = [pc EXCEPT ![i] = "lost"] /\ UNCHANGED limiterVars
  /\ crashed' = TRUE
  /\ UNCHANGED <<strategy, phase, signalVars, outcome, results, status, order,
                 endVars>>

-----------------------------------------------------------------------------
(* runPipeline(): the status of the pipeline.                              *)
Some(statuses) == \E i \in Items : status[i] \in statuses

Verdict ==
  IF crashed THEN "failed"
  ELSE IF parent # "none" \/ Some({"cancelled"}) THEN "cancelled"
  ELSE IF Some({"failed", "timed_out"}) THEN "failed" ELSE "succeeded"

Answer == IF PreserveOrder THEN InOrder(ToSet(order)) ELSE order

Decide ==
  /\ phase \in {"working", "collecting"}
  /\ crashed \/ Len(order) = ItemCount
  /\ phase' = "publishing"
  /\ verdict' = Verdict
  /\ answer' = IF crashed THEN <<>> ELSE Answer
  /\ UNCHANGED <<strategy, signalVars, itemVars, limiterVars, order, crashed>>

(* pipeline.json is written; then the pipeline returns or throws.          *)
Publish ==
  /\ phase = "publishing"
  /\ phase' = IF crashed THEN "thrown" ELSE "returned"
  /\ UNCHANGED <<strategy, signalVars, itemVars, limiterVars, order, crashed,
                 endVars>>

PublishFails ==
  /\ WritesFail /\ phase = "publishing"
  /\ phase' = "thrown"
  /\ UNCHANGED <<strategy, signalVars, itemVars, limiterVars, order, crashed,
                 endVars>>

-----------------------------------------------------------------------------
Program ==
  \/ LaunchStreaming \/ LaunchStage \/ LeaveStages
  \/ \E i \in Items :
       \/ Enter(i) \/ EnterAborted(i) \/ Begin(i) \/ BeginSkipped(i)
       \/ StageSavedBarrier(i) \/ StageSavedStreaming(i) \/ Conclude(i)
       \/ Finish(i) \/ Collect(i) \/ WriteFails(i)
  \/ Decide \/ Publish \/ PublishFails

Next ==
  \/ Program
  \/ \E i \in Items :
       \/ \E how \in {"succeeded", "failed"} : StageEnds(i, how)
       \/ StageTimesOut(i)
  \/ \E why \in {"user", "timeout"} : AbortParent(why)

Spec == Init /\ [][Next]_vars

(* Writes end and callbacks run; a function need not end.                  *)
FairSpec == Spec /\ WF_vars(Program)

-----------------------------------------------------------------------------
StageStatuses == {"succeeded", "failed", "timed_out", "cancelled", "skipped"}
ItemStatuses == {"succeeded", "failed", "timed_out", "cancelled"}

TypeOK ==
  /\ strategy \in Strategies
  /\ phase \in {"starting", "working", "collecting", "publishing", "returned", "thrown"}
  /\ parent \in {"none", "user", "timeout"}
  /\ signal \in {"none", "fail-fast", "user", "timeout"}
  /\ pc \in [Items -> {"ready", "atItem", "granted", "atStage", "entering", "running",
                       "saving", "concluding", "finishing", "done", "lost"}]
  /\ outcome \in [Items -> StageStatuses \cup {"none"}]
  /\ \A i \in Items : results[i] \in Seq(StageStatuses) /\ Len(results[i]) <= StageCount
  /\ status \in [Items -> ItemStatuses \cup {"active"}]
  /\ active \in [Limiters -> 0..ItemCount]
  /\ queue \in [Limiters -> Seq(Items)]
  /\ order \in Seq(Items) /\ Len(order) <= ItemCount
  /\ crashed \in BOOLEAN
  /\ verdict \in {"none", "succeeded", "failed", "cancelled"}
  /\ answer \in Seq(Items)

AtWork(s) == {i \in Items : pc[i] \in {"entering", "running", "saving"} /\ Stage(i) = s}
InPipeline == {i \in Items : pc[i] \in {"granted", "atStage", "entering", "running",
                                        "saving", "concluding", "finishing"}}

(* No stage is run by more items than any of its limits allows, and no     *)
(* more items are under way than options.concurrency.  The counters are    *)
(* exact through skips, failures, aborts and failing writes, and an item   *)
(* waits only while every slot is taken.                                   *)
LimitsHold ==
  /\ active[0] = Cardinality(InPipeline)
  /\ Concurrency # 0 => Cardinality(InPipeline) <= Concurrency
  /\ \A s \in Stages :
       /\ active[s] = Cardinality(AtWork(s))
       /\ \A n \in {StageConcurrency[s], Concurrency, StageOption[s]} \ {0} :
            Cardinality(AtWork(s)) <= n
  /\ \A l \in Limiters : queue[l] # <<>> => active[l] = Limit(l)
  /\ \A l \in Limiters : ToSet(queue[l]) =
       IF l = 0 THEN {i \in Items : pc[i] = "atItem"}
       ELSE {i \in Items : pc[i] = "atStage" /\ Stage(i) = l}

(* The stages of an item: some succeeded, then one at most that did not    *)
(* succeed, and the others were skipped.                                   *)
WellFormed(statuses) ==
  \E k \in 0..Len(statuses) :
    /\ \A n \in 1..k : statuses[n] = "succeeded"
    /\ k < Len(statuses) => statuses[k + 1] # "succeeded"
    /\ \A n \in k+2..Len(statuses) : statuses[n] = "skipped"

(* When a stage has failed for good, with failFast, no other is at work    *)
(* and none begins, wherever the other items are.                          *)
FailureStopsAll ==
  FailFast /\ Some({"failed", "timed_out"}) =>
    /\ signal # "none"
    /\ \A i \in Items : pc[i] # "running"

(* No item is lost and none runs ahead: a pipeline that returns has one    *)
(* result for every item, in the order it promised, each with one status   *)
(* for every stage, and it succeeded if all of them did; stage by stage,   *)
(* no item runs a stage that another eligible item has not come to; and    *)
(* with failFast nothing goes on after a failure.                          *)
ItemsFlow ==
  /\ TypeOK
  /\ FailureStopsAll
  /\ \A i \in Items : WellFormed(results[i])
  /\ phase = "returned" =>
       /\ ToSet(answer) = Items /\ Len(answer) = ItemCount
       /\ PreserveOrder => \A i \in Items : answer[i] = i
       /\ \A i \in Items :
            /\ pc[i] = "done" /\ Len(results[i]) = StageCount
            /\ status[i] = "succeeded" <=> ToSet(results[i]) = {"succeeded"}
       /\ verdict = "succeeded" => \A i \in Items : status[i] = "succeeded"
       /\ verdict = "failed" => \A i \in Items : status[i] # "cancelled"
       /\ verdict = "cancelled" => signal # "none"
  /\ ~Streaming => \A i, j \in Items :
       pc[i] = "running" => Len(results[j]) >= Len(results[i]) \/ status[j] # "active"

(* An aborted pipeline ends, although its functions ignore the signal, and *)
(* although items wait for the slots of others.                            *)
AbortEndsPipeline ==
  signal # "none" ~> phase \in {"returned", "thrown"}
=============================================================================
