----------------------------- MODULE AgentCalls -----------------------------
(* agent(), from the choice of its provider to the result the script gets  *)
(* (runDirectAgent in src/workflow/dsl.ts).  A call is refused for what it *)
(* selects, replayed from the previous run, or executed: by the retry      *)
(* orchestrator, or, when it does not retry, as one task of the scheduler. *)
(* Both ways share the run limit, the permits of the invocation, the slots *)
(* of the scheduler and the list of results.                               *)
(*                                                                         *)
(* Permits are those of one invocation, and which waiting call gets one is *)
(* left open: the queue and the limits around it are in Invocations.       *)
(* Whether a call is replayed is left open too; CallCache decides it.      *)
(* An operator that no other definition uses is a variant of the one after *)
(* it, with one mistake in it; the run uses it to test the properties.     *)
EXTENDS RetryOrchestrator

CONSTANT Budgets  \* concurrency limits that the invocation may have

ASSUME BudgetsAssumption == Budgets \subseteq Nat \ {0}

VARIABLES
  way,      \* how a call is dealt with
  at,       \* the await its runDirectAgent() stands at
  budget,   \* the concurrency limit of the invocation
  free,     \* permits that nobody holds
  results   \* runtime.agentResults, as <<call, status>>

frontVars == <<way, at, budget, free, results>>
callsVars == <<vars, frontVars>>

FrontInit ==
  /\ Init
  /\ way = [a \in Agents |-> "none"]
  /\ at = [a \in Agents |-> "idle"]
  /\ budget \in Budgets /\ free = budget
  /\ results = <<>>

Proceed(a, await) == at' = [at EXCEPT ![a] = await]
List(a, status) == results' = Append(results, <<a, status>>)

-----------------------------------------------------------------------------
(* A selection that throws is written down as a failed call, listed, and   *)
(* thrown; any other may have to wait for the events that explain it.      *)
Select(a, w) ==
  /\ at[a] = "idle"
  /\ way' = [way EXCEPT ![a] = w]
  /\ Proceed(a, IF w = "refused" THEN "listing" ELSE "resolving")
  /\ UNCHANGED <<vars, budget, free, results>>

(* The result of a refused or a replayed call has been written.            *)
Listed(a) ==
  /\ at[a] = "listing"
  /\ List(a, IF way[a] = "refused" THEN "failed" ELSE "succeeded")
  /\ Proceed(a, IF way[a] = "refused" THEN "done" ELSE "recording")
  /\ UNCHANGED <<vars, way, budget, free>>

(* Such a write may fail, which rejects agent() without a result.          *)
NotListed(a) ==
  /\ at[a] = "listing"
  /\ Proceed(a, "done")
  /\ UNCHANGED <<vars, way, budget, free, results>>

Replayed(a) ==
  /\ at[a] = "resolving" /\ way[a] = "replay"
  /\ Proceed(a, "listing")
  /\ UNCHANGED <<vars, way, budget, free, results>>

-----------------------------------------------------------------------------
(* The only attempt of a call without retry is counted before it waits for *)
(* a permit, and a call beyond the limit is thrown without a result.       *)
ToRetry(a) ==
  /\ at[a] = "resolving" /\ way[a] = "retry"
  /\ Proceed(a, "acquiring")
  /\ UNCHANGED <<vars, way, budget, free, results>>

DirectCount(a) == agentCalls' = agentCalls + 1

DirectCounted(a) ==
  /\ at[a] = "resolving" /\ way[a] = "direct"
  /\ ~LimitReached
  /\ DirectCount(a)
  /\ Proceed(a, "acquiring")
  /\ UNCHANGED <<poolVars, result, signalled, userAbort, cancelled, callVars, way, budget, free,
                 results>>

DirectRefused(a) ==
  /\ at[a] = "resolving" /\ way[a] = "direct"
  /\ LimitReached
  /\ Proceed(a, "done")
  /\ UNCHANGED <<vars, way, budget, free, results>>

(* concurrencyBudget.acquire().  A permit covers all attempts of a call.   *)
Granted(a) ==
  /\ at[a] = "acquiring" /\ free > 0
  /\ free' = free - 1
  /\ Proceed(a, "executing")
  /\ UNCHANGED <<way, budget, results>>

AcquireForRetry(a) ==
  /\ way[a] = "retry"
  /\ Granted(a)
  /\ UNCHANGED vars

(* scheduler.schedule(), as soon as there is a permit.                     *)
AcquireForDirect(a) ==
  /\ way[a] = "direct"
  /\ Granted(a)
  /\ Pool!Submit(<<a, 1>>)
  /\ result' = IF closed THEN [result EXCEPT ![<<a, 1>>] = SkippedResult] ELSE result
  /\ UNCHANGED <<signalled, userAbort, cancelled, callVars, agentCalls>>

-----------------------------------------------------------------------------
(* The task combines the scheduler's signal with those of the invocation,  *)
(* the loop and the stage, also if one of them is aborted already.         *)
Told(a) == IF way[a] = "direct" THEN {<<a, 1>>} \cap Pool!Active ELSE {}

DirectBegins(a) ==
  /\ way[a] = "direct"
  /\ Pool!Begin(<<a, 1>>)
  /\ signalled' = IF a \in cancelled THEN signalled \cup {<<a, 1>>} ELSE signalled
  /\ UNCHANGED <<result, userAbort, cancelled, callVars, agentCalls, frontVars>>

(* The scheduler aborts the rest at once if a task without retry fails.    *)
FailedOnly(r) == r.status = "failed"
Failed(r) == r.status # "succeeded"

DirectEnds(a) ==
  LET t == <<a, 1>> IN
  /\ way[a] = "direct"
  /\ \E r \in Results :
       IF Failed(r) /\ FailFast /\ ~closed
       THEN /\ Pool!Close({t})
            /\ result' = [u \in Attempts |-> IF u = t THEN r
                            ELSE IF phase[u] = "waiting" THEN SkippedResult ELSE result[u]]
            /\ signalled' = signalled \cup (Pool!Active \ {t})
       ELSE /\ Pool!Finish(t)
            /\ result' = [result EXCEPT ![t] = r]
            /\ UNCHANGED signalled
  /\ UNCHANGED <<userAbort, cancelled, callVars, agentCalls, frontVars>>

RetryCall(a) ==
  /\ way[a] = "retry" /\ at[a] = "executing"
  /\ Call(a)
  /\ UNCHANGED frontVars

(* The attempts of the orchestrator defer fail-fast to its end.            *)
RetryBegins(a) ==
  /\ way[a] = "retry"
  /\ \E n \in 1..MaxAttempts : AttemptBegins(<<a, n>>)
  /\ UNCHANGED frontVars

RetryEnds(a) ==
  /\ way[a] = "retry"
  /\ \E n \in 1..MaxAttempts : AttemptEnds(<<a, n>>)
  /\ UNCHANGED frontVars

(* schedule() or execute() has resolved: the result is listed, then        *)
(* recorded in the cache.                                                  *)
Executed(a) ==
  /\ at[a] = "executing"
  /\ IF way[a] = "retry" THEN pc[a] = "done" /\ List(a, final[a])
     ELSE phase[<<a, 1>>] = "done" /\ List(a, result[<<a, 1>>].status)
  /\ Proceed(a, "recording")
  /\ UNCHANGED <<vars, way, budget, free>>

(* Whether or not it could be recorded, the finally block returns the      *)
(* permit.                                                                 *)
ReleasedNever(a) == 0
Released(a) == IF way[a] = "replay" THEN 0 ELSE 1

Recorded(a) ==
  /\ at[a] = "recording"
  /\ free' = free + Released(a)
  /\ Proceed(a, "done")
  /\ UNCHANGED <<vars, way, budget, results>>

-----------------------------------------------------------------------------
CancelCall(a) ==
  /\ at[a] # "done" /\ a \notin cancelled
  /\ cancelled' = cancelled \cup {a}
  /\ signalled' = signalled \cup Told(a)
  /\ UNCHANGED <<poolVars, result, userAbort, callVars, agentCalls, frontVars>>

RunAborts == UserAborts /\ UNCHANGED frontVars

Goes(a) ==
  \/ Listed(a) \/ NotListed(a) \/ Replayed(a) \/ ToRetry(a)
  \/ DirectCounted(a) \/ DirectRefused(a)
  \/ Executed(a) \/ Recorded(a) \/ RetryCall(a)
Acquires(a) == AcquireForRetry(a) \/ AcquireForDirect(a)
Begins(a) == DirectBegins(a) \/ RetryBegins(a)
Ends(a) == DirectEnds(a) \/ RetryEnds(a)

Program == \E a \in Agents : Goes(a) \/ Acquires(a) \/ Begins(a) \/ Ends(a)

FrontNext ==
  \/ Program
  \/ \E a \in Agents :
       \/ \E w \in {"refused", "replay", "retry", "direct"} : Select(a, w)
       \/ CancelCall(a)
  \/ RunAborts

(* A promise chain runs on; what is first in a queue of Invocations or of  *)
(* Scheduler gets the permit or slot that is free; an attempt has a        *)
(* timeout.  Each call has finitely many steps, so nothing needs strong    *)
(* fairness.  Nobody has to call, to cancel or to abort.                   *)
FrontSpec == FrontInit /\ [][FrontNext]_callsVars /\ WF_callsVars(Program)

-----------------------------------------------------------------------------
FrontTypeOK ==
  /\ way \in [Agents -> {"none", "refused", "replay", "retry", "direct"}]
  /\ at \in [Agents -> {"idle", "listing", "resolving", "acquiring", "executing",
                        "recording", "done"}]
  /\ budget \in Budgets /\ free \in 0..budget
  /\ results \in Seq(Agents \X FinalStatuses)

Executes(a) == way[a] \in {"retry", "direct"}

(* The run limit counts every attempt that was handed to the scheduler,    *)
(* retries and calls without retry alike, and those about to be, which may *)
(* wait for an event or for a permit; so no more than MaxAgentCalls ever   *)
(* reach it, however the calls interleave.  A permit is held from before   *)
(* the first attempt of a call until its result is recorded, and none is   *)
(* lost: neither by a failure, nor by a cancellation while it is waited    *)
(* for.                                                                    *)
SharedLimitsExact ==
  LET handedOver == Cardinality({t \in Attempts : phase[t] # "new"})
      about == {a \in Agents : pc[a] = "announced"}
               \cup {a \in Agents : way[a] = "direct" /\ at[a] = "acquiring"}
  IN /\ agentCalls = handedOver + Cardinality(about)
     /\ handedOver <= MaxAgentCalls
     /\ free = budget - Cardinality({a \in Agents :
                           Executes(a) /\ at[a] \in {"executing", "recording"}})

(* What became of an executed call.                                        *)
Ended(a) == IF way[a] = "retry" THEN pc[a] = "done"
            ELSE way[a] = "direct" /\ phase[<<a, 1>>] = "done"
Outcome(a) == IF way[a] = "retry" THEN final[a] ELSE result[<<a, 1>>].status

(* With fail-fast, the scheduler is closed once a call has failed, and     *)
(* only then: a failing attempt that may be retried stops nobody.          *)
FailFastOnLogicalFailure ==
  LET failed == {a \in Agents : Ended(a) /\ Outcome(a) # "succeeded" /\ FailFast}
  IN (closed /\ ~userAbort => failed # {}) /\ (failed # {} => closed)

(* runtime.agentResults has one entry for each call that is over, with the *)
(* status it really had; only a call that was refused by the run limit, or *)
(* whose files could not be written, has none.                             *)
ResultsAreListed ==
  /\ \A i \in DOMAIN results :
       LET a == results[i][1]
       IN /\ \A j \in DOMAIN results : results[j][1] = a => i = j
          /\ at[a] \in {"recording", "done"}
          /\ Executes(a) => Ended(a) /\ results[i][2] = Outcome(a)
  /\ \A a \in Agents : at[a] \in {"recording", "done"} =>
       \/ \E i \in DOMAIN results : results[i][1] = a
       \/ way[a] = "direct" /\ phase[<<a, 1>>] = "new" /\ LimitReached
       \/ way[a] \in {"refused", "replay"}

(* What is said of a call is what happened: by its retry summary, by the   *)
(* list of results that the report of the run is made of, and by whether   *)
(* it stopped the others.  A call without retry that is cancelled, before  *)
(* or after its task began, is told; and no variable leaves its type.      *)
CallsTellTheTruth ==
  /\ OutcomeIsTrue /\ FrontTypeOK
  /\ ResultsAreListed
  /\ FailFastOnLogicalFailure
  /\ \A a \in cancelled : Told(a) \subseteq signalled

(* Every call ends.                                                        *)
EveryCallReturns == \A a \in Agents : at[a] = "resolving" ~> at[a] = "done"
=============================================================================
