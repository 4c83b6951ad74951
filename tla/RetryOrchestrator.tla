------------------------- MODULE RetryOrchestrator -------------------------
(***************************************************************************)
(* RetryOrchestrator.execute (src/agents/retry-orchestrator.ts): runs one  *)
(* logical agent call as a series of attempts.  Several calls run at once  *)
(* and share the scheduler, seen here as the TaskPool that Scheduler       *)
(* implements, and the RunLimitTracker (src/workflow/run-limits.ts).       *)
(*                                                                         *)
(* Every await of the loop is a boundary between two actions: a call may   *)
(* be cancelled, another call may fail fast and the run may be aborted at  *)
(* each of them.                                                           *)
(***************************************************************************)
EXTENDS Naturals, Sequences, FiniteSets

CONSTANTS
  Agents,        (* logical agent calls, with unique ids                     *)
  MaxAttempts,   (* policy.maxAttempts, or 1 when retry is disabled          *)
  DisableDelay,  (* policy.disableDelay                                      *)
  MaxAgentCalls, (* the run limit                                            *)
  Concurrency,   (* slots of the scheduler                                   *)
  FailFast,      (* input.failFast                                           *)
  Results        (* what an attempt's execution may return                   *)

ASSUME RetryAssumption ==
  /\ MaxAttempts \in Nat \ {0}
  /\ MaxAgentCalls \in Nat \ {0}
  /\ Concurrency \in Nat \ {0}
  /\ DisableDelay \in BOOLEAN /\ FailFast \in BOOLEAN

(* AgentStatus (agents/types.ts).                                          *)
ASSUME ResultsAssumption ==
  \A r \in Results :
    r.status \in {"succeeded", "failed", "timed_out", "cancelled", "skipped"}

Attempts == Agents \X (1..MaxAttempts)

VARIABLES
  phase, closed, (* the scheduler, see TaskPool                              *)
  result,        (* what the schedule() promise of an attempt resolved to    *)
  signalled,     (* attempts whose scheduler signal is aborted               *)
  userAbort,     (* somebody else called scheduler.abort()                   *)
  cancelled,     (* calls whose input.signal is aborted                      *)
  pc,            (* where each call stands in execute()                      *)
  num,           (* attemptNum                                               *)
  attemptsStarted, attempts,
  final,         (* finalStatus                                              *)
  exhausted,
  terminal,      (* the logical terminal event of each call                  *)
  agentCalls     (* RunLimitTracker.agentCalls                               *)

poolVars == <<phase, closed>>
callVars == <<pc, num, attemptsStarted, attempts, final, exhausted, terminal>>
vars == <<poolVars, result, signalled, userAbort, cancelled, callVars,
          agentCalls>>

Pool == INSTANCE TaskPool WITH Tasks <- Attempts, Limit <- Concurrency

-----------------------------------------------------------------------------
(* classifyAttemptFailure: an error code or an error name decides, then    *)
(* the status, then the exit code.  The codes of one reason are treated    *)
(* alike; one or two stand for each row of the map.                        *)
CodesOf ==
  [ run_limit_exceeded        |-> {"RUN_LIMIT_EXCEEDED"},
    security_policy_violation |-> {"SECURITY_POLICY_VIOLATION"},
    cancelled                 |-> {"USER_CANCELLED", "WORKFLOW_CANCELLED"},
    timed_out                 |-> {"PROCESS_TIMEOUT", "WORKFLOW_TIMEOUT"},
    invalid_configuration     |-> {"MODEL_NOT_SUPPORTED", "RETRY_INVALID_POLICY"},
    invalid_workflow          |-> {"WORKFLOW_INVALID_CALL"},
    schema_validation_failed  |-> {"SCHEMA_VALIDATION_FAILED", "ValidationError"},
    malformed_output          |-> {"PARSE_ERROR", "ParseError"},
    provider_error            |-> {"PROVIDER_UNAVAILABLE", "PROVIDER_PROCESS_FAILED"},
    process_error             |-> {"PROCESS_SPAWN_FAILED", "PROCESS_ERROR"} ]

Mapped(word) == {k \in DOMAIN CodesOf : word \in CodesOf[k]}

StatusReason(r) ==
  CASE r.status = "timed_out" -> "timed_out"
    [] r.status \in {"cancelled", "skipped"} -> "cancelled"
    [] r.status = "failed" /\ r.nonzeroExit -> "provider_error"
    [] OTHER -> "unknown"

Reason(r) ==
  IF Mapped(r.code) # {} THEN CHOOSE k \in Mapped(r.code) : TRUE
  ELSE IF Mapped(r.name) # {} THEN CHOOSE k \in Mapped(r.name) : TRUE
  ELSE StatusReason(r)

Retryable(r) ==
  r.status # "succeeded" /\ Reason(r) \in
    {"schema_validation_failed", "malformed_output", "provider_error", "process_error"}

(* What the scheduler resolves a task with that it never started.          *)
SkippedResult ==
  [status |-> "skipped", code |-> "TASK_SKIPPED", name |-> "AgentTaskSkipped",
   nonzeroExit |-> FALSE]

NoResult ==
  [status |-> "none", code |-> "none", name |-> "none", nonzeroExit |-> FALSE]

-----------------------------------------------------------------------------
Init ==
  /\ Pool!PoolInit
  /\ result = [t \in Attempts |-> NoResult]
  /\ signalled = {}
  /\ userAbort = FALSE
  /\ cancelled = {}
  /\ pc = [a \in Agents |-> "idle"]
  /\ num = [a \in Agents |-> 1]
  /\ attemptsStarted = [a \in Agents |-> 0]
  /\ attempts = [a \in Agents |-> <<>>]
  /\ final = [a \in Agents |-> "none"]
  /\ exhausted = [a \in Agents |-> FALSE]
  /\ terminal = [a \in Agents |-> "none"]
  /\ agentCalls = 0

Goto(a, label) == pc' = [pc EXCEPT ![a] = label]
Summary(status, retryable) == [status |-> status, retryable |-> retryable]
Record(a, summary) == attempts' = [attempts EXCEPT ![a] = Append(@, summary)]
Conclude(a, status, isExhausted) ==
  /\ Goto(a, "finalize")
  /\ final' = [final EXCEPT ![a] = status]
  /\ exhausted' = [exhausted EXCEPT ![a] = isExhausted]

(* execute() emits agent.started and enters the loop.                      *)
Start(a) ==
  /\ pc[a] = "idle"
  /\ Goto(a, "top")
  /\ UNCHANGED <<poolVars, result, signalled, userAbort, cancelled, num,
                 attemptsStarted, attempts, final, exhausted, terminal, agentCalls>>

(* The check at the top of the loop.                                       *)
StopsIgnored(a) == FALSE
Stops(a) == a \in cancelled

(* The top of the loop: a cancelled call stops without another attempt.    *)
TopCancelled(a) ==
  /\ pc[a] = "top" /\ Stops(a)
  /\ Conclude(a, "cancelled", FALSE)
  /\ UNCHANGED <<poolVars, result, signalled, userAbort, cancelled, num,
                 attemptsStarted, attempts, terminal, agentCalls>>

(* beforeAgentSchedule(): the attempt counts as started and is refused.    *)
LimitReached == agentCalls >= MaxAgentCalls

TopRefused(a) ==
  /\ pc[a] = "top" /\ ~Stops(a)
  /\ LimitReached
  /\ attemptsStarted' = [attemptsStarted EXCEPT ![a] = @ + 1]
  /\ Record(a, Summary("failed", FALSE))
  /\ Conclude(a, "failed", num[a] = MaxAttempts)
  /\ UNCHANGED <<poolVars, result, signalled, userAbort, cancelled, num,
                 terminal, agentCalls>>

(* beforeAgentSchedule() counts every attempt, retries included.           *)
CountFirstOnly(a) == agentCalls + (IF num[a] = 1 THEN 1 ELSE 0)
Count(a) == agentCalls + 1

(* The attempt is counted, then agent.attempt.started is emitted.          *)
TopAnnounced(a) ==
  /\ pc[a] = "top" /\ ~Stops(a)
  /\ ~LimitReached
  /\ attemptsStarted' = [attemptsStarted EXCEPT ![a] = @ + 1]
  /\ agentCalls' = Count(a)
  /\ Goto(a, "announced")
  /\ UNCHANGED <<poolVars, result, signalled, userAbort, cancelled, num,
                 attempts, final, exhausted, terminal>>

(* After that await, schedule() is called without another look at the      *)
(* signal.                                                                 *)
Submit(a) ==
  LET t == <<a, num[a]>> IN
  /\ pc[a] = "announced"
  /\ Pool!Submit(t)
  /\ result' = IF closed THEN [result EXCEPT ![t] = SkippedResult] ELSE result
  /\ Goto(a, "waiting")
  /\ UNCHANGED <<signalled, userAbort, cancelled, num, attemptsStarted,
                 attempts, final, exhausted, terminal, agentCalls>>

(* The scheduler starts an attempt; the executor ends it, with any result. *)
AttemptBegins(t) ==
  /\ Pool!Begin(t)
  /\ UNCHANGED <<result, signalled, userAbort, cancelled, callVars, agentCalls>>

AttemptEnds(t) ==
  /\ Pool!Finish(t)
  /\ \E r \in Results : result' = [result EXCEPT ![t] = r]
  /\ UNCHANGED <<signalled, userAbort, cancelled, callVars, agentCalls>>

(* scheduler.abort(): what waits is skipped, what runs is signalled.       *)
AbortScheduler ==
  /\ Pool!Close({})
  /\ result' = [t \in Attempts |-> IF phase[t] = "waiting" THEN SkippedResult
                                   ELSE result[t]]
  /\ signalled' = signalled \cup Pool!Active

UserAborts ==
  /\ AbortScheduler
  /\ userAbort' = TRUE
  /\ UNCHANGED <<cancelled, callVars, agentCalls>>

(* input.signal is aborted: by the enclosing invocation, loop or stage.    *)
Cancel(a) ==
  /\ a \notin cancelled /\ pc[a] # "done"
  /\ cancelled' = cancelled \cup {a}
  /\ UNCHANGED <<poolVars, result, signalled, userAbort, callVars, agentCalls>>

(* The awaited result is classified; agent.attempt.completed or            *)
(* agent.attempt.failed is emitted.                                        *)
Settled(a) == pc[a] = "waiting" /\ phase[<<a, num[a]>>] = "done"

IsOk(a) == result[<<a, num[a]>>].status = "succeeded"

AttemptSucceeded(a) ==
  /\ Settled(a) /\ IsOk(a)
  /\ Record(a, Summary("succeeded", FALSE))
  /\ Conclude(a, "succeeded", FALSE)
  /\ UNCHANGED <<poolVars, result, signalled, userAbort, cancelled, num,
                 attemptsStarted, terminal, agentCalls>>

AttemptFailed(a) ==
  /\ Settled(a) /\ ~IsOk(a)
  /\ Goto(a, "failed")
  /\ UNCHANGED <<poolVars, result, signalled, userAbort, cancelled, num,
                 attemptsStarted, attempts, final, exhausted, terminal, agentCalls>>

(* Then the signal is looked at, and the failure is retried, with an event *)
(* that announces the delay, or ends the call.                             *)
FailedCancelled(a) ==
  /\ pc[a] = "failed" /\ a \in cancelled
  /\ Record(a, Summary("cancelled", Retryable(result[<<a, num[a]>>])))
  /\ Conclude(a, "cancelled", FALSE)
  /\ UNCHANGED <<poolVars, result, signalled, userAbort, cancelled, num,
                 attemptsStarted, terminal, agentCalls>>

CanRetry(a) == Retryable(result[<<a, num[a]>>]) /\ num[a] < MaxAttempts

FailedRetried(a) ==
  /\ pc[a] = "failed" /\ a \notin cancelled
  /\ CanRetry(a)
  /\ Goto(a, "delay")
  /\ UNCHANGED <<poolVars, result, signalled, userAbort, cancelled, num,
                 attemptsStarted, attempts, final, exhausted, terminal, agentCalls>>

FailedForGood(a) ==
  LET r == result[<<a, num[a]>>] IN
  /\ pc[a] = "failed" /\ a \notin cancelled
  /\ ~CanRetry(a)
  /\ Record(a, Summary(r.status, Retryable(r)))
  /\ Conclude(a, r.status, TRUE)
  /\ UNCHANGED <<poolVars, result, signalled, userAbort, cancelled, num,
                 attemptsStarted, terminal, agentCalls>>

(* sleepRetryDelay(): only a real sleep notices the signal.  A retried     *)
(* attempt is written down before the next one starts.                     *)
DelayOver(a) ==
  LET r == result[<<a, num[a]>>] IN
  /\ pc[a] = "delay"
  /\ DisableDelay \/ a \notin cancelled
  /\ Record(a, Summary(r.status, Retryable(r)))
  /\ num' = [num EXCEPT ![a] = @ + 1]
  /\ Goto(a, "top")
  /\ UNCHANGED <<poolVars, result, signalled, userAbort, cancelled,
                 attemptsStarted, final, exhausted, terminal, agentCalls>>

SleepRejects(a) == ~DisableDelay /\ a \in cancelled

DelayAborted(a) ==
  /\ pc[a] = "delay"
  /\ SleepRejects(a)
  /\ Record(a, Summary("cancelled", Retryable(result[<<a, num[a]>>])))
  /\ Conclude(a, "cancelled", FALSE)
  /\ UNCHANGED <<poolVars, result, signalled, userAbort, cancelled, num,
                 attemptsStarted, terminal, agentCalls>>

(* isRetryableExhaustion: agent.retry.exhausted and error RETRY_EXHAUSTED. *)
LastAttempt(a) == attempts[a][Len(attempts[a])]
RetryExhausted(a) ==
  /\ exhausted[a]
  /\ attempts[a] # <<>>
  /\ LastAttempt(a).retryable

(* The summary and the result are written, the terminal event is emitted.  *)
Report(a) ==
  /\ pc[a] = "finalize"
  /\ terminal' = [terminal EXCEPT ![a] = final[a]]
  /\ Goto(a, "reported")
  /\ UNCHANGED <<poolVars, result, signalled, userAbort, cancelled, num,
                 attemptsStarted, attempts, final, exhausted, agentCalls>>

(* A logical failure aborts the scheduler only now.                        *)
TriggersFailFast(a) == final[a] # "succeeded" /\ FailFast

Return(a) ==
  /\ pc[a] = "reported"
  /\ IF TriggersFailFast(a) /\ ~closed
     THEN AbortScheduler
     ELSE UNCHANGED <<poolVars, result, signalled>>
  /\ Goto(a, "done")
  /\ UNCHANGED <<userAbort, cancelled, num, attemptsStarted, attempts, final,
                 exhausted, terminal, agentCalls>>

-----------------------------------------------------------------------------
Call(a) ==
  \/ Start(a)
  \/ TopCancelled(a) \/ TopRefused(a) \/ TopAnnounced(a)
  \/ Submit(a)
  \/ AttemptSucceeded(a) \/ AttemptFailed(a)
  \/ FailedCancelled(a) \/ FailedRetried(a) \/ FailedForGood(a)
  \/ DelayOver(a) \/ DelayAborted(a)
  \/ Report(a) \/ Return(a)

Next ==
  \/ \E a \in Agents : Call(a) \/ Cancel(a)
  \/ \E t \in Attempts : AttemptBegins(t) \/ AttemptEnds(t)
  \/ UserAborts

Spec == Init /\ [][Next]_vars

-----------------------------------------------------------------------------
FinalStatuses == {"succeeded", "failed", "timed_out", "cancelled", "skipped"}

TypeOK ==
  /\ phase \in [Attempts -> {"new", "waiting", "active", "done"}]
  /\ closed \in BOOLEAN /\ userAbort \in BOOLEAN
  /\ result \in [Attempts -> Results \cup {NoResult, SkippedResult}]
  /\ signalled \subseteq Attempts
  /\ cancelled \subseteq Agents
  /\ pc \in [Agents -> {"idle", "top", "announced", "waiting", "failed",
                        "delay", "finalize", "reported", "done"}]
  /\ num \in [Agents -> 1..MaxAttempts]
  /\ attemptsStarted \in [Agents -> 0..MaxAttempts]
  /\ attempts \in [Agents -> Seq([status : FinalStatuses, retryable : BOOLEAN])]
  /\ final \in [Agents -> FinalStatuses \cup {"none"}]
  /\ exhausted \in [Agents -> BOOLEAN]
  /\ terminal \in [Agents -> FinalStatuses \cup {"none"}]
  /\ agentCalls \in 0..MaxAgentCalls

(* What a call reports is what happened.  It succeeded exactly when one of *)
(* its attempts did: no success is lost to a cancellation or to a retry.   *)
(* retry-summary.json lists every attempt that was counted, in order, with *)
(* the status it had; only the last may have been turned into a            *)
(* cancellation or refused by the run limit.  agent.retry.exhausted means  *)
(* that every attempt was made and the last failure could be retried.      *)
(* No variable leaves its type.                                            *)
OutcomeIsTrue ==
  /\ TypeOK
  /\ \A a \in Agents : pc[a] \in {"finalize", "reported", "done"} =>
       /\ final[a] = "succeeded" <=>
            \E n \in 1..MaxAttempts : result[<<a, n>>].status = "succeeded"
       /\ Len(attempts[a]) = attemptsStarted[a]
       /\ \A i \in 1..Len(attempts[a]) :
            \/ attempts[a][i].status = result[<<a, i>>].status
            \/ /\ i = Len(attempts[a])
               /\ \/ attempts[a][i].status = "cancelled" /\ a \in cancelled
                  \/ attempts[a][i].status = "failed" /\ phase[<<a, i>>] = "new"
       /\ RetryExhausted(a) =>
            attemptsStarted[a] = MaxAttempts /\ Retryable(result[<<a, MaxAttempts>>])

(* An attempt is counted only if every attempt before it ended with a      *)
(* retryable failure and the call was not cancelled, wherever in the loop  *)
(* the cancellation found it.                                              *)
AttemptsAreJustified ==
  [][\A a \in Agents : attemptsStarted'[a] # attemptsStarted[a] =>
       /\ a \notin cancelled
       /\ \A n \in 1..attemptsStarted[a] :
            phase[<<a, n>>] = "done" /\ Retryable(result[<<a, n>>])]_vars

(* Stated by the docs of workflow(): what is cancelled takes everything    *)
(* below it along, so the running attempt of a cancelled call is told.     *)
CancelReachesAttempt ==
  \A t \in Pool!Active : t[1] \in cancelled => t \in signalled
=============================================================================
