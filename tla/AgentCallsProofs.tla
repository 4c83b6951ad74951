-------------------------- MODULE AgentCallsProofs --------------------------
(***************************************************************************)
(* Proofs about AgentCalls and the RetryOrchestrator it extends, for any   *)
(* number of calls, attempts, slots and permits; and, in the last two      *)
(* sections, about AgentProcess, which runs inside one attempt, and about  *)
(* the policy that a call retries under (RetryLayers).                     *)
(***************************************************************************)
EXTENDS AgentCalls, FiniteSetTheorems, TLAPS

Over == {"finalize", "reported", "done"}
Before == {"idle", "top"}
Attempting == {"announced", "waiting", "failed", "delay"}

Current(a) == <<a, num[a]>>

-----------------------------------------------------------------------------
(* The inductive invariant.  A result belongs to an attempt that is over.  *)
Settlement ==
  \A t \in Attempts :
    IF phase[t] = "done" THEN result[t].status \in FinalStatuses
                         ELSE result[t] = NoResult

(* Where the script stands with a call, and what that says of its retries  *)
(* and of its only attempt.                                                *)
Routed(a) ==
  /\ at[a] = "idle" <=> way[a] = "none"
  /\ at[a] = "listing" => way[a] \in {"refused", "replay"}
  /\ at[a] \in {"acquiring", "executing"} => way[a] \in {"retry", "direct"}
  /\ at[a] \in {"resolving", "recording"} => way[a] \in {"replay", "retry", "direct"}
  /\ pc[a] # "idle" => way[a] = "retry" /\ at[a] \in {"executing", "recording", "done"}
  /\ way[a] = "retry" /\ at[a] \in {"recording", "done"} => pc[a] = "done"

Single(a) ==
  /\ at[a] = "executing" => phase[<<a, 1>>] # "new"
  /\ at[a] = "recording" => phase[<<a, 1>>] = "done"
  /\ at[a] = "done" =>
       \/ phase[<<a, 1>>] = "done"
       \/ phase[<<a, 1>>] = "new" /\ LimitReached
  /\ at[a] \in {"idle", "resolving", "acquiring"} => phase[<<a, 1>>] = "new"

(* How far the loop of execute() is: the attempts before the current one   *)
(* failed and could be retried, those after it do not exist.               *)
Looping(a) ==
  /\ \A n \in 1..MaxAttempts :
       /\ n < num[a] => phase[<<a, n>>] = "done" /\ Retryable(result[<<a, n>>])
       /\ n > num[a] => phase[<<a, n>>] = "new"
  /\ pc[a] = "idle" => num[a] = 1
  /\ pc[a] \in {"idle", "top", "announced"} /\ way[a] # "direct" =>
       phase[Current(a)] = "new"
  /\ pc[a] = "waiting" => phase[Current(a)] # "new"
  /\ pc[a] \in {"failed", "delay"} =>
       phase[Current(a)] = "done" /\ result[Current(a)].status # "succeeded"
  /\ pc[a] = "delay" => CanRetry(a)
  /\ pc[a] \in Over => phase[Current(a)] \in {"new", "done"}

(* What execute() has written down.                                        *)
Written(a) ==
  /\ pc[a] \in Before => attemptsStarted[a] = num[a] - 1
  /\ pc[a] \in Attempting => attemptsStarted[a] = num[a]
  /\ pc[a] \notin Over => Len(attempts[a]) = num[a] - 1
  /\ pc[a] \in Over => /\ attemptsStarted[a] = Len(attempts[a])
                       /\ Len(attempts[a]) \in {num[a] - 1, num[a]}
  /\ \A i \in 1..Len(attempts[a]) :
       i < num[a] => attempts[a][i].status = result[<<a, i>>].status

(* What it concluded.                                                      *)
Concluded(a) ==
  pc[a] \in Over =>
    /\ final[a] \in FinalStatuses
    /\ final[a] = "succeeded" <=> result[Current(a)].status = "succeeded"
    /\ Len(attempts[a]) = num[a] =>
         \/ LastAttempt(a).status = result[Current(a)].status
         \/ LastAttempt(a).status = "cancelled" /\ a \in cancelled
         \/ LastAttempt(a).status = "failed" /\ phase[Current(a)] = "new"
    /\ RetryExhausted(a) => /\ Len(attempts[a]) = num[a]
                            /\ num[a] = MaxAttempts
                            /\ Retryable(result[Current(a)])

CallOK(a) ==
  /\ Routed(a)
  /\ way[a] = "direct" => Single(a)
  /\ Looping(a) /\ Written(a) /\ Concluded(a)

(* The counters.                                                           *)
HandedOver == {t \in Attempts : phase[t] # "new"}
About == {a \in Agents : pc[a] = "announced"}
         \cup {a \in Agents : way[a] = "direct" /\ at[a] = "acquiring"}
Holders == {a \in Agents : Executes(a) /\ at[a] \in {"executing", "recording"}}

Counted ==
  /\ IsFiniteSet(HandedOver) /\ IsFiniteSet(About)
  /\ agentCalls = Cardinality(HandedOver) + Cardinality(About)
  /\ IsFiniteSet(Holders)
  /\ free = budget - Cardinality(Holders)

(* A call that was told to stop, and the calls that stop the others.       *)
Cancelled == \A a \in cancelled : Told(a) \subseteq signalled

IInv ==
  /\ TypeOK /\ FrontTypeOK
  /\ Settlement
  /\ \A a \in Agents : CallOK(a)
  /\ Counted
  /\ ResultsAreListed /\ FailFastOnLogicalFailure /\ Cancelled

-----------------------------------------------------------------------------
(* What a step does to an attempt and to the calls it is not about.        *)
Kept(t) == phase'[t] = phase[t] /\ result'[t] = result[t]

Ahead(t) ==
  \/ Kept(t)
  \/ /\ phase[t] \in {"waiting", "active"}
     /\ \/ phase'[t] = "active" /\ result'[t] = result[t]
        \/ phase'[t] = "done" /\ result'[t].status \in FinalStatuses

Submits(t) ==
  /\ phase[t] = "new"
  /\ \/ phase'[t] = "waiting" /\ ~closed /\ result'[t] = result[t]
     \/ phase'[t] = "done" /\ closed /\ result'[t] = SkippedResult

(* The orchestrator, and all of agent(), leave a call alone.               *)
LoopStays(a) ==
  /\ pc'[a] = pc[a] /\ num'[a] = num[a]
  /\ attemptsStarted'[a] = attemptsStarted[a] /\ attempts'[a] = attempts[a]
  /\ final'[a] = final[a] /\ exhausted'[a] = exhausted[a]

Stays(a) == LoopStays(a) /\ way'[a] = way[a] /\ at'[a] = at[a]

Grows ==
  /\ closed => closed'
  /\ userAbort => userAbort'
  /\ cancelled \subseteq cancelled'
  /\ agentCalls' \in Nat /\ agentCalls <= agentCalls'

LEMMA RetryableFacts ==
  /\ \A r : Retryable(r) \in BOOLEAN
  /\ \A r : Retryable(r) => r.status # "succeeded"
  BY DEF Retryable

LEMMA NoneFacts ==
  /\ NoResult.status = "none" /\ SkippedResult.status = "skipped"
  /\ SkippedResult.status \in FinalStatuses
  /\ "none" \notin FinalStatuses
  BY DEF NoResult, SkippedResult, FinalStatuses

LEMMA AttemptsOf ==
  /\ \A a \in Agents, n \in 1..MaxAttempts : <<a, n>> \in Attempts
  /\ \A t \in Attempts : t[1] \in Agents /\ t[2] \in 1..MaxAttempts /\ t = <<t[1], t[2]>>
  /\ MaxAttempts \in Nat /\ 1 \in 1..MaxAttempts
  BY RetryAssumption DEF Attempts

(* A call that a step leaves alone keeps its part of the invariant,        *)
(* whatever happens to its attempts in the scheduler.                      *)
LEMMA CallStays ==
  ASSUME IInv, NEW a \in Agents, Stays(a), Grows,
         \A n \in 1..MaxAttempts : Ahead(<<a, n>>)
  PROVE  CallOK(a)'
<1>1. /\ CallOK(a)
      /\ num[a] \in 1..MaxAttempts /\ MaxAttempts \in Nat
      /\ Len(attempts[a]) \in Nat
      /\ agentCalls \in Nat /\ MaxAgentCalls \in Nat
      /\ 1 \in 1..MaxAttempts
  BY RetryAssumption DEF IInv, TypeOK
<1>2. \A n \in 1..MaxAttempts : phase[<<a, n>>] \in {"new", "done"} => Kept(<<a, n>>)
  BY DEF Ahead
<1>3. \A n \in 1..MaxAttempts : phase[<<a, n>>] # "new" => phase'[<<a, n>>] # "new"
  BY DEF Ahead, Kept
<1>4. Routed(a)'
  BY <1>1 DEF CallOK, Routed, Stays, LoopStays
<1>5. way'[a] = "direct" => Single(a)'
  BY <1>1, <1>2, <1>3 DEF CallOK, Single, Stays, LoopStays, Grows, LimitReached, Kept
<1>6. Looping(a)'
  <2>1. /\ \A n \in 1..MaxAttempts :
             /\ n < num[a] => phase'[<<a, n>>] = "done" /\ Retryable(result'[<<a, n>>])
             /\ n > num[a] => phase'[<<a, n>>] = "new"
    BY <1>1, <1>2 DEF CallOK, Looping, Kept
  <2>2. pc[a] \in {"idle", "top", "announced"} /\ way[a] # "direct" =>
          phase'[<<a, num[a]>>] = "new"
    BY <1>1, <1>2 DEF CallOK, Looping, Kept, Current
  <2>3. pc[a] = "waiting" => phase'[<<a, num[a]>>] # "new"
    BY <1>1, <1>3 DEF CallOK, Looping, Current
  <2>4. /\ pc[a] \in {"failed", "delay"} =>
             phase'[<<a, num[a]>>] = "done" /\ result'[<<a, num[a]>>].status # "succeeded"
        /\ pc[a] = "delay" => Retryable(result'[<<a, num[a]>>]) /\ num[a] < MaxAttempts
        /\ pc[a] \in Over => phase'[<<a, num[a]>>] \in {"new", "done"}
    BY <1>1, <1>2 DEF CallOK, Looping, Kept, Current, CanRetry
  <2> QED
    BY <1>1, <2>1, <2>2, <2>3, <2>4
       DEF CallOK, Looping, Current, CanRetry, Stays, LoopStays
<1>7. Written(a)'
  <2>1. \A i \in 1..Len(attempts[a]) : i < num[a] =>
          attempts[a][i].status = result'[<<a, i>>].status
    <3> SUFFICES ASSUME NEW i \in 1..Len(attempts[a]), i < num[a]
                 PROVE  attempts[a][i].status = result'[<<a, i>>].status
      OBVIOUS
    <3>1. i \in 1..MaxAttempts
      BY <1>1
    <3>2. Kept(<<a, i>>)
      BY <1>1, <1>2, <3>1 DEF CallOK, Looping
    <3> QED BY <1>1, <3>2 DEF CallOK, Written, Kept
  <2> QED BY <1>1, <2>1 DEF CallOK, Written, Stays, LoopStays
<1>8. Concluded(a)'
  <2> SUFFICES ASSUME pc[a] \in Over PROVE Concluded(a)'
    BY DEF Concluded, Stays, LoopStays
  <2>1. phase'[<<a, num[a]>>] = phase[<<a, num[a]>>]
        /\ result'[<<a, num[a]>>] = result[<<a, num[a]>>]
    BY <1>1, <1>2 DEF CallOK, Looping, Kept, Current
  <2> QED
    BY <1>1, <2>1 DEF CallOK, Concluded, Current, LastAttempt, RetryExhausted,
                      Stays, LoopStays, Grows
<1> QED BY <1>4, <1>5, <1>6, <1>7, <1>8 DEF CallOK

(* What the scheduler does to the attempts.                                *)
LEMMA AbortAhead ==
  ASSUME IInv, AbortScheduler
  PROVE  /\ \A t \in Attempts : Ahead(t)
         /\ phase' \in [Attempts -> {"new", "waiting", "active", "done"}]
         /\ result' \in [Attempts -> Results \cup {NoResult, SkippedResult}]
         /\ signalled' \subseteq Attempts /\ signalled \subseteq signalled'
         /\ ~closed /\ closed' = TRUE
         /\ Settlement'
         /\ \A t \in Attempts : phase'[t] = "active" => phase[t] = "active"
<1> USE DEF AbortScheduler, Pool!Close, Pool!Active
<1>1. \A t \in Attempts : phase[t] # "waiting" => Kept(t)
  BY DEF Kept, IInv, TypeOK
<1>2. \A t \in Attempts : phase[t] = "waiting" =>
        phase'[t] = "done" /\ result'[t] = SkippedResult
  OBVIOUS
<1>3. \A t \in Attempts : Ahead(t)
  BY <1>1, <1>2, NoneFacts DEF Ahead
<1>4. Settlement'
  BY <1>1, <1>2, NoneFacts DEF IInv, Settlement, Kept
<1>5. /\ phase' \in [Attempts -> {"new", "waiting", "active", "done"}]
      /\ result' \in [Attempts -> Results \cup {NoResult, SkippedResult}]
      /\ signalled' \subseteq Attempts /\ signalled \subseteq signalled'
      /\ ~closed /\ closed' = TRUE
  BY DEF IInv, TypeOK
<1> QED BY <1>1, <1>2, <1>3, <1>4, <1>5 DEF Kept

LEMMA SubmitSubmits ==
  ASSUME IInv, NEW u \in Attempts, Pool!Submit(u),
         result' = IF closed THEN [result EXCEPT ![u] = SkippedResult] ELSE result
  PROVE  /\ Submits(u)
         /\ \A t \in Attempts \ {u} : Kept(t)
         /\ phase' \in [Attempts -> {"new", "waiting", "active", "done"}]
         /\ result' \in [Attempts -> Results \cup {NoResult, SkippedResult}]
         /\ closed' = closed
         /\ Settlement'
<1> USE DEF Pool!Submit
<1>1. phase \in [Attempts -> {"new", "waiting", "active", "done"}]
      /\ result \in [Attempts -> Results \cup {NoResult, SkippedResult}]
  BY DEF IInv, TypeOK
<1>2. Submits(u) /\ \A t \in Attempts \ {u} : Kept(t)
  BY <1>1 DEF Submits, Kept
<1>3. /\ phase' \in [Attempts -> {"new", "waiting", "active", "done"}]
      /\ result' \in [Attempts -> Results \cup {NoResult, SkippedResult}]
  BY <1>1
<1>4. Settlement'
  BY <1>2, NoneFacts DEF IInv, Settlement, Kept, Submits
<1> QED BY <1>2, <1>3, <1>4

LEMMA BeginAhead ==
  ASSUME IInv, NEW u \in Attempts, Pool!Begin(u), result' = result
  PROVE  /\ Ahead(u) /\ phase[u] = "waiting" /\ phase'[u] = "active"
         /\ \A t \in Attempts \ {u} : Kept(t)
         /\ phase' \in [Attempts -> {"new", "waiting", "active", "done"}]
         /\ closed' = closed
         /\ Settlement'
<1> USE DEF Pool!Begin
<1>1. phase \in [Attempts -> {"new", "waiting", "active", "done"}]
  BY DEF IInv, TypeOK
<1>2. Ahead(u) /\ phase'[u] = "active" /\ \A t \in Attempts \ {u} : Kept(t)
  BY <1>1 DEF Ahead, Kept
<1>3. Settlement'
  BY <1>1, <1>2 DEF IInv, Settlement
<1> QED BY <1>1, <1>2, <1>3

LEMMA FinishAhead ==
  ASSUME IInv, NEW u \in Attempts, Pool!Finish(u), NEW r \in Results,
         result' = [result EXCEPT ![u] = r]
  PROVE  /\ Ahead(u) /\ phase[u] = "active" /\ phase'[u] = "done" /\ result'[u] = r
         /\ \A t \in Attempts \ {u} : Kept(t)
         /\ phase' \in [Attempts -> {"new", "waiting", "active", "done"}]
         /\ result' \in [Attempts -> Results \cup {NoResult, SkippedResult}]
         /\ closed' = closed
         /\ Settlement'
<1> USE DEF Pool!Finish
<1>1. phase \in [Attempts -> {"new", "waiting", "active", "done"}]
      /\ result \in [Attempts -> Results \cup {NoResult, SkippedResult}]
  BY DEF IInv, TypeOK
<1>2. r.status \in FinalStatuses
  BY ResultsAssumption DEF FinalStatuses
<1>3. /\ phase'[u] = "done" /\ result'[u] = r /\ \A t \in Attempts \ {u} : Kept(t)
      /\ phase[u] = "active"
  BY <1>1 DEF Kept
<1>4. Ahead(u)
  BY <1>2, <1>3 DEF Ahead
<1>5. Settlement'
  BY <1>2, <1>3 DEF IInv, Settlement, Kept
<1> QED BY <1>1, <1>3, <1>4, <1>5

-----------------------------------------------------------------------------
(* The counters stay exact if a step submits nothing, and starts or ends   *)
(* no counting and no permit.                                              *)
LEMMA CountedStays ==
  ASSUME IInv, \A t \in Attempts : Ahead(t),
         phase' \in [Attempts -> {"new", "waiting", "active", "done"}],
         About' = About, Holders' = Holders,
         UNCHANGED <<agentCalls, free, budget>>
  PROVE  Counted'
<1>1. HandedOver' = HandedOver
  BY DEF HandedOver, Ahead, Kept
<1> QED BY <1>1 DEF IInv, Counted

(* Who has ended stays ended, with the same outcome.                       *)
LEMMA EndedStays ==
  ASSUME IInv, NEW a \in Agents,
         way'[a] = way[a], pc[a] = "done" => pc'[a] = "done" /\ final'[a] = final[a],
         Ahead(<<a, 1>>) \/ Submits(<<a, 1>>)
  PROVE  Ended(a) => Ended(a)' /\ Outcome(a)' = Outcome(a)
  BY DEF Ended, Outcome, Ahead, Submits, Kept

(* What the list of results says stays true if nothing is added to it and  *)
(* no call leaves or enters the list.                                      *)
LEMMA ListStays ==
  ASSUME IInv, results' = results, Grows,
         \A a \in Agents :
           /\ at[a] \in {"recording", "done"} <=> at'[a] \in {"recording", "done"}
           /\ at[a] # "idle" => way'[a] = way[a]
           /\ Ended(a) => Ended(a)' /\ Outcome(a)' = Outcome(a)
           /\ at[a] \in {"recording", "done"} /\ way[a] = "direct" /\ phase[<<a, 1>>] = "new"
                => phase'[<<a, 1>>] = "new"
  PROVE  ResultsAreListed'
<1>0. agentCalls \in Nat /\ MaxAgentCalls \in Nat
  BY RetryAssumption DEF IInv, TypeOK
<1>1. \A i \in DOMAIN results : results[i][1] \in Agents
  BY DEF IInv, FrontTypeOK
<1>2. ASSUME NEW i \in DOMAIN results, NEW a, a = results[i][1]
      PROVE  /\ \A j \in DOMAIN results : results[j][1] = a => i = j
             /\ at'[a] \in {"recording", "done"}
             /\ Executes(a)' => Ended(a)' /\ results[i][2] = Outcome(a)'
  <2>1. /\ a \in Agents
        /\ \A j \in DOMAIN results : results[j][1] = a => i = j
        /\ at[a] \in {"recording", "done"}
        /\ Executes(a) => Ended(a) /\ results[i][2] = Outcome(a)
    BY <1>1, <1>2 DEF IInv, ResultsAreListed
  <2> QED BY <2>1 DEF Executes
<1>3. ASSUME NEW a \in Agents, at'[a] \in {"recording", "done"}
      PROVE  \/ \E i \in DOMAIN results : results[i][1] = a
             \/ way'[a] = "direct" /\ phase'[<<a, 1>>] = "new" /\ LimitReached'
             \/ way'[a] \in {"refused", "replay"}
  <2>1. \/ \E i \in DOMAIN results : results[i][1] = a
        \/ way[a] = "direct" /\ phase[<<a, 1>>] = "new" /\ LimitReached
        \/ way[a] \in {"refused", "replay"}
    BY <1>3 DEF IInv, ResultsAreListed
  <2> QED BY <1>0, <1>3, <2>1 DEF Grows, LimitReached
<1> QED BY <1>2, <1>3 DEF ResultsAreListed

(* Fail-fast: a step that closes the scheduler is an abort from outside or *)
(* the end of a failed call, and no call ends as failed unless it closes.  *)
LEMMA FailFastStays ==
  ASSUME IInv, Grows,
         \A a \in Agents : Ended(a) => Ended(a)' /\ Outcome(a)' = Outcome(a),
         closed' /\ ~closed /\ ~userAbort' =>
           FailFast /\ \E a \in Agents : Ended(a)' /\ Outcome(a)' # "succeeded",
         \A a \in Agents : Ended(a)' /\ ~Ended(a) =>
           Outcome(a)' = "succeeded" \/ closed' \/ ~FailFast
  PROVE  FailFastOnLogicalFailure'
<1>1. /\ closed /\ ~userAbort => \E a \in Agents : Ended(a) /\ Outcome(a) # "succeeded" /\ FailFast
      /\ \A a \in Agents : Ended(a) /\ Outcome(a) # "succeeded" /\ FailFast => closed
  BY DEF IInv, FailFastOnLogicalFailure
<1>2. closed' /\ ~userAbort' =>
        \E a \in Agents : Ended(a)' /\ Outcome(a)' # "succeeded" /\ FailFast
  BY <1>1 DEF Grows
<1>3. \A a \in Agents : Ended(a)' /\ Outcome(a)' # "succeeded" /\ FailFast => closed'
  BY <1>1 DEF Grows
<1> QED BY <1>2, <1>3 DEF FailFastOnLogicalFailure

-----------------------------------------------------------------------------
(* A step of the loop of execute() that does not reach the scheduler and   *)
(* counts nothing changes one call; the rest of the invariant follows.     *)
LEMMA LoopOnly ==
  ASSUME IInv, NEW a \in Agents, way[a] = "retry", at[a] = "executing",
         UNCHANGED <<poolVars, result, signalled, userAbort, cancelled, agentCalls, frontVars>>,
         \A b \in Agents \ {a} : LoopStays(b),
         pc[a] \notin {"announced", "done"}, pc'[a] \notin {"announced", "done"},
         TypeOK', Looping(a)', Written(a)', Concluded(a)'
  PROVE  IInv'
<1> USE DEF poolVars, frontVars
<1>1. Grows /\ \A t \in Attempts : Ahead(t) /\ Kept(t)
  BY DEF Grows, Ahead, Kept, IInv, TypeOK
<1>2. FrontTypeOK' /\ Settlement'
  BY DEF IInv, FrontTypeOK, Settlement
<1>3. ASSUME NEW b \in Agents PROVE CallOK(b)'
  <2>1. CASE b # a
    BY <1>1, <2>1, AttemptsOf, CallStays DEF Stays
  <2>2. CASE b = a
    BY <2>2 DEF CallOK, Routed
  <2> QED BY <2>1, <2>2
<1>4. Counted'
  <2>1. About' = About /\ Holders' = Holders
    BY DEF About, Holders, Executes, LoopStays
  <2> QED BY <1>1, <2>1, CountedStays DEF IInv, TypeOK
<1>5. ASSUME NEW b \in Agents PROVE Ended(b)' = Ended(b) /\ (Ended(b) => Outcome(b)' = Outcome(b))
  BY DEF Ended, Outcome, LoopStays
<1>6. ResultsAreListed'
  BY <1>1, <1>5, ListStays
<1>7. FailFastOnLogicalFailure'
  BY <1>1, <1>5, FailFastStays
<1>8. Cancelled'
  BY DEF IInv, Cancelled, Told, Pool!Active
<1> QED BY <1>2, <1>3, <1>4, <1>6, <1>7, <1>8 DEF IInv

(* The steps that append to the list of attempts: what it holds then.      *)
LEMMA Recording ==
  ASSUME IInv, NEW a \in Agents,
         NEW s \in [status : FinalStatuses, retryable : BOOLEAN], Record(a, s)
  PROVE  /\ attempts' \in [Agents -> Seq([status : FinalStatuses, retryable : BOOLEAN])]
         /\ Len(attempts'[a]) = Len(attempts[a]) + 1 /\ Len(attempts[a]) \in Nat
         /\ \A i \in 1..Len(attempts[a]) : attempts'[a][i] = attempts[a][i]
         /\ attempts'[a][Len(attempts'[a])] = s
         /\ LastAttempt(a)' = s /\ attempts'[a] # <<>>
         /\ \A b \in Agents \ {a} : attempts'[b] = attempts[b]
<1> DEFINE S == [status : FinalStatuses, retryable : BOOLEAN]
<1>1. attempts \in [Agents -> Seq(S)]
  BY DEF IInv, TypeOK
<1>2. attempts' = [attempts EXCEPT ![a] = Append(attempts[a], s)]
  BY DEF Record
<1>3. attempts[a] \in Seq(S) /\ attempts'[a] = Append(attempts[a], s)
  BY <1>1, <1>2
<1> HIDE DEF S
<1>4. /\ Append(attempts[a], s) \in Seq(S)
      /\ Len(attempts'[a]) = Len(attempts[a]) + 1 /\ Len(attempts[a]) \in Nat
      /\ \A i \in 1..Len(attempts[a]) : attempts'[a][i] = attempts[a][i]
      /\ attempts'[a][Len(attempts'[a])] = s
      /\ attempts'[a] # <<>>
  BY <1>3 DEF S
<1>5. attempts' \in [Agents -> Seq(S)]
  BY <1>1, <1>2, <1>4
<1>6. \A b \in Agents \ {a} : attempts'[b] = attempts[b]
  BY <1>1, <1>2
<1> QED BY <1>4, <1>5, <1>6 DEF S, LastAttempt

LEMMA SummaryType ==
  ASSUME NEW status \in FinalStatuses, NEW r \in BOOLEAN
  PROVE  /\ Summary(status, r) \in [status : FinalStatuses, retryable : BOOLEAN]
         /\ Summary(status, r).status = status /\ Summary(status, r).retryable = r
  BY DEF Summary

(* The steps that end the loop with the summary of the current attempt.    *)
LEMMA Concluding ==
  ASSUME IInv, NEW a \in Agents, way[a] = "retry", at[a] = "executing",
         pc[a] \in {"top", "waiting", "failed", "delay"},
         NEW status \in FinalStatuses, NEW isExhausted \in BOOLEAN,
         NEW s \in [status : FinalStatuses, retryable : BOOLEAN],
         Conclude(a, status, isExhausted), Record(a, s),
         IF pc[a] = "top" THEN attemptsStarted' = [attemptsStarted EXCEPT ![a] = @ + 1]
                          ELSE attemptsStarted' = attemptsStarted,
         UNCHANGED <<poolVars, result, signalled, userAbort, cancelled, num,
                     terminal, agentCalls, frontVars>>,
         phase[Current(a)] \in {"new", "done"},
         status = "succeeded" <=> result[Current(a)].status = "succeeded",
         \/ s.status = result[Current(a)].status
         \/ s.status = "cancelled" /\ a \in cancelled
         \/ s.status = "failed" /\ phase[Current(a)] = "new",
         isExhausted /\ s.retryable => num[a] = MaxAttempts /\ Retryable(result[Current(a)])
  PROVE  IInv'
<1>1. /\ attempts' \in [Agents -> Seq([status : FinalStatuses, retryable : BOOLEAN])]
      /\ Len(attempts'[a]) = Len(attempts[a]) + 1 /\ Len(attempts[a]) \in Nat
      /\ \A i \in 1..Len(attempts[a]) : attempts'[a][i] = attempts[a][i]
      /\ LastAttempt(a)' = s /\ attempts'[a] # <<>>
      /\ \A b \in Agents \ {a} : attempts'[b] = attempts[b]
  BY Recording
<1>2. /\ num[a] \in 1..MaxAttempts /\ MaxAttempts \in Nat
      /\ attemptsStarted \in [Agents -> 0..MaxAttempts]
      /\ CallOK(a)
  BY RetryAssumption DEF IInv, TypeOK
<1>3. /\ Len(attempts[a]) = num[a] - 1
      /\ attemptsStarted' \in [Agents -> 0..MaxAttempts]
      /\ attemptsStarted'[a] = num[a]
  BY <1>2 DEF CallOK, Written, Before, Attempting, Over
<1>4. /\ pc' = [pc EXCEPT ![a] = "finalize"]
      /\ final' = [final EXCEPT ![a] = status]
      /\ exhausted' = [exhausted EXCEPT ![a] = isExhausted]
  BY DEF Conclude, Goto
<1>5. UNCHANGED <<phase, closed, result, signalled, userAbort, cancelled, num, terminal, agentCalls>>
  BY DEF poolVars
<1>6. TypeOK'
  BY <1>1, <1>3, <1>4, <1>5 DEF IInv, TypeOK
<1>7. pc'[a] = "finalize" /\ final'[a] = status /\ exhausted'[a] = isExhausted /\ num'[a] = num[a]
  BY <1>4, <1>5 DEF IInv, TypeOK
<1>8. Looping(a)'
  BY <1>2, <1>5, <1>7 DEF CallOK, Looping, Current, Over
<1>9. Written(a)'
  <2>1. \A i \in 1..Len(attempts'[a]) : i < num[a] => i \in 1..Len(attempts[a])
    BY <1>1, <1>2, <1>3
  <2>2. \A i \in 1..Len(attempts'[a]) : i < num[a] =>
          attempts'[a][i].status = result[<<a, i>>].status
    BY <1>1, <1>2, <2>1 DEF CallOK, Written
  <2> QED BY <1>1, <1>2, <1>3, <1>5, <1>7, <2>2 DEF Written, Over, Before, Attempting
<1>10. Concluded(a)'
  <2>1. /\ Len(attempts'[a]) = num[a]
        /\ Current(a)' = Current(a)
        /\ RetryExhausted(a)' => isExhausted /\ s.retryable
    BY <1>1, <1>2, <1>3, <1>7 DEF Current, RetryExhausted
  <2>2. final'[a] = "succeeded" <=> result'[Current(a)'].status = "succeeded"
    BY <1>5, <1>7, <2>1
  <2> QED BY <1>1, <1>5, <1>7, <2>1, <2>2 DEF Concluded
<1>11. \A b \in Agents \ {a} : LoopStays(b)
  BY <1>1, <1>2, <1>4, <1>5 DEF LoopStays, IInv, TypeOK
<1> QED
  BY <1>5, <1>6, <1>7, <1>8, <1>9, <1>10, <1>11, LoopOnly

(* The steps of the loop that record nothing, or stop it at its top.       *)
LEMMA LoopSteps ==
  ASSUME IInv, NEW a \in Agents, way[a] = "retry", at[a] = "executing",
         UNCHANGED frontVars,
         \/ Start(a) \/ TopCancelled(a) \/ AttemptFailed(a) \/ FailedRetried(a)
         \/ DelayOver(a) \/ Report(a)
  PROVE  IInv'
<1>0. /\ num[a] \in 1..MaxAttempts /\ MaxAttempts \in Nat /\ CallOK(a)
      /\ Len(attempts[a]) \in Nat /\ TypeOK
  <2>1. /\ num[a] \in 1..MaxAttempts /\ MaxAttempts \in Nat /\ CallOK(a)
        /\ Len(attempts[a]) \in Nat
    BY RetryAssumption DEF IInv, TypeOK
  <2> QED BY <2>1 DEF IInv
<1> DEFINE Conclusion == TypeOK' /\ Looping(a)' /\ Written(a)' /\ Concluded(a)'
           Frame ==
             /\ UNCHANGED <<poolVars, result, signalled, userAbort, cancelled, agentCalls>>
             /\ \A b \in Agents \ {a} : LoopStays(b)
             /\ pc[a] \notin {"announced", "done"} /\ pc'[a] \notin {"announced", "done"}
<1> USE DEF poolVars
<1>1. ASSUME Start(a) PROVE Conclusion /\ Frame
  <2>1. pc' = [pc EXCEPT ![a] = "top"] /\ pc[a] = "idle"
    BY <1>1 DEF Start, Goto
  <2>2. Frame /\ TypeOK'
    BY <1>0, <1>1, <2>1 DEF Start, LoopStays, TypeOK
  <2>3. Looping(a)' /\ Written(a)' /\ Concluded(a)'
    BY <1>0, <1>1, <2>1 DEF Start, CallOK, Looping, Written, Concluded, Current, Over,
                            Before, Attempting, TypeOK
  <2> QED BY <2>2, <2>3
<1>2. ASSUME TopCancelled(a) PROVE Conclusion /\ Frame
  <2>1. /\ pc' = [pc EXCEPT ![a] = "finalize"] /\ pc[a] = "top"
        /\ final' = [final EXCEPT ![a] = "cancelled"]
        /\ exhausted' = [exhausted EXCEPT ![a] = FALSE]
    BY <1>2 DEF TopCancelled, Conclude, Goto
  <2>2. Frame /\ TypeOK'
    BY <1>0, <1>2, <2>1 DEF TopCancelled, LoopStays, TypeOK, FinalStatuses
  <2>3. phase[Current(a)] = "new" /\ result[Current(a)] = NoResult
    BY <1>0, <2>1, AttemptsOf DEF CallOK, Looping, IInv, Settlement, Current
  <2>4. Looping(a)' /\ Written(a)'
    BY <1>0, <1>2, <2>1, <2>3 DEF TopCancelled, CallOK, Looping, Written, Current, Over,
                            Before, Attempting, TypeOK
  <2>5. Concluded(a)'
    BY <1>0, <1>2, <2>1, <2>3, NoneFacts
       DEF TopCancelled, CallOK, Written, Concluded, Current, RetryExhausted, TypeOK, FinalStatuses,
           Over
  <2> QED BY <2>2, <2>4, <2>5
<1>3. ASSUME AttemptFailed(a) PROVE Conclusion /\ Frame
  <2>1. pc' = [pc EXCEPT ![a] = "failed"] /\ pc[a] = "waiting"
        /\ phase[Current(a)] = "done" /\ result[Current(a)].status # "succeeded"
    BY <1>3 DEF AttemptFailed, Goto, Settled, IsOk, Current
  <2>2. Frame /\ TypeOK'
    BY <1>0, <1>3, <2>1 DEF AttemptFailed, LoopStays, TypeOK
  <2>3. Looping(a)' /\ Written(a)' /\ Concluded(a)'
    BY <1>0, <1>3, <2>1 DEF AttemptFailed, CallOK, Looping, Written, Concluded, Current, Over,
                            Before, Attempting, TypeOK
  <2> QED BY <2>2, <2>3
<1>4. ASSUME FailedRetried(a) PROVE Conclusion /\ Frame
  <2>1. pc' = [pc EXCEPT ![a] = "delay"] /\ pc[a] = "failed" /\ CanRetry(a)
    BY <1>4 DEF FailedRetried, Goto
  <2>2. Frame /\ TypeOK'
    BY <1>0, <1>4, <2>1 DEF FailedRetried, LoopStays, TypeOK
  <2>3. Looping(a)' /\ Written(a)' /\ Concluded(a)'
    BY <1>0, <1>4, <2>1 DEF FailedRetried, CallOK, Looping, Written, Concluded, Current, Over,
                            Before, Attempting, TypeOK, CanRetry
  <2> QED BY <2>2, <2>3
<1>5. ASSUME DelayOver(a) PROVE Conclusion /\ Frame
  <2> DEFINE r == result[Current(a)]
             s == Summary(r.status, Retryable(r))
  <2>1. /\ pc' = [pc EXCEPT ![a] = "top"] /\ pc[a] = "delay"
        /\ num' = [num EXCEPT ![a] = num[a] + 1]
        /\ Record(a, s)
    BY <1>5 DEF DelayOver, Goto, Current
  <2>2. /\ phase[Current(a)] = "done" /\ Retryable(r) /\ num[a] < MaxAttempts
        /\ attemptsStarted[a] = num[a] /\ Len(attempts[a]) = num[a] - 1
    BY <1>0, <2>1 DEF CallOK, Looping, CanRetry, Written, Attempting, Over, Current
  <2>3. Current(a) \in Attempts /\ r.status \in FinalStatuses
    BY <1>0, <2>2, AttemptsOf DEF IInv, Settlement, Current
  <2>4. s \in [status : FinalStatuses, retryable : BOOLEAN] /\ s.status = r.status
    BY <2>3, SummaryType, RetryableFacts
  <2>5. /\ attempts' \in [Agents -> Seq([status : FinalStatuses, retryable : BOOLEAN])]
        /\ Len(attempts'[a]) = num[a]
        /\ \A i \in 1..Len(attempts[a]) : attempts'[a][i] = attempts[a][i]
        /\ attempts'[a][num[a]] = s
        /\ \A b \in Agents \ {a} : attempts'[b] = attempts[b]
    <3> HIDE DEF s
    <3>1. /\ attempts' \in [Agents -> Seq([status : FinalStatuses, retryable : BOOLEAN])]
          /\ Len(attempts'[a]) = Len(attempts[a]) + 1 /\ Len(attempts[a]) \in Nat
          /\ \A i \in 1..Len(attempts[a]) : attempts'[a][i] = attempts[a][i]
          /\ attempts'[a][Len(attempts'[a])] = s
          /\ \A b \in Agents \ {a} : attempts'[b] = attempts[b]
      BY <2>1, <2>4, Recording
    <3>2. Len(attempts'[a]) = num[a]
      BY <1>0, <2>2, <3>1
    <3> QED BY <3>1, <3>2
  <2>6. num' \in [Agents -> 1..MaxAttempts] /\ num'[a] = num[a] + 1
    BY <1>0, <2>1, <2>2 DEF TypeOK
  <2>7. TypeOK'
    BY <1>0, <1>5, <2>1, <2>5, <2>6 DEF DelayOver, TypeOK
  <2>8. Frame
    BY <1>0, <1>5, <2>1, <2>5 DEF DelayOver, LoopStays, TypeOK
  <2>9. Looping(a)'
    <3>1. \A n \in 1..MaxAttempts :
             /\ n < num[a] + 1 => phase[<<a, n>>] = "done" /\ Retryable(result[<<a, n>>])
             /\ n > num[a] => phase[<<a, n>>] = "new"
      <4>1. \A n \in 1..MaxAttempts : n < num[a] + 1 => n < num[a] \/ n = num[a]
        BY <1>0
      <4> QED BY <1>0, <2>2, <4>1 DEF CallOK, Looping, Current
    <3>2. num[a] + 1 \in 1..MaxAttempts /\ num[a] + 1 > num[a]
          /\ \A n \in 1..MaxAttempts : n > num[a] + 1 => n > num[a]
      BY <1>0, <2>2
    <3> QED BY <1>0, <1>5, <2>1, <2>6, <3>1, <3>2 DEF DelayOver, Looping, Current, Over, TypeOK
  <2>10. Written(a)'
    <3>1. ASSUME NEW i \in 1..num[a] PROVE attempts'[a][i].status = result[<<a, i>>].status
      <4>1. CASE i = num[a]
        BY <2>4, <2>5, <4>1 DEF Current
      <4>2. CASE i # num[a]
        <5>1. i \in 1..Len(attempts[a]) /\ i < num[a]
          BY <1>0, <2>2, <4>2
        <5> QED BY <1>0, <2>5, <5>1 DEF CallOK, Written
      <4> QED BY <4>1, <4>2
    <3>2. pc'[a] = "top" /\ attemptsStarted' = attemptsStarted /\ result' = result
      BY <1>0, <1>5, <2>1 DEF DelayOver, TypeOK
    <3> QED BY <1>0, <2>2, <2>5, <2>6, <3>1, <3>2 DEF Written, Over, Before, Attempting
  <2>11. Concluded(a)'
    BY <1>0, <2>1 DEF Concluded, Over, TypeOK
  <2> QED BY <2>7, <2>8, <2>9, <2>10, <2>11
<1>6. ASSUME Report(a) PROVE Conclusion /\ Frame
  <2>1. pc' = [pc EXCEPT ![a] = "reported"] /\ pc[a] = "finalize"
    BY <1>6 DEF Report, Goto
  <2>2. Frame /\ TypeOK'
    BY <1>0, <1>6, <2>1 DEF Report, LoopStays, TypeOK
  <2>3. Looping(a)' /\ Written(a)' /\ Concluded(a)'
    BY <1>0, <1>6, <2>1 DEF Report, CallOK, Looping, Written, Concluded, Current, Over,
                            Before, Attempting, TypeOK, LastAttempt, RetryExhausted
  <2> QED BY <2>2, <2>3
<1> HIDE DEF poolVars
<1>7. Conclusion /\ Frame
  BY <1>1, <1>2, <1>3, <1>4, <1>5, <1>6
<1> QED BY <1>7, LoopOnly

LEMMA LastSteps ==
  ASSUME IInv, NEW a \in Agents, way[a] = "retry", at[a] = "executing",
         UNCHANGED frontVars,
         \/ TopRefused(a) \/ AttemptSucceeded(a) \/ FailedCancelled(a)
         \/ FailedForGood(a) \/ DelayAborted(a)
  PROVE  IInv'
<1> DEFINE r == result[Current(a)]
<1>0. /\ num[a] \in 1..MaxAttempts /\ MaxAttempts \in Nat /\ CallOK(a)
      /\ attemptsStarted \in [Agents -> 0..MaxAttempts]
      /\ Current(a) \in Attempts
  BY RetryAssumption, AttemptsOf DEF IInv, TypeOK, Current
<1>1. ASSUME TopRefused(a) PROVE IInv'
  <2> DEFINE s == Summary("failed", FALSE)
             ex == num[a] = MaxAttempts
  <2>1. /\ s \in [status : FinalStatuses, retryable : BOOLEAN]
        /\ s.status = "failed" /\ s.retryable = FALSE
        /\ "failed" \in FinalStatuses /\ ex \in BOOLEAN
    BY SummaryType DEF FinalStatuses
  <2>2. phase[Current(a)] = "new" /\ r.status # "succeeded"
    BY <1>0, <1>1, NoneFacts DEF TopRefused, CallOK, Looping, IInv, Settlement
  <2> QED BY <1>1, <2>1, <2>2, Concluding DEF TopRefused
<1>2. ASSUME AttemptSucceeded(a) PROVE IInv'
  <2> DEFINE s == Summary("succeeded", FALSE)
  <2>1. /\ s \in [status : FinalStatuses, retryable : BOOLEAN]
        /\ s.status = "succeeded" /\ s.retryable = FALSE /\ "succeeded" \in FinalStatuses
    BY SummaryType DEF FinalStatuses
  <2>2. phase[Current(a)] = "done" /\ r.status = "succeeded" /\ pc[a] = "waiting"
    BY <1>2 DEF AttemptSucceeded, Settled, IsOk, Current
  <2> QED BY <1>2, <2>1, <2>2, Concluding DEF AttemptSucceeded
<1>3. ASSUME pc[a] \in {"failed", "delay"}
      PROVE  /\ phase[Current(a)] = "done" /\ r.status # "succeeded"
             /\ r.status \in FinalStatuses /\ Retryable(r) \in BOOLEAN
  BY <1>0, <1>3, RetryableFacts DEF CallOK, Looping, IInv, Settlement
<1>4. ASSUME FailedCancelled(a) \/ DelayAborted(a) PROVE IInv'
  <2> DEFINE s == Summary("cancelled", Retryable(r))
  <2>1. pc[a] \in {"failed", "delay"} /\ a \in cancelled
    BY <1>4 DEF FailedCancelled, DelayAborted, SleepRejects
  <2>2. /\ s \in [status : FinalStatuses, retryable : BOOLEAN]
        /\ s.status = "cancelled" /\ "cancelled" \in FinalStatuses
    BY <1>3, <2>1, SummaryType DEF FinalStatuses
  <2>3. /\ Record(a, s) /\ Conclude(a, "cancelled", FALSE)
        /\ UNCHANGED <<poolVars, result, signalled, userAbort, cancelled, num,
                       attemptsStarted, terminal, agentCalls>>
    BY <1>4 DEF FailedCancelled, DelayAborted, Current
  <2> HIDE DEF s
  <2> QED BY <1>3, <2>1, <2>2, <2>3, Concluding
<1>5. ASSUME FailedForGood(a) PROVE IInv'
  <2> DEFINE s == Summary(r.status, Retryable(r))
  <2>1. pc[a] = "failed"
    BY <1>5 DEF FailedForGood
  <2>2. /\ s \in [status : FinalStatuses, retryable : BOOLEAN]
        /\ s.status = r.status /\ s.retryable = Retryable(r)
    BY <1>3, <2>1, SummaryType
  <2>3. /\ Record(a, s) /\ Conclude(a, r.status, TRUE)
        /\ UNCHANGED <<poolVars, result, signalled, userAbort, cancelled, num,
                       attemptsStarted, terminal, agentCalls>>
        /\ ~CanRetry(a)
    BY <1>5 DEF FailedForGood, Current
  <2>4. s.retryable => num[a] = MaxAttempts
    BY <1>0, <2>2, <2>3 DEF CanRetry, Current
  <2> HIDE DEF s
  <2> QED BY <1>3, <2>1, <2>2, <2>3, <2>4, Concluding
<1> QED BY <1>1, <1>2, <1>4, <1>5

(* An attempt is counted: the call is about to hand it over.               *)
LEMMA AnnounceStep ==
  ASSUME IInv, NEW a \in Agents, way[a] = "retry", at[a] = "executing",
         UNCHANGED frontVars, TopAnnounced(a)
  PROVE  IInv'
<1> USE DEF poolVars, frontVars
<1>0. /\ num[a] \in 1..MaxAttempts /\ MaxAttempts \in Nat /\ CallOK(a)
      /\ agentCalls \in Nat /\ MaxAgentCalls \in Nat
      /\ pc \in [Agents -> {"idle", "top", "announced", "waiting", "failed",
                            "delay", "finalize", "reported", "done"}]
      /\ attemptsStarted \in [Agents -> 0..MaxAttempts]
  BY RetryAssumption DEF IInv, TypeOK
<1>1. /\ pc[a] = "top" /\ pc' = [pc EXCEPT ![a] = "announced"]
      /\ agentCalls < MaxAgentCalls /\ agentCalls' = agentCalls + 1
      /\ attemptsStarted' = [attemptsStarted EXCEPT ![a] = @ + 1]
      /\ UNCHANGED <<phase, closed, result, signalled, userAbort, cancelled, num, attempts,
                     final, exhausted, terminal>>
  BY <1>0 DEF TopAnnounced, Goto, LimitReached, Count
<1>2. attemptsStarted[a] = num[a] - 1 /\ attemptsStarted'[a] = num[a]
  BY <1>0, <1>1 DEF CallOK, Written, Before
<1>3. attemptsStarted' \in [Agents -> 0..MaxAttempts]
  BY <1>0, <1>1, <1>2
<1>4. TypeOK'
  <2>1. agentCalls' \in 0..MaxAgentCalls
    BY <1>0, <1>1
  <2>2. pc' \in [Agents -> {"idle", "top", "announced", "waiting", "failed",
                           "delay", "finalize", "reported", "done"}]
    BY <1>0, <1>1
  <2> QED BY <1>1, <1>3, <2>1, <2>2 DEF IInv, TypeOK
<1>5. Grows /\ \A t \in Attempts : Ahead(t) /\ Kept(t)
  BY <1>0, <1>1 DEF Grows, Ahead, Kept
<1>6. FrontTypeOK' /\ Settlement'
  BY <1>1 DEF IInv, FrontTypeOK, Settlement
<1>7. ASSUME NEW b \in Agents PROVE CallOK(b)'
  <2>1. CASE b # a
    <3>1. Stays(b)
      BY <1>1, <2>1 DEF Stays, LoopStays, IInv, TypeOK
    <3> QED BY <1>5, <3>1, AttemptsOf, CallStays
  <2>2. CASE b = a
    <3>1. pc'[a] = "announced"
      BY <1>0, <1>1
    <3>2. Looping(a)'
      BY <1>0, <1>1, <3>1 DEF CallOK, Looping, Current, Over
    <3>3. Written(a)'
      BY <1>0, <1>1, <1>2, <3>1 DEF CallOK, Written, Over, Before, Attempting
    <3> QED BY <2>2, <3>1, <3>2, <3>3 DEF CallOK, Routed, Concluded, Over
  <2> QED BY <2>1, <2>2
<1>8. Counted'
  <2>1. About' = About \cup {a} /\ a \notin About
    BY <1>0, <1>1 DEF About
  <2>2. IsFiniteSet(About') /\ Cardinality(About') = Cardinality(About) + 1
    BY <2>1, FS_AddElement DEF IInv, Counted
  <2>3. HandedOver' = HandedOver /\ Holders' = Holders
    BY <1>1 DEF HandedOver, Holders, Executes
  <2>4. Cardinality(HandedOver) \in Nat /\ Cardinality(About) \in Nat
    BY FS_CardinalityType DEF IInv, Counted
  <2> QED BY <1>1, <2>2, <2>3, <2>4 DEF IInv, Counted
<1>9. ASSUME NEW b \in Agents PROVE Ended(b)' = Ended(b) /\ (Ended(b) => Outcome(b)' = Outcome(b))
  BY <1>0, <1>1 DEF Ended, Outcome
<1>10. ResultsAreListed'
  BY <1>1, <1>5, <1>9, ListStays
<1>11. FailFastOnLogicalFailure'
  BY <1>1, <1>5, <1>9, FailFastStays
<1>12. Cancelled'
  BY <1>1 DEF IInv, Cancelled, Told, Pool!Active
<1> QED BY <1>4, <1>6, <1>7, <1>8, <1>10, <1>11, <1>12 DEF IInv

(* One attempt is handed over: it is no longer about to be.                *)
LEMMA HandOver ==
  ASSUME IInv, NEW t \in Attempts, Submits(t), \A u \in Attempts \ {t} : Kept(u),
         NEW a \in Agents, a \in About, About' = About \ {a},
         agentCalls' = agentCalls
  PROVE  /\ IsFiniteSet(HandedOver') /\ IsFiniteSet(About')
         /\ agentCalls' = Cardinality(HandedOver') + Cardinality(About')
<1>1. HandedOver' = HandedOver \cup {t} /\ t \notin HandedOver
  BY DEF HandedOver, Submits, Kept
<1>2. IsFiniteSet(HandedOver') /\ Cardinality(HandedOver') = Cardinality(HandedOver) + 1
  BY <1>1, FS_AddElement DEF IInv, Counted
<1>3. IsFiniteSet(About') /\ Cardinality(About') = Cardinality(About) - 1
  BY FS_RemoveElement DEF IInv, Counted
<1>4. Cardinality(HandedOver) \in Nat /\ Cardinality(About) \in Nat
  BY FS_CardinalityType DEF IInv, Counted
<1> QED BY <1>2, <1>3, <1>4 DEF IInv, Counted

LEMMA SubmitStep ==
  ASSUME IInv, NEW a \in Agents, way[a] = "retry", at[a] = "executing",
         UNCHANGED frontVars, Submit(a)
  PROVE  IInv'
<1> DEFINE t == Current(a)
<1>0. /\ num[a] \in 1..MaxAttempts /\ MaxAttempts \in Nat /\ CallOK(a)
      /\ pc \in [Agents -> {"idle", "top", "announced", "waiting", "failed",
                            "delay", "finalize", "reported", "done"}]
      /\ t \in Attempts
  BY RetryAssumption, AttemptsOf DEF IInv, TypeOK, Current
<1>1. /\ pc[a] = "announced" /\ pc' = [pc EXCEPT ![a] = "waiting"]
      /\ UNCHANGED <<signalled, userAbort, cancelled, num, attemptsStarted,
                     attempts, final, exhausted, terminal, agentCalls>>
      /\ UNCHANGED <<way, at, budget, free, results>>
  BY DEF Submit, Goto, frontVars
<1>2. /\ Submits(t)
      /\ \A u \in Attempts \ {t} : Kept(u)
      /\ phase' \in [Attempts -> {"new", "waiting", "active", "done"}]
      /\ result' \in [Attempts -> Results \cup {NoResult, SkippedResult}]
      /\ closed' = closed
      /\ Settlement'
  <2>1. Pool!Submit(t) /\ result' = IF closed THEN [result EXCEPT ![t] = SkippedResult] ELSE result
    BY DEF Submit, Current
  <2> QED BY <1>0, <2>1, SubmitSubmits
<1>3. TypeOK'
  <2>1. pc' \in [Agents -> {"idle", "top", "announced", "waiting", "failed",
                           "delay", "finalize", "reported", "done"}]
    BY <1>0, <1>1
  <2> QED BY <1>1, <1>2, <2>1 DEF IInv, TypeOK
<1>4. FrontTypeOK'
  BY <1>1 DEF IInv, FrontTypeOK
<1>5. Grows
  BY <1>1, <1>2 DEF Grows, IInv, TypeOK
<1>6. \A b \in Agents : way[b] = "direct" \/ b # a =>
        \A n \in 1..MaxAttempts : Kept(<<b, n>>)
  <2>1. \A b \in Agents, n \in 1..MaxAttempts : b # a => <<b, n>> # t /\ <<b, n>> \in Attempts
    BY AttemptsOf DEF Current
  <2> QED BY <1>2, <2>1
<1>7. ASSUME NEW b \in Agents PROVE CallOK(b)'
  <2>1. CASE b # a
    <3>1. Stays(b)
      BY <1>1, <2>1 DEF Stays, LoopStays, IInv, TypeOK
    <3> QED BY <1>5, <1>6, <2>1, <3>1, CallStays DEF Ahead
  <2>2. CASE b = a
    <3>1. pc'[a] = "waiting" /\ Current(a)' = t
      BY <1>0, <1>1 DEF Current
    <3>2. \A n \in 1..MaxAttempts : n # num[a] => Kept(<<a, n>>)
      <4>1. \A n \in 1..MaxAttempts : n # num[a] => <<a, n>> # t /\ <<a, n>> \in Attempts
        BY AttemptsOf DEF Current
      <4> QED BY <1>2, <4>1
    <3>3. phase'[t] # "new"
      BY <1>2 DEF Submits
    <3>4. Looping(a)'
      <4>1. \A n \in 1..MaxAttempts :
             /\ n < num[a] => phase'[<<a, n>>] = "done" /\ Retryable(result'[<<a, n>>])
             /\ n > num[a] => phase'[<<a, n>>] = "new"
        BY <1>0, <3>2 DEF CallOK, Looping, Kept
      <4> QED BY <1>0, <1>1, <3>1, <3>3, <4>1 DEF Looping, Over
    <3>5. Written(a)'
      <4>1. \A i \in 1..Len(attempts[a]) : i < num[a] =>
              attempts[a][i].status = result'[<<a, i>>].status
        <5>1. \A i \in 1..Len(attempts[a]) : i < num[a] => i \in 1..MaxAttempts /\ i # num[a]
          BY <1>0
        <5> QED BY <1>0, <3>2, <5>1 DEF CallOK, Written, Kept
      <4> QED BY <1>0, <1>1, <3>1, <4>1 DEF CallOK, Written, Over, Before, Attempting
    <3>6. Routed(a)' /\ Concluded(a)' /\ way'[a] # "direct"
      BY <1>1, <3>1 DEF Routed, Concluded, Over
    <3> QED BY <2>2, <3>4, <3>5, <3>6 DEF CallOK
  <2> QED BY <2>1, <2>2
<1>8. Counted'
  <2>1. a \in About /\ About' = About \ {a}
    BY <1>0, <1>1 DEF About
  <2>2. Holders' = Holders
    BY <1>1 DEF Holders, Executes
  <2> QED BY <1>0, <1>1, <1>2, <2>1, <2>2, HandOver DEF IInv, Counted
<1>9. ASSUME NEW b \in Agents PROVE Ended(b)' = Ended(b) /\ (Ended(b) => Outcome(b)' = Outcome(b))
  <2>1. way[b] = "direct" => Kept(<<b, 1>>)
    BY <1>6, AttemptsOf
  <2> QED BY <1>0, <1>1, <2>1 DEF Ended, Outcome, Kept
<1>10. ResultsAreListed'
  <2>1. \A b \in Agents : way[b] = "direct" /\ phase[<<b, 1>>] = "new" => phase'[<<b, 1>>] = "new"
    BY <1>6, AttemptsOf DEF Kept
  <2> QED BY <1>1, <1>5, <1>9, <2>1, ListStays
<1>11. FailFastOnLogicalFailure'
  BY <1>1, <1>2, <1>5, <1>9, FailFastStays
<1>12. Cancelled'
  <2>1. \A b \in Agents : way[b] = "direct" /\ phase'[<<b, 1>>] = "active" => phase[<<b, 1>>] = "active"
    BY <1>6, AttemptsOf DEF Kept
  <2>2. cancelled \subseteq Agents
    BY DEF IInv, TypeOK
  <2> QED BY <1>1, <2>1, <2>2 DEF IInv, Cancelled, Told, Pool!Active
<1> QED BY <1>2, <1>3, <1>4, <1>7, <1>8, <1>10, <1>11, <1>12 DEF IInv

(* execute() returns; with fail-fast a failed call aborts the scheduler.   *)
LEMMA ReturnStep ==
  ASSUME IInv, NEW a \in Agents, way[a] = "retry", at[a] = "executing",
         UNCHANGED frontVars, Return(a)
  PROVE  IInv'
<1>0. /\ CallOK(a)
      /\ pc \in [Agents -> {"idle", "top", "announced", "waiting", "failed",
                            "delay", "finalize", "reported", "done"}]
      /\ final[a] \in FinalStatuses
  BY DEF IInv, TypeOK, Return, CallOK, Concluded, Over
<1>1. /\ pc[a] = "reported" /\ pc' = [pc EXCEPT ![a] = "done"]
      /\ UNCHANGED <<userAbort, cancelled, num, attemptsStarted, attempts, final,
                     exhausted, terminal, agentCalls>>
      /\ UNCHANGED <<way, at, budget, free, results>>
  BY DEF Return, Goto, frontVars
<1>2. /\ \A t \in Attempts : Ahead(t) /\ (phase'[t] = "active" => phase[t] = "active")
      /\ closed' /\ ~closed => TriggersFailFast(a)
      /\ TriggersFailFast(a) => closed'
  BY AbortAhead DEF Return, poolVars, Ahead, Kept, IInv, TypeOK
<1>3. /\ phase' \in [Attempts -> {"new", "waiting", "active", "done"}]
      /\ result' \in [Attempts -> Results \cup {NoResult, SkippedResult}]
      /\ signalled' \subseteq Attempts /\ signalled \subseteq signalled'
      /\ closed' \in BOOLEAN
      /\ closed => closed'
      /\ Settlement'
  <2>1. CASE TriggersFailFast(a) /\ ~closed
    BY <2>1, AbortAhead DEF Return
  <2>2. CASE ~(TriggersFailFast(a) /\ ~closed)
    <3>1. UNCHANGED <<phase, closed, result, signalled>>
      BY <2>2 DEF Return, poolVars
    <3>2. Settlement'
      BY <3>1 DEF IInv, Settlement
    <3> QED BY <3>1, <3>2 DEF IInv, TypeOK
  <2> QED BY <2>1, <2>2
<1>4. TypeOK'
  <2>1. pc' \in [Agents -> {"idle", "top", "announced", "waiting", "failed",
                           "delay", "finalize", "reported", "done"}]
    BY <1>0, <1>1
  <2> QED BY <1>1, <1>3, <2>1 DEF IInv, TypeOK
<1>5. FrontTypeOK' /\ Grows
  BY <1>1, <1>3 DEF IInv, FrontTypeOK, Grows, TypeOK
<1>6. \A b \in Agents, n \in 1..MaxAttempts : Ahead(<<b, n>>)
  BY <1>2, AttemptsOf
<1>7. ASSUME NEW b \in Agents PROVE CallOK(b)'
  <2>1. CASE b # a
    <3>1. Stays(b)
      BY <1>1, <2>1 DEF Stays, LoopStays, IInv, TypeOK
    <3> QED BY <1>5, <1>6, <3>1, CallStays
  <2>2. CASE b = a
    <3>1. /\ \A n \in 1..MaxAttempts : n < num[a] => phase[<<a, n>>] = "done"
          /\ \A n \in 1..MaxAttempts : n > num[a] => phase[<<a, n>>] = "new"
          /\ phase[<<a, num[a]>>] \in {"new", "done"}
          /\ num[a] \in 1..MaxAttempts /\ MaxAttempts \in Nat
      BY <1>0, <1>1, RetryAssumption DEF CallOK, Looping, Current, Over, IInv, TypeOK
    <3>2. \A n \in 1..MaxAttempts : Kept(<<a, n>>)
      <4>1. \A n \in 1..MaxAttempts : phase[<<a, n>>] \in {"new", "done"}
        <5>1. \A n \in 1..MaxAttempts : n < num[a] \/ n > num[a] \/ n = num[a]
          BY <3>1
        <5> QED BY <3>1, <5>1
      <4> QED BY <1>6, <4>1 DEF Ahead
    <3>3. /\ num[a] \in 1..MaxAttempts /\ pc'[a] = "done" /\ Current(a)' = Current(a)
          /\ Kept(Current(a)) /\ MaxAttempts \in Nat /\ Len(attempts[a]) \in Nat
      BY <1>0, <1>1, <3>1, <3>2 DEF IInv, TypeOK, Current
    <3>4. Looping(a)'
      <4>1. \A n \in 1..MaxAttempts :
             /\ n < num[a] => phase'[<<a, n>>] = "done" /\ Retryable(result'[<<a, n>>])
             /\ n > num[a] => phase'[<<a, n>>] = "new"
        BY <1>0, <3>2, <3>3 DEF CallOK, Looping, Kept
      <4>2. phase'[Current(a)] \in {"new", "done"}
        BY <1>0, <1>1, <3>3 DEF CallOK, Looping, Kept, Over
      <4> QED BY <1>0, <1>1, <3>3, <4>1, <4>2 DEF Looping, Over
    <3>5. Written(a)'
      <4>1. \A i \in 1..Len(attempts[a]) : i < num[a] =>
              attempts[a][i].status = result'[<<a, i>>].status
        <5>1. \A i \in 1..Len(attempts[a]) : i < num[a] => i \in 1..MaxAttempts
          BY <3>3
        <5> QED BY <1>0, <3>2, <5>1 DEF CallOK, Written, Kept
      <4> QED BY <1>0, <1>1, <3>3, <4>1 DEF CallOK, Written, Over, Before, Attempting
    <3>6. Concluded(a)'
      BY <1>0, <1>1, <3>3 DEF CallOK, Concluded, Over, Kept, LastAttempt, RetryExhausted
    <3> QED BY <1>0, <1>1, <2>2, <3>3, <3>4, <3>5, <3>6 DEF CallOK, Routed
  <2> QED BY <2>1, <2>2
<1>8. Counted'
  <2>1. About' = About /\ Holders' = Holders
    BY <1>0, <1>1 DEF About, Holders, Executes
  <2> QED BY <1>1, <1>2, <1>3, <2>1, CountedStays
<1>9. ASSUME NEW b \in Agents PROVE Ended(b) => Ended(b)' /\ Outcome(b)' = Outcome(b)
  BY <1>0, <1>1, <1>6, AttemptsOf, EndedStays
<1>10. ResultsAreListed'
  <2>1. \A b \in Agents : phase[<<b, 1>>] = "new" => phase'[<<b, 1>>] = "new"
    BY <1>6, AttemptsOf DEF Ahead, Kept
  <2> QED BY <1>1, <1>5, <1>9, <2>1, ListStays
<1>11. FailFastOnLogicalFailure'
  <2>1. Ended(a)' /\ Outcome(a)' = final[a]
    BY <1>0, <1>1 DEF Ended, Outcome
  <2>2. closed' /\ ~closed => FailFast /\ Ended(a)' /\ Outcome(a)' # "succeeded"
    BY <1>2, <2>1 DEF TriggersFailFast
  <2>3. ASSUME NEW b \in Agents, Ended(b)', ~Ended(b)
        PROVE  Outcome(b)' = "succeeded" \/ closed' \/ ~FailFast
    <3>1. CASE b = a
      BY <1>2, <2>1, <3>1 DEF TriggersFailFast
    <3>2. CASE b # a
      <4>1. way[b] = "direct" /\ phase[<<b, 1>>] # "done" /\ phase'[<<b, 1>>] = "done"
        BY <1>0, <1>1, <2>3, <3>2 DEF Ended
      <4>2. closed'
        <5>1. UNCHANGED poolVars => phase'[<<b, 1>>] = phase[<<b, 1>>]
          BY DEF poolVars
        <5> QED BY <4>1, <5>1, AbortAhead DEF Return
      <4> QED BY <4>2
    <3> QED BY <3>1, <3>2
  <2> QED BY <1>5, <1>9, <2>2, <2>3, FailFastStays
<1>12. Cancelled'
  <2>1. cancelled \subseteq Agents /\ \A b \in Agents : <<b, 1>> \in Attempts
    BY AttemptsOf DEF IInv, TypeOK
  <2> QED BY <1>1, <1>2, <1>3, <2>1 DEF IInv, Cancelled, Told, Pool!Active
<1> QED BY <1>3, <1>4, <1>5, <1>7, <1>8, <1>10, <1>11, <1>12 DEF IInv

-----------------------------------------------------------------------------
(* The steps of the scheduler and of cancellations: no call moves.         *)
LEMMA PoolStep ==
  ASSUME IInv, \A t \in Attempts : Ahead(t), Grows,
         phase' \in [Attempts -> {"new", "waiting", "active", "done"}],
         result' \in [Attempts -> Results \cup {NoResult, SkippedResult}],
         signalled' \subseteq Attempts, cancelled' \subseteq Agents,
         closed' \in BOOLEAN, userAbort' \in BOOLEAN,
         UNCHANGED <<callVars, agentCalls, frontVars>>,
         Settlement', Cancelled',
         closed' /\ ~closed /\ ~userAbort' =>
           FailFast /\ \E a \in Agents : Ended(a)' /\ Outcome(a)' # "succeeded",
         \A a \in Agents : way[a] = "direct" /\ phase'[<<a, 1>>] = "done"
                           /\ phase[<<a, 1>>] # "done" =>
           result'[<<a, 1>>].status = "succeeded" \/ closed' \/ ~FailFast
  PROVE  IInv'
<1> USE DEF callVars, frontVars
<1>1. TypeOK' /\ FrontTypeOK'
  BY DEF IInv, TypeOK, FrontTypeOK
<1>2. ASSUME NEW a \in Agents PROVE CallOK(a)'
  BY AttemptsOf, CallStays DEF Stays, LoopStays
<1>3. Counted'
  <2>1. About' = About /\ Holders' = Holders
    BY DEF About, Holders, Executes
  <2> QED BY <2>1, CountedStays
<1>4. ASSUME NEW a \in Agents PROVE Ended(a) => Ended(a)' /\ Outcome(a)' = Outcome(a)
  BY AttemptsOf, EndedStays
<1>5. ResultsAreListed'
  <2>1. \A a \in Agents : phase[<<a, 1>>] = "new" => phase'[<<a, 1>>] = "new"
    BY AttemptsOf DEF Ahead, Kept
  <2> QED BY <1>4, <2>1, ListStays
<1>6. FailFastOnLogicalFailure'
  <2>1. \A a \in Agents : Ended(a)' /\ ~Ended(a) =>
          Outcome(a)' = "succeeded" \/ closed' \/ ~FailFast
    BY DEF Ended, Outcome
  <2> QED BY <1>4, <2>1, FailFastStays
<1> QED BY <1>1, <1>2, <1>3, <1>5, <1>6 DEF IInv

LEMMA BeginSteps ==
  ASSUME IInv, NEW a \in Agents, Begins(a)
  PROVE  IInv'
<1>1. PICK n \in 1..MaxAttempts :
        /\ Pool!Begin(<<a, n>>) /\ result' = result
        /\ UNCHANGED <<userAbort, cancelled, callVars, agentCalls, frontVars>>
        /\ \/ way[a] = "retry" /\ signalled' = signalled
           \/ /\ way[a] = "direct" /\ n = 1
              /\ signalled' = IF a \in cancelled THEN signalled \cup {<<a, 1>>} ELSE signalled
  <2>1. CASE DirectBegins(a)
    BY <2>1, AttemptsOf DEF DirectBegins
  <2>2. CASE RetryBegins(a)
    <3>1. PICK n \in 1..MaxAttempts : AttemptBegins(<<a, n>>)
      BY <2>2 DEF RetryBegins
    <3> QED BY <2>2, <3>1 DEF RetryBegins, AttemptBegins
  <2> QED BY <2>1, <2>2 DEF Begins
<1> DEFINE t == <<a, n>>
<1>2. t \in Attempts
  BY AttemptsOf
<1>3. /\ Ahead(t) /\ phase'[t] = "active"
      /\ \A u \in Attempts \ {t} : Kept(u)
      /\ phase' \in [Attempts -> {"new", "waiting", "active", "done"}]
      /\ closed' = closed
      /\ Settlement'
  BY <1>1, <1>2, BeginAhead
<1>4. \A u \in Attempts : Ahead(u) /\ (phase'[u] = "done" => phase[u] = "done")
  BY <1>3 DEF Ahead, Kept
<1>5. Grows
  BY <1>1, <1>3 DEF Grows, IInv, TypeOK
<1>6. Cancelled'
  <2> SUFFICES ASSUME NEW b \in cancelled', way'[b] = "direct", <<b, 1>> \in Attempts,
                      phase'[<<b, 1>>] = "active"
               PROVE  <<b, 1>> \in signalled'
    BY DEF Cancelled, Told, Pool!Active
  <2>1. b \in cancelled /\ way[b] = "direct" /\ signalled \subseteq signalled'
    BY <1>1 DEF frontVars
  <2>2. CASE <<b, 1>> = t
    <3>1. b = a
      BY <2>2
    <3> QED BY <1>1, <2>1, <3>1
  <2>3. CASE <<b, 1>> # t
    <3>1. phase[<<b, 1>>] = "active"
      BY <1>3, <2>3 DEF Kept
    <3> QED BY <2>1, <3>1 DEF IInv, Cancelled, Told, Pool!Active
  <2> QED BY <2>2, <2>3
<1>7. signalled' \subseteq Attempts
  BY ZenonT(60), <1>1, <1>2 DEF IInv, TypeOK
<1>8. \A b \in Agents : <<b, 1>> \in Attempts
  BY AttemptsOf
<1> QED
  BY <1>1, <1>3, <1>4, <1>5, <1>6, <1>7, <1>8, PoolStep DEF IInv, TypeOK

(* A task without retry that fails closes the scheduler itself.            *)
LEMMA EndSteps ==
  ASSUME IInv, NEW a \in Agents, Ends(a)
  PROVE  IInv'
<1> USE DEF Pool!Active
<1>0. \A b \in Agents : <<b, 1>> \in Attempts
  BY AttemptsOf
<1>1. ASSUME NEW n \in 1..MaxAttempts, NEW r \in Results, Pool!Finish(<<a, n>>),
             result' = [result EXCEPT ![<<a, n>>] = r],
             way[a] = "direct" => n = 1 /\ ~(Failed(r) /\ FailFast /\ ~closed),
             UNCHANGED <<signalled, userAbort, cancelled, callVars, agentCalls, frontVars>>
      PROVE  IInv'
  <2> DEFINE t == <<a, n>>
  <2>1. t \in Attempts
    BY AttemptsOf
  <2>2. /\ Ahead(t) /\ phase[t] = "active" /\ phase'[t] = "done" /\ result'[t] = r
        /\ \A u \in Attempts \ {t} : Kept(u)
        /\ phase' \in [Attempts -> {"new", "waiting", "active", "done"}]
        /\ result' \in [Attempts -> Results \cup {NoResult, SkippedResult}]
        /\ closed' = closed
        /\ Settlement'
    BY <1>1, <2>1, FinishAhead
  <2>3. \A u \in Attempts : Ahead(u) /\ (phase'[u] = "active" => phase[u] = "active")
    BY <2>2 DEF Ahead, Kept
  <2>4. Grows
    BY <1>1, <2>2 DEF Grows, IInv, TypeOK
  <2>5. Cancelled'
    BY <1>1, <2>3 DEF IInv, Cancelled, Told, frontVars
  <2>6. ASSUME NEW b \in Agents, way[b] = "direct", phase'[<<b, 1>>] = "done",
               phase[<<b, 1>>] # "done"
        PROVE  result'[<<b, 1>>].status = "succeeded" \/ closed' \/ ~FailFast
    <3>1. <<b, 1>> = t
      BY <1>0, <2>2, <2>6 DEF Kept
    <3>2. b = a
      BY <3>1
    <3> QED BY <1>1, <2>2, <2>6, <3>1, <3>2 DEF Failed
  <2> QED BY <1>1, <2>2, <2>3, <2>4, <2>5, <2>6, PoolStep DEF IInv, TypeOK
<1>2. ASSUME NEW r \in Results, way[a] = "direct", Failed(r), FailFast, ~closed,
             Pool!Close({<<a, 1>>}),
             result' = [u \in Attempts |-> IF u = <<a, 1>> THEN r
                          ELSE IF phase[u] = "waiting" THEN SkippedResult ELSE result[u]],
             signalled' = signalled \cup (Pool!Active \ {<<a, 1>>}),
             UNCHANGED <<userAbort, cancelled, callVars, agentCalls, frontVars>>
      PROVE  IInv'
  <2> DEFINE t == <<a, 1>>
  <2>1. t \in Attempts /\ phase[t] = "active" /\ closed' = TRUE
    BY <1>2 DEF Pool!Close
  <2>2. /\ phase'[t] = "done" /\ result'[t] = r
        /\ \A u \in Attempts \ {t} :
             IF phase[u] = "waiting" THEN phase'[u] = "done" /\ result'[u] = SkippedResult
                                     ELSE Kept(u)
        /\ phase' \in [Attempts -> {"new", "waiting", "active", "done"}]
        /\ result' \in [Attempts -> Results \cup {NoResult, SkippedResult}]
    BY <1>2, <2>1 DEF Pool!Close, Kept, IInv, TypeOK
  <2>3. r.status \in FinalStatuses
    BY ResultsAssumption DEF FinalStatuses
  <2>4. \A u \in Attempts : Ahead(u) /\ (phase'[u] = "active" => phase[u] = "active")
    BY <2>1, <2>2, <2>3, NoneFacts DEF Ahead, Kept
  <2>5. Settlement'
    BY <2>1, <2>2, <2>3, NoneFacts DEF IInv, Settlement, Kept
  <2>6. Grows
    BY <1>2, <2>1 DEF Grows, IInv, TypeOK
  <2>7. Cancelled'
    BY <1>2, <2>4 DEF IInv, Cancelled, Told, frontVars
  <2>8. Ended(a)' /\ Outcome(a)' # "succeeded"
    BY <1>2, <2>2 DEF Ended, Outcome, Failed, frontVars
  <2>9. signalled' \subseteq Attempts
    BY <1>2 DEF IInv, TypeOK
  <2> QED
    BY <1>2, <2>1, <2>2, <2>4, <2>5, <2>6, <2>7, <2>8, <2>9, PoolStep DEF IInv, TypeOK
<1>3. CASE DirectEnds(a)
  BY <1>1, <1>2, <1>3, AttemptsOf DEF DirectEnds
<1>4. CASE RetryEnds(a)
  <2>1. PICK n \in 1..MaxAttempts : AttemptEnds(<<a, n>>)
    BY <1>4 DEF RetryEnds
  <2>2. PICK r \in Results : result' = [result EXCEPT ![<<a, n>>] = r]
    BY <2>1 DEF AttemptEnds
  <2> QED BY <1>1, <1>4, <2>1, <2>2 DEF RetryEnds, AttemptEnds
<1> QED BY <1>3, <1>4 DEF Ends

LEMMA AbortSteps ==
  ASSUME IInv, RunAborts \/ \E a \in Agents : CancelCall(a)
  PROVE  IInv'
<1>0. \A b \in Agents : <<b, 1>> \in Attempts
  BY AttemptsOf
<1>1. CASE RunAborts
  <2>1. /\ AbortScheduler /\ userAbort' = TRUE
        /\ UNCHANGED <<cancelled, callVars, agentCalls, frontVars>>
    BY <1>1 DEF RunAborts, UserAborts
  <2>2. /\ \A t \in Attempts : Ahead(t)
        /\ phase' \in [Attempts -> {"new", "waiting", "active", "done"}]
        /\ result' \in [Attempts -> Results \cup {NoResult, SkippedResult}]
        /\ signalled' \subseteq Attempts /\ signalled \subseteq signalled'
        /\ ~closed /\ closed' = TRUE
        /\ Settlement'
        /\ \A t \in Attempts : phase'[t] = "active" => phase[t] = "active"
    BY <2>1, AbortAhead
  <2>3. Grows
    BY <2>1, <2>2 DEF Grows, IInv, TypeOK
  <2>4. Cancelled'
    BY <1>0, <2>1, <2>2 DEF IInv, Cancelled, Told, frontVars, Pool!Active
  <2> QED BY <2>1, <2>2, <2>3, <2>4, PoolStep DEF IInv, TypeOK
<1>2. ASSUME NEW a \in Agents, CancelCall(a) PROVE IInv'
  <2>1. /\ cancelled' = cancelled \cup {a} /\ signalled' = signalled \cup Told(a)
        /\ UNCHANGED <<phase, closed, result, userAbort, callVars, agentCalls, frontVars>>
    BY <1>2 DEF CancelCall, poolVars
  <2>2. Told(a) \subseteq Attempts /\ \A b : Told(b)' = Told(b)
    BY <2>1 DEF Told, Pool!Active, frontVars
  <2>3. Grows /\ (\A t \in Attempts : Ahead(t) /\ Kept(t)) /\ Settlement'
    BY <2>1 DEF Grows, Ahead, Kept, IInv, TypeOK, Settlement
  <2>4. Cancelled'
    BY <2>1, <2>2 DEF IInv, Cancelled
  <2>5. /\ cancelled' \subseteq Agents /\ signalled' \subseteq Attempts
        /\ phase' \in [Attempts -> {"new", "waiting", "active", "done"}]
        /\ result' \in [Attempts -> Results \cup {NoResult, SkippedResult}]
        /\ closed' \in BOOLEAN /\ userAbort' \in BOOLEAN
    BY <2>1, <2>2 DEF IInv, TypeOK
  <2> QED BY <1>0, <2>1, <2>3, <2>4, <2>5, PoolStep DEF Kept
<1> QED BY <1>1, <1>2

-----------------------------------------------------------------------------
(* The steps of agent() itself, between the orchestrator and the script.   *)
LEMMA FrontOnly ==
  ASSUME IInv, NEW a \in Agents, UNCHANGED <<vars, budget>>,
         \A b \in Agents \ {a} : way'[b] = way[b] /\ at'[b] = at[b],
         way'[a] = way[a] \/ (way[a] = "none" /\ phase[<<a, 1>>] = "new"),
         FrontTypeOK', Routed(a)', way'[a] = "direct" => Single(a)',
         About' = About,
         IsFiniteSet(Holders'), free' = budget - Cardinality(Holders'),
         ResultsAreListed'
  PROVE  IInv'
<1>0. /\ UNCHANGED <<phase, closed, result, signalled, userAbort, cancelled, pc, num,
                     attemptsStarted, attempts, final, exhausted, terminal, agentCalls>>
      /\ UNCHANGED budget
  BY DEF vars, poolVars, callVars
<1>1. TypeOK' /\ Settlement'
  BY <1>0 DEF IInv, TypeOK, Settlement
<1>2. Grows /\ \A t \in Attempts : Ahead(t)
  BY <1>0 DEF Grows, Ahead, Kept, IInv, TypeOK
<1>3. ASSUME NEW b \in Agents PROVE CallOK(b)'
  <2>1. CASE b # a
    BY <1>0, <1>2, <2>1, AttemptsOf, CallStays DEF Stays, LoopStays
  <2>2. CASE b = a
    <3>1. CallOK(a)
      BY DEF IInv
    <3>2. Looping(a)'
      <4>1. way'[a] # "direct" => way[a] # "direct"
        OBVIOUS
      <4> QED BY <1>0, <3>1, <4>1 DEF CallOK, Looping, Current, CanRetry
    <3>3. Written(a)' /\ Concluded(a)'
      BY <1>0, <3>1 DEF CallOK, Written, Concluded, Current, RetryExhausted, LastAttempt
    <3> QED BY <2>2, <3>2, <3>3 DEF CallOK
  <2> QED BY <2>1, <2>2
<1>4. Counted'
  <2>1. HandedOver' = HandedOver
    BY <1>0 DEF HandedOver
  <2> QED BY <1>0, <2>1 DEF IInv, Counted
<1>5. \A b \in Agents : (Ended(b) => Ended(b)' /\ Outcome(b)' = Outcome(b)) /\ (Ended(b)' => Ended(b))
  <2>1. ASSUME NEW b \in Agents, way'[b] = way[b]
        PROVE  (Ended(b) => Ended(b)' /\ Outcome(b)' = Outcome(b)) /\ (Ended(b)' => Ended(b))
    BY <1>0, <2>1 DEF Ended, Outcome
  <2>2. ASSUME way[a] = "none", phase[<<a, 1>>] = "new" PROVE ~Ended(a) /\ ~Ended(a)'
    <3>1. pc[a] = "idle"
      BY <2>2 DEF IInv, CallOK, Routed
    <3> QED BY <1>0, <2>2, <3>1 DEF Ended
  <2> QED BY <2>1, <2>2
<1>6. FailFastOnLogicalFailure'
  BY <1>0, <1>2, <1>5, FailFastStays
<1>7. Cancelled'
  <2>1. cancelled \subseteq Agents
    BY DEF IInv, TypeOK
  <2>2. ASSUME NEW b \in Agents PROVE Told(b)' \subseteq Told(b)
    <3>1. CASE way'[b] = way[b]
      BY <1>0, <3>1 DEF Told, Pool!Active
    <3>2. CASE b = a /\ phase[<<a, 1>>] = "new"
      <4>1. <<a, 1>> \notin Pool!Active'
        BY <1>0, <3>2 DEF Pool!Active
      <4> QED BY <3>2, <4>1 DEF Told
    <3> QED BY <3>1, <3>2
  <2> QED BY <1>0, <2>1, <2>2 DEF IInv, Cancelled
<1> QED BY <1>1, <1>3, <1>4, <1>6, <1>7 DEF IInv

(* An entry is added to the list of results.                               *)
LEMMA ListGrows ==
  ASSUME IInv, NEW a \in Agents, UNCHANGED <<vars, way>>,
         NEW status \in FinalStatuses, List(a, status),
         \A b \in Agents \ {a} : at'[b] = at[b],
         at[a] \notin {"recording", "done"}, at'[a] \in {"recording", "done"},
         Executes(a) => Ended(a) /\ status = Outcome(a)
  PROVE  ResultsAreListed' /\ results' \in Seq(Agents \X FinalStatuses)
<1> DEFINE n == Len(results)
<1>0. UNCHANGED <<phase, result, pc, final, agentCalls, way>>
  BY DEF vars, poolVars, callVars
<1>1. \A b : Ended(b)' = Ended(b) /\ Outcome(b)' = Outcome(b) /\ Executes(b)' = Executes(b)
      /\ LimitReached' = LimitReached
  BY <1>0 DEF Ended, Outcome, Executes, LimitReached
<1>2. /\ results \in Seq(Agents \X FinalStatuses) /\ n \in Nat /\ DOMAIN results = 1..n
      /\ results' \in Seq(Agents \X FinalStatuses)
      /\ DOMAIN results' = 1..(n + 1)
      /\ \A i \in 1..n : results'[i] = results[i]
      /\ results'[n + 1] = <<a, status>>
  BY DEF IInv, FrontTypeOK, List
<1>3. \A i \in 1..n : /\ results[i][1] \in Agents
                      /\ at[results[i][1]] \in {"recording", "done"}
                      /\ results[i][1] # a
  BY <1>2 DEF IInv, ResultsAreListed
<1>4. \A i \in 1..(n + 1) : i \in 1..n \/ i = n + 1
  BY <1>2
<1>5. ASSUME NEW i \in DOMAIN results', NEW b, b = results'[i][1]
      PROVE  /\ \A j \in DOMAIN results' : results'[j][1] = b => i = j
             /\ at'[b] \in {"recording", "done"}
             /\ Executes(b)' => Ended(b)' /\ results'[i][2] = Outcome(b)'
  <2>1. CASE i \in 1..n
    <3>1. b = results[i][1] /\ b # a /\ b \in Agents
      BY <1>2, <1>3, <1>5, <2>1
    <3>2. /\ \A j \in 1..n : results[j][1] = b => i = j
          /\ at[b] \in {"recording", "done"}
          /\ Executes(b) => Ended(b) /\ results[i][2] = Outcome(b)
      BY <1>2, <2>1, <3>1 DEF IInv, ResultsAreListed
    <3>3. \A j \in 1..(n + 1) : results'[j][1] = b => i = j
      <4>1. \A j \in 1..(n + 1) : results'[j][1] = b => j \in 1..n
        BY <1>2, <1>4, <3>1
      <4> QED BY <1>2, <3>2, <4>1
    <3>4. at'[b] = at[b] /\ results'[i][2] = results[i][2]
      BY <1>2, <2>1, <3>1
    <3> HIDE DEF n
    <3> QED BY <1>1, <1>2, <3>2, <3>3, <3>4
  <2>2. CASE i = n + 1
    <3>1. b = a /\ results'[i][2] = status
      BY <1>2, <1>5, <2>2
    <3>2. \A j \in 1..(n + 1) : results'[j][1] = a => j = n + 1
      BY <1>2, <1>3, <1>4
    <3> QED BY <1>1, <1>2, <2>2, <3>1, <3>2
  <2> QED BY <1>2, <1>4, <1>5, <2>1, <2>2
<1>6. ASSUME NEW b \in Agents, at'[b] \in {"recording", "done"}
      PROVE  \/ \E i \in DOMAIN results' : results'[i][1] = b
             \/ way'[b] = "direct" /\ phase'[<<b, 1>>] = "new" /\ LimitReached'
             \/ way'[b] \in {"refused", "replay"}
  <2>1. CASE b = a
    <3>1. n + 1 \in DOMAIN results' /\ results'[n + 1][1] = a
      BY <1>2
    <3> QED BY <2>1, <3>1
  <2>2. CASE b # a
    <3>1. \/ \E i \in DOMAIN results : results[i][1] = b
          \/ way[b] = "direct" /\ phase[<<b, 1>>] = "new" /\ LimitReached
          \/ way[b] \in {"refused", "replay"}
      BY <1>6, <2>2 DEF IInv, ResultsAreListed
    <3>2. \A i \in DOMAIN results : i \in DOMAIN results' /\ results'[i] = results[i]
      BY <1>2
    <3> QED BY <1>0, <1>1, <3>1, <3>2
  <2> QED BY <2>1, <2>2
<1> QED BY <1>2, <1>5, <1>6 DEF ResultsAreListed

(* A call moves on without an entry: it is not over, is over as one that   *)
(* has none, or had its entry before.                                      *)
LEMMA ListKept ==
  ASSUME IInv, NEW a \in Agents, UNCHANGED <<vars, results>>,
         \A b \in Agents \ {a} : way'[b] = way[b] /\ at'[b] = at[b],
         at[a] # "idle" => way'[a] = way[a],
         at[a] \in {"recording", "done"} => at'[a] \in {"recording", "done"},
         \/ at'[a] \notin {"recording", "done"}
         \/ at[a] \in {"recording", "done"}
         \/ way'[a] \in {"refused", "replay"}
         \/ way'[a] = "direct" /\ phase[<<a, 1>>] = "new" /\ LimitReached
  PROVE  ResultsAreListed'
<1>0. UNCHANGED <<phase, result, pc, final, agentCalls, results>>
  BY DEF vars, poolVars, callVars
<1>1. LimitReached' = LimitReached
  BY <1>0 DEF LimitReached
<1>2. \A i \in DOMAIN results : /\ results[i][1] \in Agents
                                /\ at[results[i][1]] \in {"recording", "done"}
  BY DEF IInv, FrontTypeOK, ResultsAreListed
<1>3. \A i \in DOMAIN results : /\ way'[results[i][1]] = way[results[i][1]]
                                /\ at'[results[i][1]] \in {"recording", "done"}
  BY <1>2
<1>4. \A b : way'[b] = way[b] =>
        Ended(b)' = Ended(b) /\ Outcome(b)' = Outcome(b) /\ Executes(b)' = Executes(b)
  BY <1>0 DEF Ended, Outcome, Executes
<1>5. ASSUME NEW i \in DOMAIN results, NEW b, b = results[i][1]
      PROVE  /\ \A j \in DOMAIN results : results[j][1] = b => i = j
             /\ at'[b] \in {"recording", "done"}
             /\ Executes(b)' => Ended(b)' /\ results[i][2] = Outcome(b)'
  BY <1>3, <1>4, <1>5 DEF IInv, ResultsAreListed
<1>6. ASSUME NEW b \in Agents, at'[b] \in {"recording", "done"}
      PROVE  \/ \E i \in DOMAIN results : results[i][1] = b
             \/ way'[b] = "direct" /\ phase[<<b, 1>>] = "new" /\ LimitReached
             \/ way'[b] \in {"refused", "replay"}
  <2>1. CASE at[b] \in {"recording", "done"}
    <3>1. way'[b] = way[b]
      BY <2>1
    <3> QED BY <2>1, <3>1 DEF IInv, ResultsAreListed
  <2>2. CASE at[b] \notin {"recording", "done"}
    BY <1>6, <2>2
  <2> QED BY <2>1, <2>2
<1> QED BY <1>0, <1>1, <1>5, <1>6 DEF ResultsAreListed

Ways == {"none", "refused", "replay", "retry", "direct"}
Awaits == {"idle", "listing", "resolving", "acquiring", "executing", "recording", "done"}

(* What a holder of a permit may count on.                                 *)
LEMMA HoldersBound ==
  ASSUME IInv
  PROVE  /\ budget \in Nat /\ free \in 0..budget /\ IsFiniteSet(Holders)
         /\ Cardinality(Holders) \in Nat /\ free = budget - Cardinality(Holders)
         /\ Holders # {} => Cardinality(Holders) >= 1
         /\ FrontTypeOK /\ way \in [Agents -> Ways] /\ at \in [Agents -> Awaits]
<1>1. /\ IsFiniteSet(Holders) /\ free = budget - Cardinality(Holders)
      /\ budget \in Nat /\ free \in 0..budget
  BY BudgetsAssumption DEF IInv, Counted, FrontTypeOK
<1>2. Cardinality(Holders) \in Nat /\ (Cardinality(Holders) = 0 <=> Holders = {})
  BY <1>1, FS_CardinalityType, FS_EmptySet
<1>3. FrontTypeOK /\ way \in [Agents -> Ways] /\ at \in [Agents -> Awaits]
  BY DEF IInv, FrontTypeOK, Ways, Awaits
<1> QED BY <1>1, <1>2, <1>3

(* The steps that take no permit and give none back.                       *)
LEMMA FrontMove ==
  ASSUME IInv, NEW a \in Agents, UNCHANGED <<vars, budget, free>>,
         NEW w \in Ways, NEW await \in Awaits,
         way' = [way EXCEPT ![a] = w], at' = [at EXCEPT ![a] = await],
         w = way[a] \/ at[a] = "idle",
         results' \in Seq(Agents \X FinalStatuses),
         Routed(a)', w = "direct" => Single(a)',
         w = "direct" => at[a] # "acquiring" /\ await # "acquiring",
         w \in {"retry", "direct"} =>
           (at[a] \in {"executing", "recording"} <=> await \in {"executing", "recording"}),
         ResultsAreListed'
  PROVE  IInv'
<1>1. /\ way'[a] = w /\ at'[a] = await
      /\ \A b \in Agents \ {a} : way'[b] = way[b] /\ at'[b] = at[b]
      /\ way' \in [Agents -> Ways] /\ at' \in [Agents -> Awaits]
  BY HoldersBound
<1>2. UNCHANGED <<pc, phase, budget, free>>
  BY DEF vars, callVars, poolVars
<1>3. way[a] = w \/ (way[a] = "none" /\ phase[<<a, 1>>] = "new" /\ at[a] = "idle")
  <2>1. CASE at[a] = "idle"
    <3>1. way[a] = "none" /\ CallOK(a) /\ pc[a] = "idle"
      BY <2>1 DEF IInv, CallOK, Routed
    <3>2. phase[<<a, 1>>] = "new"
      BY <3>1 DEF CallOK, Looping, Current
    <3> QED BY <2>1, <3>1, <3>2
  <2> QED BY <2>1
<1>4. About' = About
  BY <1>1, <1>2, <1>3 DEF About
<1>5. Holders' = Holders
  <2>1. \A b \in Agents : (Executes(b) /\ at[b] \in {"executing", "recording"})' <=>
                           (Executes(b) /\ at[b] \in {"executing", "recording"})
    BY <1>1, <1>3 DEF Executes
  <2> QED BY <2>1 DEF Holders
<1>6. FrontTypeOK'
  BY <1>1, <1>2, HoldersBound DEF FrontTypeOK, Ways, Awaits
<1> QED BY <1>1, <1>2, <1>3, <1>4, <1>5, <1>6, HoldersBound, FrontOnly

LEMMA FrontSteps ==
  ASSUME IInv, NEW a \in Agents,
         \/ \E w \in {"refused", "replay", "retry", "direct"} : Select(a, w)
         \/ Listed(a) \/ NotListed(a) \/ Replayed(a) \/ ToRetry(a)
         \/ DirectRefused(a) \/ Executed(a)
  PROVE  IInv'
<1> DEFINE S == Seq(Agents \X FinalStatuses)
<1>0. /\ CallOK(a) /\ results \in S
      /\ way \in [Agents -> Ways] /\ at \in [Agents -> Awaits]
      /\ way[a] \in Ways /\ at[a] \in Awaits
      /\ [way EXCEPT ![a] = way[a]] = way
  BY HoldersBound DEF IInv, FrontTypeOK
<1>a. \A await \in Awaits : at' = [at EXCEPT ![a] = await] =>
        at'[a] = await /\ \A b \in Agents \ {a} : at'[b] = at[b]
  BY <1>0
<1>b. way' = way => way' = [way EXCEPT ![a] = way[a]]
  BY <1>0
<1>c. UNCHANGED vars => UNCHANGED <<pc, phase>>
  BY DEF vars, callVars, poolVars
<1>1. ASSUME NEW w \in {"refused", "replay", "retry", "direct"}, Select(a, w) PROVE IInv'
  <2> DEFINE await == IF w = "refused" THEN "listing" ELSE "resolving"
  <2>1. /\ at[a] = "idle" /\ way' = [way EXCEPT ![a] = w] /\ at' = [at EXCEPT ![a] = await]
        /\ UNCHANGED <<vars, budget, free>> /\ results' = results
        /\ w \in Ways /\ await \in Awaits /\ await \notin {"recording", "done"}
    BY <1>1 DEF Select, Proceed, Ways, Awaits
  <2>2. way'[a] = w /\ at'[a] = await /\ \A b \in Agents \ {a} : way'[b] = way[b] /\ at'[b] = at[b]
    BY <1>0, <2>1
  <2>3. pc[a] = "idle" /\ phase[<<a, 1>>] = "new"
    BY <1>0, <2>1 DEF CallOK, Routed, Looping, Current
  <2>4. Routed(a)' /\ (w = "direct" => Single(a)')
    BY <1>1, <1>c, <2>1, <2>2, <2>3 DEF Routed, Single
  <2>5. ResultsAreListed'
    <3> HIDE DEF await
    <3>1. at'[a] \notin {"recording", "done"} /\ at[a] \notin {"recording", "done"}
      BY <2>1, <2>2
    <3> QED BY <2>1, <2>2, <3>1, ListKept
  <2> QED BY <1>0, <2>1, <2>4, <2>5, FrontMove
<1>2. ASSUME Listed(a) PROVE IInv'
  <2> DEFINE status == IF way[a] = "refused" THEN "failed" ELSE "succeeded"
             await == IF way[a] = "refused" THEN "done" ELSE "recording"
  <2>1. /\ at[a] = "listing" /\ at' = [at EXCEPT ![a] = await] /\ await \in Awaits
        /\ UNCHANGED <<vars, budget, free>> /\ way' = way
        /\ List(a, status) /\ status \in FinalStatuses
        /\ way[a] \in {"refused", "replay"}
    BY <1>0, <1>2 DEF Listed, Proceed, Awaits, FinalStatuses, CallOK, Routed
  <2>2. Routed(a)'
    BY <1>0, <1>a, <1>c, <2>1 DEF CallOK, Routed
  <2>3. ResultsAreListed' /\ results' \in S
    BY <1>a, <2>1, ListGrows DEF Executes
  <2> QED BY <1>0, <1>b, <2>1, <2>2, <2>3, FrontMove
<1>3. ASSUME NotListed(a) PROVE IInv'
  <2>1. /\ at[a] = "listing" /\ at' = [at EXCEPT ![a] = "done"] /\ "done" \in Awaits
        /\ UNCHANGED <<vars, budget, free>> /\ way' = way /\ results' = results
        /\ way[a] \in {"refused", "replay"}
    BY <1>0, <1>3 DEF NotListed, Proceed, Awaits, CallOK, Routed
  <2>2. Routed(a)'
    BY <1>0, <1>a, <1>c, <2>1 DEF CallOK, Routed
  <2>3. ResultsAreListed'
    BY <1>a, <2>1, ListKept
  <2> QED BY <1>0, <1>b, <2>1, <2>2, <2>3, FrontMove
<1>4. ASSUME Replayed(a) PROVE IInv'
  <2>1. /\ at[a] = "resolving" /\ at' = [at EXCEPT ![a] = "listing"] /\ "listing" \in Awaits
        /\ UNCHANGED <<vars, budget, free>> /\ way' = way /\ results' = results
        /\ way[a] = "replay"
    BY <1>4 DEF Replayed, Proceed, Awaits
  <2>2. Routed(a)'
    BY <1>0, <1>a, <1>c, <2>1 DEF CallOK, Routed
  <2>3. ResultsAreListed'
    BY <1>a, <2>1, ListKept
  <2> QED BY <1>0, <1>b, <2>1, <2>2, <2>3, FrontMove
<1>5. ASSUME ToRetry(a) PROVE IInv'
  <2>1. /\ at[a] = "resolving" /\ at' = [at EXCEPT ![a] = "acquiring"] /\ "acquiring" \in Awaits
        /\ UNCHANGED <<vars, budget, free>> /\ way' = way /\ results' = results
        /\ way[a] = "retry"
    BY <1>5 DEF ToRetry, Proceed, Awaits
  <2>2. Routed(a)'
    BY <1>0, <1>a, <1>c, <2>1 DEF CallOK, Routed
  <2>3. ResultsAreListed'
    BY <1>a, <2>1, ListKept
  <2> QED BY <1>0, <1>b, <2>1, <2>2, <2>3, FrontMove
<1>6. ASSUME DirectRefused(a) PROVE IInv'
  <2>1. /\ at[a] = "resolving" /\ at' = [at EXCEPT ![a] = "done"] /\ "done" \in Awaits
        /\ UNCHANGED <<vars, budget, free>> /\ way' = way /\ results' = results
        /\ way[a] = "direct" /\ LimitReached /\ UNCHANGED agentCalls
    BY <1>6 DEF DirectRefused, Proceed, Awaits, vars
  <2>2. phase[<<a, 1>>] = "new"
    BY <1>0, <2>1 DEF CallOK, Single
  <2>3. Routed(a)' /\ Single(a)'
    BY <1>0, <1>a, <1>c, <2>1, <2>2 DEF CallOK, Routed, Single, LimitReached
  <2>4. ResultsAreListed'
    BY <1>a, <2>1, <2>2, ListKept
  <2> QED BY <1>0, <1>b, <2>1, <2>3, <2>4, FrontMove
<1>7. ASSUME Executed(a) PROVE IInv'
  <2>1. /\ at[a] = "executing" /\ at' = [at EXCEPT ![a] = "recording"] /\ "recording" \in Awaits
        /\ UNCHANGED <<vars, budget, free>> /\ way' = way
        /\ way[a] \in {"retry", "direct"}
    BY <1>0, <1>7 DEF Executed, Proceed, Awaits, CallOK, Routed
  <2>2. Ended(a) /\ List(a, Outcome(a))
    BY <1>7, <2>1 DEF Executed, Ended, Outcome
  <2>3. Outcome(a) \in FinalStatuses
    <3>1. CASE way[a] = "retry"
      BY <1>0, <2>2, <3>1 DEF Ended, Outcome, CallOK, Concluded, Over
    <3>2. CASE way[a] = "direct"
      BY <2>2, <3>2, AttemptsOf DEF Ended, Outcome, IInv, Settlement
    <3> QED BY <2>1, <3>1, <3>2
  <2>4. Routed(a)' /\ (way[a] = "direct" => Single(a)')
    BY <1>0, <1>a, <1>c, <2>1, <2>2 DEF CallOK, Routed, Single, Ended
  <2>5. ResultsAreListed' /\ results' \in S
    BY <1>a, <2>1, <2>2, <2>3, ListGrows
  <2> QED BY <1>0, <1>b, <2>1, <2>4, <2>5, FrontMove
<1> QED BY <1>1, <1>2, <1>3, <1>4, <1>5, <1>6, <1>7

(* A permit is taken by a call that will retry, and is given back.         *)
LEMMA PermitSteps ==
  ASSUME IInv, NEW a \in Agents, AcquireForRetry(a) \/ Recorded(a)
  PROVE  IInv'
<1>0. /\ CallOK(a)
      /\ way \in [Agents -> Ways] /\ at \in [Agents -> Awaits]
      /\ results \in Seq(Agents \X FinalStatuses)
  BY HoldersBound DEF IInv, FrontTypeOK
<1>1. PICK await \in {"executing", "done"} :
        /\ at' = [at EXCEPT ![a] = await]
        /\ UNCHANGED <<vars, way, budget, results>>
        /\ IF await = "executing"
           THEN at[a] = "acquiring" /\ way[a] = "retry" /\ free > 0 /\ free' = free - 1
           ELSE at[a] = "recording" /\ free' = free + Released(a)
  BY DEF AcquireForRetry, Granted, Recorded, Proceed
<1>2. /\ at'[a] = await /\ way' = way /\ at' \in [Agents -> Awaits]
      /\ \A b \in Agents \ {a} : at'[b] = at[b]
      /\ UNCHANGED <<pc, phase>>
  BY <1>0, <1>1 DEF Awaits, vars, callVars, poolVars
<1>3. way[a] # "none" /\ way[a] # "refused"
  BY <1>0, <1>1 DEF CallOK, Routed
<1>4. Routed(a)' /\ (way[a] = "direct" => Single(a)')
  BY <1>0, <1>1, <1>2 DEF CallOK, Routed, Single
<1>5. About' = About
  BY <1>1, <1>2 DEF About
<1>6. /\ IsFiniteSet(Holders') /\ free' = budget - Cardinality(Holders')
      /\ free' \in 0..budget
  <2>1. CASE await = "executing"
    <3>1. Holders' = Holders \cup {a} /\ a \notin Holders
      BY <1>1, <1>2, <2>1 DEF Holders, Executes
    <3>2. IsFiniteSet(Holders') /\ Cardinality(Holders') = Cardinality(Holders) + 1
      BY <3>1, FS_AddElement, HoldersBound
    <3> QED BY <1>1, <2>1, <3>2, HoldersBound
  <2>2. CASE await = "done" /\ way[a] = "replay"
    <3>1. Holders' = Holders
      BY <1>1, <1>2, <2>2 DEF Holders, Executes
    <3> QED BY <1>1, <2>2, <3>1, HoldersBound DEF Released
  <2>3. CASE await = "done" /\ way[a] # "replay"
    <3>1. Holders' = Holders \ {a} /\ a \in Holders
      BY <1>0, <1>1, <1>2, <2>3 DEF Holders, Executes, CallOK, Routed
    <3>2. IsFiniteSet(Holders') /\ Cardinality(Holders') = Cardinality(Holders) - 1
      BY <3>1, FS_RemoveElement, HoldersBound
    <3> QED BY <1>1, <2>3, <3>1, <3>2, HoldersBound DEF Released
  <2> QED BY <2>1, <2>2, <2>3
<1>7. FrontTypeOK'
  BY <1>0, <1>1, <1>2, <1>6, HoldersBound DEF FrontTypeOK, Ways, Awaits
<1>8. ResultsAreListed'
  BY <1>1, <1>2, ListKept
<1> QED BY <1>1, <1>2, <1>4, <1>5, <1>6, <1>7, <1>8, FrontOnly

(* A call without retry is counted before it waits for its permit.         *)
LEMMA CountStep ==
  ASSUME IInv, NEW a \in Agents, DirectCounted(a)
  PROVE  IInv'
<1>0. /\ CallOK(a)
      /\ way \in [Agents -> Ways] /\ at \in [Agents -> Awaits]
      /\ agentCalls \in Nat /\ MaxAgentCalls \in Nat
  <2>1. agentCalls \in Nat /\ MaxAgentCalls \in Nat
    BY RetryAssumption DEF IInv, TypeOK
  <2> QED BY <2>1, HoldersBound DEF IInv
<1>1. /\ at[a] = "resolving" /\ way[a] = "direct"
      /\ at' = [at EXCEPT ![a] = "acquiring"]
      /\ agentCalls' = agentCalls + 1 /\ agentCalls < MaxAgentCalls
      /\ UNCHANGED <<phase, closed, result, signalled, userAbort, cancelled, pc, num,
                     attemptsStarted, attempts, final, exhausted, terminal>>
      /\ UNCHANGED <<way, budget, free, results>>
  BY <1>0 DEF DirectCounted, Proceed, DirectCount, LimitReached, poolVars, callVars
<1>2. /\ at'[a] = "acquiring" /\ at' \in [Agents -> Awaits]
      /\ \A b \in Agents \ {a} : at'[b] = at[b]
      /\ agentCalls' \in 0..MaxAgentCalls
  BY <1>0, <1>1 DEF Awaits
<1>3. TypeOK' /\ FrontTypeOK' /\ Settlement'
  BY <1>1, <1>2 DEF IInv, TypeOK, FrontTypeOK, Settlement, Awaits
<1>4. Grows /\ \A t \in Attempts : Ahead(t) /\ Kept(t)
  BY <1>0, <1>1 DEF Grows, Ahead, Kept
<1>5. ASSUME NEW b \in Agents PROVE CallOK(b)'
  <2>1. CASE b # a
    BY <1>1, <1>2, <1>4, <2>1, AttemptsOf, CallStays DEF Stays, LoopStays
  <2>2. CASE b = a
    <3>1. Routed(a)' /\ Single(a)'
      BY <1>0, <1>1, <1>2 DEF CallOK, Routed, Single
    <3>2. Looping(a)' /\ Written(a)' /\ Concluded(a)'
      BY <1>0, <1>1 DEF CallOK, Looping, Written, Concluded, Current, CanRetry,
                        RetryExhausted, LastAttempt
    <3> QED BY <2>2, <3>1, <3>2 DEF CallOK
  <2> QED BY <2>1, <2>2
<1>6. Counted'
  <2>1. pc[a] = "idle"
    BY <1>0, <1>1 DEF CallOK, Routed
  <2>2. About' = About \cup {a} /\ a \notin About
    BY <1>1, <1>2, <2>1 DEF About
  <2>3. IsFiniteSet(About') /\ Cardinality(About') = Cardinality(About) + 1
    BY <2>2, FS_AddElement DEF IInv, Counted
  <2>4. HandedOver' = HandedOver /\ Holders' = Holders
    BY <1>1, <1>2 DEF HandedOver, Holders, Executes
  <2>5. Cardinality(HandedOver) \in Nat /\ Cardinality(About) \in Nat
    BY FS_CardinalityType DEF IInv, Counted
  <2> QED BY <1>1, <2>3, <2>4, <2>5 DEF IInv, Counted
<1>7. ASSUME NEW b \in Agents PROVE Ended(b)' = Ended(b) /\ Outcome(b)' = Outcome(b)
  BY <1>1 DEF Ended, Outcome
<1>8. ResultsAreListed'
  <2>1. \A b \in Agents : at[b] \in {"recording", "done"} <=> at'[b] \in {"recording", "done"}
    BY <1>1, <1>2
  <2> QED BY <1>1, <1>4, <1>7, <2>1, ListStays
<1>9. FailFastOnLogicalFailure'
  BY <1>1, <1>4, <1>7, FailFastStays
<1>10. Cancelled'
  BY <1>1 DEF IInv, Cancelled, Told, Pool!Active
<1> QED BY <1>3, <1>5, <1>6, <1>8, <1>9, <1>10 DEF IInv

(* It gets its permit, and its task is handed over at once.                *)
LEMMA DirectStep ==
  ASSUME IInv, NEW a \in Agents, AcquireForDirect(a)
  PROVE  IInv'
<1> DEFINE t == <<a, 1>>
<1>0. /\ CallOK(a) /\ t \in Attempts
      /\ way \in [Agents -> Ways] /\ at \in [Agents -> Awaits]
  BY HoldersBound, AttemptsOf DEF IInv
<1>1. /\ at[a] = "acquiring" /\ way[a] = "direct"
      /\ at' = [at EXCEPT ![a] = "executing"]
      /\ free > 0 /\ free' = free - 1
      /\ UNCHANGED <<signalled, userAbort, cancelled, pc, num, attemptsStarted, attempts,
                     final, exhausted, terminal, agentCalls>>
      /\ UNCHANGED <<way, budget, results>>
  BY DEF AcquireForDirect, Granted, Proceed, callVars
<1>2. /\ at'[a] = "executing" /\ at' \in [Agents -> Awaits]
      /\ \A b \in Agents \ {a} : at'[b] = at[b]
  BY <1>0, <1>1 DEF Awaits
<1>3. /\ Submits(t)
      /\ \A u \in Attempts \ {t} : Kept(u)
      /\ phase' \in [Attempts -> {"new", "waiting", "active", "done"}]
      /\ result' \in [Attempts -> Results \cup {NoResult, SkippedResult}]
      /\ closed' = closed
      /\ Settlement'
  BY <1>0, SubmitSubmits DEF AcquireForDirect
<1>4. TypeOK'
  BY <1>1, <1>3 DEF IInv, TypeOK
<1>5. Grows
  BY <1>1, <1>3 DEF Grows, IInv, TypeOK
<1>6. \A b \in Agents \ {a}, n \in 1..MaxAttempts : Kept(<<b, n>>)
  BY <1>3, AttemptsOf
<1>7. ASSUME NEW b \in Agents PROVE CallOK(b)'
  <2>1. CASE b # a
    <3>1. Stays(b)
      BY <1>1, <1>2, <2>1 DEF Stays, LoopStays
    <3> QED BY <1>5, <1>6, <2>1, <3>1, CallStays DEF Ahead
  <2>2. CASE b = a
    <3>1. /\ pc[a] = "idle" /\ num[a] = 1 /\ num'[a] = 1 /\ pc'[a] = "idle"
          /\ phase'[t] # "new"
      BY <1>0, <1>1, <1>3 DEF CallOK, Routed, Looping, Submits
    <3>2. \A n \in 1..MaxAttempts : n > 1 => Kept(<<a, n>>)
      BY <1>3, AttemptsOf
    <3>3. Looping(a)'
      BY <1>0, <1>1, <3>1, <3>2 DEF CallOK, Looping, Kept, Over, Current
    <3>4. Written(a)'
      BY <1>0, <1>1, <3>1, RetryAssumption DEF CallOK, Written, Over, Before, Attempting, IInv, TypeOK
    <3>5. Routed(a)' /\ Single(a)' /\ Concluded(a)'
      BY <1>0, <1>1, <1>2, <3>1 DEF CallOK, Routed, Single, Concluded, Over
    <3> QED BY <2>2, <3>3, <3>4, <3>5 DEF CallOK
  <2> QED BY <2>1, <2>2
<1>8. /\ IsFiniteSet(Holders') /\ free' = budget - Cardinality(Holders')
      /\ free' \in 0..budget
  <2>1. Holders' = Holders \cup {a} /\ a \notin Holders
    BY <1>1, <1>2 DEF Holders, Executes
  <2>2. IsFiniteSet(Holders') /\ Cardinality(Holders') = Cardinality(Holders) + 1
    BY <2>1, FS_AddElement, HoldersBound
  <2> QED BY <1>1, <2>2, HoldersBound
<1>9. Counted'
  <2>1. pc[a] = "idle"
    BY <1>0, <1>1 DEF CallOK, Routed
  <2>2. a \in About /\ About' = About \ {a}
    BY <1>1, <1>2, <2>1 DEF About
  <2> QED BY <1>0, <1>1, <1>3, <1>8, <2>2, HandOver DEF Counted
<1>10. FrontTypeOK'
  BY <1>1, <1>2, <1>8 DEF IInv, FrontTypeOK, Awaits
<1>11. ASSUME NEW b \in Agents PROVE Ended(b) => Ended(b)' /\ Outcome(b)' = Outcome(b)
  <2>1. Ahead(<<b, 1>>) \/ Submits(<<b, 1>>)
    BY <1>3, AttemptsOf DEF Ahead
  <2> QED BY <1>1, <2>1, EndedStays
<1>12. ResultsAreListed'
  <2>1. \A b \in Agents : at[b] \in {"recording", "done"} <=> at'[b] \in {"recording", "done"}
    BY <1>1, <1>2
  <2>2. \A b \in Agents : at[b] \in {"recording", "done"} /\ phase[<<b, 1>>] = "new" =>
          phase'[<<b, 1>>] = "new"
    BY <1>1, <1>6, AttemptsOf DEF Kept
  <2> QED BY <1>1, <1>5, <1>11, <2>1, <2>2, ListStays
<1>13. FailFastOnLogicalFailure'
  <2>1. ASSUME NEW b \in Agents, Ended(b)', ~Ended(b) PROVE closed'
    <3>1. CASE b = a
      <4>1. phase'[t] = "done"
        BY <1>1, <2>1, <3>1 DEF Ended
      <4> QED BY <1>3, <4>1 DEF Submits
    <3>2. CASE b # a
      <4>1. Kept(<<b, 1>>)
        BY <1>6, <3>2, AttemptsOf
      <4> QED BY <1>1, <2>1, <3>2, <4>1 DEF Ended, Kept
    <3> QED BY <3>1, <3>2
  <2> QED BY <1>3, <1>5, <1>11, <2>1, FailFastStays
<1>14. Cancelled'
  <2>1. cancelled \subseteq Agents /\ \A b \in Agents : <<b, 1>> \in Attempts
    BY AttemptsOf DEF IInv, TypeOK
  <2>2. \A b \in Agents : phase'[<<b, 1>>] = "active" => phase[<<b, 1>>] = "active"
    BY <1>3, <2>1 DEF Submits, Kept
  <2> QED BY <1>1, <2>1, <2>2 DEF IInv, Cancelled, Told, Pool!Active
<1> QED BY <1>3, <1>4, <1>7, <1>9, <1>10, <1>12, <1>13, <1>14 DEF IInv

-----------------------------------------------------------------------------
LEMMA InitIInv == FrontInit => IInv
<1> SUFFICES ASSUME FrontInit PROVE IInv
  OBVIOUS
<1> USE DEF FrontInit, Init, Pool!PoolInit
<1>1. TypeOK
  <2>1. <<>> \in Seq([status : FinalStatuses, retryable : BOOLEAN]) /\ 0 \in 0..MaxAgentCalls
        /\ 1 \in 1..MaxAttempts /\ 0 \in 0..MaxAttempts
    BY RetryAssumption
  <2> QED BY <2>1 DEF TypeOK
<1>2. FrontTypeOK /\ budget \in Nat
  BY BudgetsAssumption DEF FrontTypeOK
<1>3. Settlement
  BY DEF Settlement
<1>4. ASSUME NEW a \in Agents PROVE CallOK(a)
  <2>1. Current(a) \in Attempts
    BY AttemptsOf DEF Current
  <2> QED BY <2>1, RetryAssumption
             DEF CallOK, Routed, Single, Looping, Written, Concluded, Over, Before, Attempting, Attempts
<1>5. Counted
  <2>1. HandedOver = {} /\ About = {} /\ Holders = {}
    BY DEF HandedOver, About, Holders
  <2> QED BY <1>2, <2>1, FS_EmptySet DEF Counted
<1>6. ResultsAreListed /\ Cancelled
  BY DEF ResultsAreListed, Cancelled
<1>7. FailFastOnLogicalFailure
  BY DEF FailFastOnLogicalFailure, Ended
<1> QED BY <1>1, <1>2, <1>3, <1>4, <1>5, <1>6, <1>7 DEF IInv

LEMMA StepIInv == IInv /\ [FrontNext]_callsVars => IInv'
<1> SUFFICES ASSUME IInv, [FrontNext]_callsVars PROVE IInv'
  OBVIOUS
<1>1. CASE UNCHANGED callsVars
  <2>1. /\ UNCHANGED <<phase, closed, result, signalled, userAbort, cancelled, callVars, agentCalls>>
        /\ UNCHANGED frontVars
    BY <1>1 DEF callsVars, vars, poolVars
  <2>2. Grows /\ (\A t \in Attempts : Ahead(t) /\ Kept(t)) /\ Settlement'
    BY <2>1 DEF Grows, Ahead, Kept, IInv, TypeOK, Settlement
  <2>3. Cancelled'
    BY <2>1 DEF IInv, Cancelled, Told, Pool!Active, frontVars
  <2> QED BY <2>1, <2>2, <2>3, PoolStep, AttemptsOf DEF Kept, IInv, TypeOK
<1>2. ASSUME NEW a \in Agents, RetryCall(a) PROVE IInv'
  <2>1. way[a] = "retry" /\ at[a] = "executing" /\ Call(a) /\ UNCHANGED frontVars
    BY <1>2 DEF RetryCall
  <2> QED BY <2>1, LoopSteps, LastSteps, AnnounceStep, SubmitStep, ReturnStep DEF Call
<1>3. ASSUME NEW a \in Agents, Goes(a) PROVE IInv'
  BY <1>2, <1>3, FrontSteps, PermitSteps, CountStep DEF Goes
<1>4. ASSUME NEW a \in Agents, Acquires(a) PROVE IInv'
  BY <1>4, PermitSteps, DirectStep DEF Acquires
<1> QED
  BY <1>1, <1>3, <1>4, BeginSteps, EndSteps, AbortSteps, FrontSteps DEF FrontNext, Program

LEMMA Invariance == FrontSpec => []IInv
<1> QED BY InitIInv, StepIInv, PTL DEF FrontSpec

-----------------------------------------------------------------------------
(* The run limit counts exactly the attempts that were handed over or are  *)
(* about to be, and no permit is lost or given twice, for any number of    *)
(* calls, attempts and permits.                                            *)
THEOREM SharedLimitsHold == FrontSpec => []SharedLimitsExact
<1>1. ASSUME IInv PROVE SharedLimitsExact
  <2>1. /\ Cardinality(HandedOver) \in Nat /\ Cardinality(About) \in Nat
        /\ agentCalls = Cardinality(HandedOver) + Cardinality(About)
        /\ free = budget - Cardinality(Holders)
    BY <1>1, FS_CardinalityType DEF IInv, Counted
  <2>2. agentCalls \in 0..MaxAgentCalls /\ MaxAgentCalls \in Nat
    BY <1>1, RetryAssumption DEF IInv, TypeOK
  <2>3. Cardinality(HandedOver) <= MaxAgentCalls
    BY <2>1, <2>2
  <2> QED BY <2>1, <2>3 DEF SharedLimitsExact, HandedOver, About, Holders
<1> QED BY <1>1, Invariance, PTL

(* The retry summary, the list of results and fail-fast say of every call  *)
(* what became of it, and a cancelled call without retry is told.          *)
THEOREM CallsTellTheTruthHolds == FrontSpec => []CallsTellTheTruth
<1>1. ASSUME IInv PROVE OutcomeIsTrue
  <2> SUFFICES ASSUME NEW a \in Agents, pc[a] \in Over
               PROVE
       /\ final[a] = "succeeded" <=>
            \E n \in 1..MaxAttempts : result[<<a, n>>].status = "succeeded"
       /\ Len(attempts[a]) = attemptsStarted[a]
       /\ \A i \in 1..Len(attempts[a]) :
            \/ attempts[a][i].status = result[<<a, i>>].status
            \/ /\ i = Len(attempts[a])
               /\ \/ attempts[a][i].status = "cancelled" /\ a \in cancelled
                  \/ attempts[a][i].status = "failed" /\ phase[<<a, i>>] = "new"
       /\ RetryExhausted(a) =>
            attemptsStarted[a] = MaxAttempts /\ Retryable(result[<<a, MaxAttempts>>])
    BY <1>1 DEF IInv, OutcomeIsTrue, Over
  <2>1. /\ Looping(a) /\ Written(a) /\ Concluded(a) /\ Settlement
        /\ num[a] \in 1..MaxAttempts /\ MaxAttempts \in Nat /\ Len(attempts[a]) \in Nat
    BY <1>1, RetryAssumption DEF IInv, TypeOK, CallOK
  <2>2. ASSUME NEW n \in 1..MaxAttempts, n # num[a]
        PROVE  result[<<a, n>>].status # "succeeded"
    <3>1. CASE n < num[a]
      BY <2>1, <3>1, RetryableFacts DEF Looping
    <3>2. CASE n > num[a]
      BY <2>1, <3>2, AttemptsOf, NoneFacts DEF Looping, Settlement
    <3> QED BY <2>1, <2>2, <3>1, <3>2
  <2>3. final[a] = "succeeded" <=>
          \E n \in 1..MaxAttempts : result[<<a, n>>].status = "succeeded"
    BY <2>1, <2>2 DEF Concluded, Current
  <2>4. Len(attempts[a]) = attemptsStarted[a] /\ Len(attempts[a]) \in {num[a] - 1, num[a]}
    BY <2>1 DEF Written
  <2>5. ASSUME NEW i \in 1..Len(attempts[a])
        PROVE  \/ attempts[a][i].status = result[<<a, i>>].status
               \/ /\ i = Len(attempts[a])
                  /\ \/ attempts[a][i].status = "cancelled" /\ a \in cancelled
                     \/ attempts[a][i].status = "failed" /\ phase[<<a, i>>] = "new"
    <3>1. CASE i < num[a]
      BY <2>1, <3>1 DEF Written
    <3>2. CASE i = num[a]
      <4>1. Len(attempts[a]) = num[a] /\ i = Len(attempts[a])
        BY <2>1, <2>4, <3>2
      <4> QED BY <2>1, <3>2, <4>1 DEF Concluded, Current, LastAttempt
    <3> QED BY <2>1, <2>4, <3>1, <3>2
  <2>6. RetryExhausted(a) =>
          attemptsStarted[a] = MaxAttempts /\ Retryable(result[<<a, MaxAttempts>>])
    BY <2>1, <2>4 DEF Concluded, Current
  <2> QED BY <2>3, <2>4, <2>5, <2>6
<1>2. IInv => CallsTellTheTruth
  BY <1>1 DEF IInv, Cancelled, CallsTellTheTruth
<1> QED BY <1>2, Invariance, PTL

(* No attempt is counted after a cancellation was seen, or before every    *)
(* earlier attempt of its call failed in a way that may be retried.        *)
THEOREM AttemptsAreJustifiedHolds == FrontSpec => AttemptsAreJustified
<1> DEFINE A == \A a \in Agents : attemptsStarted'[a] # attemptsStarted[a] =>
                  /\ a \notin cancelled
                  /\ \A n \in 1..attemptsStarted[a] :
                       phase[<<a, n>>] = "done" /\ Retryable(result[<<a, n>>])
<1>1. ASSUME IInv, FrontNext PROVE A
  <2> SUFFICES ASSUME NEW a \in Agents, attemptsStarted'[a] # attemptsStarted[a]
               PROVE  /\ a \notin cancelled
                      /\ \A n \in 1..attemptsStarted[a] :
                           phase[<<a, n>>] = "done" /\ Retryable(result[<<a, n>>])
    OBVIOUS
  <2>1. PICK b \in Agents : TopRefused(b) \/ TopAnnounced(b)
    <3>1. ASSUME NEW b \in Agents, RetryCall(b)
          PROVE  TopRefused(b) \/ TopAnnounced(b) \/ UNCHANGED attemptsStarted
      BY <3>1 DEF RetryCall, Call, Start, TopCancelled, Submit, AttemptSucceeded,
                  AttemptFailed, FailedCancelled, FailedRetried, FailedForGood,
                  DelayOver, DelayAborted, Report, Return
    <3>2. ASSUME NEW b \in Agents,
                 \/ Listed(b) \/ NotListed(b) \/ Replayed(b) \/ ToRetry(b)
                 \/ DirectCounted(b) \/ DirectRefused(b) \/ Executed(b) \/ Recorded(b)
                 \/ Acquires(b) \/ \E w \in {"refused", "replay", "retry", "direct"} : Select(b, w)
          PROVE  UNCHANGED attemptsStarted
      BY <3>2 DEF Listed, NotListed, Replayed, ToRetry, DirectCounted, DirectRefused,
                  Executed, Recorded, Acquires, AcquireForRetry, AcquireForDirect,
                  Select, vars, callVars
    <3>3. ASSUME NEW b \in Agents, Begins(b) \/ Ends(b) \/ CancelCall(b)
          PROVE  UNCHANGED attemptsStarted
      BY <3>3 DEF Begins, DirectBegins, RetryBegins, AttemptBegins, Ends, DirectEnds,
                  RetryEnds, AttemptEnds, CancelCall, callVars
    <3>4. RunAborts => UNCHANGED attemptsStarted
      BY DEF RunAborts, UserAborts, callVars
    <3> QED BY <1>1, <3>1, <3>2, <3>3, <3>4 DEF FrontNext, Program, Goes
  <2>2. pc[b] = "top" /\ b \notin cancelled
        /\ attemptsStarted' = [attemptsStarted EXCEPT ![b] = @ + 1]
    BY <2>1 DEF TopRefused, TopAnnounced, Stops
  <2>3. a = b
    BY <1>1, <2>2 DEF IInv, TypeOK
  <2>4. /\ attemptsStarted[a] = num[a] - 1 /\ num[a] \in 1..MaxAttempts /\ MaxAttempts \in Nat
        /\ Looping(a)
    BY <1>1, <2>2, <2>3, RetryAssumption DEF IInv, TypeOK, CallOK, Written, Before
  <2>5. \A n \in 1..attemptsStarted[a] : n \in 1..MaxAttempts /\ n < num[a]
    BY <2>4
  <2> QED BY <2>2, <2>3, <2>4, <2>5 DEF Looping
<1>2. IInv /\ [FrontNext]_callsVars => [A]_vars
  BY <1>1 DEF callsVars
<1> QED BY <1>2, Invariance, PTL DEF FrontSpec, AttemptsAreJustified

-----------------------------------------------------------------------------
(* What runs in an attempt: one execution of the agent (AgentProcess), for *)
(* any providers and callers, memory limit and amount of output.           *)
CONSTANTS AttemptProviders, AttemptCallers, AttemptLimit, AttemptChunks

VARIABLES
  provider, caller, step, signal, deadline, timer, listening, child, terminated, grace,
  killed, exit, timedOut, stopped, written, appended, kept, artifacts,
  status

Attempt == INSTANCE AgentProcess WITH
  Providers <- AttemptProviders, Callers <- AttemptCallers,
  MemoryLimit <- AttemptLimit, MaxChunks <- AttemptChunks, pc <- step, cancelled <- stopped

(* The inductive invariant.  The runner's timer and its listener are armed *)
(* and cleared together, and while they are armed nothing has stopped the  *)
(* child.                                                                  *)
AttemptRunnerOK ==
  /\ timer => step = "running" /\ listening
  /\ listening => (step = "running" /\ timer) \/ (step = "waiting" /\ signal = "none")
  /\ step = "running" /\ timer => terminated = 0 /\ ~timedOut /\ ~stopped
  /\ step \in {"running", "closed"} /\ terminated = 1 => timedOut \/ stopped
  /\ step \in {"preparing", "waiting"} => ~timedOut /\ ~stopped
  /\ step = "preparing" => exit = "none"
  /\ provider = "process" => ~(timedOut /\ stopped)
  /\ provider = "process" /\ stopped => signal # "none"
  /\ provider = "process" /\ timedOut => terminated = 1 \/ child \in {"none", "unspawned"}

(* The child is spawned by a process provider only, and its runner is      *)
(* settled when it is closed, or rejected.                                 *)
AttemptChildOK ==
  /\ step \in {"running", "closed"} => provider = "process"
  /\ step \in {"waiting", "answering"} => provider = "mock"
  /\ provider = "mock" \/ step = "preparing" => child = "none" /\ terminated = 0
  /\ step = "running" => child \in {"unspawned", "alive", "exited"}
  /\ step = "closed" => child = "closed"
  /\ step \in {"concluding", "parsing", "normalizing"} /\ provider = "process" =>
       \/ child = "closed"
       \/ timedOut \/ stopped \/ exit = "nonzero"
  /\ step = "crashed" => signal # "none" /\ child = "unspawned"
  /\ step = "concluding" /\ terminated = 1 => timedOut \/ stopped \/ exit = "nonzero"

(* What was received has been handled once the runner is settled; what was *)
(* handled is in memory, up to the limit.                                  *)
AttemptOutputOK ==
  /\ \A s \in Attempt!Streams :
       \/ kept[s] = appended[s] /\ appended[s] <= AttemptLimit
       \/ kept[s] = AttemptLimit /\ appended[s] > AttemptLimit
  /\ \A s \in Attempt!Streams : appended[s] <= written[s]
  /\ child \in {"none", "unspawned"} => appended = written
  /\ step \in {"preparing", "concluding", "parsing", "normalizing", "done"} =>
       appended = written

(* What an undisturbed end is, and the results that say so.                *)
AttemptUndisturbed ==
  /\ ~timedOut /\ ~stopped /\ exit # "nonzero" /\ terminated = 0
  /\ provider = "process" => child = "closed"

AttemptResultOK ==
  /\ status = "none" <=> step # "done"
  /\ step \in {"parsing", "normalizing"} => AttemptUndisturbed
  /\ step = "normalizing" => "raw-result" \in artifacts
  /\ status = "succeeded" =>
       AttemptUndisturbed /\ {"raw-result", "normalized-result"} \subseteq artifacts
  /\ status = "timed_out" => timedOut
  /\ status = "cancelled" /\ provider = "process" => signal # "none"

AttemptIInv ==
  /\ Attempt!TypeOK
  /\ AttemptRunnerOK
  /\ AttemptChildOK
  /\ AttemptOutputOK
  /\ AttemptResultOK
-----------------------------------------------------------------------------
LEMMA AttemptInitIInv ==
  ASSUME AttemptLimit \in Nat \ {0}, AttemptChunks \in Nat, Attempt!Init
  PROVE  AttemptIInv
<1>1. Attempt!TypeOK
  <2>1. /\ deadline \in BOOLEAN /\ timer \in BOOLEAN /\ listening \in BOOLEAN
        /\ grace \in BOOLEAN /\ killed \in BOOLEAN
    BY DEF Attempt!Init
  <2>2. timedOut \in BOOLEAN /\ stopped \in BOOLEAN
    BY DEF Attempt!Init
  <2>3. /\ written \in [Attempt!Streams -> 0..AttemptChunks]
        /\ appended \in [Attempt!Streams -> 0..AttemptChunks]
        /\ kept \in [Attempt!Streams -> 0..AttemptChunks]
    BY DEF Attempt!Init
  <2>4. terminated \in 0..1
    BY DEF Attempt!Init
  <2> QED BY <2>1, <2>2, <2>3, <2>4 DEF Attempt!Init, Attempt!TypeOK
<1>2. AttemptRunnerOK /\ AttemptChildOK /\ AttemptOutputOK /\ AttemptResultOK
  BY DEF Attempt!Init, AttemptRunnerOK, AttemptChildOK, AttemptOutputOK, AttemptResultOK,
        AttemptUndisturbed, Attempt!Streams
<1> QED BY <1>1, <1>2 DEF AttemptIInv

LEMMA AttemptStepTypes ==
  ASSUME AttemptLimit \in Nat \ {0}, AttemptChunks \in Nat, AttemptIInv, [Attempt!Next]_(Attempt!vars)
  PROVE  Attempt!TypeOK'
<1>0. Attempt!TypeOK /\ AttemptRunnerOK /\ AttemptChunks \in Nat
  BY DEF AttemptIInv
<1>0k. \A s \in Attempt!Streams :
         appended[s] < written[s] /\ kept[s] < AttemptLimit => kept[s] + 1 <= AttemptChunks
  BY DEF AttemptIInv, AttemptOutputOK, Attempt!TypeOK
<1> USE DEF Attempt!vars, Attempt!callVars, Attempt!timerVars, Attempt!childVars,
        Attempt!flagVars, Attempt!outputVars, Attempt!resultVars, Attempt!Next,
        Attempt!Executor, Attempt!Child, Attempt!TypeOK, AttemptRunnerOK,
        Attempt!Streams, Attempt!PrepareFails, Attempt!TooLarge, Attempt!SpawnThrows,
        Attempt!SpawnAborted, Attempt!Crashes,
        Attempt!Spawn, Attempt!SpawnFails, Attempt!Resolves, Attempt!Concludes,
        Attempt!ParserCrashes, Attempt!Parses, Attempt!Normalizes, Attempt!Throws,
        Attempt!MockStarts, Attempt!MockDelayOver, Attempt!MockAnswers, Attempt!Appends,
        Attempt!Ends, Attempt!Closes, Attempt!Writes, Attempt!TimerFires,
        Attempt!GraceOver, Attempt!DeadlineFires, Attempt!Abort, Attempt!AbortSignal,
        Attempt!Returns, Attempt!Rejected, Attempt!Cleanup, Attempt!Terminate
<1>1. deadline' \in BOOLEAN /\ timer' \in BOOLEAN /\ listening' \in BOOLEAN
  BY ZenonT(60), <1>0
<1>2. grace' \in BOOLEAN /\ killed' \in BOOLEAN
  BY ZenonT(60), <1>0
<1>3. timedOut' \in BOOLEAN /\ stopped' \in BOOLEAN
  BY ZenonT(60), <1>0
<1>4. /\ written' \in [Attempt!Streams -> 0..AttemptChunks]
      /\ appended' \in [Attempt!Streams -> 0..AttemptChunks]
  BY <1>0
<1>9. kept' \in [Attempt!Streams -> 0..AttemptChunks]
  BY <1>0, <1>0k
<1>5. /\ provider' \in AttemptProviders /\ caller' \in AttemptCallers
      /\ step' \in {"preparing", "running", "closed", "waiting", "answering",
                  "concluding", "parsing", "normalizing", "done", "crashed"}
      /\ signal' \in {"none", "timeout", "user"}
  BY <1>0
<1>6. child' \in {"none", "unspawned", "alive", "exited", "closed"}
  BY SMTT(30), <1>0
<1>10. exit' \in {"none", "zero", "nonzero", "signal"}
  <2>1. CASE Attempt!Executor
    BY SMTT(30), <1>0, <2>1
  <2>2. CASE Attempt!Child
    BY SMTT(30), <1>0, <2>2
  <2>3. CASE Attempt!TimerFires \/ Attempt!GraceOver \/ Attempt!DeadlineFires \/ Attempt!Abort
    BY SMTT(30), <1>0, <2>3
  <2>4. CASE UNCHANGED Attempt!vars
    BY <1>0, <2>4
  <2> QED BY <2>1, <2>2, <2>3, <2>4 DEF Attempt!Next
<1>7. terminated' \in 0..1
  BY SMTT(30), <1>0
<1>8. artifacts' \subseteq {"raw-result", "normalized-result", "validation-error"}
  BY ZenonT(60), <1>0
<1>11. status' \in {"none", "succeeded", "failed", "timed_out", "cancelled"}
  BY SMTT(30), <1>0
<1> QED BY <1>1, <1>2, <1>3, <1>4, <1>5, <1>6, <1>7, <1>8, <1>9, <1>10, <1>11
      DEF Attempt!TypeOK

LEMMA AttemptStepIInv ==
  ASSUME AttemptLimit \in Nat \ {0}, AttemptChunks \in Nat, AttemptIInv, [Attempt!Next]_(Attempt!vars)
  PROVE  AttemptIInv'
<1> DEFINE Rest == AttemptRunnerOK /\ AttemptChildOK /\ AttemptOutputOK /\ AttemptResultOK
<1>0. Attempt!TypeOK'
  BY AttemptStepTypes
<1> SUFFICES Rest'
  BY <1>0 DEF AttemptIInv
<1> USE DEF AttemptIInv, Attempt!TypeOK, AttemptRunnerOK, AttemptChildOK, AttemptOutputOK,
        AttemptResultOK, AttemptUndisturbed, Attempt!Streams,
        Attempt!callVars, Attempt!timerVars, Attempt!childVars, Attempt!flagVars,
        Attempt!outputVars, Attempt!resultVars
<1>1. CASE Attempt!PrepareFails
  BY <1>1 DEF Attempt!PrepareFails, Attempt!Returns
<1>2. CASE Attempt!TooLarge
  BY <1>2 DEF Attempt!TooLarge, Attempt!Rejected
<1>24. CASE Attempt!SpawnThrows
  <2>1. PICK speaks \in BOOLEAN : Attempt!Rejected(speaks)
    BY <1>24 DEF Attempt!SpawnThrows
  <2>2. CASE speaks
    <3>1. timedOut' /\ ~stopped' /\ exit' = exit
      BY <2>1, <2>2, Zenon DEF Attempt!Rejected
    <3> QED BY <1>24, <2>1, <3>1 DEF Attempt!SpawnThrows, Attempt!Rejected
  <2>3. CASE ~speaks
    <3>1. ~timedOut' /\ (stopped' <=> signal # "none")
      BY <2>1, <2>3, Zenon DEF Attempt!Rejected
    <3>2. signal = "none" => exit' = "nonzero"
      BY <2>1, <2>3, Zenon DEF Attempt!Rejected
    <3> QED BY <1>24, <2>1, <3>1, <3>2 DEF Attempt!SpawnThrows, Attempt!Rejected
  <2> QED BY <2>2, <2>3
<1>25. CASE Attempt!Crashes
  BY <1>25 DEF Attempt!Crashes
<1>3. CASE Attempt!SpawnAborted
  BY <1>3 DEF Attempt!SpawnAborted, Attempt!Rejected
<1>4. CASE Attempt!Spawn
  BY <1>4 DEF Attempt!Spawn
<1>5. CASE Attempt!SpawnFails
  <2>1. PICK speaks \in BOOLEAN : Attempt!Rejected(speaks)
    BY <1>5 DEF Attempt!SpawnFails
  <2>2. CASE speaks
    <3>1. timedOut' /\ ~stopped' /\ exit' = exit
      BY <2>1, <2>2, Zenon DEF Attempt!Rejected
    <3> QED BY <1>5, <2>1, <3>1 DEF Attempt!SpawnFails, Attempt!Rejected, Attempt!Cleanup
  <2>3. CASE ~speaks
    <3>1. ~timedOut' /\ (stopped' <=> signal # "none")
      BY <2>1, <2>3, Zenon DEF Attempt!Rejected
    <3>2. signal = "none" => exit' = "nonzero"
      BY <2>1, <2>3, Zenon DEF Attempt!Rejected
    <3> QED BY <1>5, <2>1, <3>1, <3>2
            DEF Attempt!SpawnFails, Attempt!Rejected, Attempt!Cleanup
  <2> QED BY <2>2, <2>3
<1>6. CASE Attempt!Resolves
  BY <1>6 DEF Attempt!Resolves, Attempt!Handled
<1>7. CASE Attempt!Concludes
  BY <1>7 DEF Attempt!Concludes, Attempt!Returns, Attempt!WasCancelled, Attempt!ExitedBadly
<1>8. CASE Attempt!ParserCrashes
  BY <1>8 DEF Attempt!ParserCrashes, Attempt!Returns
<1>9. CASE Attempt!Parses
  BY <1>9 DEF Attempt!Parses
<1>10. CASE Attempt!Normalizes
  BY <1>10 DEF Attempt!Normalizes, Attempt!Returns
<1>11. CASE Attempt!Throws
  BY <1>11 DEF Attempt!Throws, Attempt!Returns
<1>12. CASE Attempt!MockDelayOver
  BY <1>12 DEF Attempt!MockDelayOver
<1>13. CASE Attempt!MockAnswers
  BY <1>13 DEF Attempt!MockAnswers
<1>14. CASE Attempt!Closes
  BY <1>14 DEF Attempt!Closes, Attempt!Cleanup
<1>15. CASE Attempt!TimerFires
  BY <1>15 DEF Attempt!TimerFires, Attempt!Cleanup, Attempt!Terminate
<1>16. CASE Attempt!GraceOver
  BY <1>16 DEF Attempt!GraceOver
<1>17. CASE Attempt!DeadlineFires
  BY <1>17 DEF Attempt!DeadlineFires, Attempt!AbortSignal, Attempt!Cleanup,
        Attempt!Terminate
<1>18. CASE Attempt!Abort
  BY <1>18 DEF Attempt!Abort, Attempt!AbortSignal, Attempt!Cleanup, Attempt!Terminate
<1>19. ASSUME NEW delay \in BOOLEAN, Attempt!MockStarts(delay) PROVE Rest'
  BY <1>19 DEF Attempt!MockStarts
<1>20. ASSUME NEW s \in Attempt!Streams, Attempt!Appends(s) PROVE Rest'
  <2>1. /\ appended[s] \in Nat /\ written[s] \in Nat /\ kept[s] \in Nat
        /\ appended[s] < written[s] /\ appended[s] + 1 <= written[s]
        /\ AttemptLimit \in Nat
    BY <1>20 DEF Attempt!Appends
  <2>2. appended # written
    BY <2>1
  <2>3. \A t \in Attempt!Streams : t # s => appended'[t] = appended[t] /\ kept'[t] = kept[t]
    BY <1>20 DEF Attempt!Appends
  <2>4. /\ appended'[s] = appended[s] + 1
        /\ kept'[s] = IF kept[s] < AttemptLimit THEN kept[s] + 1 ELSE kept[s]
    BY <1>20 DEF Attempt!Appends
  <2>5. written' = written
    BY <1>20 DEF Attempt!Appends
  <2>6. \A t \in Attempt!Streams : appended'[t] <= written'[t]
    BY <2>1, <2>3, <2>4, <2>5
  <2>7. \/ kept'[s] = appended'[s] /\ appended'[s] <= AttemptLimit
        \/ kept'[s] = AttemptLimit /\ appended'[s] > AttemptLimit
    BY <2>1, <2>4
  <2>8. /\ child' = child /\ child \notin {"none", "unspawned"}
        /\ step' = step
        /\ step \notin {"preparing", "concluding", "parsing", "normalizing", "done"}
    BY <1>20, <2>2 DEF Attempt!Appends
  <2>9. \A t \in Attempt!Streams :
          \/ kept'[t] = appended'[t] /\ appended'[t] <= AttemptLimit
          \/ kept'[t] = AttemptLimit /\ appended'[t] > AttemptLimit
    BY <2>3, <2>7
  <2>10. AttemptOutputOK'
    BY <2>6, <2>8, <2>9
  <2> QED BY <1>20, <2>10 DEF Attempt!Appends
<1>21. ASSUME NEW how \in {"zero", "nonzero", "signal"}, Attempt!Ends(how) PROVE Rest'
  BY <1>21 DEF Attempt!Ends
<1>22. ASSUME NEW s \in Attempt!Streams, Attempt!Writes(s) PROVE Rest'
  BY <1>22 DEF Attempt!Writes
<1>23. CASE UNCHANGED Attempt!vars
  BY <1>23 DEF Attempt!vars
<1> QED
  BY <1>1, <1>2, <1>3, <1>4, <1>5, <1>6, <1>7, <1>8, <1>9, <1>10, <1>11, <1>12, <1>13,
     <1>14, <1>15, <1>16, <1>17, <1>18, <1>19, <1>20, <1>21, <1>22, <1>23, <1>24, <1>25
  DEF Attempt!Next, Attempt!Executor, Attempt!Child

LEMMA AttemptInvariance ==
  ASSUME AttemptLimit \in Nat \ {0}, AttemptChunks \in Nat
  PROVE  Attempt!Spec => []AttemptIInv
<1>1. Attempt!Init => AttemptIInv
  BY AttemptInitIInv
<1>2. AttemptIInv /\ [Attempt!Next]_(Attempt!vars) => AttemptIInv'
  BY AttemptStepIInv
<1> QED BY <1>1, <1>2, PTL DEF Attempt!Spec

(* A result says what happened, whatever the order of the timer, the abort *)
(* and the end of the child, and a success is made of the complete output  *)
(* up to the memory limit: executeInternal() on what runProcess() found.   *)
THEOREM ResultMatchesCauseHolds ==
  ASSUME AttemptLimit \in Nat \ {0}, AttemptChunks \in Nat
  PROVE  Attempt!Spec => []Attempt!ResultMatchesCause
<1>1. ASSUME AttemptIInv PROVE Attempt!OutputIsComplete \/ appended # written
  BY <1>1 DEF AttemptIInv, AttemptOutputOK, Attempt!OutputIsComplete
<1>2. AttemptIInv => Attempt!ResultMatchesCause
  BY <1>1 DEF AttemptIInv, Attempt!TypeOK, AttemptRunnerOK, AttemptOutputOK, AttemptResultOK,
     AttemptChildOK, AttemptUndisturbed, Attempt!ResultMatchesCause,
     Attempt!RunnerSettlesClean
<1> QED BY <1>2, AttemptInvariance, PTL

-----------------------------------------------------------------------------
(* The retry policy that a call is executed with (RetryLayers).            *)
Retry == INSTANCE RetryLayers

(* What a layer may say, and what the flags may.                           *)
RetryValues(fields) ==
  /\ DOMAIN fields \subseteq Retry!RetryFields
  /\ "maxAttempts" \in DOMAIN fields => fields.maxAttempts \in Nat \ {0}
RetryLayer(r) ==
  /\ r.kind \in {"absent", "off", "tuned"}
  /\ r.kind # "tuned" => r.fields = <<>>
  /\ RetryValues(r.fields)
RetryLayersGiven(in) ==
  /\ RetryLayer(in.global) /\ RetryLayer(in.alias) /\ RetryLayer(in.agent)
  /\ in.cli.noRetry \in BOOLEAN /\ RetryValues(in.cli.fields)

(* Retry is on when more than one attempt is left, and otherwise it says   *)
(* who switched it off.                                                    *)
PolicySound(p) ==
  /\ p.on \in BOOLEAN /\ p.policy.maxAttempts \in Nat
  /\ p.on <=> p.policy.maxAttempts > 1
  /\ p.on <=> p.disabledBy = Retry!None

(* One layer over the policy below it.                                     *)
RetryStep(l, r, p, q) ==
  /\ r.kind = "absent" => q = p
  /\ r.kind # "absent" =>
       /\ q.source = l
       /\ \A f \in Retry!RetryFields : q.from[f].layer \in {l, p.from[f].layer}
  /\ r.kind = "off" => ~q.on
  /\ r.kind = "tuned" =>
       /\ \A f \in Retry!RetryFields :
            /\ f \in DOMAIN r.fields => q.policy[f] = r.fields[f] /\ q.from[f].layer = l
            /\ p.on /\ f \notin DOMAIN r.fields =>
                 q.policy[f] = p.policy[f] /\ q.from[f].layer = p.from[f].layer
  /\ PolicySound(q)

LEMMA ApplyStep ==
  ASSUME NEW p, PolicySound(p), NEW r, RetryLayer(r), NEW owner,
         NEW layer \in {"globalConfig", "cli", "providerAlias", "agent"}
  PROVE  RetryStep(layer, r, p, Retry!Apply(p, layer, r, owner))
<1> SUFFICES ASSUME NEW q, q = Retry!Apply(p, layer, r, owner)
             PROVE  RetryStep(layer, r, p, q)
  OBVIOUS
<1>1. CASE r.kind = "absent"
  <2>1. q = p
    BY <1>1 DEF Retry!Apply
  <2> QED BY <1>1, <2>1 DEF RetryStep, PolicySound
<1>2. CASE r.kind = "off"
  <2>1. q = Retry!ApplyOff(layer, owner)
    BY <1>2 DEF Retry!Apply
  <2>2. /\ q.source = layer /\ q.on = FALSE /\ q.policy.maxAttempts = 1
        /\ q.disabledBy = Retry!DisabledBy(layer)
        /\ \A f \in Retry!RetryFields : q.from[f].layer = layer
    BY <2>1 DEF Retry!ApplyOff, Retry!BuiltInPolicy
  <2>3. Retry!DisabledBy(layer) # Retry!None
    BY DEF Retry!DisabledBy, Retry!None
  <2>4. 1 \in Nat /\ ~(1 > 1)
    OBVIOUS
  <2> QED BY <1>2, <2>2, <2>3, <2>4, Zenon DEF RetryStep, PolicySound
<1>3. CASE r.kind = "tuned"
  <2> DEFINE below == IF p.on THEN p.policy ELSE Retry!RecommendedPolicy
             policy == [f \in Retry!RetryFields |->
                          IF f \in DOMAIN r.fields THEN r.fields[f] ELSE below[f]]
             on == policy.maxAttempts > 1
             from == [f \in Retry!RetryFields |->
                        IF f \in DOMAIN r.fields \/ ~p.on
                        THEN [layer |-> layer, owner |-> owner[f]] ELSE p.from[f]]
  <2>1. q = [ on |-> on, policy |-> policy, source |-> layer,
              disabledBy |-> IF on THEN Retry!None ELSE Retry!DisabledBy(layer),
              from |-> from ]
    BY <1>3 DEF Retry!Apply, Retry!ApplyTuned
  <2>2. below.maxAttempts \in Nat
    BY DEF Retry!RecommendedPolicy, Retry!BuiltInPolicy, PolicySound
  <2>3. policy.maxAttempts \in Nat /\ on \in BOOLEAN
    BY <2>2 DEF RetryLayer, RetryValues, Retry!RetryFields
  <2>4. Retry!DisabledBy(layer) # Retry!None
    BY DEF Retry!DisabledBy, Retry!None
  <2>5. \A f \in Retry!RetryFields :
          /\ f \in DOMAIN r.fields => policy[f] = r.fields[f] /\ from[f].layer = layer
          /\ p.on /\ f \notin DOMAIN r.fields =>
               policy[f] = p.policy[f] /\ from[f].layer = p.from[f].layer
          /\ from[f].layer \in {layer, p.from[f].layer}
    OBVIOUS
  <2>6. on <=> policy.maxAttempts > 1
    OBVIOUS
  <2> HIDE DEF policy, on, from
  <2>7. /\ q.on = on /\ q.policy = policy /\ q.source = layer /\ q.from = from
        /\ q.disabledBy = IF on THEN Retry!None ELSE Retry!DisabledBy(layer)
    BY <2>1
  <2> QED BY <1>3, <2>3, <2>4, <2>5, <2>6, <2>7, Zenon DEF RetryStep, PolicySound
<1> QED BY <1>1, <1>2, <1>3 DEF RetryLayer

(* What the flags say, as a layer.                                         *)
CliSays(cli) ==
  IF cli.noRetry THEN Retry!Off
  ELSE IF DOMAIN cli.fields = {} THEN Retry!Silent ELSE Retry!Tuned(cli.fields)

LEMMA CliStep ==
  ASSUME NEW p, PolicySound(p), NEW cli, cli.noRetry \in BOOLEAN, RetryValues(cli.fields)
  PROVE  RetryStep("cli", CliSays(cli), p, Retry!ApplyCli(p, cli))
<1> SUFFICES ASSUME NEW q, q = Retry!ApplyCli(p, cli)
             PROVE  RetryStep("cli", CliSays(cli), p, q)
  OBVIOUS
<1> DEFINE off == Retry!ApplyOff("cli", Retry!NoOwner)
<1>1. CASE cli.noRetry
  <2>1. CliSays(cli).kind = "off"
    BY <1>1 DEF CliSays, Retry!Off
  <2>2. q = off \/ q = [off EXCEPT !.policy.disableDelay = cli.fields.disableDelay]
    BY <1>1 DEF Retry!ApplyCli
  <2>3. /\ q.source = "cli" /\ q.on = FALSE /\ q.policy.maxAttempts = 1
        /\ q.disabledBy = "cli"
        /\ \A f \in Retry!RetryFields : q.from[f].layer = "cli"
    <3>1. /\ off.source = "cli" /\ off.on = FALSE /\ off.disabledBy = "cli"
          /\ DOMAIN off = {"on", "policy", "source", "disabledBy", "from"}
          /\ off.policy = Retry!BuiltInPolicy
          /\ \A f \in Retry!RetryFields : off.from[f].layer = "cli"
      BY DEF Retry!ApplyOff, Retry!DisabledBy
    <3>2. Retry!BuiltInPolicy.maxAttempts = 1 /\ "maxAttempts" \in DOMAIN Retry!BuiltInPolicy
      BY DEF Retry!BuiltInPolicy
    <3> HIDE DEF off
    <3> QED BY <2>2, <3>1, <3>2
  <2>4. "cli" # Retry!None /\ 1 \in Nat /\ ~(1 > 1)
    BY DEF Retry!None
  <2> QED BY <2>1, <2>3, <2>4, Zenon DEF RetryStep, PolicySound
<1>2. CASE ~cli.noRetry /\ DOMAIN cli.fields # {}
  <2>1. /\ CliSays(cli) = Retry!Tuned(cli.fields) /\ CliSays(cli).kind = "tuned"
        /\ CliSays(cli).fields = cli.fields
    BY <1>2 DEF CliSays, Retry!Tuned
  <2>2. q = Retry!Apply(p, "cli", CliSays(cli), Retry!NoOwner)
    BY <1>2, <2>1 DEF Retry!ApplyCli, Retry!Apply
  <2>3. RetryLayer(CliSays(cli))
    BY <2>1 DEF RetryLayer, Retry!Tuned
  <2> QED BY <2>2, <2>3, ApplyStep
<1>3. CASE ~cli.noRetry /\ DOMAIN cli.fields = {}
  <2>1. CliSays(cli).kind = "absent" /\ q = p
    BY <1>3 DEF CliSays, Retry!Silent, Retry!ApplyCli
  <2> QED BY <2>1 DEF RetryStep, PolicySound
<1> QED BY <1>1, <1>2, <1>3

(* What a layer gives holds, and stays under layers that do not speak of   *)
(* it and leave retry on.                                                  *)
Holds(p, f, l, value) == p.on /\ p.policy[f] = value /\ p.from[f].layer = l

Yields(r, f) ==
  \/ r.kind = "absent"
  \/ /\ r.kind = "tuned" /\ f \notin DOMAIN r.fields
     /\ "maxAttempts" \notin DOMAIN r.fields \/ r.fields.maxAttempts > 1

LEMMA LayerHolds ==
  ASSUME NEW l, NEW r, NEW p, NEW q, RetryStep(l, r, p, q), NEW f \in Retry!RetryFields,
         r.kind = "tuned", f \in DOMAIN r.fields,
         "maxAttempts" \in DOMAIN r.fields, r.fields.maxAttempts > 1
  PROVE  Holds(q, f, l, r.fields[f])
<1>1. "maxAttempts" \in Retry!RetryFields
  BY DEF Retry!RetryFields
<1>2. q.policy[f] = r.fields[f] /\ q.from[f].layer = l /\ q.policy.maxAttempts > 1
  BY <1>1 DEF RetryStep
<1>3. q.on
  BY <1>2 DEF RetryStep, PolicySound
<1> QED BY <1>2, <1>3 DEF Holds

LEMMA LayerKeeps ==
  ASSUME NEW k, NEW r, NEW p, NEW q, RetryStep(k, r, p, q), NEW f \in Retry!RetryFields,
         PolicySound(p), NEW l, NEW value, Holds(p, f, l, value), Yields(r, f)
  PROVE  Holds(q, f, l, value)
<1>1. "maxAttempts" \in Retry!RetryFields
  BY DEF Retry!RetryFields
<1>2. CASE r.kind = "absent"
  BY <1>2 DEF RetryStep, Holds
<1>3. CASE r.kind # "absent"
  <2>1. /\ r.kind = "tuned" /\ f \notin DOMAIN r.fields
        /\ "maxAttempts" \notin DOMAIN r.fields \/ r.fields.maxAttempts > 1
    BY <1>3 DEF Yields
  <2>2. p.on /\ p.policy.maxAttempts > 1
    BY DEF Holds, PolicySound
  <2>3. q.policy[f] = p.policy[f] /\ q.from[f].layer = p.from[f].layer
    BY <2>1, <2>2 DEF RetryStep
  <2>4. q.policy.maxAttempts > 1
    BY <1>1, <2>1, <2>2 DEF RetryStep
  <2>5. q.on
    BY <2>4 DEF RetryStep, PolicySound
  <2> QED BY <2>3, <2>5 DEF Holds
<1> QED BY <1>2, <1>3

(* The four layers one over the other.                                     *)
LEMMA FourLayers ==
  ASSUME NEW in, RetryLayersGiven(in)
  PROVE  \E p1, p2, p3 :
           /\ RetryStep("globalConfig", in.global, Retry!Untouched, p1)
           /\ RetryStep("cli", CliSays(in.cli), p1, p2)
           /\ RetryStep("providerAlias", in.alias, p2, p3)
           /\ RetryStep("agent", in.agent, p3, Retry!Layered(in))
<1> DEFINE p0 == Retry!Untouched
           p1 == Retry!Apply(p0, "globalConfig", in.global, Retry!NoOwner)
           p2 == Retry!ApplyCli(p1, in.cli)
           p3 == Retry!Apply(p2, "providerAlias", in.alias, in.aliasOwner)
           p4 == Retry!Apply(p3, "agent", in.agent, Retry!NoOwner)
<1>1. p4 = Retry!Layered(in)
  BY DEF Retry!Layered
<1>2. PolicySound(p0)
  BY DEF PolicySound, Retry!Untouched, Retry!BuiltInPolicy, Retry!None
<1>3. RetryStep("globalConfig", in.global, p0, p1)
  BY <1>2, ApplyStep DEF RetryLayersGiven
<1>4. PolicySound(p1)
  BY <1>3 DEF RetryStep
<1>5. RetryStep("cli", CliSays(in.cli), p1, p2)
  BY <1>4, CliStep DEF RetryLayersGiven
<1>6. PolicySound(p2)
  BY <1>5 DEF RetryStep
<1>7. RetryStep("providerAlias", in.alias, p2, p3)
  BY <1>6, ApplyStep DEF RetryLayersGiven
<1>8. PolicySound(p3)
  BY <1>7 DEF RetryStep
<1>9. RetryStep("agent", in.agent, p3, p4)
  BY <1>8, ApplyStep DEF RetryLayersGiven
<1> HIDE DEF p1, p2, p3, p4
<1> QED BY <1>1, <1>3, <1>5, <1>7, <1>9

(* The policy that resolveLayeredRetryPolicy makes of the layers can be    *)
(* explained from them, whatever they say: retry is on exactly when more   *)
(* than one attempt is left, the highest layer that speaks has its way,    *)
(* and a field that the layers above do not speak of keeps its value.      *)
THEOREM RetryIsLayered ==
  ASSUME NEW in, RetryLayersGiven(in)
  PROVE  Retry!PolicyIsExplained(in, Retry!Layered(in))
<1> DEFINE g == in.global
           c == CliSays(in.cli)
           a == in.alias
           x == in.agent
           says == Retry!SpeaksOf(in)
           speaking == {l \in DOMAIN says : says[l].kind # "absent"}
           Gives(l, f) == f \in DOMAIN says[l].fields
           Above(l) == {k \in speaking : Retry!Rank[k] > Retry!Rank[l]}
           p0 == Retry!Untouched
           p == Retry!Layered(in)
<1>1. PICK p1, p2, p3 :
           /\ RetryStep("globalConfig", g, p0, p1) /\ RetryStep("cli", c, p1, p2)
           /\ RetryStep("providerAlias", a, p2, p3) /\ RetryStep("agent", x, p3, p)
  BY FourLayers
<1>2. /\ DOMAIN says = {"globalConfig", "cli", "providerAlias", "agent"}
      /\ says["globalConfig"] = g /\ says["cli"] = c
      /\ says["providerAlias"] = a /\ says["agent"] = x
  BY DEF Retry!SpeaksOf, CliSays
<1>3. /\ Retry!Rank["globalConfig"] = 1 /\ Retry!Rank["cli"] = 2
      /\ Retry!Rank["providerAlias"] = 3 /\ Retry!Rank["agent"] = 4
  BY DEF Retry!Rank
<1>4. /\ Above("agent") = {}
      /\ Above("providerAlias") = {l \in {"agent"} : x.kind # "absent"}
      /\ x.kind # "absent" <=> "agent" \in Above("cli")
      /\ a.kind # "absent" <=> "providerAlias" \in Above("cli")
      /\ x.kind # "absent" <=> "agent" \in Above("globalConfig")
      /\ a.kind # "absent" <=> "providerAlias" \in Above("globalConfig")
      /\ c.kind # "absent" <=> "cli" \in Above("globalConfig")
  BY <1>2, <1>3
<1>5. /\ "agent" \in speaking <=> x.kind # "absent"
      /\ "providerAlias" \in speaking <=> a.kind # "absent"
      /\ "cli" \in speaking <=> c.kind # "absent"
      /\ "globalConfig" \in speaking <=> g.kind # "absent"
      /\ speaking \subseteq {"globalConfig", "cli", "providerAlias", "agent"}
  BY <1>2
<1>6. /\ PolicySound(p0) /\ PolicySound(p1) /\ PolicySound(p2) /\ PolicySound(p3)
      /\ PolicySound(p)
  BY <1>1 DEF RetryStep, PolicySound, Retry!Untouched, Retry!BuiltInPolicy, Retry!None
<1>7. p0.source = "builtIn" /\ ~p0.on /\ \A f \in Retry!RetryFields : p0.from[f].layer = "builtIn"
  BY DEF Retry!Untouched
<1>8. RetryLayer(g) /\ RetryLayer(a) /\ RetryLayer(x) /\ c.kind \in {"absent", "off", "tuned"}
  BY DEF RetryLayersGiven, CliSays, Retry!Off, Retry!Silent, Retry!Tuned
<1> HIDE DEF g, c, a, x, says, p0, p
<1>9. \A f \in Retry!RetryFields : p.from[f].layer \in speaking \cup {"builtIn"}
  <2> TAKE f \in Retry!RetryFields
  <2> HIDE DEF speaking
  <2>1. p1.from[f].layer \in speaking \cup {"builtIn"}
    BY <1>1, <1>5, <1>7 DEF RetryStep
  <2>2. p2.from[f].layer \in speaking \cup {"builtIn"}
    BY <1>1, <1>5, <2>1 DEF RetryStep
  <2>3. p3.from[f].layer \in speaking \cup {"builtIn"}
    BY <1>1, <1>5, <2>2 DEF RetryStep
  <2> QED BY <1>1, <1>5, <2>3 DEF RetryStep
<1>10. speaking = {} => p.source = "builtIn" /\ ~p.on
  <2> HIDE DEF speaking
  <2> QED BY <1>1, <1>5, <1>7 DEF RetryStep
<1>11. ASSUME NEW l \in speaking, Above(l) = {}
       PROVE  p.source = l /\ (says[l].kind = "off" => ~p.on)
  <2> HIDE DEF speaking, Above
  <2>1. CASE l = "agent"
    BY <1>1, <1>2, <1>5, <2>1 DEF RetryStep
  <2>2. CASE l = "providerAlias"
    <3>1. p = p3
      BY <1>1, <1>4, <1>11, <2>2 DEF RetryStep
    <3> QED BY <1>1, <1>2, <1>5, <2>2, <3>1 DEF RetryStep
  <2>3. CASE l = "cli"
    <3>1. p = p2
      BY <1>1, <1>4, <1>11, <2>3 DEF RetryStep
    <3> QED BY <1>1, <1>2, <1>5, <2>3, <3>1 DEF RetryStep
  <2>4. CASE l = "globalConfig"
    <3>1. p = p1
      BY <1>1, <1>4, <1>11, <2>4 DEF RetryStep
    <3> QED BY <1>1, <1>2, <1>5, <2>4, <3>1 DEF RetryStep
  <2> QED BY <1>5, <2>1, <2>2, <2>3, <2>4
<1>12. ASSUME NEW l \in speaking, NEW f \in Retry!RetryFields,
              Gives(l, f), says[l].kind = "tuned",
              "maxAttempts" \in DOMAIN says[l].fields, says[l].fields.maxAttempts > 1,
              \A k \in Above(l) : says[k].kind = "tuned" /\ ~Gives(k, f),
              \A k \in Above(l) :
                ~Gives(k, "maxAttempts") \/ says[k].fields.maxAttempts > 1
       PROVE  p.policy[f] = says[l].fields[f] /\ p.from[f].layer = l
  <2> DEFINE value == says[l].fields[f]
  <2>1. \A k \in Above(l) : Yields(says[k], f)
    BY <1>12 DEF Yields
  <2>2. /\ "agent" \in Above(l) => Yields(x, f)
        /\ "providerAlias" \in Above(l) => Yields(a, f)
        /\ "cli" \in Above(l) => Yields(c, f)
    BY <1>2, <2>1
  <2>3. \A r : r.kind = "absent" => Yields(r, f)
    BY DEF Yields
  <2> HIDE DEF speaking, Above
  <2>4. CASE l = "agent"
    <3>1. Holds(p, f, l, value)
      BY <1>1, <1>2, <1>12, <2>4, LayerHolds
    <3> QED BY <3>1 DEF Holds
  <2>5. CASE l = "providerAlias"
    <3>0. Yields(x, f)
      BY <1>4, <2>2, <2>3, <2>5
    <3>1. Holds(p3, f, l, value)
      BY <1>1, <1>2, <1>12, <2>5, LayerHolds
    <3>2. Holds(p, f, l, value)
      BY <1>1, <1>6, <3>0, <3>1, LayerKeeps
    <3> QED BY <3>2 DEF Holds
  <2>6. CASE l = "cli"
    <3>0. Yields(x, f) /\ Yields(a, f)
      BY <1>4, <2>2, <2>3, <2>6
    <3>1. Holds(p2, f, l, value)
      BY <1>1, <1>2, <1>12, <2>6, LayerHolds
    <3>2. Holds(p3, f, l, value)
      BY <1>1, <1>6, <3>0, <3>1, LayerKeeps
    <3>3. Holds(p, f, l, value)
      BY <1>1, <1>6, <3>0, <3>2, LayerKeeps
    <3> QED BY <3>3 DEF Holds
  <2>7. CASE l = "globalConfig"
    <3>0. Yields(x, f) /\ Yields(a, f) /\ Yields(c, f)
      BY <1>4, <2>2, <2>3, <2>7
    <3>1. Holds(p1, f, l, value)
      BY <1>1, <1>2, <1>12, <2>7, LayerHolds
    <3>2. Holds(p2, f, l, value)
      BY <1>1, <1>6, <3>0, <3>1, LayerKeeps
    <3>3. Holds(p3, f, l, value)
      BY <1>1, <1>6, <3>0, <3>2, LayerKeeps
    <3>4. Holds(p, f, l, value)
      BY <1>1, <1>6, <3>0, <3>3, LayerKeeps
    <3> QED BY <3>4 DEF Holds
  <2> QED BY <1>5, <2>4, <2>5, <2>6, <2>7
<1>13. (p.on <=> p.policy.maxAttempts > 1) /\ (p.on <=> p.disabledBy = Retry!None)
  BY <1>6 DEF PolicySound
<1> HIDE DEF speaking, Above, Gives
<1> QED
  BY <1>9, <1>10, <1>11, <1>12, <1>13
  DEF Retry!PolicyIsExplained, speaking, Above, Gives, says, p
=============================================================================
