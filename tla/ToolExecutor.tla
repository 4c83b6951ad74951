---------------------------- MODULE ToolExecutor ----------------------------
(* The tool executor and its limiter: tools/executor.ts and                *)
(* orchestration/tool-limiter.ts.                                          *)
(*                                                                         *)
(* execute() writes its first artifacts, links the abort signals, arms the *)
(* timeout, waits for one of Limit slots, runs the tool and races it       *)
(* against the abort, then writes the outcome and gives the slot back.     *)
(* Every await is a step: in between other calls, timers, the abort of an  *)
(* invocation, cancel() and close() happen.  A tool that ignores its       *)
(* signal goes on after its call was settled.                              *)
(*                                                                         *)
(* An operator that no other definition uses is a variant of the one after *)
(* it, with one mistake in it; the runs use it to test the properties.     *)
EXTENDS Integers, Sequences, FiniteSets, SequencesExt

CONSTANTS
  Calls,        \* the tool calls of the run, each with its own id
  Limit,        \* deps.concurrency
  Timed,        \* the calls with a timeout or a deadline
  Reasons,      \* why an invocation or the executor may be cancelled
  StoreFails    \* the calls whose artifact writes may fail

ASSUME LimitAssumption == Limit \in Nat \ {0}
ASSUME ReasonsAssumption == Reasons \subseteq {"user", "timeout"}
ASSUME CallsAssumption == Timed \subseteq Calls /\ StoreFails \subseteq Calls

VARIABLES
  pc,           \* how far each execute() is
  verdict,      \* the status it settled on
  reported,     \* the status in its summary and its terminal event
  reason,       \* why its own signal was aborted
  invocation,   \* why the signal of its invocation was aborted
  cancelReason, \* why cancel() was called
  timer,        \* the calls whose timeout is armed
  active,       \* limiter.activeCount
  queue,        \* limiter.queue
  held,         \* the calls that hold a release function not yet called
  executing,    \* the calls whose tool function is running
  closed,       \* close() was called
  awaited       \* the calls close() waits for

limiterVars == <<active, queue, held>>
signalVars == <<reason, invocation, cancelReason, timer>>
closeVars == <<closed, awaited>>
vars == <<pc, verdict, reported, signalVars, limiterVars, executing, closeVars>>

StatusOf(r) == IF r = "timeout" THEN "timed_out" ELSE "cancelled"

Init ==
  /\ pc = [c \in Calls |-> "idle"]
  /\ verdict = [c \in Calls |-> "none"]
  /\ reported = [c \in Calls |-> "none"]
  /\ reason = [c \in Calls |-> "none"]
  /\ invocation = [c \in Calls |-> "none"]
  /\ cancelReason = "none"
  /\ timer = {}
  /\ active = 0 /\ queue = <<>> /\ held = {}
  /\ executing = {}
  /\ closed = FALSE /\ awaited = {}

InProgress == {c \in Calls : pc[c] \notin {"idle", "done"}}

(* The call has linked its signals.                                        *)
Linked(c) == pc[c] \notin {"idle", "preparing", "done"}

-----------------------------------------------------------------------------
(* execute(): a closed or cancelled executor refuses the call.             *)
Refuses == closed \/ cancelReason # "none"

Execute(c) ==
  /\ pc[c] = "idle"
  /\ IF Refuses
     THEN /\ pc' = [pc EXCEPT ![c] = "failing"]
          /\ verdict' = [verdict EXCEPT ![c] = "cancelled"]
     ELSE /\ pc' = [pc EXCEPT ![c] = "preparing"]
          /\ UNCHANGED verdict
  /\ UNCHANGED <<reported, signalVars, limiterVars, executing, closeVars>>

(* createLinkedAbortController(): aborted from the start when a parent is. *)
Inherited(c) == IF invocation[c] # "none" THEN invocation[c] ELSE cancelReason

HasSlot == active < Limit

(* The artifacts are written: tool.queued, the timer, limiter.acquire().   *)
Prepared(c) ==
  /\ pc[c] = "preparing"
  /\ reason' = [reason EXCEPT ![c] = Inherited(c)]
  /\ timer' = timer \cup ({c} \cap Timed)
  /\ IF reason'[c] # "none"
     THEN /\ pc' = [pc EXCEPT ![c] = "failing"]
          /\ verdict' = [verdict EXCEPT ![c] = StatusOf(reason'[c])]
          /\ UNCHANGED limiterVars
     ELSE /\ UNCHANGED verdict
          /\ IF HasSlot
             THEN /\ active' = active + 1
                  /\ held' = held \cup {c}
                  /\ pc' = [pc EXCEPT ![c] = "granted"]
                  /\ UNCHANGED queue
             ELSE /\ queue' = Append(queue, c)
                  /\ pc' = [pc EXCEPT ![c] = "queued"]
                  /\ UNCHANGED <<active, held>>
  /\ UNCHANGED <<reported, invocation, cancelReason, executing, closeVars>>

(* The running metadata is written: tool.started, and the tool is called,  *)
(* whatever happened to the signal.  Then its promise races the abort.     *)
Begin(c) ==
  /\ pc[c] = "granted"
  /\ executing' = executing \cup {c}
  /\ IF reason[c] = "none"
     THEN pc' = [pc EXCEPT ![c] = "running"] /\ UNCHANGED verdict
     ELSE /\ pc' = [pc EXCEPT ![c] = "failing"]
          /\ verdict' = [verdict EXCEPT ![c] = StatusOf(reason[c])]
  /\ UNCHANGED <<reported, signalVars, limiterVars, closeVars>>

(* What a tool throws says how the call ended: its error may carry the     *)
(* code of a timeout or of a cancellation; under an aborted signal         *)
(* anything else counts as a cancellation.                                 *)
Thrown(c) == {"timed_out", "cancelled"} \cup (IF reason[c] = "none" THEN {"failed"} ELSE {})

(* A tool that returns or throws at once wins the race against any abort.  *)
BeginReturns(c) ==
  /\ pc[c] = "granted"
  /\ \/ pc' = [pc EXCEPT ![c] = "saving"] /\ UNCHANGED verdict
     \/ /\ pc' = [pc EXCEPT ![c] = "failing"]
        /\ \E status \in Thrown(c) : verdict' = [verdict EXCEPT ![c] = status]
  /\ UNCHANGED <<reported, signalVars, limiterVars, executing, closeVars>>

(* A running tool ends; the result of a settled call is discarded.         *)
LateResultUsed(c) == pc[c] \in {"running", "failing"}
ResultUsed(c) == pc[c] = "running"

ToolEnds(c) ==
  /\ c \in executing
  /\ executing' = executing \ {c}
  /\ \/ ~ResultUsed(c) /\ UNCHANGED <<pc, verdict>>
     \/ ResultUsed(c) /\ pc' = [pc EXCEPT ![c] = "saving"] /\ UNCHANGED verdict
     \/ /\ ResultUsed(c)
        /\ pc' = [pc EXCEPT ![c] = "failing"]
        /\ \E status \in Thrown(c) : verdict' = [verdict EXCEPT ![c] = status]
  /\ UNCHANGED <<reported, signalVars, limiterVars, closeVars>>

-----------------------------------------------------------------------------
(* The finally block: the timer is cleared, the slot given back, and       *)
(* pump() hands free slots to the queue.  A call refused at the entry has  *)
(* neither.                                                                *)
Slots(c) == active - Cardinality({c} \cap held)
Grants(c) == LET free == Limit - Slots(c) IN IF Len(queue) < free THEN Len(queue) ELSE free
Granted(c) == {queue[i] : i \in 1..Grants(c)}

FinallyNoPump(c, label) ==
  /\ timer' = timer \ {c}
  /\ active' = Slots(c)
  /\ held' = held \ {c}
  /\ pc' = [pc EXCEPT ![c] = label]
  /\ UNCHANGED queue
FinallyKeepsTimer(c, label) ==
  /\ UNCHANGED timer
  /\ active' = Slots(c) + Grants(c)
  /\ held' = (held \ {c}) \cup Granted(c)
  /\ queue' = SubSeq(queue, Grants(c) + 1, Len(queue))
  /\ pc' = [d \in Calls |-> IF d = c THEN label
                            ELSE IF d \in Granted(c) THEN "granted" ELSE pc[d]]
Finally(c, label) ==
  /\ timer' = timer \ {c}
  /\ active' = Slots(c) + Grants(c)
  /\ held' = (held \ {c}) \cup Granted(c)
  /\ queue' = SubSeq(queue, Grants(c) + 1, Len(queue))
  /\ pc' = [d \in Calls |-> IF d = c THEN label
                            ELSE IF d \in Granted(c) THEN "granted" ELSE pc[d]]

(* The output is written: summary and tool.completed, then finally.        *)
Saved(c) ==
  /\ pc[c] = "saving"
  /\ verdict' = [verdict EXCEPT ![c] = "succeeded"]
  /\ reported' = [reported EXCEPT ![c] = "succeeded"]
  /\ Finally(c, "done")
  /\ UNCHANGED <<reason, invocation, cancelReason, executing, closeVars>>

(* terminalFailure(): the error is written, then summary and event.        *)
Failed(c) ==
  /\ pc[c] = "failing"
  /\ reported' = [reported EXCEPT ![c] = verdict[c]]
  /\ Finally(c, "done")
  /\ UNCHANGED <<verdict, reason, invocation, cancelReason, executing, closeVars>>

(* A write fails.  The first artifacts: a failed result without an event.  *)
PrepareFails(c) ==
  /\ c \in StoreFails
  /\ pc[c] = "preparing"
  /\ verdict' = [verdict EXCEPT ![c] = "failed"]
  /\ pc' = [pc EXCEPT ![c] = "done"]
  /\ UNCHANGED <<reported, signalVars, limiterVars, executing, closeVars>>

(* The output: terminalFailure() is tried instead.                         *)
SaveFails(c) ==
  /\ c \in StoreFails
  /\ pc[c] = "saving"
  /\ pc' = [pc EXCEPT ![c] = "failing"]
  /\ verdict' = [verdict EXCEPT ![c] = "failed"]
  /\ UNCHANGED <<reported, signalVars, limiterVars, executing, closeVars>>

(* The running metadata or the error itself: execute() rejects, without a  *)
(* summary.                                                                *)
WriteRejects(c) ==
  /\ c \in StoreFails
  /\ pc[c] \in {"granted", "failing"}
  /\ verdict' = [verdict EXCEPT ![c] = "rejected"]
  /\ Finally(c, "done")
  /\ UNCHANGED <<reported, reason, invocation, cancelReason, executing, closeVars>>

-----------------------------------------------------------------------------
(* The signals of the calls in S are aborted: a waiting call leaves the    *)
(* queue, a running one is settled, a call in between only learns of it.   *)
Stopped(S) == {c \in S : Linked(c) /\ reason[c] = "none"}

(* q without the members of S: a function, about which one can prove.      *)
Without(q, S) ==
  LET kept[n \in 0..Len(q)] ==
        IF n = 0 THEN <<>>
        ELSE IF q[n] \in S THEN kept[n - 1] ELSE Append(kept[n - 1], q[n])
  IN  kept[Len(q)]

Unqueue(S) == Without(queue, Stopped(S))

SettledIfQueued(S) == {c \in Stopped(S) : pc[c] = "queued"}
Settled(S) == {c \in Stopped(S) : pc[c] \in {"queued", "running"}}

AbortSignals(S, r) ==
  /\ reason' = [c \in Calls |-> IF c \in Stopped(S) THEN r ELSE reason[c]]
  /\ queue' = Unqueue(S)
  /\ pc' = [c \in Calls |-> IF c \in Settled(S) THEN "failing" ELSE pc[c]]
  /\ verdict' = [c \in Calls |-> IF c \in Settled(S) THEN StatusOf(r) ELSE verdict[c]]
  /\ UNCHANGED <<reported, active, held, executing, closeVars>>

TimerFires(c) ==
  /\ c \in timer
  /\ timer' = timer \ {c}
  /\ AbortSignals({c}, "timeout")
  /\ UNCHANGED <<invocation, cancelReason>>

(* The invocation or the loop that made the call is aborted.               *)
AbortInvocation(c, r) ==
  /\ invocation[c] = "none" /\ pc[c] # "done"
  /\ invocation' = [invocation EXCEPT ![c] = r]
  /\ AbortSignals({c}, r)
  /\ UNCHANGED <<cancelReason, timer>>

(* cancel(), by the run or by the root signal: the first one counts.       *)
Cancel(r) ==
  /\ cancelReason = "none"
  /\ cancelReason' = r
  /\ AbortSignals(Calls, r)
  /\ UNCHANGED <<invocation, timer>>

Close ==
  /\ ~closed
  /\ closed' = TRUE
  /\ awaited' = InProgress
  /\ UNCHANGED <<pc, verdict, reported, signalVars, limiterVars, executing>>

CloseReturned == closed /\ \A c \in awaited : pc[c] = "done"

-----------------------------------------------------------------------------
Step(c) ==
  \/ Prepared(c)
  \/ Begin(c) \/ BeginReturns(c)
  \/ Saved(c) \/ Failed(c)
  \/ PrepareFails(c) \/ SaveFails(c) \/ WriteRejects(c)

Next ==
  \/ \E c \in Calls :
       \/ Execute(c) \/ Step(c) \/ TimerFires(c) \/ ToolEnds(c)
       \/ \E r \in Reasons : AbortInvocation(c, r)
  \/ \E r \in Reasons : Cancel(r)
  \/ Close

Spec == Init /\ [][Next]_vars

(* Writes end and armed timers fire; a tool need never end.                *)
FairSpec ==
  /\ Spec
  /\ \A c \in Calls : WF_vars(Step(c)) /\ WF_vars(TimerFires(c))

-----------------------------------------------------------------------------
Statuses == {"succeeded", "failed", "timed_out", "cancelled"}

TypeOK ==
  /\ pc \in [Calls -> {"idle", "preparing", "queued", "granted", "running",
                       "saving", "failing", "done"}]
  /\ verdict \in [Calls -> Statuses \cup {"none", "rejected"}]
  /\ reported \in [Calls -> Statuses \cup {"none"}]
  /\ reason \in [Calls -> Reasons \cup {"none", "timeout"}]
  /\ invocation \in [Calls -> Reasons \cup {"none"}]
  /\ cancelReason \in Reasons \cup {"none"}
  /\ timer \subseteq Timed
  /\ active \in 0..Limit
  /\ queue \in Seq(Calls)
  /\ held \subseteq Calls /\ executing \subseteq Calls
  /\ closed \in BOOLEAN /\ awaited \subseteq Calls

(* The limiter is exact on every path through errors, aborts and failing   *)
(* writes: a slot it counts belongs to a call that will give it back; a    *)
(* call waits exactly while it is in the queue, once, and only while every *)
(* slot is taken.                                                          *)
SlotsExact ==
  /\ active = Cardinality(held)
  /\ held \subseteq {c \in Calls : pc[c] \in {"granted", "running", "saving", "failing"}}
  /\ \A c \in Calls : pc[c] \in {"granted", "running", "saving"} => c \in held
  /\ \A c \in Calls :
       Cardinality({i \in DOMAIN queue : queue[i] = c}) =
         IF pc[c] = "queued" THEN 1 ELSE 0
  /\ queue # <<>> => active = Limit

(* A call linked to an aborted invocation or a cancelled executor cannot   *)
(* miss it: its own signal is aborted, and it leaves the queue.            *)
NoMissedAbort ==
  /\ \A c \in ToSet(queue) : reason[c] = "none"
  /\ \A c \in Calls : Linked(c) /\ c \in held \cup ToSet(queue)
                      /\ (invocation[c] # "none" \/ cancelReason # "none")
                    => reason[c] # "none"

(* Slots are neither lost nor given twice, and no call waits for one in    *)
(* vain: not while a slot is free, nor once its owner was aborted.         *)
LimiterExact == TypeOK /\ SlotsExact /\ NoMissedAbort

(* What a call settled on is never replaced by a late result: only a       *)
(* failing artifact write may still turn it into a rejection.              *)
VerdictIsFinal ==
  [][\A c \in Calls : verdict[c] # "none" =>
       verdict'[c] \in {verdict[c], "rejected"}
       /\ pc'[c] \in {pc[c], "done"}]_vars

(* When close() has returned nothing of the executor is left: no slot, no  *)
(* timer, no call on its way; and the summaries and terminal events say    *)
(* what the calls returned.                                                *)
CloseLeavesNothing ==
  CloseReturned =>
    /\ \A c \in Calls : reported[c] # "none" => reported[c] = verdict[c]
    /\ active = 0 /\ queue = <<>> /\ timer = {}
    /\ \A c \in Calls : pc[c] \in {"idle", "failing", "done"}

(* A call with a timeout returns even if its tool never does, and even if  *)
(* another tool keeps the only slot for ever; close() returns once the     *)
(* executor was cancelled, whatever the tools do.                          *)
CallsReturn ==
  /\ \A c \in Timed : pc[c] # "idle" ~> pc[c] = "done"
  /\ closed /\ cancelReason # "none" ~> CloseReturned
=============================================================================
