---------------------------- MODULE Invocations ----------------------------
(* The tree of workflow invocations of a run:                              *)
(* workflow/invocation-manager.ts, its artifacts                           *)
(* (workflow/invocation-artifacts.ts), and the workflow() and agent()      *)
(* functions of workflow/dsl.ts that scripts call it through.              *)
(*                                                                         *)
(* An invocation runs a script, which may invoke child workflows and call  *)
(* agents, and need not await them.  It has an abort signal linked to the  *)
(* signal of its parent, a deadline, and possibly a limit on the agents    *)
(* at work in its subtree, kept by a chain of semaphores.  Scripts run in  *)
(* the same event loop: an action is what happens between two awaits.      *)
(*                                                                         *)
(* An operator that no other definition uses is a variant of the one after *)
(* it, with one mistake in it; the runs use it to test the properties.     *)
EXTENDS Naturals, Sequences, FiniteSets, FiniteSetsExt, Functions

CONSTANTS
  MaxChildren,   \* bound on the workflow() calls of a run
  MaxAgents,     \* bound on the agent() calls in progress at once
  Settled,       \* those with failureMode "settled"
  Timed,         \* those with a timeout of their own; 0 is the root
  Bound,         \* concurrency of a call, 0 if it is not given
  Concurrency,   \* config.concurrency, which the root passes on
  MaxDepth       \* config.workflow.maxDepth

ASSUME BoundsAssumption == MaxChildren \in Nat /\ MaxAgents \in Nat

Invs == 0..MaxChildren   \* 0 is the root, the others in the order of the calls
Agents == 1..MaxAgents

ASSUME CallsAssumption ==
  /\ Settled \subseteq Invs \ {0} /\ Timed \subseteq Invs
  /\ Bound \in [Invs \ {0} -> Nat]
  /\ Concurrency \in Nat \ {0} /\ MaxDepth \in Nat

VARIABLES
  pc,         \* how far executeRoot() or invokeChild() is
  path,       \* the ancestry: the invocation and those above it
  signal,     \* why its signal is aborted
  linked,     \* onParentAbort is registered on the parent's signal
  deadline,   \* deadlineAt # Infinity
  timer,      \* its timeout is armed
  limit,      \* effectiveConcurrency
  permits,    \* the agents its semaphore lets through, -1 without semaphore
  queue,      \* the agents waiting for its semaphore
  script,     \* none, running or ended
  error,      \* the status that the error in hand stands for
  summary,    \* the statuses recorded for it in workflowSummaries
  events,     \* the events emitted for it
  outcome,    \* what the caller got
  agent,      \* how far an agent() call is
  owner,      \* the invocation that made it
  held        \* the semaphores it has passed

signalVars == <<signal, linked, timer>>
treeVars == <<path, deadline, limit>>
budgetVars == <<permits, queue, agent, owner, held>>
reportVars == <<summary, events, outcome>>
vars == <<pc, treeVars, signalVars, budgetVars, script, error, reportVars>>

Parent(i) == Max(path[i] \ {i})
Depth(i) == Cardinality(path[i]) - 1
Unborn == {i \in Invs : pc[i] = "unborn"}
HasSemaphore(i) == permits[i] >= 0

Init ==
  /\ pc = [i \in Invs |-> IF i = 0 THEN "beginning" ELSE "unborn"]
  /\ path = [i \in Invs |-> {i}]
  /\ signal = [i \in Invs |-> "none"]
  /\ linked = [i \in Invs |-> FALSE]
  /\ deadline = [i \in Invs |-> i = 0 /\ 0 \in Timed]
  /\ timer = deadline
  /\ limit = [i \in Invs |-> Concurrency]
  /\ permits = [i \in Invs |-> -1]
  /\ queue = [i \in Invs |-> <<>>]
  /\ script = [i \in Invs |-> "none"]
  /\ error = [i \in Invs |-> "none"]
  /\ summary = [i \in Invs |-> <<>>]
  /\ events = [i \in Invs |-> <<>>]
  /\ outcome = [i \in Invs |-> "none"]
  /\ agent = [a \in Agents |-> "idle"]
  /\ owner = [a \in Agents |-> 0]
  /\ held = [a \in Agents |-> {}]

-----------------------------------------------------------------------------
(* workflow(): a call on an aborted signal throws at once.                 *)
Call(p) ==
  /\ script[p] = "running" /\ signal[p] = "none"
  /\ Unborn # {}
  /\ LET i == Min(Unborn) IN
       /\ pc' = [pc EXCEPT ![i] = "beginning"]
       /\ path' = [path EXCEPT ![i] = path[p] \cup {i}]
       /\ deadline' = [deadline EXCEPT ![i] = i \in Timed \/ deadline[p]]
       /\ limit' = [limit EXCEPT ![i] =
                      IF Bound[i] = 0 THEN limit[p] ELSE Min({Bound[i], limit[p]})]
       /\ permits' = [permits EXCEPT ![i] = IF Bound[i] = 0 THEN -1 ELSE 0]
  /\ UNCHANGED <<signalVars, queue, agent, owner, held, script, error, reportVars>>

(* The signal is linked, and the parent's may have been aborted meanwhile; *)
(* a deadline that has passed aborts it too.                               *)
Inherited(i) == IF i = 0 THEN signal[0] ELSE signal[Parent(i)]

Starts(i) ==
  /\ pc[i] = "beginning"
  /\ i # 0 => Depth(i) <= MaxDepth
  /\ linked' = [linked EXCEPT ![i] = i # 0]
  /\ \E late \in {FALSE, deadline[i] /\ i # 0} :
       /\ signal' = [signal EXCEPT ![i] =
            IF Inherited(i) = "none" /\ late THEN "timed_out" ELSE Inherited(i)]
       /\ timer' = [timer EXCEPT ![i] =
            IF i = 0 THEN @ ELSE deadline[i] /\ ~late]
  /\ IF signal'[i] = "none"
     THEN /\ pc' = [pc EXCEPT ![i] = "running"]
          /\ script' = [script EXCEPT ![i] = "running"]
          /\ events' = [events EXCEPT ![i] = Append(@, "started")]
          /\ UNCHANGED error
     ELSE /\ pc' = [pc EXCEPT ![i] = "failing"]
          /\ error' = [error EXCEPT ![i] = signal'[i]]
          /\ UNCHANGED <<script, events>>
  /\ UNCHANGED <<treeVars, budgetVars, summary, outcome>>

(* The workflow is not registered or is in the ancestry, or the arguments  *)
(* do not fit its schema (which names and arguments a script uses is left  *)
(* open), or the depth is over the limit: recorded, but without event.     *)
Rejects(i) ==
  /\ pc[i] = "beginning" /\ i # 0
  /\ pc' = [pc EXCEPT ![i] = "rejecting"]
  /\ error' = [error EXCEPT ![i] = "failed"]
  /\ UNCHANGED <<treeVars, signalVars, budgetVars, script, reportVars>>

(* executeRoot() has armed its timer, and is not in its try block yet.     *)
RootBeginFails ==
  /\ pc[0] = "beginning"
  /\ pc' = [pc EXCEPT ![0] = "done"]
  /\ outcome' = [outcome EXCEPT ![0] = "thrown"]
  /\ UNCHANGED <<treeVars, signalVars, budgetVars, script, error, summary,
                 events>>

-----------------------------------------------------------------------------
(* The script ends, also that of an invocation that has returned.  It ends *)
(* with a value or an error, which may be the error of a child it awaited. *)
ChildErrors(i) ==
  {error[c] : c \in {d \in Invs \ {0} :
                       outcome[d] = "thrown" /\ path[d] = path[i] \cup {d}}}

ScriptReturns(i) ==
  /\ script[i] = "running"
  /\ script' = [script EXCEPT ![i] = "ended"]
  /\ pc' = [pc EXCEPT ![i] = IF @ = "running" THEN "saving" ELSE @]
  /\ UNCHANGED <<treeVars, signalVars, budgetVars, error, reportVars>>

ScriptThrows(i, e) ==
  /\ script[i] = "running"
  /\ script' = [script EXCEPT ![i] = "ended"]
  /\ pc' = [pc EXCEPT ![i] = IF @ = "running" THEN "failing" ELSE @]
  /\ error' = [error EXCEPT ![i] = IF pc[i] = "running" THEN e ELSE @]
  /\ UNCHANGED <<treeVars, signalVars, budgetVars, reportVars>>

(* abort() on the controller of i runs the listeners of the signals linked *)
(* below it; runWithAbort() gives up on the scripts of those invocations.  *)
Hears(i) ==
  {j \in Invs : i \in path[j] /\ \A k \in path[j] : k > i => linked[k]}

GivesUpNever(i) == FALSE
GivesUp(i) == pc[i] = "running"

Abort(i, reason) ==
  LET told == {j \in Hears(i) : signal[j] = "none"}
      stops == {j \in told : GivesUp(j)}
  IN /\ signal' = [j \in Invs |-> IF j \in told THEN reason ELSE signal[j]]
     /\ pc' = [j \in Invs |-> IF j \in stops THEN "failing" ELSE pc[j]]
     /\ error' = [j \in Invs |-> IF j \in stops THEN reason ELSE error[j]]
     /\ UNCHANGED <<treeVars, linked, budgetVars, script, reportVars>>

TimerFires(i) ==
  /\ timer[i]
  /\ timer' = [timer EXCEPT ![i] = FALSE]
  /\ Abort(i, "timed_out")

(* SIGINT, or whoever holds the signal given to the run.                   *)
Cancel ==
  /\ signal[0] = "none"
  /\ Abort(0, "cancelled")
  /\ UNCHANGED timer

-----------------------------------------------------------------------------
(* finally: clearTimeout() and removeEventListener().                      *)
Returns(i, result) ==
  /\ pc' = [pc EXCEPT ![i] = "done"]
  /\ outcome' = [outcome EXCEPT ![i] = result]
  /\ timer' = [timer EXCEPT ![i] = FALSE]
  /\ linked' = [linked EXCEPT ![i] = FALSE]
  /\ UNCHANGED <<treeVars, signal, budgetVars, script>>

Records(i, status, told) ==
  /\ summary' = [summary EXCEPT ![i] = Append(@, status)]
  /\ events' = [events EXCEPT ![i] = IF told THEN Append(@, status) ELSE @]

Saves(i) ==
  /\ pc[i] = "saving"
  /\ Records(i, "succeeded", TRUE)
  /\ error' = [error EXCEPT ![i] = "none"]
  /\ Returns(i, "value")

(* result.json or summary.json cannot be written: that is an error too.    *)
SaveFailsCancelled(i) ==
  /\ pc' = [pc EXCEPT ![i] = "failing"]
  /\ error' = [error EXCEPT ![i] = "cancelled"]
  /\ UNCHANGED <<treeVars, signalVars, budgetVars, script, reportVars>>
SaveFails(i) ==
  /\ pc' = [pc EXCEPT ![i] = "failing"]
  /\ error' = [error EXCEPT ![i] = "failed"]
  /\ UNCHANGED <<treeVars, signalVars, budgetVars, script, reportVars>>

Unsaved(i) == pc[i] = "saving" /\ SaveFails(i)

(* error.json and summary.json are written, unless the directory of a      *)
(* rejected child could not be; that child's call ends a little earlier.   *)
(* A settled call returns its failure, unless the parent or the run is     *)
(* aborted; the root always throws.                                        *)
Settles(i) ==
  IF i \in Settled /\ signal[Parent(i)] = "none" /\ signal[0] = "none"
  THEN "settled" ELSE "thrown"

Fails(i) ==
  /\ pc[i] \in {"failing", "rejecting"}
  /\ Records(i, error[i], pc[i] = "failing")
  /\ error' = [error EXCEPT ![i] = IF Settles(i) = "thrown" THEN @ ELSE "none"]
  /\ Returns(i, Settles(i))

(* error.json or summary.json cannot be written: its error is thrown, and  *)
(* nothing was recorded.                                                   *)
FailureUnsaved(i) ==
  /\ pc[i] \in {"failing", "rejecting"}
  /\ error' = [error EXCEPT ![i] = "failed"]
  /\ UNCHANGED <<summary, events>>
  /\ Returns(i, "thrown")

-----------------------------------------------------------------------------
(* agent(): concurrencyBudget.acquire() passes the semaphores from the     *)
(* outermost to the innermost; then the call goes to the scheduler or to   *)
(* the orchestrator of retries.                                            *)
Semaphores(i) == {s \in path[i] : HasSemaphore(s)}
Ahead(a) == Semaphores(owner[a]) \ held[a]
After(semaphores) == IF semaphores = {} THEN "working" ELSE "acquiring"

CallAgent(i) ==
  /\ script[i] = "running"
  /\ \E a \in Agents : agent[a] = "idle"
  /\ LET a == Min({b \in Agents : agent[b] = "idle"}) IN
       /\ agent' = [agent EXCEPT ![a] = After(Semaphores(i))]
       /\ owner' = [owner EXCEPT ![a] = i]
  /\ UNCHANGED <<pc, treeVars, signalVars, permits, queue, held, script, error,
                 reportVars>>

HasPermit(s) == permits[s] < limit[s]

Acquire(a) ==
  /\ agent[a] = "acquiring"
  /\ LET s == Min(Ahead(a)) IN
       IF HasPermit(s)
       THEN /\ permits' = [permits EXCEPT ![s] = @ + 1]
            /\ held' = [held EXCEPT ![a] = @ \cup {s}]
            /\ agent' = [agent EXCEPT ![a] = After(Ahead(a) \ {s})]
            /\ UNCHANGED queue
       ELSE /\ queue' = [queue EXCEPT ![s] = Append(@, a)]
            /\ agent' = [agent EXCEPT ![a] = "queued"]
            /\ UNCHANGED <<permits, held>>
  /\ UNCHANGED <<pc, treeVars, signalVars, owner, script, error, reportVars>>

(* concurrencyBudget.release(): a permit goes to the first in the queue,   *)
(* or back to the semaphore.                                               *)
ReleasedInnermost(a) ==
  IF held[a] = {} THEN {} ELSE {Max(held[a])}
Released(a) == held[a]

AgentEnds(a) ==
  /\ agent[a] = "working"
  /\ LET given == {s \in Released(a) : queue[s] # <<>>}
         next == [s \in given |-> Head(queue[s])]
     IN /\ permits' = [s \in Invs |->
             IF s \in Released(a) \ given THEN permits[s] - 1 ELSE permits[s]]
        /\ queue' = [s \in Invs |->
             IF s \in given THEN Tail(queue[s]) ELSE queue[s]]
        /\ held' = [b \in Agents |->
             IF b = a THEN {} ELSE held[b] \cup {s \in given : next[s] = b}]
        /\ agent' = [b \in Agents |->
             IF b = a THEN "idle"
             ELSE IF b \in Range(next)
             THEN After(Ahead(b) \ {s \in given : next[s] = b})
             ELSE agent[b]]
  /\ owner' = [owner EXCEPT ![a] = 0]
  /\ UNCHANGED <<pc, treeVars, signalVars, script, error, reportVars>>

-----------------------------------------------------------------------------
Manager(i) ==
  \/ Starts(i) \/ Rejects(i)
  \/ Saves(i) \/ Unsaved(i) \/ Fails(i) \/ FailureUnsaved(i)

Script(i) ==
  \/ Call(i)
  \/ CallAgent(i)
  \/ ScriptReturns(i)
  \/ \E e \in ChildErrors(i) \cup {"failed"} : ScriptThrows(i, e)

Next ==
  \/ \E i \in Invs : Manager(i) \/ Script(i) \/ TimerFires(i)
  \/ RootBeginFails
  \/ Cancel
  \/ \E a \in Agents : Acquire(a) \/ AgentEnds(a)

Spec == Init /\ [][Next]_vars

(* File writes end, with or without an error.  Nothing is assumed of       *)
(* scripts, nor of agents and timers.                                      *)
FairSpec == Spec /\ WF_vars(\E i \in Invs : Manager(i))

-----------------------------------------------------------------------------
TypeOK ==
  /\ pc \in [Invs -> {"unborn", "beginning", "running", "saving", "failing",
                      "rejecting", "done"}]
  /\ \A i \in Invs : path[i] \subseteq 0..i /\ i \in path[i]
  /\ signal \in [Invs -> {"none", "timed_out", "cancelled"}]
  /\ linked \in [Invs -> BOOLEAN]
  /\ deadline \in [Invs -> BOOLEAN] /\ timer \in [Invs -> BOOLEAN]
  /\ limit \in [Invs -> 1..Concurrency]
  /\ \A i \in Invs : permits[i] \in -1..limit[i]
  /\ \A i \in Invs : queue[i] \in Seq(Agents)
  /\ script \in [Invs -> {"none", "running", "ended"}]
  /\ error \in [Invs -> {"none", "failed", "timed_out", "cancelled"}]
  /\ outcome \in [Invs -> {"none", "value", "settled", "thrown"}]
  /\ agent \in [Agents -> {"idle", "acquiring", "queued", "working"}]
  /\ owner \in [Agents -> Invs]
  /\ held \in [Agents -> SUBSET Invs]

(* No more agents of a subtree work than workflow({concurrency}) allows at *)
(* its top, at every level at once, and no permit is lost.  An agent waits *)
(* only for a semaphore all of whose permits others hold, and holds only   *)
(* semaphores above that one meanwhile, so agents never wait in a circle.  *)
BudgetExact ==
  \A i \in Invs : HasSemaphore(i) =>
    /\ Cardinality({a \in Agents : agent[a] = "working" /\ i \in path[owner[a]]})
         <= limit[i]
    /\ Cardinality({a \in Agents : i \in held[a]}) = permits[i]
    /\ queue[i] # <<>> => permits[i] = limit[i]
    /\ \A a \in Range(queue[i]) : held[a] = Semaphores(owner[a]) \cap (path[i] \ {i})

(* The summary, the events and what the caller gets tell the same story,   *)
(* once, whichever of the writes fails; a call without summary threw.  It  *)
(* says that it was cancelled or timed out only if that happened to it,    *)
(* above it, or to a child whose error it passed on.                       *)
ReportsAgree ==
  /\ TypeOK
  /\ \A i \in Invs :
      /\ pc[i] # "done" => summary[i] = <<>> /\ outcome[i] = "none"
      /\ pc[i] = "done" =>
           \/ summary[i] = <<>> /\ outcome[i] = "thrown"
           \/ \E s \in {"succeeded", "failed", "timed_out", "cancelled"} :
                /\ summary[i] = <<s>>
                /\ s = "succeeded" <=> outcome[i] = "value"
                /\ events[i] \in {<<>>, <<s>>, <<"started", s>>}
                /\ s \in {"timed_out", "cancelled"} =>
                     \E j \in Invs : (j \in path[i] \/ i \in path[j]) /\ signal[j] = s

(* An invocation in progress never misses an abort of its parent, also one *)
(* that came while its first artifacts were written.                       *)
AbortIsHeard ==
  \A i \in Invs \ {0} :
    pc[i] \in {"running", "saving"} /\ signal[Parent(i)] # "none"
      => signal[i] # "none"

(* An abort is heard by the children in progress, and an aborted           *)
(* invocation returns although its script may go on for ever.              *)
AbortedReturns ==
  /\ []AbortIsHeard
  /\ []<>(\A i \in Invs : signal[i] # "none" => pc[i] = "done")
=============================================================================
