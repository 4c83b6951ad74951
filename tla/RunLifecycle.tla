---------------------------- MODULE RunLifecycle ----------------------------
(* One run from the command line to its exit code: the run command         *)
(* (cli/commands/run.ts), DefaultRuntimeRunner.run() (workflow/runtime.ts), *)
(* the event bus (orchestration/event-bus.ts) and the files of the run     *)
(* (artifacts/run-store.ts, artifacts/manifest.ts).                        *)
(*                                                                         *)
(* The agents of the run go through a TaskPool, which Scheduler is shown   *)
(* to implement.  The root invocation is what Invocations promises: it     *)
(* returns, throws, or is given up when the run is cancelled, and its      *)
(* script may go on all the same.                                          *)
(*                                                                         *)
(* There is no action for a crash: it stops everything, and what it leaves *)
(* on disk are the files of the state it found.                            *)
(*                                                                         *)
(* An operator that no other definition uses is a variant of the one after *)
(* it, with one mistake in it; the runs use it to test the properties.     *)
EXTENDS Naturals, Sequences, FiniteSets, FiniteSetsExt

CONSTANTS
  Tasks,        \* the agent() calls the script may make
  Concurrency,  \* of the scheduler
  FailFast,     \* --fail-fast or config.failFast
  HasSeed       \* a profile seeds the context

ASSUME LifecycleAssumption ==
  IsFiniteSet(Tasks) /\ Concurrency \in Nat \ {0} /\ FailFast \in BOOLEAN
    /\ HasSeed \in BOOLEAN

Verdicts == {"succeeded", "failed", "cancelled"}

VARIABLES
  pc,           \* where the command or the runtime is
  catching,     \* outside of the try block of the runtime
  error,        \* what was thrown into its catch block
  verdict,      \* the status of the result being built
  interrupted,  \* SIGINT was received
  phase, closed, \* the pool of agent tasks
  reason,       \* why the scheduler was aborted
  tool,         \* a tool call is in progress
  toolsOpen,    \* the tool executor accepts calls
  script,       \* none, running or ended
  emitted,      \* the events, in the order of their sequence numbers
  settled,      \* those whose link of emitQueue has settled
  logged,       \* the numbers of the events in events.jsonl
  shown,        \* the numbers of those the reporter has handled
  flush,        \* the last event EventBus.drain() waits for
  disk,         \* manifest.json, run-input.json, report.json
  writing,      \* one of them is open
  exit          \* how the command ended

poolVars == <<phase, closed, reason>>
toolVars == <<tool, toolsOpen>>
busVars == <<emitted, settled, logged, shown>>
runVars == <<catching, error, verdict>>
fileVars == <<disk, writing>>
vars == <<pc, runVars, interrupted, poolVars, toolVars, script, busVars, flush,
          fileVars, exit>>

Pool == INSTANCE TaskPool WITH Limit <- Concurrency

Init ==
  /\ pc = "creating"
  /\ catching = FALSE /\ error = "none" /\ verdict = "none"
  /\ interrupted = FALSE
  /\ Pool!PoolInit /\ reason = "none"
  /\ tool = FALSE /\ toolsOpen = TRUE
  /\ script = "none"
  /\ emitted = <<>> /\ settled = {} /\ logged = <<>> /\ shown = <<>>
  /\ flush = 0
  /\ disk = [f \in {"manifest", "run-input", "report"} |-> "absent"]
  /\ writing = FALSE
  /\ exit = "none"

-----------------------------------------------------------------------------
(* Tasks that end tell so on the bus, also those that abort() discards.    *)
Ended == {t \in Tasks : phase[t] # "done" /\ phase'[t] = "done"}

EmitAfterTasks(events) ==
  /\ emitted' = emitted \o [n \in 1..Cardinality(Ended) |-> "agent"] \o events
  /\ UNCHANGED <<settled, logged, shown>>

(* scheduler.abort(): the first reason stays.                              *)
AbortScheduler(why) ==
  IF closed THEN UNCHANGED poolVars ELSE Pool!Close({}) /\ reason' = why

(* Into the catch block: it aborts the scheduler and waits for it.         *)
AbortTypeOf(e) == CASE e = "cancelled" -> "user" [] e = "timeout" -> "timeout"
                    [] OTHER -> "other"

CatchWithoutAbort(e) ==
  /\ pc' = "draining" /\ catching' = TRUE /\ error' = e
  /\ UNCHANGED poolVars
Catch(e) ==
  /\ pc' = "draining" /\ catching' = TRUE /\ error' = e
  /\ AbortScheduler(AbortTypeOf(e))

Throw(e, events) ==
  /\ Catch(e)
  /\ EmitAfterTasks(events)
  /\ UNCHANGED <<verdict, interrupted, toolVars, script, flush, exit>>

-----------------------------------------------------------------------------
(* createRun() and the record of the invocation, then the manifest at the  *)
(* end: files that are rewritten in place, so a failure or a crash in      *)
(* between leaves a part of them.                                          *)
File == CASE pc \in {"creating", "publishing"} -> "manifest"
          [] pc \in {"preparing", "recording"} -> "run-input"
Content == CASE pc = "creating" -> "running" [] pc = "publishing" -> verdict
             [] pc = "preparing" -> "empty" [] pc = "recording" -> "v2"
AfterWrite == CASE pc = "creating" -> "preparing" [] pc = "preparing" -> "recording"
                [] pc = "recording" -> "starting" [] pc = "publishing" -> "flushing"

InWrite == pc \in {"creating", "preparing", "recording", "publishing"}

WriteOpens ==
  /\ InWrite /\ ~writing
  /\ writing' = TRUE
  /\ disk' = [disk EXCEPT ![File] = "torn"]
  /\ UNCHANGED <<pc, runVars, interrupted, poolVars, toolVars, script, busVars,
                 flush, exit>>

(* After the last one run() returns, and the command waits for the events  *)
(* emitted so far.                                                         *)
WriteEnds ==
  /\ InWrite /\ writing
  /\ writing' = FALSE
  /\ disk' = [disk EXCEPT ![File] = Content]
  /\ pc' = AfterWrite
  /\ flush' = IF AfterWrite = "flushing" THEN Len(emitted) ELSE flush
  /\ UNCHANGED <<runVars, interrupted, poolVars, toolVars, script, busVars, exit>>

(* A manifest that cannot be written is an error like any other inside of  *)
(* the try block; elsewhere the command ends with it.                      *)
WriteFails ==
  /\ InWrite
  /\ writing' = FALSE /\ UNCHANGED disk
  /\ IF pc = "publishing" /\ ~catching
     THEN Throw("failed", <<>>)
     ELSE /\ pc' = "ended" /\ exit' = "error"
          /\ UNCHANGED <<runVars, interrupted, poolVars, toolVars, script,
                         busVars, flush>>

-----------------------------------------------------------------------------
(* The seed of the context is rejected before the try block.               *)
SeedFails ==
  /\ pc = "starting" /\ HasSeed
  /\ catching' = TRUE
  /\ verdict' = "failed"
  /\ emitted' = Append(emitted, "failed")
  /\ pc' = "publishing"
  /\ UNCHANGED <<error, interrupted, poolVars, toolVars, script, settled,
                 logged, shown, flush, fileVars, exit>>

Starts ==
  /\ pc = "starting" /\ ~interrupted
  /\ pc' = "executing"
  /\ script' = "running"
  /\ emitted' = Append(emitted, "started")
  /\ UNCHANGED <<runVars, interrupted, poolVars, toolVars, settled, logged,
                 shown, flush, fileVars, exit>>

StartsInterrupted ==
  /\ pc = "starting" /\ interrupted
  /\ Throw("cancelled", <<"started">>)
  /\ UNCHANGED fileVars

(* The root invocation is over; calls that its script did not await may    *)
(* not be, and the script goes on after them.                              *)
RootReturns ==
  /\ pc = "executing"
  /\ pc' = "draining"
  /\ UNCHANGED <<runVars, interrupted, poolVars, toolVars, script, busVars,
                 flush, fileVars, exit>>

RootThrows(e) ==
  /\ pc = "executing"
  /\ Throw(e, <<>>)
  /\ UNCHANGED fileVars

(* runWithAbort() gives up on a script that does not end.                  *)
GivesUpNever == FALSE
GivesUp == interrupted

RootAborted == GivesUp /\ RootThrows("cancelled")

(* The abort of the signal reaches the tool executor, the root invocation  *)
(* and the scheduler in one turn; before they exist they find it aborted.  *)
Interrupt ==
  /\ ~interrupted /\ pc # "ended"
  /\ interrupted' = TRUE
  /\ toolsOpen' = FALSE
  /\ AbortScheduler("user")
  /\ EmitAfterTasks(<<>>)
  /\ UNCHANGED <<pc, runVars, tool, script, flush, fileVars, exit>>

-----------------------------------------------------------------------------
(* The script, the scheduler and the tools.                                *)
CallsAgent(t) ==
  /\ script = "running"
  /\ Pool!Submit(t) /\ UNCHANGED reason
  /\ EmitAfterTasks(<<>>)
  /\ UNCHANGED <<pc, runVars, interrupted, toolVars, script, flush, fileVars, exit>>

CallsTool ==
  /\ script = "running" /\ ~tool
  /\ tool' = toolsOpen
  /\ UNCHANGED <<pc, runVars, interrupted, poolVars, toolsOpen, script, busVars,
                 flush, fileVars, exit>>

ScriptEnds ==
  /\ script = "running"
  /\ pc # "executing"
  /\ script' = "ended"
  /\ UNCHANGED <<pc, runVars, interrupted, poolVars, toolVars, busVars, flush,
                 fileVars, exit>>

TaskBegins(t) ==
  /\ Pool!Begin(t) /\ UNCHANGED reason
  /\ UNCHANGED <<pc, runVars, interrupted, toolVars, script, busVars, flush,
                 fileVars, exit>>

TaskEnds(t) ==
  /\ Pool!Finish(t) /\ UNCHANGED reason
  /\ EmitAfterTasks(<<>>)
  /\ UNCHANGED <<pc, runVars, interrupted, toolVars, script, flush, fileVars, exit>>

(* A failure with fail-fast aborts the scheduler, and nothing else.        *)
TaskFails(t) ==
  /\ FailFast /\ phase[t] = "active"
  /\ Pool!Close({t}) /\ reason' = "fail-fast"
  /\ EmitAfterTasks(<<>>)
  /\ UNCHANGED <<pc, runVars, interrupted, toolVars, script, flush, fileVars, exit>>

ToolEnds ==
  /\ tool
  /\ tool' = FALSE
  /\ UNCHANGED <<pc, runVars, interrupted, poolVars, toolsOpen, script, busVars,
                 flush, fileVars, exit>>

-----------------------------------------------------------------------------
(* scheduler.drain() resolves; its caller goes on a few promise callbacks  *)
(* later, before any timer, signal or I/O, but perhaps after the callbacks *)
(* of a script that calls one more agent.                                  *)
Idle == \A t \in Tasks : phase[t] \notin {"waiting", "active"}

Drains ==
  /\ pc = "draining" /\ Idle
  /\ pc' = "drained"
  /\ UNCHANGED <<runVars, interrupted, poolVars, toolVars, script, busVars,
                 flush, fileVars, exit>>

(* What it became, looked at once; then the tool executor is closed.       *)
VerdictByUser ==
  IF catching THEN IF error = "cancelled" THEN "cancelled" ELSE "failed"
  ELSE IF reason = "user" THEN "cancelled" ELSE "succeeded"
Verdict ==
  IF catching THEN IF error = "cancelled" THEN "cancelled" ELSE "failed"
  ELSE IF ~closed THEN "succeeded"
  ELSE IF reason = "fail-fast" THEN "failed" ELSE "cancelled"

Decides ==
  /\ pc = "drained"
  /\ verdict' = Verdict
  /\ toolsOpen' = FALSE
  /\ pc' = "closing"
  /\ UNCHANGED <<catching, error, interrupted, poolVars, tool, script, busVars,
                 flush, fileVars, exit>>

ToolsClosed ==
  /\ pc = "closing" /\ ~tool
  /\ pc' = "finalizing"
  /\ UNCHANGED <<runVars, interrupted, poolVars, toolVars, script, busVars,
                 flush, fileVars, exit>>

(* The context is saved, the result built and its terminal event emitted.  *)
Finalizes ==
  /\ pc = "finalizing"
  /\ pc' = "publishing"
  /\ emitted' = Append(emitted, verdict)
  /\ UNCHANGED <<runVars, interrupted, poolVars, toolVars, script, settled,
                 logged, shown, flush, fileVars, exit>>

(* An error while the context is saved counts only if all went well.       *)
ContextUnsaved ==
  /\ pc = "finalizing" /\ verdict = "succeeded"
  /\ Throw("failed", <<>>)
  /\ UNCHANGED fileVars

-----------------------------------------------------------------------------
(* EventBus.emit(): every event waits for the one before it to be appended *)
(* to events.jsonl and shown, or to have failed.                           *)
PredecessorAppended(n) == n = 1 \/ n - 1 \in settled \/ \E i \in 1..Len(logged) : logged[i] = n - 1
Predecessor(n) == n = 1 \/ n - 1 \in settled

Appended(n) == \E i \in 1..Len(logged) : logged[i] = n

Persists(n) ==
  /\ n \notin settled /\ ~Appended(n) /\ Predecessor(n)
  /\ logged' = Append(logged, n)
  /\ UNCHANGED <<emitted, settled, shown>>

Unpersisted(n) ==
  /\ n \notin settled /\ ~Appended(n) /\ Predecessor(n)
  /\ settled' = settled \cup {n}
  /\ UNCHANGED <<emitted, logged, shown>>

Shows(n) ==
  /\ n \notin settled /\ Appended(n)
  /\ shown' = Append(shown, n)
  /\ settled' = settled \cup {n}
  /\ UNCHANGED <<emitted, logged>>

Bus(n) ==
  /\ Persists(n) \/ Unpersisted(n) \/ Shows(n)
  /\ UNCHANGED <<pc, runVars, interrupted, poolVars, toolVars, script, flush,
                 fileVars, exit>>

-----------------------------------------------------------------------------
(* Back in the command: the events are flushed, the report is written to a *)
(* temporary file and renamed, and the verdict becomes the exit code.      *)
Flushes ==
  /\ pc = "flushing"
  /\ flush = 0 \/ flush \in settled
  /\ pc' = "reporting"
  /\ UNCHANGED <<runVars, interrupted, poolVars, toolVars, script, busVars,
                 flush, fileVars, exit>>

Reports ==
  /\ pc = "reporting"
  /\ disk' = [disk EXCEPT !["report"] = verdict]
  /\ pc' = "ended" /\ exit' = verdict
  /\ UNCHANGED <<runVars, interrupted, poolVars, toolVars, script, busVars,
                 flush, writing>>

Unreported ==
  /\ pc = "reporting"
  /\ pc' = "ended" /\ exit' = "error"
  /\ UNCHANGED <<runVars, interrupted, poolVars, toolVars, script, busVars,
                 flush, fileVars>>

(* readRunInput() accepts the record of the invocation; what createRun()    *)
(* writes first has no schema version.                                     *)
Resumable == disk["run-input"] = "v2"

-----------------------------------------------------------------------------
Program ==
  \/ WriteOpens \/ WriteEnds \/ WriteFails
  \/ SeedFails \/ Starts \/ StartsInterrupted \/ RootAborted
  \/ /\ pc # "drained"
     /\ \/ \E t \in Tasks : TaskBegins(t) \/ TaskEnds(t) \/ TaskFails(t)
        \/ ToolEnds
        \/ \E n \in 1..Len(emitted) : Bus(n)
  \/ Drains \/ Decides \/ ToolsClosed \/ Finalizes \/ ContextUnsaved
  \/ Flushes \/ Reports \/ Unreported

Script ==
  \/ \E t \in Tasks : CallsAgent(t)
  \/ CallsTool \/ ScriptEnds
  \/ RootReturns
  \/ \E e \in {"failed", "timeout", "cancelled"} : RootThrows(e)

Next == Program \/ Script \/ (pc # "drained" /\ Interrupt)

Spec == Init /\ [][Next]_vars

(* Writes, callbacks, agents and tools come to an end, with or without an  *)
(* error: agents and tools have timeouts.  Nothing is assumed of the script *)
(* and of the user.                                                        *)
FairSpec == Spec /\ WF_vars(Program)

-----------------------------------------------------------------------------
TypeOK ==
  /\ pc \in {"creating", "preparing", "recording", "starting", "executing",
             "draining", "drained", "closing", "finalizing", "publishing",
             "flushing", "reporting", "ended"}
  /\ catching \in BOOLEAN
  /\ error \in {"none", "failed", "timeout", "cancelled"}
  /\ verdict \in Verdicts \cup {"none"}
  /\ interrupted \in BOOLEAN
  /\ phase \in [Tasks -> {"new", "waiting", "active", "done"}]
  /\ closed \in BOOLEAN
  /\ reason \in {"none", "user", "timeout", "other", "fail-fast"}
  /\ closed <=> reason # "none"
  /\ tool \in BOOLEAN /\ toolsOpen \in BOOLEAN
  /\ script \in {"none", "running", "ended"}
  /\ emitted \in Seq(Verdicts \cup {"started", "agent"})
  /\ settled \subseteq 1..Len(emitted)
  /\ flush \in 0..Len(emitted)
  /\ disk \in [{"manifest", "run-input", "report"} ->
                 Verdicts \cup {"absent", "torn", "running", "empty", "v2"}]
  /\ writing \in BOOLEAN
  /\ exit \in Verdicts \cup {"none", "error"}

Terminals == {n \in 1..Len(emitted) : emitted[n] \in Verdicts}

(* A run that has a report tells one story in all of its files: the report *)
(* is whole and says what the manifest and the last terminal event say,    *)
(* every event up to that one was dealt with before, events.jsonl is in    *)
(* the order of the sequence numbers, and the reporter showed what is in   *)
(* it.  No agent works for a run that could not be resumed after a crash.  *)
RunTellsOneStory ==
  /\ TypeOK
  /\ disk["report"] # "absent" =>
       /\ disk["manifest"] = disk["report"] /\ disk["report"] = exit
       /\ emitted[Max(Terminals)] = disk["report"]
       /\ 1..Max(Terminals) \subseteq settled
  /\ \A i, j \in 1..Len(logged) : i < j => logged[i] < logged[j]
  /\ Len(shown) \in {Len(logged), Len(logged) - 1}
  /\ shown = SubSeq(logged, 1, Len(shown))
  /\ ~Idle => Resumable

(* A run that was stopped, by SIGINT, fail-fast or an error, before its    *)
(* agents were done never ends as a success.                               *)
StoppedNeverSucceeds ==
  [](closed /\ pc \in {"starting", "executing", "draining", "drained"}
       => [](exit # "succeeded"))

(* When a run has failed or was cancelled, no agent and no tool is at work *)
(* any more, and none begins, although its scripts may go on.              *)
QuietEnd ==
  verdict \in {"failed", "cancelled"} /\ pc \in {"finalizing", "publishing",
                                                 "flushing", "reporting", "ended"}
    => Idle /\ ~tool

(* After SIGINT the command comes to an end, whatever the script does.     *)
CancelEndsTheRun == interrupted ~> pc = "ended"
=============================================================================
