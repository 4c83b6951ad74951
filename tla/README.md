# Verification of Open Dynamic Workflow

Open Dynamic Workflow runs a JavaScript workflow: a script that calls agents
(external command line programs such as Codex or Gemini, or a mock), tools
(JavaScript functions), child workflows, loops and pipelines. One Node.js process
executes a run, writes everything it does below a run directory, and can resume a run
that failed or was interrupted by replaying the calls that had succeeded.

This directory holds TLA+ models of the parts of that program in which the order of
events decides, TLC configurations that check them on small instances, and proofs that
TLAPS checks for every value of the constants. Paths in this file are relative to
`src/src/`, unless they begin with `tests/`, `skills/` or `website/` (which are in `src/`).

Contents

1. The system and its hard behaviours
2. Plan
3. The modules and how they correspond to the code
4. The runs: what each checks, its bounds and its fairness
5. Disagreements and surprises
6. What is proved
7. What is only model-checked, and what is not modelled

## 1. The system

Everything runs in one Node.js event loop. Code between two `await`s is atomic;
everything else may interleave: other calls of the script, timers, callbacks of child
processes, SIGINT. That is where nearly all of the hard behaviour lies, and an action
of a module is, as a rule, what happens between two awaits.

### Components

For each: its state; its operations; whom it talks to; what is hard about it; what makes
it correct.

**Scheduler** (`orchestration/scheduler.ts`, `orchestration/abort.ts`).
State: `queue`, the map `running`, `aborted` and its reason, one timer and one abort
controller per task, the list of `drain()` callers. Operations: `schedule`, `abort`,
`drain`, `pump`. Called by the agent calls of the script and by the retry
orchestrator; calls the executor; emits events. Hard: tasks move from the queue to
the map while results, timers and aborts arrive; fail-fast; the map is keyed by an id
that is not checked to be unique. Correct when at most `concurrency` tasks execute, when
an abort misses no task, every promise settles, and `drain()` returns exactly when idle.

**Retry orchestrator, classifier, delay, run limits** (`agents/retry-orchestrator.ts`,
`agents/attempt-classifier.ts`, `agents/retry-delay.ts`, `workflow/run-limits.ts`).
State: per call the attempt number, the attempts so far, the counter of the run.
Operations: `execute`, whose loop schedules an attempt, classifies its result, and
waits. Hard: cancellation, abort and fail-fast at every await; a limit shared by all
calls. Correct when a retry follows only a retryable failure within policy and limits,
and when the summary says what happened.

**Agent executor and process runner** (`agents/execute-agent.ts`,
`agents/process-runner.ts`, `agents/mock-adapter.ts`).
State: artifacts of the call, the child process, its two output streams, timers and
listeners. Operations: spawn, the output callbacks, timeout, abort, `terminateProcess`,
parse, normalise. Hard: timeout, abort, error and close race; output callbacks are
asynchronous; a child may ignore SIGTERM. Correct when the result says why the child
ended, is made of all of its output (up to the 1 MB per stream that are kept in memory), and
nothing is left armed or running.

**Tool executor and limiter** (`tools/executor.ts`, `orchestration/tool-limiter.ts`).
State: calls in progress, a counter of slots and a queue, abort controllers, timers.
Operations: `execute`, `cancel`, `close`. Hard: five awaits per call, each with an abort
or a failing write; tools that ignore their signal. Correct when slots are neither lost
nor given twice, a settled call stays settled, and `close()` leaves nothing behind.

**Workflow invocations** (`workflow/invocation-manager.ts`,
`workflow/invocation-artifacts.ts`, the `workflow()` function of `workflow/dsl.ts`).
State: a tree of invocations with linked signals, deadlines and nested semaphores; their summaries. Operations: `executeRoot`,
`invokeChild`, acquire and release of the budget. Hard: scripts that do not await their
children, scripts that ignore their signal, nested semaphores, failing writes. Correct
when aborts reach all below, limits hold at each level, and reports agree.

**Call cache and resume** (`artifacts/call-cache.ts`, `workflow/dsl.ts`,
`loop/replay.ts`). State: entries of this and the previous run in memory,
`calls.jsonl`, `cache-index.json` and result files on disk. Operations: look up,
materialise, record, load. Hard: concurrent calls end in another order than they began;
the process may die between two writes. Correct when a replayed result is genuine and
no replayed call follows one that was executed anew.

**Run lifecycle** (`cli/commands/run.ts`, `workflow/runtime.ts`,
`orchestration/event-bus.ts`, `artifacts/run-store.ts`, `artifacts/manifest.ts`).
State: the verdict of the run, the event chain, the files of the run. Operations:
create, start, execute, drain, close, save, publish, report; SIGINT. It owns and
connects all of the above. Hard: SIGINT, fail-fast, an error of the script and its end
race for the verdict; a script may outlive its run; crashes. Correct when the exit code,
report, manifest and events tell the same story, and a stopped run is never a success.

**Loop** (`loop/`, `ctx.tool()` in `workflow/dsl.ts`): rounds of a callback, each on the
state that the one before returned, with a timeout of the loop, aborts of its caller, and
markers in the call cache. Hard: a callback that ends while the timeout or an abort fires;
callbacks that are given up, or did not await their work, and go on. Correct when
the records are a story without gaps, one status is reported, tools at work are drained
before a round is recorded, and an aborted loop ends.

**Pipeline** (`pipeline/`): items through stages, item by item or stage by stage, with
nested limiters, fail-fast and stage timeouts. Hard: an item holds one slot while it
waits for another; skips, cancellations and failures in flight. Correct when limits hold,
no item is lost, and stages of an item run in order.

**Workflow context** (`context/`): one data object with tombstones that scopes of a run
share; calls from concurrent branches interleave only between awaits.

**DSL front end** (`workflow/dsl.ts`): the globals of a script.
State: the results of the run, its numbers of calls, agents and tools. `agent()` chooses an
id and a provider, asks the cache, and is executed with or without retry. Hard: several
awaits between the checks and the call, two ways that share limits and the list of
results, ids made of counters in nested contexts. Correct when the limits hold across both
ways, every call ends with one true result, and no two agents share an id unless the author
made them.

**Configuration** (`config/`): flags, profiles, files, defaults; profiles and provider
aliases that inherit; retry policies in layers. No state, but two loads per run with the
merge of the flags in between. Hard: inheritance along several paths, cycles, and values
that pass through four representations. Correct when an agent gets each setting from the
first source that has it, and whatever cannot be resolved is refused with a reason.

**Provider selection** (`agents/resolve-provider-selection.ts`): candidates for each setting
of a call. **Provider adapters** (`agents/registry.ts`, one file per provider): command
lines and parsers.

**Resume command and profiles** (`cli/commands/resume.ts`, `cli/artifact-paths.ts`,
`cli/profile-resolution.ts`): which run is continued, and with which of the recorded
options. Hard: the project may have changed since. Correct when what was recorded is
replayed unless given anew, or the continuation is refused.

**Discovery** (`discovery/`, `config/path-discovery.ts`): patterns from six places, some of
them old keys, expanded to files: links, duplicates, excludes, diagnostics, strictness.

**Workflow loading and validation** (`workflow/resolve-target.ts`, `workflow/discovery.ts`,
`workflow/validate.ts`): the root file by name or path, the registry of workflows, the
syntax walk over a script, the walk over the dependencies. Hard: namesakes, links, cycles,
files edited between the reads. Correct when whatever the root can call is there, valid and
without a cycle, nothing stray is loaded, and a sound project is not refused.

**Tool and shared-agent definitions** (`tools/load.ts`, `shared-agents/load.ts`): read,
checked for where they lie, read, validated, copied, imported, compared, registered; at the
end the directory of the copies is removed, if that succeeds.

**Sandbox and execution scopes** (`workflow/sandbox.ts`, `workflow/scope.ts`): at run time
scopes decide where `tool()` may be called. Correct when they agree with the syntax walk.

**Reporters, CLI, init, list, validate, doctor, security, structured output, errors**:
text in and text out.

### How they interact

    run command ──> runtime.run ──> root invocation ──> script (vm)
        │  ▲ report      │  │ drain/abort     │ workflow(): child invocations
        │  │             │  ▼                 │ agent(): cache? ─> retry ─> scheduler
     SIGINT              │ event bus          │            ─> budget ─> executor ─> process
        └── AbortSignal ─┴──> scheduler,      │ tool():  cache? ─> tool executor ─> limiter
                              tools, root     ▼
                                       files of the run ──> resume

An abort travels along linked signals: run, invocation, child invocation, loop or stage,
call, process. Each link is made after an await and removed when its owner returns; both
moments are hazards. The run ends through `scheduler.drain()` and
`toolExecutor.close()`.

All hazards we know of are listed in `PROJECT.json`, each at its line, with the
properties that would catch it.

## 2. Plan

Done, in this order: `TaskPool` and `Scheduler` (everything goes through it),
`SchedulerProofs`, `RetryOrchestrator` (composed with `TaskPool`), `CallCache`,
`ToolExecutor`, `AgentProcess`, `Invocations`, `RunLifecycle` (composed with `TaskPool`),
`Pipeline`, `Loop`; then the configuration: `RetryLayers`, `ProviderAliases`, `Profiles`,
`ProviderSelection` and `RunConfiguration`, which composes them with the commands run and
resume; the loading: `DiscoveryConfig`, `Discovery`, `ScriptValidation`,
`ExecutionScope` and `WorkflowLoading`, which composes them; and the front end:
`AgentCalls`, on top of `RetryOrchestrator`, and `AgentIds`, on top of `WorkflowLoading`.
`MCRunCommand` puts `RunConfiguration` and `AgentIds` together for TLC.

Left: the workflow context (`context/`), as a store that concurrent branches write between
awaits; the tree of the pretty reporter as a fold of events; the removed links of
invocations that nobody awaited (`workflow/invocation-manager.ts:489`).

Proved (section 6): the safety invariants and action properties of the scheduler, the
calls, the cache, the tool executor, an agent attempt, the invocations, the run, the
pipeline and the loop, and that `Scheduler` implements `TaskPool`; of the loading, that the
registry is closed and that the tools are as they were validated; of the configuration, that
the retry policy is that of its layers.

Theorems left: the rest of `NothingStrayIsLoaded`, which is about sequences that SelectSeq and
the community modules sort and flatten; an abstract item that passes its stages in order, or
stops at one, which both strategies of `Pipeline` implement. `Profiles` has a RECURSIVE
operator (`VisitProfile`), so that nothing can be proved about `RunConfiguration` itself
before that is written as a function.

## 3. The modules

`PROJECT.json` maps every definition to the lines it models. An operator that nothing uses
and that stands before one of the same shape is a mistake a programmer might make in that
place; replacing the second by the first must break a property.

### TaskPool, the abstract scheduler

Tasks are new, waiting, active or done; at most `Limit` are active; the pool can be
closed once, which discards the waiting tasks and lets the active ones end. It is what
`Scheduler` implements and what `RetryOrchestrator` and `RunLifecycle` build on.

### Scheduler

| code | model |
|---|---|
| `queue`, `running`, `aborted`, `abortReason` | the same |
| `schedule()`: promise, timer, `nextTick(pump)` | `ScheduleSkipped`, `ScheduleQueued`; `outcome`, `timers`, `tick` |
| timer callback | `TimeoutFires` |
| `nextTick` callback, loop of `pump()`, its end | `NextTick`, `PumpStart` per task, `PumpEnd` |
| promise of `run()` resolves, rejects, `finally` | `TaskReturns`, `TaskThrows` through `Settle` |
| fail-fast | `SettleAndAbort` |
| `abort()`, `drain()`, `checkDrain()` | `Abort`, `Drain`, `CheckDrain` |

While `pumping` holds no other turn can happen. `running` is the map (one task per id),
`live` what really executes; they differ only when ids are shared. Event payloads and
durations are abstracted away.

### RetryOrchestrator

`pc` is the await a call stands at. A call starts, begins an attempt (run limit, counter,
events), schedules it in the pool, classifies its result, waits and tries again, or
concludes with a summary and one terminal event. `Retryable`, `Reason` and `CodesOf`
model the classifier, with one or two codes for each row of its map. Cancellation of the
call's own signal, `scheduler.abort()` by others and fail-fast can happen at every await.

### AgentCalls

Extends RetryOrchestrator with the rest of `runDirectAgent()`: `at` is the await a call
stands at, `way` how it is dealt with (refused, replayed, retried, or run once). The
branches are `Select`, `Replayed`, `ToRetry`, `DirectCounted`; a permit is taken by
`Granted` and returned by `Recorded`, the finally block. A direct task ends with fail-fast
at once (`DirectEnds`) and hears cancellations (`Told`), an attempt of the orchestrator
neither. `results` is `runtime.agentResults`. Which waiting call gets the permit, and
whether a call is replayed, are choices here; Invocations and CallCache decide them.

### CallCache

A run executes one of `Programs`, sequences of calls, at most `Width` at a time. `Hit` and
`AfterLookup` are the prefix lookup; `Execute`, `AppendLine`, `PushEntry`, `OpenIndex` and
`WriteIndex` are the writes of a call that ends; `Materialize` those of a replayed one.
`disk` is the run directory; `Overwritten` is what a write in place leaves, the case in
which two writes overlap included. `Resume` may happen in any state: it is at once the
crash, the ordinary end, and the start of the next run with the same or an edited
workflow, with or without `--no-cache`. Fingerprints are abstract values: equal when
the hashed inputs are.

### ToolExecutor

`pc` is the await of each `execute()`. `Finally` is the finally block with the hand-over of
the limiter; `AbortSignals` is what the abort of a linked signal does to a call that waits,
runs, or is in between. `executing` is separate from `pc`: a tool goes on after its call
was settled. Writes may fail for the calls in `StoreFails`. `Without` filters the queue with a recursive function, not with
`SelectSeq`, so that it can be proved about. `cancel()` does not
remove calls, and `close()` waits for those in progress when it was called.

### AgentProcess

One attempt, with the provider a process or the mock, called through the scheduler (whose
timer and signal it gets) or directly. The child ends when and how it wants, writes chunks
to two streams, and closes its pipes after it ended; the callbacks of a stream run in
order but may be behind. All of them run, but the text in memory, from which the result is
made, stops growing at `MemoryLimit` (`MAX_IN_MEMORY_LOG_SIZE`, 1 MB, here in chunks):
`written` counts what came, `appended` the callbacks that ran, `kept` what is in that text.
`terminated`, `grace` and `killed` are the SIGTERM and SIGKILL of `terminateProcess()`.
`Rejected` is the catch block around `runProcess()`; a message that contains "timeout" makes
the attempt a timed out one, which is a choice wherever the message quotes a command or an
argument. A child that is spawned under an aborted signal runs on (`SpawnAborted`) or, if it
could not be spawned, ends the program by an "error" event that has no listener yet
(`Crashes`; `pc` is then "crashed").

### Invocations

Invocations are numbered in the order of the calls; 0 is the root. `Starts`, `Saves`,
`Fails`, `Rejects` and their failing counterparts are the awaits of `executeRoot()` and
`invokeChild()`. The script of an invocation is a separate process which may call
children and agents, return, throw, or go on for ever; in particular it goes on
after `runWithAbort()` has given it up, and it may return before its children.
Agents pass the chain of semaphores one at a time, outermost first.

### RunLifecycle

`pc` walks through `runCommand()` and `DefaultRuntimeRunner.run()`. `verdict` and
`catching` tell the try block from the catch block. Files written in place are torn while
`writing` holds; the report is renamed into place. `emitted` is the order of
sequence numbers, `settled`, `logged` and `shown` the links of `emitQueue`. After
`drain()` resolved, its caller continues in promise callbacks, so between `Drains` and
`Decides` only scripts may act. There is no crash action: in every state the disk is what
a crash would leave, and the invariants are about it.

### Pipeline

`strategy` chooses between `runItemStreaming()` and `runStageBarrier()`; `pc` is how far an
item is: waiting for a slot of the pipeline (`atItem`), then of its stage (`atStage`), with
both (`entering`), in the function (`running`), writing the artifact of the stage
(`saving`), and so on. `active` and `queue` are the limiters; `Release` gives slots back and
hands them over. `signal` is the pipeline's own signal, which hears the caller's (`parent`)
and fail-fast; when it is aborted, `Aborts` gives up every function at work, as the race
in `runStage()` does. The steps between the wake-up of a waiting item and the call of its
function are promise callbacks that come before those of the item that gave up the slot:
so, item by item, the next item begins its stage before a failed one aborts the pipeline
(`Conclude` waits for items that are `entering`). A limiter without a limit counts up to
the number of items.

### Loop

`pc` is the await of `runLoop()`: the first files (`opening`, or `refusing` for a state that
is no JSON), the input state of a round (`preparing`), the race of the callback with the
abort (`running`), the tool of the round (`draining`), the files of the round
(`recording`), those of the loop (`finalizing`). What happens between two of them is one
action; `Advance` is the test at the top of a round, which follows the end of the round
before without an await. `alive` are the callbacks at work, those given up and the work
that others left behind included; `tools` the rounds with an active `ctx.tool()`. A state is
the number of the round that returned it. The signals of agents and workflows called in a
round are those of RetryOrchestrator and Invocations.

### RetryLayers, ProviderAliases, Profiles, ProviderSelection, RunConfiguration

The first four are algorithms as operators: `Layered` folds the layers of a retry policy;
`ResolveAliases` and `SelectProfile` walk inheritance depth first with the memo of the code,
and `AliasesFollow` and `ProfileFollows` say what the result must be from the definitions
alone; `SelectProvider` picks the first candidate for each setting. A value is the name of
who wrote it, so that precedence is visible. `RunConfiguration` is the composition: the
steps of a run (parse the options, load, resolve the profile, load again with it, merge the
flags, record, call an agent) and of `resume` (look up the run, replay its options), with
`Edit` of the project in between. The scenarios are nine families of projects, each of
which varies what interacts: graphs of aliases, lines of aliases with their settings,
graphs of profiles, diamonds of profiles, files of profiles, sources of a setting,
providers, words on retry, and continuations of edited projects.

### DiscoveryConfig, Discovery, ScriptValidation, ExecutionScope, WorkflowLoading

`DiscoveryConfig` says which key the patterns come from and what is refused of them;
`Discovery` what they expand to on a disk with links, and which diagnostics block. A pattern
is the set of paths it matches. `ScriptValidation` is the syntax walk as a function of the
calls of a script: a call is the path of frames around it (main, helper, callback, getter,
task, stage, definition, part of a loop, round under four names), what it is made on, its
method and the shape of its argument. `ExecutionScope` is what the run time does at that
same place. `WorkflowLoading` goes through the awaits of the run command up to the point at
which the workflow starts: diagnostics, target, shared agents, contracts of the tools, their
imports, their copies, their import, candidates, the root and then each candidate, and the
walk over dependencies with its stack and memo. Where a file lies is checked in one step, and
its text read in a later one: `ResolveTarget` and `ParseTarget`, `CheckAgent` for every agent and
then `ReadAgent` for every agent, `CheckTool` and `ReadContract`, `CheckImport` and
`InspectFile`, `CheckEntry` and `CopyEntry`, `CheckRoot` and `ReadRoot`, `CheckWorkflow` and
`ReadWorkflow`. `Edit` writes to a file, or turns it into a link to the outside, between any
two steps until the last file is read; `checked` holds the files between the two, `late` those
that were written there. The read does not repeat the check. A scan of the disk is one step,
for it only says what is read later, and nobody takes a file away. What a workflow reaches is
defined without a walk: what is in every set that holds its calls and is closed under calls.

The scenarios are eight families: a call at every place of up to three frames, a call with
every argument, every graph of three workflows with or without a broken one, names, links
and ways to ask for the root, what the keys say, definitions of agents and tools with their
imports, edited files, and (for AgentIds) workflows that run.

### AgentIds

Extends WorkflowLoading: once a workflow is ready, its agents are called from the contexts
in which their places may stand, a context being the sequence of invocations, rounds and
stages around a call. `BaseId`, `Resolved` and `CtxAgent` choose the id as `runDirectAgent()`,
`resolveLoopAgentId()` and the `agent()` of a round do, with their three kinds of counters.

## 4. The runs

Run TLC with `tlc -workers 2 -config X.cfg M`. Every run is exhaustive.

| run | module / cfg | states | checks |
|---|---|---|---|
| scheduler | MCScheduler | 103 523 | `TypeOK`, `AbortReachesEveryTask`, `SettledCleanly`, `DrainReturnsIdle`, `PromisesSettle`, `ImplementsTaskPool` |
| calls | MCAgentCalls | 280 815 | `SharedLimitsExact`, `CallsTellTheTruth`, `AttemptsAreJustified`, `EveryCallReturns` |
| retry_cancel | MCRetryOrchestrator / MCRetryCancel | | `CancelReachesAttempt`, violated: see section 5 |
| cache | MCCallCache | 1 974 194 | `ReplayIsSound`, `CrashLeavesLoadableEntries`, `SerialPrefixReused` |
| tool | ToolExecutor / MCToolExecutor | 438 974 | `LimiterExact`, `CloseLeavesNothing`, `VerdictIsFinal`, `CallsReturn` |
| agent | AgentProcess / MCAgentProcess | 15 940 | `ResultMatchesCause`, `EveryAttemptReturns` |
| invocations | MCInvocations | 715 461 | `BudgetExact`, `ReportsAgree`, `AbortedReturns` |
| lifecycle | RunLifecycle / MCRunLifecycle | 202 070 | `RunTellsOneStory`, `QuietEnd`, `StoppedNeverSucceeds`, `CancelEndsTheRun` |
| pipeline | MCPipeline | 385 662 | `LimitsHold`, `ItemsFlow`, `AbortEndsPipeline` |
| loop | Loop / MCLoop | 90 653 | `LoopTellsItsStory`, `AbortEndsLoop` |
| command | MCRunCommand | 284 384 | `InheritanceIsSound`, `PrecedenceHolds`, `RetryIsExplained`, `ResumeReplays`; `RegistryIsClosed`, `NothingStrayIsLoaded`, `PlacementsAgree`, `RefusalsAreJustified`, `IdsAreExplained` |
| profile_effort | MCRunConfiguration / MCProfileEffort | | `ProfileEffortIsHeard`, violated: see section 5 |

The type invariant of a module is a conjunct of one of its invariants (`CallsTellTheTruth`,
`ReplayIsSound`, `LimiterExact`, `ResultMatchesCause`, `ReportsAgree`, `RunTellsOneStory`,
`ItemsFlow`, `LoopTellsItsStory`), but for `scheduler`, where it is proved under its name.
In `command` there is none: its properties give every value.

`command` goes through the configuration of a run command (93 272 states) or through what it
loads (191 112): the two meet only in the scenario, where the files of a project come with the
settings under which they are loaded.

Deadlock is not checked: every one of these components may really stop, with all of its
work done or with nobody obliged to call it again.

### Bounds, and why they are enough

- **scheduler**: four tasks on two slots, so that two run while two wait; among them one
  without fail-fast, one with deferred fail-fast, two with timeouts. One `drain()` caller:
  callers do not affect each other. Ids are distinct.
- **calls**: two calls of at most two attempts on one slot, with one permit and with two.
  A run limit of two is reached by a call without retry, by a first attempt and by a
  retry. `ResultKinds` has one result for each way the classifier decides.
- **cache**: six workflows of two or three calls (an edit, a tool that is not cacheable,
  a parallel, a loop marker), two at a time, three runs: a resume of a resume of
  a crashed run.
- **tool**: three calls on one slot, so the queue has two entries and a hand-over may be
  followed by an abort of the next; one call has a timeout and may fail to write.
- **agent**: three chunks per stream, of which two fill the memory: one may be handled, one
  behind, and one too many.
- **invocations**: two children make a chain of three levels or two siblings, with a wide
  limit above or below a narrow one; two agents compete. `MaxDepth` is 2: with two
  children the guard is there and never refuses.
- **lifecycle**: two agents on one slot, so that one waits while the other works; one
  tool; fail-fast and a seeded context, the options with the most branches. Without them
  the run is one that already happens here when neither a failure nor the seed occurs.
- **pipeline**: three items and two stages, so that at each limiter one works, one waits,
  and one is elsewhere; the limit of the first stage is the stage's own and below the
  option's, that of the second only an option, that of the pipeline admits two. Only the
  second stage has a timeout.

- **loop**: two rounds, so that one follows another and the last is reached; two tools
  per round, so that one is recorded and one may be called afterwards. With three rounds
  (1.6 million states) nothing else shows.

- **command**, its configuration: one command, or one that is continued, per scenario. Every graph of
  three aliases, with a limit of two on their depth and without, contains cycles, missing
  parents and lines that are too long; the diamonds of profiles are a family of their own.
  A project is edited between two commands only.
- **command**, what it loads: three workflows, so that a cycle, a diamond and a broken grandchild exist;
  two more files for links, namesakes and imports; one or two edits, at any moment, among
  them the relinking of the root, a workflow, an agent and a tool to a valid file outside. Paths
  of three frames nest every frame in every other one within the main workflow. Two calls
  suffice for `IdsAreExplained`, which is about pairs; `IdTexts` are two texts, none of which
  looks like an id that the program makes, and `Indices` two rounds and items.

Bounds: `IdTexts`, `Indices` and `project.calls` (AgentIds), `MaxCalls` (Loop), `MaxRuns`, `Width` (CallCache), `MaxChunks` (AgentProcess), `MaxChildren`,
`MaxAgents` (Invocations). `MaxAttempts`, `MaxAgentCalls`, `MaxDepth` and all concurrency
limits are options of the program and not bounds of ours. Symmetry is not used.

### Fairness

Fairness is assumed only of what the event loop and the operating system do: pending
callbacks run, file operations end with or without an error, armed timers fire where a
property is about a timeout, and a process that was sent SIGKILL ends and closes its
pipes. In particular:

- Scheduler: `NextTick`, `PumpStart`, `PumpEnd` are queued callbacks. `TaskReturns` is
  weakly fair since every attempt ends: that is `EveryAttemptReturns` of `AgentProcess`.
- AgentCalls: one weak fairness condition for the steps of the program, the ends of
  attempts included (`EveryAttemptReturns`). A call has finitely many steps, so it is
  enough that some call goes on as long as one can; the queues of `Scheduler` and
  `Invocations` overtake nobody.
- ToolExecutor: a tool need never end. `CallsReturn` is stated for calls with a timeout,
  and for `close()` after a cancellation, since nothing else is true.
- Invocations and RunLifecycle: nothing is assumed of scripts, which may loop through
  awaits for ever, nor of users; in RunLifecycle agents and tools end (they have timeouts).
  One weak fairness condition for all of the program's own steps is enough, because
  between two steps of a script only finitely many of them are enabled.
- Loop: weak fairness for the program's own steps, and for the end of a tool whose signal is
  aborted (`CallsReturn` of `ToolExecutor`). Nothing is assumed of callbacks.
- Pipeline: one weak fairness condition for the program's own steps. Nothing is assumed of
  stage functions; what returns then is an aborted pipeline (`AbortEndsPipeline`).

### What the properties say

The comment before each property states it. The ones that say most:

- `ImplementsTaskPool`: the scheduler with its map, queue, ticks, timers and signals
  refines a pool of six lines per action. `calls` and `lifecycle` rely on it.
- `SettledCleanly`: when a promise of the scheduler settles, fail-fast has already
  happened, "skipped" means never started, and no timer is armed.
- `SharedLimitsExact`, `CallsTellTheTruth`, `AttemptsAreJustified`: calls with and without
  retry share the run limit and the permits without losing or exceeding any; no attempt
  after a cancellation or a failure that may not be retried; retry summary, list of results
  and fail-fast agree with what happened.
- `ReplayIsSound`, `CrashLeavesLoadableEntries`: through crashes
  between any two writes, overlapping writes, edits and repeated resumes, what is replayed
  was really computed by that very call, and nothing executed live lies before it.
- `LimiterExact`, `CloseLeavesNothing`: no path through the tool executor loses a slot.
- `ResultMatchesCause`, `EveryAttemptReturns`: an attempt ends, unless it ends the program, with
  a result that says why and is made of the output up to the memory limit, all callbacks done.
- `BudgetExact`, `ReportsAgree`, `AbortedReturns`: nested limits hold together without
  deadlock; summary, events and caller agree, whichever write fails.
- `LimitsHold`, `ItemsFlow`, `AbortEndsPipeline`: nested limiters stay exact through
  skips, failures and aborts, a failure stops every other item in its tracks, and an
  aborted pipeline ends whatever its functions do.
- `LoopTellsItsStory`, `AbortEndsLoop`: whatever races with the end
  of a callback, the records have no gap, none is about a tool still at work, and an
  aborted loop begins nothing more and ends.
- `RunTellsOneStory`, `QuietEnd`, `StoppedNeverSucceeds`: see RunLifecycle.
- `PrecedenceHolds`, `RetryIsExplained`, `ResumeReplays`: told from the sources alone, and
  so across two loads, the merge, the selection and the recording: every setting comes from
  the first source that gives it (but for a thinking effort that only a profile gives, on which
  `PrecedenceHolds` is silent and which is the subject of `profile_effort`), the retry policy is that of the layers with its fields
  attributed to who wrote them, and a continuation obeys the options it recorded.
- `RegistryIsClosed`, `NothingStrayIsLoaded`, `RefusalsAreJustified`: a run that starts can
  reach only what was validated, whatever was edited meanwhile; the text of a file outside of
  the project is loaded only through a link that was put there between the check of a file
  and the read of it, which TLC shows to be possible for workflows, agents and tools; and a
  project in which nothing is wrong starts.
- `PlacementsAgree`: two independent guards of `tool()`, one over syntax and one over scopes
  at run time, let the same calls through at every place.
- `IdsAreExplained`: the complete list of the ways in which two agents get one id.

## 5. Disagreements and surprises

Two runs check a single property that is something the repository says of the program, and
which TLC finds violated; the quotes are in `PROJECT.json`.

- **retry_cancel**, `CancelReachesAttempt`: with retry enabled, a running   attempt listens to the scheduler only (`agents/retry-orchestrator.ts:183`). When its
  invocation, loop or stage is cancelled, it goes on to its end. Without retry the signals
  are combined, and `CallsTellTheTruth` shows that the task is told.
- **profile_effort**, `ProfileEffortIsHeard`: a thinking effort in the `run` of a profile is an
  option like the others in `skills/open-dynamic-workflow/references/configuration.md` and in
  `tests/unit/cli/run-profile-precedence.test.ts:127`. The command does not take it over when it
  loads the configuration with the profile (`cli/commands/run.ts:129`), so that the agents are
  called with that of the provider, of the file, or with none.

Two more properties are violated by the models as they are; to see it, put them in place of
the properties of `MCAgentProcess.cfg`:

- `TimeoutIsReported` (`agents/process-runner.ts:75`): the scheduler's timer is armed before
  the runner's and cancels, so a process that timed out is reported as cancelled.
- `NothingLeftRunning` (`agents/process-runner.ts:82`): the signal is looked at after the
  spawn, and the child that "was aborted before spawning" runs on.

What follows is what the models do because the code does it, and what a reader of the
docs may not expect.

Attempts of agents:

- Of an output of more than 1 MB the result is made of the beginning, without a sign of it
  in the result (`agents/execute-agent.ts:142`).
- A command that cannot be spawned is reported as timed out when its path, or the argument that
  is quoted in the message, contains "timeout" (`agents/execute-agent.ts:678`).
- When an attempt was aborted before its command is spawned, and the command does not exist,
  the "error" event of the child has no listener (`agents/process-runner.ts:82` returns before
  `:97`), and the program ends.

Ids of agents (`IdsAreExplained`; `website/src/pages/ReferencePage.tsx:110` asks authors for a
"Unique stable agent call identifier within the workflow"; but where the program makes it):

- In one round, `ctx.agent()` and `agent()` without id or label number their agents with
  two counters, the round's and the run's, so that both may give `label:round-n:agent-1`
  (`loop/context.ts:114`, `workflow/dsl.ts:1289`).
- Items of a pipeline within a round share ids when their agents have the same label, and
  those that call the same shared agent do, whose id becomes the label. So do the inner
  calls of one shared agent that was called with an id or through `ctx`.
- Loops with one label in two workflows number their rounds alike; an id given in a child
  workflow may equal a label in its parent's round.

Calls:

- A call without retry that finds the run limit reached is thrown without a result in the
  list, one with retry is listed as failed (`ResultsAreListed`; `workflow/dsl.ts:557`).
- Call numbers, by which a resumed run finds its calls, are taken after an await
  (`workflow/dsl.ts:396`).
- A shared agent whose context is invalid is not among the agents of its round
  (`workflow/dsl.ts:745`).

Loading:

- The check that a file lies in the project is made on its path, and the read that follows
  uses the path again (`workflow/discovery.ts:84` and `workflow/load.ts:11`; the same in
  `shared-agents/load.ts:37` and `:98`, `tools/load.ts:98` and `:123`): the check says where
  the file was, not where the text that is read is.
- A directory of copies that cannot be removed stays (`tools/load.ts:441`).
- Asked for by name, the root loses children that were found through a link; asked for by
  path, it keeps them. A project behind a linked `--cwd` has no tools at all.
- A bad pattern that a run which is not strict has dropped still makes the lookup of a
  name fail.
- A child called only through the parameter of a round, unless that is named `ctx`, is
  neither looked for nor validated as a dependency (`workflow/discovery.ts:117`).
- `const l = loop` makes rounds that neither the validation nor the scopes notice, within
  `parallel()` too; hence "alias-round" in `PlacementsAgree`. Getters and setters count for
  the scopes but not for the validation.
- A loop in the initial state of another one is refused as one in a helper function.
- An exclude is compared with the path of a link, so a link to an excluded file is loaded.
- The excludes built into the defaults are not used when a project gives none.

Configuration:

- The retry jitter of a profile's `run` is lost, as its thinking effort is (`profile_effort`).
- `--no-retry`, `--no-cache` and their like are recorded but not replayed; a recorded
  `--retry-max-attempts` makes `resume --no-retry` a usage error; recorded effective values of
  fail-fast and verbose become explicit options of the continuation.
- The retry policy that is merged for the report and the layered one that calls obey may
  differ. `defaultModel` of the file is never heard for a provider whose configuration comes
  from the defaults.
- A run below the `outDir` of a profile is not found by `resume` with its id alone, and
  `resume` takes no file of profiles.

Hazards without a property carry a note: invocations that nobody awaited, which aborts
no longer reach once their caller has returned; a tool called with an aborted signal; a
child spawned for an aborted call; calls that nobody awaited when `drain()` resolves. An item
that is skipped while it waits for a stage is failed item by item and cancelled stage by
stage. The index of the cache is closed by the first *recorded* failure, so that a slower
call that began earlier and succeeded is executed again by a resume: `SerialPrefixReused`
shows that the longest unchanged prefix is reused when calls are made one after the other.

## 6. What is proved

Each component with proofs has a module of them that EXTENDS it: `SchedulerProofs`,
`AgentCallsProofs`, `CallCacheProofs`, `ToolExecutorProofs`, `InvocationsProofs`,
`RunLifecycleProofs`, `PipelineProofs` and `LoopProofs`. Smaller components are instantiated
in the last sections of the module of a neighbour: `AgentProcess` and `RetryLayers` in
`AgentCallsProofs`, `WorkflowLoading` in `RunLifecycleProofs`. All follow one plan. The
property is not inductive; a conjunction `IInv` of named parts is, which was first checked
by TLC on the constants of the run and then proved: it holds initially, each part is
preserved by each action, and it implies the property. Action properties follow from `IInv`
and a case for each action. The theorems hold for every value of the constants that
satisfies the ASSUMEs of the module, which TLC evaluates in the run.

### Scheduler

`SchedulerProofs`, checked by `tlapm`, for any finite set of tasks, any assignment of ids,
timeouts, fail-fast and deferral, and any positive concurrency (`SchedulerAssumption`):

| theorem | states |
|---|---|
| `TypeCorrect` | `Spec => []TypeOK` |
| `AccountingHolds` | a promise is pending exactly while its task is queued or executes, and is in one place |
| `SettledCleanlyHolds` | `[]SettledCleanly`, from `FailFastHolds`, `SkippedNeverStartedHolds` and `NoLeakedTimerHolds` |
| `AbortComplete` | `[]AbortReachesEveryTask` (under `UniqueIds`) |
| `ConcurrencySafe` | `[]ConcurrencyLimit`: at most `Concurrency` tasks execute (under `UniqueIds`) |
| `NothingStartsAfterAbortHolds` | nothing starts once aborted |
| `DrainSound` | `drain()` returns only when nothing is queued or executing (under `UniqueIds`) |
| `RefinesTaskPool` | every step of the scheduler is a step of `TaskPool` or a stutter (under `UniqueIds`) |

`UniqueIds` says that `IdOf` is injective. The code does not enforce it, and the theorems
that need it are false without it: the map then forgets a running task.

The argument. None of the invariants is inductive alone. `IInv` is `TypeOK` together with

- `Places`: where each task is: queued or executing exactly while its promise is pending,
  never both, at most once in the queue, never queued again and never
  skipped once it has started, with a timer only while it is pending;
- `Slots`: the map holds executing tasks, one per id, and at most `Concurrency`;
- `Stopped`: what an abort leaves: an empty queue, no `pump()` in progress, and fail-fast
  already done when a failure is visible;

and, under `UniqueIds`, `Mapped`: the map holds exactly the executing tasks, and after an
abort all of them are signalled. Places is needed
because a task leaves the queue and enters the map in one step and its promise, timer and
event are told apart only by where it is; `Mapped` carries the bound from the map to what
executes. Each part is preserved by each action in a lemma of its own; the theorems
follow by `PTL`. The refinement is proved action by action: scheduling is `Submit`, an
iteration of `pump()` is `Begin`, a settled task `Finish` or `Close`, all else stutters.

### AgentCalls

For any set of calls, any number of attempts, slots and permits (`RetryAssumption`,
`BudgetsAssumption`), and any results with a status of the code (`ResultsAssumption`:
`AgentStatus` in `agents/types.ts`):

| theorem | states |
|---|---|
| `SharedLimitsHold` | `[]SharedLimitsExact` |
| `CallsTellTheTruthHolds` | `[]CallsTellTheTruth` |
| `AttemptsAreJustifiedHolds` | `AttemptsAreJustified` |

`CallOK` relates, call by call, the four places in which its progress is kept: the script
(`at`, `way`), the loop of `execute()` (`pc`, `num`), the pool (`phase`, `result`) and the
summary (`attempts`, `final`). That the attempts before the current one ended with something
retryable and those after it do not exist (`Looping`) is what makes the counter equal to the
cardinality of the attempts handed over and about to be (`Counted`), since only then does an
attempt enter that set at most once. `Settlement` says that a result belongs to an attempt
that is over; without it `Looping` could not be kept.

### CallCache

For any programs, any number of calls at a time and any number of resumes. Assumed of the
programs (`ProgramsAssumption`, `FingerprintsAssumption`): they are sequences of calls of
the kinds there are, and a marker has no fingerprint in common with an agent, because the
lookup compares the kind too (`artifacts/call-cache.ts:194`).

| theorem | states |
|---|---|
| `ReplayIsSoundHolds` | `[]ReplayIsSound` |
| `CrashLeavesLoadableEntriesHolds` | `[]CrashLeavesLoadableEntries` |
| `SerialPrefixReusedHolds` | `[]SerialPrefixReused` |

`EntriesOK` follows an entry from the call to `calls.jsonl`, the memory and the index, so
that any moment at which the run stops leaves entries of calls that ended; `OriginOK` carries
across a resume that a success was executed by some run; `PrefixOK` ties `usable` to the calls
made so far, in both directions: it is off once one was not replayed, and on as long as all
could be. `SerialOK` says of a run that makes one call at a time that a prefix of calls that
returned is in the index, as far as that is whole, or in `calls.jsonl`; `PriorOK` says the
same of what was loaded, which is how one run's story becomes the next one's hypothesis.

### ToolExecutor

For any set of calls and any limit (`LimitAssumption`, `ReasonsAssumption`,
`CallsAssumption`):

| theorem | states |
|---|---|
| `LimiterExactHolds` | `[]LimiterExact` |
| `CloseLeavesNothingHolds` | `[]CloseLeavesNothing` |
| `VerdictIsFinalHolds` | `VerdictIsFinal` |

`Waiting` (the queue holds the waiting calls, once each, and is empty unless all slots are
taken) and `HeldSlots` (the counter is the number of calls that hold a release function) are
inductive together only: the finally block gives back a slot and hands it on in one turn.
`Closing` says that a call which `close()` does not wait for has nothing left. That an
abort removes exactly the aborted calls from the queue (`WithoutElems`) is shown by induction
on the queue.

### AgentProcess

`ResultMatchesCauseHolds` in `AgentCallsProofs`: `[]ResultMatchesCause`, for any subset of
providers and callers, any memory limit and any amount of output below or above it
(`ChunksAssumption`). The parts of `IInv`: timer and listener are armed and cleared together
(`RunnerOK`); a settled runner has a closed child, or was rejected, or has crashed the program
over a child that was not spawned (`ChildOK`); what was received by then has been handled, and
the text in memory holds of each stream what has been handled or, beyond the limit, as much
as the limit (`OutputOK`).

### Invocations

For any number of invocations and agents, any depth, limits, timeouts and failure modes
(`BoundsAssumption`, `CallsAssumption`):

| theorem | states |
|---|---|
| `BudgetExactHolds` | `[]BudgetExact` |
| `ReportsAgreeHolds` | `[]ReportsAgree` |
| `AbortIsHeardHolds` | `[]AbortIsHeard`, the safety half of `AbortedReturns` |

Everything rests on the tree: invocations are numbered in the order of the calls and the
ancestry of one is that of its parent and itself (`TreeOK`), hence that of an ancestor is a
part of it up to the ancestor (`AncestryOK`). With that, `AgentsOK` says that an agent
has the outermost semaphores of its chain and waits for the first that it has not, so that
nobody waits in a circle; `QueuesOK` that a queue holds just those that wait for it; and
`PermitsOK` that the permits of a semaphore are its holders, all of them taken while somebody
waits. The last three are kept together by the end of an agent, which gives each of its
semaphores to the head of that queue, to each a different one. `ErrorsOK` traces an error to
an abort above the invocation or, for the error of a child, below it; `SignalsOK` had to be
strengthened by the fact that an invocation that has not begun has neither timer nor
link, since an abort could otherwise reach it.

### RunLifecycle

For any finite set of tasks, any concurrency, with and without fail-fast and a seeded context
(`LifecycleAssumption`):

| theorem | states |
|---|---|
| `RunTellsOneStoryHolds` | `[]RunTellsOneStory` |
| `QuietEndHolds` | `[]QuietEnd` |
| `StoppedNeverSucceedsHolds` | `StoppedNeverSucceeds` |

`BusOK` is the order of the links of the event chain, `StopOK` what a closed pool and closed
tools leave, `PlaceOK` and `StoryOK` how far the files are at each place of the command.
`LastTold`, that the last terminal event is the verdict, is what the manifest, the flush and
the report then copy.

### WorkflowLoading

In `RunLifecycleProofs`, for any projects, any number of edits at any moment, and any ceiling
on rounds; nothing is assumed of the projects:

| theorem | states |
|---|---|
| `RegistryIsClosedHolds` | `[]RegistryIsClosed` |
| `ToolsAreAsValidatedHolds` | `[]ToolsAreAsValidated`, the conjunct of `NothingStrayIsLoaded` about tools |

The first is about a depth-first walk with a memo, and is proved without induction over the
graph. `StackOK`: names on the stack are distinct and not in the memo, and a workflow on it
that has no issue yet has called only what was left without issues, and the workflow above
it. `LeftOK`: for each workflow that was left without an issue there is a set of others, left
before it and closed under calls, that holds its own calls. So what it reaches is in a set
that it is not in: it is registered, without an issue and not on a cycle. Leaving the
top of the stack keeps this because all of its calls are in the memo by then; a call of a
workflow that is still on the stack never gets there, since it ends the walk. That
the root is registered under its own name (`RootThere`) is from `ReadRoot`, and no candidate
replaces it.

For the second, `ToolsIInv` says that from the check for duplicates on contracts have distinct
names, so that no import writes over another one, and that a registered tool has the
name and the version of the contract that was read of its file: an edit between the two is
refused by the comparison after the import.

### Pipeline

`PipelineProofs`, for any number of items and stages (at least one), either strategy, any
limits (0 is none), with and without fail-fast and order (`PipelineAssumption`):

| theorem | states |
|---|---|
| `LimitsAlwaysHold` | `[]LimitsHold` |
| `ItemsAlwaysFlow` | `[]ItemsFlow` |

`SlotsOK` says of every limiter at once (that of the pipeline and that of each stage) that its
counter is the number of items that hold a slot, that its queue holds just those that wait, and
that nobody waits while a slot is free. None of these is kept without the others:
`Release` passes a slot on instead of freeing it, and an item that moves on gives a slot of
its stage and of the pipeline back in one turn. `ItemOK` ties the place of an item to its results
(whoever is on its way has only successes behind it), which makes the result of a stage
enter at the right place; `SignalOK` says what an abort ends and what must have caused one.
`Abreast` is for stages that are barriers: eligible items have passed the same number of stages,
but for those that are already through with the one the others are in; without it a barrier
could launch an item that has no stage left (`AtBarrier`), or leave the stages with one that
has. `PhaseOK` and `OrderOK` carry the results of the items into the answer. That launching
queues every item once, and that the answer is in the order of the input, is about `InOrder`:
it puts an item where the number of those `Before` it says, and the lemmas show that this is a
numbering of any set of items.

### RetryLayers

`RetryIsLayered` in `AgentCallsProofs`: for any layers, the policy that `Layered` folds of them
is explained by them (`PolicyIsExplained`, the core of `RetryIsExplained`). The hypothesis,
`RetryLayersGiven`, is what the parser of the configuration lets through: a layer is absent,
switches retry off, or gives some fields, and a number of attempts is positive. One lemma for a
layer (`RetryStep`) says that it has its way where it speaks and leaves the rest, and that
retry is on exactly when more than one attempt is left (`PolicySound`); the theorem applies it
four times, and follows each field from the highest layer that gives it through those above.

### Loop

For any number of rounds and of calls in a round, and both failure modes (`LoopAssumption`):

| theorem | states |
|---|---|
| `LoopTellsItsStoryHolds` | `[]LoopTellsItsStory` |
| `SignalsAreLinkedHolds` | `[]SignalsAreLinked`, the invariant in `AbortEndsLoop` |
| `AbortedLoopBeginsNothing` | in an aborted loop no tool and no other round begins |

`ProgressOK` says for each await how many rounds are recorded and which of them may be the
last. The proof found the status of a loop to be ambiguous in an earlier version of the
model: `Verdict` was a CASE whose guards overlapped (a last round that returned `done`),
which TLC resolves in the order of the text and TLA+ does not. It is
now a sequence of conditions as in the code; the same was done in `ProviderAliases`.

### Between the modules

`calls` and `lifecycle` assume `TaskPool`, hence distinct ids of attempts and calls.
`IdsAreExplained` tells where the program guarantees them: everywhere outside of rounds,
unless the author gives an id twice.

## 7. Limits

Only model-checked:

- All liveness properties, and the leads-to parts of `AbortedReturns` and `AbortEndsLoop`:
  TLAPS proves neither liveness under fairness nor facts about ENABLED.
- The rest of `NothingStrayIsLoaded`, which says what the discovery found. It was collected
  with SelectSeq, sorted and flattened, by operators that take an operator; the provers cannot
  instantiate these, and what they do to every sequence is an induction.
- `PlacementsAgree`, `RefusalsAreJustified` and `IdsAreExplained`, which compare folds over
  paths and graphs with definitions that do not recurse, and the properties of
  `RunConfiguration`. `tlapm` cannot use RECURSIVE operators (`VisitProfile`), nor the induction
  theorems of its library, which take an operator as parameter. What can be had is
  induction for a recursive function over the natural numbers, from the well-foundedness of
  their order (`SetInduction` of `ToolExecutorProofs`); for inheritance with a memo that is a
  large step that is not taken. Of `RetryIsExplained`, the part that is about `Layered` is
  proved for all layers.

Not modelled, with reasons in `PROJECT.json`: what section 2 lists as left; command
lines, adapters, parsers, redaction and formatting, which are functions on text; what
validates a single field of the configuration or of an argument, which is a verdict that the
scenario gives; the matching of a pattern with a path, given as a set of paths; a
continuation with another `--cwd` or `--config`; what parses JavaScript. Abstracted everywhere: contents of prompts and results, durations
(a timer may fire at any moment after it was armed), wording of errors, the kinds of
events that no property tells apart. A crash is modelled as one of the process, not of
the operating system: a completed write stays on disk.
