---------------------------- MODULE AgentProcess ----------------------------
(* One attempt of an agent: agents/execute-agent.ts and                    *)
(* agents/process-runner.ts, under the abort signal and the timeout the    *)
(* scheduler gives it.                                                     *)
(*                                                                         *)
(* executeInternal() writes the artifacts of the call, spawns the          *)
(* provider's command (or asks the mock provider), collects its output     *)
(* through two chains of callbacks and turns what happened into a result.  *)
(* A child that must stop is sent SIGTERM, and SIGKILL after a while.      *)
(*                                                                         *)
(* An operator that no other definition uses is a variant of the one after *)
(* it, with one mistake in it; the runs use it to test the properties.     *)
EXTENDS Naturals

CONSTANTS
  Providers,   \* the kinds of provider that are configured
  Callers,     \* "scheduler": the attempt is a scheduled task, its timeout
               \* is armed twice; "direct": the executor is used on its own
  MemoryLimit, \* MAX_IN_MEMORY_LOG_SIZE: what is kept of a stream for the
               \* result, in chunks
  MaxChunks    \* bound on the chunks of output per stream

ASSUME ProvidersAssumption == Providers \subseteq {"process", "mock"}
ASSUME CallersAssumption == Callers \subseteq {"scheduler", "direct"}
ASSUME ChunksAssumption == MemoryLimit \in Nat \ {0} /\ MaxChunks \in Nat

VARIABLES
  provider, caller,
  pc,          \* how far executeInternal() is
  signal,      \* why input.signal is aborted
  deadline,    \* the scheduler's timeout timer is armed
  timer,       \* the timeout timer of runProcess() is armed
  listening,   \* onAbort is registered on the signal
  child,       \* the provider's process
  terminated,  \* how often terminateProcess() was called
  grace,       \* the timer that sends SIGKILL is armed
  killed,      \* SIGKILL was sent
  exit,        \* how the provider ended: code 0, another code, by a signal
  timedOut, cancelled,
  written,     \* chunks of output received, per stream
  appended,    \* chunks whose callback has run
  kept,        \* chunks in the text in memory, from which the result is made
  artifacts,   \* the result files written
  status       \* the status of the result

callVars == <<provider, caller>>
timerVars == <<timer, listening>>
childVars == <<child, terminated, grace, killed>>
flagVars == <<exit, timedOut, cancelled>>
outputVars == <<written, appended, kept>>
resultVars == <<artifacts, status>>
vars == <<callVars, pc, signal, deadline, timerVars, childVars, flagVars,
          outputVars, resultVars>>

Streams == {"stdout", "stderr"}

Init ==
  /\ provider \in Providers /\ caller \in Callers
  /\ pc = "preparing"
  /\ signal = "none"
  /\ deadline = (caller = "scheduler")
  /\ timer = FALSE /\ listening = FALSE
  /\ child = "none" /\ terminated = 0 /\ grace = FALSE /\ killed = FALSE
  /\ exit = "none" /\ timedOut = FALSE /\ cancelled = FALSE
  /\ written = [s \in Streams |-> 0] /\ appended = [s \in Streams |-> 0]
  /\ kept = [s \in Streams |-> 0]
  /\ artifacts = {} /\ status = "none"

-----------------------------------------------------------------------------
(* The result is returned, and the scheduler clears its timer.             *)
Returns(result, files) ==
  /\ pc' = "done"
  /\ status' = result
  /\ artifacts' = artifacts \cup files
  /\ deadline' = FALSE
  /\ UNCHANGED <<callVars, signal, timerVars, childVars, flagVars, outputVars>>

(* The first artifacts or the command fail.                                *)
PrepareFails == pc = "preparing" /\ Returns("failed", {"raw-result"})

(* Another artifact cannot be written: executeInternal() throws, and the   *)
(* scheduler settles the call.                                             *)
Throws ==
  /\ pc \in {"preparing", "concluding", "parsing", "normalizing"}
  /\ Returns(IF signal = "none" THEN "failed" ELSE "cancelled", {})

(* runProcess() rejected.  A message that speaks of a timeout counts as    *)
(* one, whatever else happened; under an aborted signal the rest is a      *)
(* cancellation, otherwise exit code 1, with the message added to stderr.  *)
Rejected(speaksOfTimeout) ==
  /\ pc' = "concluding"
  /\ timedOut' = speaksOfTimeout
  /\ cancelled' = (~speaksOfTimeout /\ signal # "none")
  /\ exit' = IF ~speaksOfTimeout /\ signal = "none" THEN "nonzero" ELSE exit
  /\ UNCHANGED <<callVars, signal, deadline, outputVars, resultVars>>

(* The command line is larger than the platform allows: the message has    *)
(* sizes only.                                                             *)
TooLarge ==
  /\ pc = "preparing" /\ provider = "process"
  /\ Rejected(FALSE)
  /\ UNCHANGED <<timerVars, childVars>>

(* spawn() throws, and its message quotes the argument it does not like.   *)
SpawnThrows ==
  /\ pc = "preparing" /\ provider = "process"
  /\ \E speaks \in BOOLEAN : Rejected(speaks)
  /\ UNCHANGED <<timerVars, childVars>>

(* The child is spawned, and only then the signal is looked at.  Nobody    *)
(* listens to that child: one that runs goes on, and the "error" event of  *)
(* one that could not be spawned ends the whole program on the next tick,  *)
(* before the attempt has written its result.                              *)
SpawnAborted ==
  /\ pc = "preparing" /\ provider = "process" /\ signal # "none"
  /\ child' = "alive"
  /\ Rejected(FALSE)
  /\ UNCHANGED <<timerVars, terminated, grace, killed>>

Crashes ==
  /\ pc = "preparing" /\ provider = "process" /\ signal # "none"
  /\ child' = "unspawned"
  /\ pc' = "crashed"
  /\ deadline' = FALSE
  /\ UNCHANGED <<callVars, signal, timerVars, terminated, grace, killed, flagVars,
                 outputVars, resultVars>>

Spawn ==
  /\ pc = "preparing" /\ provider = "process" /\ signal = "none"
  /\ child' \in {"alive", "unspawned"}
  /\ timer' = TRUE /\ listening' = TRUE
  /\ pc' = "running"
  /\ UNCHANGED <<callVars, signal, deadline, terminated, grace, killed,
                 flagVars, outputVars, resultVars>>

(* cleanup(): clearTimeout() and removeEventListener().                    *)
Cleanup == listening' = FALSE /\ timer' = FALSE

(* The "error" event of a child that could not be spawned; its message     *)
(* has the path of the command.                                            *)
SpawnFails ==
  /\ pc = "running" /\ child = "unspawned"
  /\ Cleanup
  /\ \E speaks \in BOOLEAN : Rejected(speaks)
  /\ UNCHANGED childVars

-----------------------------------------------------------------------------
(* The child writes, ends on its own or because it was told to, and its    *)
(* pipes close after that.                                                 *)
Writes(s) ==
  /\ pc = "running" /\ child \in {"alive", "exited"}
  /\ written[s] < MaxChunks
  /\ written' = [written EXCEPT ![s] = @ + 1]
  /\ UNCHANGED <<callVars, pc, signal, deadline, timerVars, childVars, flagVars,
                 appended, kept, resultVars>>

(* The next callback of stdoutChain or of stderrChain: the chunk is kept   *)
(* unless the text in memory is at its limit.  (The log gets the chunk in  *)
(* any case, but a failing write of it is ignored.)                        *)
Appends(s) ==
  /\ appended[s] < written[s]
  /\ appended' = [appended EXCEPT ![s] = @ + 1]
  /\ kept' = IF kept[s] < MemoryLimit THEN [kept EXCEPT ![s] = @ + 1] ELSE kept
  /\ UNCHANGED <<callVars, pc, signal, deadline, timerVars, childVars, flagVars,
                 written, resultVars>>

Ends(how) ==
  /\ child = "alive"
  /\ killed => how = "signal"
  /\ child' = "exited"
  /\ exit' = IF pc = "running" THEN how ELSE exit
  /\ UNCHANGED <<callVars, pc, signal, deadline, timerVars, terminated, grace,
                 killed, timedOut, cancelled, outputVars, resultVars>>

(* The "close" event: nobody may stop the child any more.                  *)
Closes ==
  /\ child = "exited"
  /\ child' = "closed"
  /\ IF pc = "running" THEN Cleanup /\ pc' = "closed"
                       ELSE UNCHANGED <<timerVars, pc>>
  /\ UNCHANGED <<callVars, signal, deadline, terminated, grace, killed, flagVars,
                 outputVars, resultVars>>

(* Promise.allSettled([stdoutChain, stderrChain]), then runProcess()       *)
(* resolves.                                                               *)
Handled == appended = written

Resolves ==
  /\ pc = "closed"
  /\ Handled
  /\ pc' = "concluding"
  /\ UNCHANGED <<callVars, signal, deadline, timerVars, childVars, flagVars,
                 outputVars, resultVars>>

(* terminateProcess(): SIGTERM now, SIGKILL when the grace period is over. *)
TerminateOnce ==
  /\ terminated' = terminated + 1
  /\ UNCHANGED <<child, grace, killed>>
Terminate ==
  /\ terminated' = terminated + 1
  /\ grace' = TRUE
  /\ UNCHANGED <<child, killed>>

(* The scheduler's timer was armed before this one, for the same time, so  *)
(* it is the first to fire.                                                *)
TimerFires ==
  /\ timer /\ ~deadline
  /\ timedOut' = TRUE
  /\ Cleanup
  /\ Terminate
  /\ UNCHANGED <<callVars, pc, signal, deadline, exit, cancelled, outputVars,
                 resultVars>>

GraceOver ==
  /\ grace
  /\ grace' = FALSE
  /\ killed' = (child = "alive")
  /\ UNCHANGED <<callVars, pc, signal, deadline, timerVars, child, terminated,
                 flagVars, outputVars, resultVars>>

-----------------------------------------------------------------------------
(* The mock provider: an optional delay that an abort cuts short, unless   *)
(* the signal was aborted before (its listener is left on the signal, but  *)
(* does nothing any more); then what the configured response says.         *)
MockStarts(delay) ==
  /\ pc = "preparing" /\ provider = "mock"
  /\ pc' = IF delay THEN "waiting" ELSE "answering"
  /\ listening' = (delay /\ signal = "none")
  /\ UNCHANGED <<callVars, signal, deadline, timer, childVars, flagVars,
                 outputVars, resultVars>>

MockDelayOver ==
  /\ pc = "waiting"
  /\ pc' = "answering"
  /\ listening' = FALSE
  /\ UNCHANGED <<callVars, signal, deadline, timer, childVars, flagVars,
                 outputVars, resultVars>>

MockAnswers ==
  /\ pc = "answering"
  /\ pc' = "concluding"
  /\ exit' \in {"zero", "nonzero"}
  /\ \E timeout, fail \in BOOLEAN :
       timedOut' = (timedOut \/ timeout) /\ cancelled' = (cancelled \/ fail)
  /\ UNCHANGED <<callVars, signal, deadline, timerVars, childVars, outputVars,
                 resultVars>>

-----------------------------------------------------------------------------
(* input.signal is aborted: onAbort of runProcess(), or of the mock delay, *)
(* which tells a timeout from a cancellation.                              *)
AbortSignal(reason) ==
  /\ signal = "none"
  /\ signal' = reason
  /\ \/ /\ pc = "running" /\ listening
        /\ cancelled' = TRUE
        /\ Cleanup
        /\ Terminate
        /\ UNCHANGED <<pc, timedOut>>
     \/ /\ pc = "waiting"
        /\ pc' = "answering"
        /\ timedOut' = (reason = "timeout") /\ cancelled' = (reason # "timeout")
        /\ listening' = FALSE
        /\ UNCHANGED <<timer, childVars>>
     \/ /\ pc # "waiting" /\ ~(pc = "running" /\ listening)
        /\ UNCHANGED <<pc, timedOut, cancelled, timerVars, childVars>>
  /\ UNCHANGED <<callVars, exit, outputVars, resultVars>>

(* The timer of schedule(), armed when the call was queued.                *)
DeadlineFires ==
  /\ deadline
  /\ deadline' = FALSE
  /\ IF signal = "none" THEN AbortSignal("timeout")
     ELSE UNCHANGED <<callVars, pc, signal, timerVars, childVars, flagVars,
                      outputVars, resultVars>>

Abort ==
  /\ pc \notin {"done", "crashed"}
  /\ AbortSignal("user")
  /\ UNCHANGED deadline

-----------------------------------------------------------------------------
(* The outcome, by precedence.                                             *)
ExitedBadly == exit = "nonzero"
CancelledIgnored == FALSE
WasCancelled == cancelled

Concludes ==
  /\ pc = "concluding"
  /\ \/ timedOut /\ Returns("timed_out", {"raw-result"})
     \/ ~timedOut /\ WasCancelled /\ Returns("cancelled", {"raw-result"})
     \/ /\ ~timedOut /\ ~WasCancelled /\ ExitedBadly
        /\ Returns("failed", {"raw-result"})
     \/ /\ ~timedOut /\ ~WasCancelled /\ ~ExitedBadly
        /\ pc' = "parsing"
        /\ UNCHANGED <<callVars, signal, deadline, timerVars, childVars, flagVars,
                       outputVars, resultVars>>

(* The adapter's parser crashes, or its result is saved.                   *)
ParserCrashes == pc = "parsing" /\ Returns("failed", {"raw-result"})

Parses ==
  /\ pc = "parsing"
  /\ pc' = "normalizing"
  /\ artifacts' = artifacts \cup {"raw-result"}
  /\ UNCHANGED <<callVars, signal, deadline, timerVars, childVars, flagVars,
                 outputVars, status>>

(* normalizeAgentOutput(): against the schema, if there is one.            *)
Normalizes ==
  /\ pc = "normalizing"
  /\ \/ Returns("failed", {"validation-error"})
     \/ Returns("succeeded", {"normalized-result"})

-----------------------------------------------------------------------------
Executor ==
  \/ PrepareFails \/ TooLarge \/ SpawnThrows \/ SpawnAborted \/ Crashes \/ Spawn
  \/ SpawnFails
  \/ Resolves \/ Concludes \/ ParserCrashes \/ Parses \/ Normalizes \/ Throws
  \/ \E delay \in BOOLEAN : MockStarts(delay)
  \/ MockDelayOver \/ MockAnswers
  \/ \E s \in Streams : Appends(s)

Child ==
  \/ \E how \in {"zero", "nonzero", "signal"} : Ends(how)
  \/ Closes
  \/ \E s \in Streams : Writes(s)

Next ==
  \/ Executor \/ Child
  \/ TimerFires \/ GraceOver \/ DeadlineFires \/ Abort

Spec == Init /\ [][Next]_vars

(* Callbacks and file writes happen, and armed timers fire.  A child need  *)
(* not end by itself nor heed SIGTERM; one that was sent SIGKILL ends, and *)
(* the pipes of one that ended close.                                      *)
FairSpec ==
  /\ Spec
  /\ WF_vars(Executor)
  /\ \A s \in Streams : WF_vars(Appends(s))
  /\ WF_vars(Resolves)
  /\ WF_vars(TimerFires) /\ WF_vars(DeadlineFires) /\ WF_vars(GraceOver)
  /\ WF_vars(killed /\ Ends("signal"))
  /\ WF_vars(Closes)

-----------------------------------------------------------------------------
TypeOK ==
  /\ provider \in Providers /\ caller \in Callers
  /\ pc \in {"preparing", "running", "closed", "waiting", "answering",
             "concluding", "parsing", "normalizing", "done", "crashed"}
  /\ signal \in {"none", "timeout", "user"}
  /\ deadline \in BOOLEAN /\ timer \in BOOLEAN /\ listening \in BOOLEAN
  /\ child \in {"none", "unspawned", "alive", "exited", "closed"}
  /\ terminated \in 0..1 /\ grace \in BOOLEAN /\ killed \in BOOLEAN
  /\ exit \in {"none", "zero", "nonzero", "signal"}
  /\ timedOut \in BOOLEAN /\ cancelled \in BOOLEAN
  /\ written \in [Streams -> 0..MaxChunks]
  /\ appended \in [Streams -> 0..MaxChunks]
  /\ kept \in [Streams -> 0..MaxChunks]
  /\ artifacts \subseteq {"raw-result", "normalized-result", "validation-error"}
  /\ status \in {"none", "succeeded", "failed", "timed_out", "cancelled"}

(* The timeout, the abort, the error and the end of the child exclude each *)
(* other: the child is told to stop at most once, for one reason, and a    *)
(* runner that has settled has neither timer nor listener left.            *)
RunnerSettlesClean ==
  /\ terminated <= 1
  /\ provider = "process" => ~(timedOut /\ cancelled)
  /\ pc \notin {"running", "waiting"} => ~timer /\ ~listening

(* What the result is made of: all callbacks of both streams have run, and *)
(* the text in memory is all that the child wrote or, if that was more     *)
(* than the memory limit, its beginning up to the limit.                   *)
OutputIsComplete ==
  /\ appended = written
  /\ \A s \in Streams :
       kept[s] = written[s] \/ (kept[s] = MemoryLimit /\ written[s] > MemoryLimit)

(* A result says what happened: success only for a child that ended        *)
(* undisturbed and not with an error code, with its result files written,  *)
(* and made of the complete output up to the memory limit; timed out only  *)
(* when the child was told to stop or there never was one (and the error   *)
(* speaks of a timeout); cancelled only under an aborted signal.  The      *)
(* program crashes only over a child that was not spawned and not wanted.  *)
ResultMatchesCause ==
  /\ TypeOK
  /\ RunnerSettlesClean
  /\ pc \in {"parsing", "normalizing"} \/ status = "succeeded" => OutputIsComplete
  /\ status = "succeeded" =>
       /\ ~timedOut /\ ~cancelled /\ exit # "nonzero" /\ terminated = 0
       /\ {"raw-result", "normalized-result"} \subseteq artifacts
       /\ provider = "process" => child = "closed"
  /\ status = "timed_out" => timedOut
  /\ status = "timed_out" /\ provider = "process" =>
       terminated = 1 \/ child \in {"none", "unspawned"}
  /\ status = "cancelled" /\ provider = "process" => signal # "none"
  /\ pc = "crashed" => signal # "none" /\ child = "unspawned" /\ status = "none"

(* An attempt returns, even if the child never ends on its own and ignores *)
(* SIGTERM, unless it crashes the program.                                 *)
EveryAttemptReturns == pc = "preparing" ~> pc \in {"done", "crashed"}

(* Stated by the tests of timeouts: a call whose child had to be killed    *)
(* because its timeout was over is reported as timed out.                  *)
TimeoutIsReported ==
  signal = "timeout" /\ killed /\ "raw-result" \in artifacts
    => status = "timed_out"

(* Stated by the message "Process run aborted before spawning": a call     *)
(* that was aborted before its child was spawned leaves no child behind.   *)
NothingLeftRunning == status # "none" => child # "alive"
=============================================================================
