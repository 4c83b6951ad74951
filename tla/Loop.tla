-------------------------------- MODULE Loop --------------------------------
(* loop(): rounds of one callback, each on the state that the one before   *)
(* returned (loop/run.ts, loop/context.ts, and ctx.tool() in               *)
(* workflow/dsl.ts).                                                       *)
(*                                                                         *)
(* A loop with timeoutMs has a signal of its own, which hears the signal   *)
(* of the caller and a timer; any other uses the signal of its caller.     *)
(* When it is aborted, the callback at work is given up, and may go on;    *)
(* its tool is waited for.  A callback may also return while work that it  *)
(* did not await goes on.                                                  *)
(*                                                                         *)
(* A state is the number of the round that returned it, 0 the initial one. *)
(* An operator that no other definition uses is a variant of the one after *)
(* it, with one mistake in it; the run uses it to test the properties.     *)
EXTENDS Naturals, Sequences

CONSTANTS
  MaxRounds, FailureMode,  \* options.maxRounds, options.failureMode
  MaxCalls                 \* bound: calls of ctx.tool() in a round

ASSUME LoopAssumption ==
  /\ MaxRounds \in Nat \ {0} /\ MaxCalls \in Nat
  /\ FailureMode \in {"throw", "settled"}

Rounds == 1..MaxRounds

VARIABLES
  timed,        \* options.timeoutMs is given
  parent,       \* the signal of the caller is aborted
  own,          \* why the loop's own signal is aborted
  timer, listening,
  pc, round,    \* how far runLoop() is
  outcome,      \* what the round came to
  current,      \* currentState
  rounds,       \* the records of the rounds
  status,       \* loopStatus
  summary,      \* what loopSummaries and the terminal event say
  answer,       \* what the caller got
  alive,        \* rounds whose callback, or work it left behind, goes on
  tools,        \* rounds with an activeToolPromise
  calls         \* childToolCallIds

signalVars == <<parent, own, timer, listening>>
reportVars == <<summary, answer>>
workVars == <<alive, tools, calls>>
vars == <<timed, signalVars, pc, round, outcome, current, rounds, status,
          reportVars, workVars>>

Init ==
  /\ timed \in BOOLEAN
  /\ parent = FALSE /\ own = "none" /\ timer = FALSE /\ listening = FALSE
  /\ pc = "idle" /\ round = 0
  /\ outcome = [said |-> "nothing", status |-> "none"]
  /\ current = 0 /\ rounds = <<>> /\ status = "none"
  /\ summary = <<>> /\ answer = "none"
  /\ alive = {} /\ tools = {} /\ calls = [r \in Rounds |-> 0]

(* loopSignal.aborted, and what an abort makes of a round or of the loop.  *)
Aborted == IF timed THEN own # "none" ELSE parent
AbortStatus == IF parent THEN "cancelled" ELSE "timed_out"

-----------------------------------------------------------------------------
(* The signals are linked before anything else.  A signal that is aborted  *)
(* already is taken over; the timer runs all the same.                     *)
Begin(safe) ==
  /\ pc = "idle"
  /\ pc' = IF safe THEN "opening" ELSE "refusing"
  /\ timer' = timed
  /\ listening' = (timed /\ ~parent)
  /\ own' = IF timed /\ parent THEN "parent" ELSE own
  /\ UNCHANGED <<timed, parent, round, outcome, current, rounds, status,
                 reportVars, workVars>>

Unlink == timer' = FALSE /\ listening' = FALSE

(* An initial state that is not JSON is reported and thrown, in either     *)
(* mode.                                                                   *)
Refuse ==
  /\ pc = "refusing"
  /\ pc' = "settled" /\ status' = "failed"
  /\ summary' = <<"failed", 0>> /\ answer' = "thrown"
  /\ Unlink
  /\ UNCHANGED <<timed, parent, own, round, outcome, current, rounds,
                 workVars>>

(* The top of a round: an aborted loop begins no other.                    *)
Advance ==
  IF Aborted
  THEN /\ pc' = "finalizing" /\ status' = AbortStatus
       /\ UNCHANGED round
  ELSE /\ pc' = "preparing" /\ round' = round + 1
       /\ UNCHANGED status

(* loop.json, the initial state and the replay marker have been written.   *)
Opened ==
  /\ pc = "opening"
  /\ Advance
  /\ UNCHANGED <<timed, signalVars, outcome, current, rounds, reportVars,
                 workVars>>

-----------------------------------------------------------------------------
(* What a callback may say, and the status of its round.  An error with    *)
(* the code of a timeout or of a cancellation may come from a child; a     *)
(* value may be no result of a round, or its state no JSON.                *)
Values == {"continue", "done", "invalid", "unsafe"}
Errors == {"failure", "timeout", "cancellation"}

StatusUnchecked(said) == IF said \in Values THEN "completed" ELSE "failed"
StatusOf(said) ==
  CASE said \in {"continue", "done"} -> "completed"
    [] said = "timeout" -> "timed_out"
    [] said = "cancellation" -> "cancelled"
    [] OTHER -> "failed"

(* input-state.json has been written and the callback is called.           *)
RoundBegins ==
  /\ pc = "preparing" /\ ~Aborted
  /\ pc' = "running"
  /\ alive' = alive \cup {round}
  /\ UNCHANGED <<timed, signalVars, round, outcome, current, rounds, status,
                 reportVars, tools, calls>>

(* It is called even if the loop was aborted meanwhile.  It wins the race  *)
(* only if it returns before its first await.                              *)
RoundBeginsAborted(said, leaves) ==
  /\ pc = "preparing" /\ Aborted
  /\ pc' = "draining"
  /\ outcome' = [said |-> said,
       status |-> IF said \in Values THEN StatusOf(said) ELSE AbortStatus]
  /\ alive' = IF leaves THEN alive \cup {round} ELSE alive
  /\ UNCHANGED <<timed, signalVars, round, current, rounds, status,
                 reportVars, tools, calls>>

RoundEnds(said, leaves) ==
  /\ pc = "running"
  /\ pc' = "draining"
  /\ outcome' = [said |-> said, status |-> StatusOf(said)]
  /\ alive' = IF leaves THEN alive ELSE alive \ {round}
  /\ UNCHANGED <<timed, signalVars, round, current, rounds, status,
                 reportVars, tools, calls>>

(* The abort of the loop decides the race for the callback at work.        *)
GiveUpNever(why) == UNCHANGED <<pc, outcome>>
GiveUp(why) ==
  IF pc = "running" /\ ~Aborted
  THEN pc' = "draining" /\ outcome' = [said |-> "nothing", status |-> why]
  ELSE UNCHANGED <<pc, outcome>>

AbortParent ==
  /\ ~parent
  /\ parent' = TRUE
  /\ own' = IF listening /\ own = "none" THEN "parent" ELSE own
  /\ timer' = (timer /\ ~listening)
  /\ GiveUp("cancelled")
  /\ UNCHANGED <<timed, listening, round, current, rounds, status,
                 reportVars, workVars>>

TimerFires ==
  /\ timer
  /\ timer' = FALSE
  /\ own' = IF own = "none" THEN "timer" ELSE own
  /\ GiveUp("timed_out")
  /\ UNCHANGED <<timed, parent, listening, round, current, rounds, status,
                 reportVars, workVars>>

-----------------------------------------------------------------------------
(* runLoopTool(): one tool at a time in a round, and none when the loop is *)
(* aborted.  The loop goes on from the tool it waits for before the        *)
(* callback does.                                                          *)
CallTool(r) ==
  /\ r \in alive /\ r \notin tools /\ ~Aborted
  /\ ~(pc = "draining" /\ r = round)
  /\ calls[r] < MaxCalls
  /\ tools' = tools \cup {r}
  /\ calls' = [calls EXCEPT ![r] = @ + 1]
  /\ UNCHANGED <<timed, signalVars, pc, round, outcome, current, rounds,
                 status, reportVars, alive>>

ToolEnds(r) ==
  /\ r \in tools
  /\ tools' = tools \ {r}
  /\ UNCHANGED <<timed, signalVars, pc, round, outcome, current, rounds,
                 status, reportVars, alive, calls>>

(* What was left behind comes to an end, unheard.                          *)
LeftoverEnds(r) ==
  /\ r \in alive
  /\ ~(pc = "running" /\ r = round)
  /\ alive' = alive \ {r}
  /\ UNCHANGED <<timed, signalVars, pc, round, outcome, current, rounds,
                 status, reportVars, tools, calls>>

-----------------------------------------------------------------------------
(* The tool of the round has ended; the record of the round is made and    *)
(* the files of the round and its marker are written.                      *)
Drained == round \notin tools

Record ==
  /\ pc = "draining" /\ Drained
  /\ pc' = "recording"
  /\ rounds' = Append(rounds,
       [status |-> outcome.status, said |-> outcome.said, input |-> current,
        tools |-> calls[round]])
  /\ UNCHANGED <<timed, signalVars, round, outcome, current, status,
                 reportVars, workVars>>

(* The status of the loop after a round, if it ends with it.               *)
Verdict ==
  IF outcome.status # "completed" THEN outcome.status
  ELSE IF outcome.said = "done" THEN "succeeded"
  ELSE IF round = MaxRounds THEN "max_rounds" ELSE "none"

Recorded ==
  /\ pc = "recording"
  /\ current' = IF outcome.status = "completed" THEN round ELSE current
  /\ IF Verdict = "none"
     THEN Advance
     ELSE pc' = "finalizing" /\ status' = Verdict /\ UNCHANGED round
  /\ UNCHANGED <<timed, signalVars, outcome, rounds, reportVars, workVars>>

(* The files of the loop have been written.                                *)
Finalize ==
  /\ pc = "finalizing"
  /\ pc' = "settled"
  /\ summary' = <<status, Len(rounds)>>
  /\ answer' = IF FailureMode = "settled" THEN "envelope"
               ELSE IF status = "succeeded" THEN "state" ELSE "thrown"
  /\ Unlink
  /\ UNCHANGED <<timed, parent, own, round, outcome, current, rounds,
                 status, workVars>>

(* A file that cannot be written rejects loop(), with no report.  The      *)
(* finally block does not cover an initial state that was refused.         *)
WriteFails ==
  /\ pc \in {"refusing", "opening", "preparing", "recording", "finalizing"}
  /\ pc' = "settled" /\ answer' = "rejected"
  /\ IF pc = "refusing" THEN UNCHANGED <<timer, listening>> ELSE Unlink
  /\ UNCHANGED <<timed, parent, own, round, outcome, current, rounds,
                 status, summary, workVars>>

-----------------------------------------------------------------------------
Program ==
  \/ \E safe \in BOOLEAN : Begin(safe)
  \/ Refuse \/ Opened \/ RoundBegins \/ Record \/ Recorded \/ Finalize \/ WriteFails
  \/ \E said \in Values \cup {"nothing"}, leaves \in BOOLEAN :
       RoundBeginsAborted(said, leaves)

Next ==
  \/ Program
  \/ \E said \in Values \cup Errors, leaves \in BOOLEAN : RoundEnds(said, leaves)
  \/ \E r \in Rounds : CallTool(r) \/ ToolEnds(r) \/ LeftoverEnds(r)
  \/ AbortParent \/ TimerFires

Spec == Init /\ [][Next]_vars

(* Writes end, and so does a tool whose signal is aborted (tools/executor  *)
(* settles its call).  Nothing is assumed of callbacks.                    *)
FairSpec ==
  /\ Spec
  /\ WF_vars(Program)
  /\ \A r \in Rounds : WF_vars(Aborted /\ ToolEnds(r))

-----------------------------------------------------------------------------
RoundStatuses == {"completed", "failed", "timed_out", "cancelled"}

TypeOK ==
  /\ timed \in BOOLEAN
  /\ parent \in BOOLEAN /\ own \in {"none", "parent", "timer"}
  /\ timer \in BOOLEAN /\ listening \in BOOLEAN
  /\ pc \in {"idle", "refusing", "opening", "preparing", "running", "draining",
             "recording", "finalizing", "settled"}
  /\ round \in 0..MaxRounds /\ current \in 0..round
  /\ outcome \in [said : Values \cup Errors \cup {"nothing"},
                  status : RoundStatuses \cup {"none"}]
  /\ \A k \in DOMAIN rounds :
       rounds[k] \in [status : RoundStatuses, said : Values \cup Errors \cup {"nothing"},
                      input : 0..MaxRounds, tools : 0..MaxCalls]
  /\ status \in {"none", "succeeded", "failed", "timed_out", "cancelled", "max_rounds"}
  /\ answer \in {"none", "state", "envelope", "thrown", "rejected"}
  /\ alive \subseteq 1..round /\ tools \subseteq 1..round
  /\ calls \in [Rounds -> 0..MaxCalls]

UnderWay == pc \notin {"idle", "settled"}
Completed == {k \in DOMAIN rounds : rounds[k].status = "completed"}

(* A loop that says it was cancelled or timed out was, or a callback said  *)
(* so.  One that succeeded or ran out of rounds did so by its last round.  *)
Justified ==
  LET last == rounds[Len(rounds)].said IN
    CASE status = "cancelled" -> parent \/ last = "cancellation"
      [] status = "timed_out" -> own = "timer" \/ last = "timeout"
      [] status = "succeeded" -> last = "done"
      [] status = "max_rounds" -> last = "continue" /\ Len(rounds) = MaxRounds
      [] status = "failed" -> rounds = <<>> \/ last \in {"failure", "invalid", "unsafe"}

(* No tool that the record of a round names is still at work: those that   *)
(* are were called after it, by work that the callback did not await.      *)
ToolsAreRecorded ==
  \A k \in DOMAIN rounds : k \in tools => calls[k] > rounds[k].tools

(* The records of a loop are a story without gaps: every round but the     *)
(* last is completed and asked for another, each got the state that the    *)
(* one before returned, whatever given-up callbacks say afterwards, and    *)
(* the state of the loop is that of the last completed round.  A loop that *)
(* reports does so once, with the status its story justifies and every     *)
(* round that began; one that does not report was rejected by a write.     *)
(* A record names no tool that was at work when it was made.               *)
LoopTellsItsStory ==
  /\ TypeOK /\ ToolsAreRecorded
  /\ \A k \in DOMAIN rounds :
       /\ rounds[k].input = k - 1
       /\ k < Len(rounds) => rounds[k].said = "continue"
       /\ k \in Completed => rounds[k].said \in {"continue", "done"}
  /\ pc \in {"finalizing", "settled"} /\ answer # "rejected" =>
       /\ Len(rounds) = round /\ Justified
       /\ \A k \in Completed : k <= current
       /\ current \in Completed \cup {0}
  /\ pc = "settled" =>
       IF answer = "rejected" THEN summary = <<>>
       ELSE /\ summary = <<status, Len(rounds)>>
            /\ answer = "thrown" => status # "succeeded"

(* A loop under way can always be stopped, by its caller and, if it has    *)
(* timeoutMs, by its timer; one that is over has left neither a timer nor  *)
(* a listener behind, except when it refused its initial state and could   *)
(* not write that down.                                                    *)
SignalsAreLinked ==
  /\ UnderWay => /\ parent => Aborted
                 /\ timed /\ ~Aborted => timer /\ listening
  /\ pc = "settled" /\ (timer \/ listening) => answer = "rejected" /\ round = 0

(* A loop can be aborted as long as it is under way.  An aborted one begins *)
(* no tool and no other round, and comes to an end whatever its callbacks  *)
(* do.                                                                     *)
AbortEndsLoop ==
  /\ []SignalsAreLinked
  /\ [][Aborted /\ UnderWay => tools' \subseteq tools /\ round' = round]_vars
  /\ UnderWay /\ Aborted ~> pc = "settled"
=============================================================================
