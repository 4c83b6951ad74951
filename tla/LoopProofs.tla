----------------------------- MODULE LoopProofs -----------------------------
(***************************************************************************)
(* Proofs about Loop, for any number of rounds and of calls in a round.    *)
(***************************************************************************)
EXTENDS Loop, TLAPS

RoundRecord ==
  [status : RoundStatuses, said : Values \cup Errors \cup {"nothing"},
   input : 0..MaxRounds, tools : 0..MaxCalls]

-----------------------------------------------------------------------------
(* The inductive invariant.  The loop's own signal hears its caller, and   *)
(* its timer and its listener stay until it is aborted or over.            *)
SignalsOK ==
  /\ ~timed => ~timer /\ ~listening /\ own = "none"
  /\ own = "parent" => parent
  /\ pc = "idle" => ~timer /\ ~listening /\ own = "none"
  /\ SignalsAreLinked

(* What a round came to, said as Justified will say it.                    *)
OutcomeJustified(o) ==
  /\ o.status = "completed" => o.said \in {"continue", "done"}
  /\ o.status = "failed" => o.said \in {"failure", "invalid", "unsafe"}
  /\ o.status = "timed_out" => own = "timer" \/ o.said = "timeout"
  /\ o.status = "cancelled" => parent \/ o.said = "cancellation"
  /\ o.status # "none"

OutcomeOK == pc \in {"draining", "recording"} => OutcomeJustified(outcome)

(* The story so far: every round that is over and not the last asked for   *)
(* another, and got the state of the one before.                           *)
StoryOK ==
  /\ rounds \in Seq(RoundRecord)
  /\ Len(rounds) <= round
  /\ \A k \in 1..Len(rounds) :
       /\ rounds[k].input = k - 1
       /\ k < Len(rounds) => rounds[k].said = "continue" /\ rounds[k].status = "completed"
       /\ OutcomeJustified(rounds[k])
       /\ rounds[k].tools <= calls[k]
       /\ k \in tools => rounds[k].tools < calls[k]

(* How far the loop is.                                                    *)
ProgressOK ==
  /\ pc \in {"idle", "refusing", "opening"} =>
       round = 0 /\ rounds = <<>> /\ current = 0
  /\ pc \in {"preparing", "running", "draining"} =>
       /\ Len(rounds) = round - 1 /\ current = round - 1
       /\ \A k \in 1..Len(rounds) : rounds[k].said = "continue" /\ rounds[k].status = "completed"
  /\ pc = "recording" =>
       /\ Len(rounds) = round /\ round >= 1 /\ current = round - 1
       /\ rounds[round].status = outcome.status /\ rounds[round].said = outcome.said
  /\ pc \in {"finalizing", "settled"} /\ answer # "rejected" =>
       /\ Len(rounds) = round /\ Justified /\ status # "none"
       /\ \A k \in Completed : k <= current
       /\ current \in Completed \cup {0}

ReportOK ==
  /\ pc # "settled" => summary = <<>> /\ answer = "none"
  /\ pc = "settled" =>
       IF answer = "rejected" THEN summary = <<>>
       ELSE /\ summary = <<status, Len(rounds)>>
            /\ answer = "thrown" => status # "succeeded"

IInv ==
  /\ TypeOK
  /\ SignalsOK
  /\ OutcomeOK
  /\ StoryOK
  /\ ProgressOK
  /\ ReportOK

-----------------------------------------------------------------------------
LEMMA InitIInv ==
  Init => IInv
<1> SUFFICES ASSUME Init PROVE IInv
  OBVIOUS
<1>1. TypeOK
  <2>1. timed \in BOOLEAN /\ parent \in BOOLEAN /\ timer \in BOOLEAN /\ listening \in BOOLEAN
    BY DEF Init
  <2>2. round \in 0..MaxRounds /\ current \in 0..round
    BY LoopAssumption DEF Init
  <2>3. outcome \in [said : Values \cup Errors \cup {"nothing"},
                    status : RoundStatuses \cup {"none"}]
    BY DEF Init
  <2>4. calls \in [Rounds -> 0..MaxCalls]
    BY LoopAssumption DEF Init
  <2> QED BY <2>1, <2>2, <2>3, <2>4 DEF Init, TypeOK
<1>2. SignalsOK
  BY DEF Init, SignalsOK, SignalsAreLinked, UnderWay
<1>3. OutcomeOK /\ StoryOK /\ ProgressOK /\ ReportOK
  BY DEF Init, OutcomeOK, StoryOK, ProgressOK, ReportOK
<1> QED BY <1>1, <1>2, <1>3 DEF IInv

LEMMA StepTypes ==
  ASSUME IInv, [Next]_vars
  PROVE  /\ TypeOK'
         /\ parent => parent'
         /\ own = "timer" => own' = "timer"
         /\ round <= round'
<1>0. TypeOK /\ SignalsOK /\ OutcomeOK /\ StoryOK /\ ProgressOK /\ MaxRounds \in Nat /\ MaxCalls \in Nat
  BY LoopAssumption DEF IInv
<1> USE DEF vars, signalVars, reportVars, workVars, Next, Program
<1>1. timed' \in BOOLEAN /\ parent' \in BOOLEAN /\ timer' \in BOOLEAN /\ listening' \in BOOLEAN
  BY ZenonT(60), <1>0, LoopAssumption DEF TypeOK, ProgressOK, Rounds, RoundStatuses, Values, Errors, Aborted,
       AbortStatus, Verdict, StatusOf,
       Begin, Refuse, Opened, RoundBegins, RoundBeginsAborted, RoundEnds, AbortParent, TimerFires,
       CallTool, ToolEnds, LeftoverEnds, Record, Recorded, Finalize, WriteFails, GiveUp,
       Unlink, Advance
<1>2. /\ own' \in {"none", "parent", "timer"}
      /\ pc' \in {"idle", "refusing", "opening", "preparing", "running", "draining",
                  "recording", "finalizing", "settled"}
  BY <1>0, LoopAssumption DEF TypeOK, ProgressOK, Rounds, RoundStatuses, Values, Errors, Aborted,
       AbortStatus, Verdict, StatusOf,
       Begin, Refuse, Opened, RoundBegins, RoundBeginsAborted, RoundEnds, AbortParent, TimerFires,
       CallTool, ToolEnds, LeftoverEnds, Record, Recorded, Finalize, WriteFails, GiveUp,
       Unlink, Advance
<1>3. /\ status' \in {"none", "succeeded", "failed", "timed_out", "cancelled", "max_rounds"}
      /\ answer' \in {"none", "state", "envelope", "thrown", "rejected"}
  BY <1>0, LoopAssumption DEF TypeOK, ProgressOK, Rounds, RoundStatuses, Values, Errors, Aborted,
       AbortStatus, Verdict, StatusOf,
       Begin, Refuse, Opened, RoundBegins, RoundBeginsAborted, RoundEnds, AbortParent, TimerFires,
       CallTool, ToolEnds, LeftoverEnds, Record, Recorded, Finalize, WriteFails, GiveUp,
       Unlink, Advance
<1>4. round' \in 0..MaxRounds /\ current' \in 0..round' /\ round <= round'
  BY <1>0, LoopAssumption DEF TypeOK, ProgressOK, Rounds, RoundStatuses, Values, Errors, Aborted,
       AbortStatus, Verdict, StatusOf,
       Begin, Refuse, Opened, RoundBegins, RoundBeginsAborted, RoundEnds, AbortParent, TimerFires,
       CallTool, ToolEnds, LeftoverEnds, Record, Recorded, Finalize, WriteFails, GiveUp,
       Unlink, Advance
<1>5. outcome' \in [said : Values \cup Errors \cup {"nothing"},
                   status : RoundStatuses \cup {"none"}]
  BY <1>0, LoopAssumption DEF TypeOK, ProgressOK, Rounds, RoundStatuses, Values, Errors, Aborted,
       AbortStatus, Verdict, StatusOf,
       Begin, Refuse, Opened, RoundBegins, RoundBeginsAborted, RoundEnds, AbortParent, TimerFires,
       CallTool, ToolEnds, LeftoverEnds, Record, Recorded, Finalize, WriteFails, GiveUp,
       Unlink, Advance
<1>6. alive' \subseteq 1..round' /\ tools' \subseteq 1..round'
  BY <1>0, <1>4, LoopAssumption DEF TypeOK, ProgressOK, Rounds, RoundStatuses, Values, Errors, Aborted,
       AbortStatus, Verdict, StatusOf,
       Begin, Refuse, Opened, RoundBegins, RoundBeginsAborted, RoundEnds, AbortParent, TimerFires,
       CallTool, ToolEnds, LeftoverEnds, Record, Recorded, Finalize, WriteFails, GiveUp,
       Unlink, Advance
<1>7. calls' \in [Rounds -> 0..MaxCalls]
  BY <1>0, LoopAssumption DEF TypeOK, ProgressOK, Rounds, RoundStatuses, Values, Errors, Aborted,
       AbortStatus, Verdict, StatusOf,
       Begin, Refuse, Opened, RoundBegins, RoundBeginsAborted, RoundEnds, AbortParent, TimerFires,
       CallTool, ToolEnds, LeftoverEnds, Record, Recorded, Finalize, WriteFails, GiveUp,
       Unlink, Advance
<1>8. \A k \in DOMAIN rounds' :
        rounds'[k] \in RoundRecord
  <2>1. \A k \in DOMAIN rounds : rounds[k] \in RoundRecord
    BY <1>0 DEF StoryOK
  <2>2. CASE Record
    <3>1. outcome.status # "none"
      BY <1>0, <2>2 DEF OutcomeOK, OutcomeJustified, Record
    <3>2. round \in Rounds
      BY <1>0, <2>2 DEF ProgressOK, Record, Rounds, TypeOK, StoryOK
    <3>3. [status |-> outcome.status, said |-> outcome.said, input |-> current,
           tools |-> calls[round]] \in RoundRecord
      BY <1>0, <3>1, <3>2 DEF TypeOK, RoundRecord
    <3>4. rounds \in Seq(RoundRecord)
      BY <1>0 DEF StoryOK
    <3>5. rounds' \in Seq(RoundRecord)
      BY <2>2, <3>3, <3>4 DEF Record
    <3> QED BY <3>5
  <2>3. CASE ~Record
    <3>1. rounds' = rounds
      BY <2>3 DEF Begin, Refuse, Opened, RoundBegins, RoundBeginsAborted, RoundEnds, AbortParent, TimerFires,
       CallTool, ToolEnds, LeftoverEnds, Record, Recorded, Finalize, WriteFails, GiveUp,
       Unlink, Advance
    <3> QED BY <2>1, <3>1
  <2> QED BY <2>2, <2>3
<1>9. (parent => parent') /\ (own = "timer" => own' = "timer")
  BY <1>0 DEF SignalsOK, Begin, Refuse, Opened, RoundBegins, RoundBeginsAborted, RoundEnds, AbortParent, TimerFires,
       CallTool, ToolEnds, LeftoverEnds, Record, Recorded, Finalize, WriteFails, GiveUp,
       Unlink, Advance
<1> QED BY <1>1, <1>2, <1>3, <1>4, <1>5, <1>6, <1>7, <1>8, <1>9 DEF TypeOK, RoundRecord

LEMMA StepSignals ==
  ASSUME IInv, [Next]_vars
  PROVE  SignalsOK'
<1>0. LoopAssumption /\ IInv /\ [Next]_vars /\ TypeOK'
  BY LoopAssumption, StepTypes
<1> USE <1>0 DEF LoopAssumption, IInv, TypeOK, signalVars, reportVars, workVars,
        SignalsOK, Aborted, UnderWay, SignalsAreLinked
<1>1. ASSUME NEW safe \in BOOLEAN, Begin(safe) PROVE SignalsOK'
  BY <1>1 DEF Begin
<1>2. CASE Refuse
  BY <1>2 DEF Refuse, Unlink
<1>3. CASE Opened
  BY <1>3 DEF Opened, Advance
<1>4. CASE RoundBegins
  BY <1>4 DEF RoundBegins
<1>5. ASSUME NEW said \in Values \cup {"nothing"}, NEW leaves \in BOOLEAN, RoundBeginsAborted(said, leaves) PROVE SignalsOK'
  BY <1>5 DEF RoundBeginsAborted
<1>6. ASSUME NEW said \in Values \cup Errors, NEW leaves \in BOOLEAN, RoundEnds(said, leaves) PROVE SignalsOK'
  BY <1>6 DEF RoundEnds
<1>7. CASE Record
  BY <1>7 DEF Record, Drained
<1>8. CASE Recorded
  BY <1>8 DEF Recorded, Advance
<1>9. CASE Finalize
  BY <1>9 DEF Finalize, Unlink
<1>10. CASE WriteFails
  <2>1. \/ timer' = FALSE /\ listening' = FALSE
        \/ pc = "refusing" /\ timer' = timer /\ listening' = listening
    BY <1>10 DEF WriteFails, Unlink
  <2>2. pc' = "settled" /\ answer' = "rejected" /\ UNCHANGED <<timed, parent, own, round>>
    BY <1>10 DEF WriteFails
  <2>3. ~timed => ~timer' /\ ~listening'
    BY <2>1
  <2>4. (timer' \/ listening') => answer' = "rejected" /\ round' = 0
    BY <2>1, <2>2 DEF ProgressOK
  <2> QED BY <2>2, <2>3, <2>4
<1>11. ASSUME NEW r \in Rounds, CallTool(r) PROVE SignalsOK'
  BY <1>11 DEF CallTool
<1>12. ASSUME NEW r \in Rounds, ToolEnds(r) PROVE SignalsOK'
  BY <1>12 DEF ToolEnds
<1>13. ASSUME NEW r \in Rounds, LeftoverEnds(r) PROVE SignalsOK'
  BY <1>13 DEF LeftoverEnds
<1>14. CASE AbortParent
  BY <1>14 DEF AbortParent, GiveUp
<1>15. CASE TimerFires
  BY <1>15 DEF TimerFires, GiveUp
<1>16. CASE UNCHANGED vars
  BY <1>16 DEF vars
<1> HIDE DEF LoopAssumption, IInv, TypeOK, SignalsOK, Aborted, UnderWay, SignalsAreLinked
<1> QED BY <1>1, <1>2, <1>3, <1>4, <1>5, <1>6, <1>7, <1>8, <1>9, <1>10, <1>11, <1>12, <1>13, <1>14, <1>15, <1>16 DEF Next, Program

LEMMA StepOutcome ==
  ASSUME IInv, [Next]_vars
  PROVE  OutcomeOK'
<1>0. LoopAssumption /\ IInv /\ [Next]_vars /\ TypeOK'
  BY LoopAssumption, StepTypes
<1> USE <1>0 DEF LoopAssumption, IInv, TypeOK, signalVars, reportVars, workVars,
        OutcomeOK, OutcomeJustified, Aborted, AbortStatus, StatusOf, Values, Errors, SignalsOK
<1>1. ASSUME NEW safe \in BOOLEAN, Begin(safe) PROVE OutcomeOK'
  BY <1>1 DEF Begin
<1>2. CASE Refuse
  BY <1>2 DEF Refuse, Unlink
<1>3. CASE Opened
  BY <1>3 DEF Opened, Advance
<1>4. CASE RoundBegins
  BY <1>4 DEF RoundBegins
<1>5. ASSUME NEW said \in Values \cup {"nothing"}, NEW leaves \in BOOLEAN, RoundBeginsAborted(said, leaves) PROVE OutcomeOK'
  BY <1>5 DEF RoundBeginsAborted
<1>6. ASSUME NEW said \in Values \cup Errors, NEW leaves \in BOOLEAN, RoundEnds(said, leaves) PROVE OutcomeOK'
  BY <1>6 DEF RoundEnds
<1>7. CASE Record
  BY <1>7 DEF Record, Drained
<1>8. CASE Recorded
  BY <1>8 DEF Recorded, Advance
<1>9. CASE Finalize
  BY <1>9 DEF Finalize, Unlink
<1>10. CASE WriteFails
  BY <1>10 DEF WriteFails, Unlink
<1>11. ASSUME NEW r \in Rounds, CallTool(r) PROVE OutcomeOK'
  BY <1>11 DEF CallTool
<1>12. ASSUME NEW r \in Rounds, ToolEnds(r) PROVE OutcomeOK'
  BY <1>12 DEF ToolEnds
<1>13. ASSUME NEW r \in Rounds, LeftoverEnds(r) PROVE OutcomeOK'
  BY <1>13 DEF LeftoverEnds
<1>14. CASE AbortParent
  BY <1>14 DEF AbortParent, GiveUp
<1>15. CASE TimerFires
  BY <1>15 DEF TimerFires, GiveUp
<1>16. CASE UNCHANGED vars
  BY <1>16 DEF vars
<1> HIDE DEF LoopAssumption, IInv, TypeOK, OutcomeOK, OutcomeJustified, Aborted, AbortStatus, StatusOf, Values, Errors, SignalsOK
<1> QED BY <1>1, <1>2, <1>3, <1>4, <1>5, <1>6, <1>7, <1>8, <1>9, <1>10, <1>11, <1>12, <1>13, <1>14, <1>15, <1>16 DEF Next, Program

(* Between Record, which adds a round, and CallTool the story stands still. *)
LEMMA StepStory ==
  ASSUME IInv, [Next]_vars
  PROVE  StoryOK'
<1>0. /\ TypeOK /\ OutcomeOK /\ StoryOK /\ ProgressOK
      /\ rounds \in Seq(RoundRecord) /\ Len(rounds) \in Nat
      /\ round \in 0..MaxRounds /\ MaxRounds \in Nat /\ current \in 0..round
      /\ calls \in [Rounds -> 0..MaxCalls] /\ MaxCalls \in Nat
      /\ \A k \in 1..Len(rounds) : k \in Rounds /\ rounds[k] \in RoundRecord
  <2>1. /\ TypeOK /\ OutcomeOK /\ StoryOK /\ ProgressOK
        /\ MaxRounds \in Nat /\ MaxCalls \in Nat
    BY LoopAssumption DEF IInv
  <2>2. rounds \in Seq(RoundRecord) /\ Len(rounds) \in Nat /\ Len(rounds) <= round
    BY <2>1 DEF StoryOK
  <2>3. round \in 0..MaxRounds /\ current \in 0..round /\ calls \in [Rounds -> 0..MaxCalls]
    BY <2>1 DEF TypeOK
  <2>4. \A k \in 1..Len(rounds) : k \in Rounds /\ rounds[k] \in RoundRecord
    BY <2>1, <2>2, <2>3 DEF Rounds
  <2> QED BY <2>1, <2>2, <2>3, <2>4
<1>1. /\ parent => parent'
      /\ own = "timer" => own' = "timer"
      /\ round <= round' /\ round' \in Nat
  BY StepTypes DEF TypeOK
<1>3. CASE Record
  <2> DEFINE new == [status |-> outcome.status, said |-> outcome.said, input |-> current,
                     tools |-> calls[round]]
  <2>1. /\ pc = "draining" /\ round \notin tools /\ rounds' = Append(rounds, new)
        /\ UNCHANGED <<round, tools, calls>>
    BY <1>3 DEF Record, Drained, workVars
  <2>2. /\ Len(rounds) = round - 1 /\ current = round - 1 /\ OutcomeJustified(outcome)
        /\ \A k \in 1..Len(rounds) : rounds[k].said = "continue" /\ rounds[k].status = "completed"
    BY <1>0, <2>1 DEF ProgressOK, OutcomeOK
  <2>3. round \in Rounds
    BY <1>0, <2>2 DEF Rounds
  <2>4. new \in RoundRecord
    BY <1>0, <2>2, <2>3 DEF TypeOK, RoundRecord, OutcomeJustified
  <2>5. OutcomeJustified(new)
    BY <2>2 DEF OutcomeJustified
  <2> HIDE DEF new
  <2>6. /\ rounds' \in Seq(RoundRecord) /\ Len(rounds') = round
        /\ \A k \in 1..Len(rounds) : rounds'[k] = rounds[k]
        /\ rounds'[round] = new
    BY <1>0, <2>1, <2>2, <2>4
  <2>7. /\ new.input = round - 1 /\ new.tools = calls[round]
    BY <2>2 DEF new
  <2>8. ASSUME NEW k \in 1..Len(rounds')
        PROVE  /\ rounds'[k].input = k - 1
               /\ k < Len(rounds') => rounds'[k].said = "continue" /\ rounds'[k].status = "completed"
               /\ OutcomeJustified(rounds[k])'
               /\ rounds'[k].tools <= calls'[k]
               /\ k \in tools' => rounds'[k].tools < calls'[k]
    <3>1. CASE k = round
      <4>1. OutcomeJustified(rounds[k])'
        BY <1>1, <2>5, <2>6, <3>1 DEF OutcomeJustified
      <4> QED BY <1>0, <2>1, <2>3, <2>6, <2>7, <3>1, <4>1
    <3>2. CASE k # round
      <4>1. k \in 1..Len(rounds) /\ rounds'[k] = rounds[k]
        BY <1>0, <2>2, <2>6, <3>2
      <4>2. OutcomeJustified(rounds[k])'
        BY <1>0, <1>1, <4>1 DEF StoryOK, OutcomeJustified
      <4> QED BY <1>0, <2>1, <2>2, <4>1, <4>2 DEF StoryOK
    <3> QED BY <3>1, <3>2
  <2>9. Len(rounds') <= round'
    BY <1>1, <2>1, <2>6
  <2> QED BY <2>6, <2>8, <2>9 DEF StoryOK
<1>4. ASSUME NEW r \in Rounds, CallTool(r) PROVE StoryOK'
  <2>1. /\ rounds' = rounds /\ tools' = tools \cup {r}
        /\ calls' = [calls EXCEPT ![r] = calls[r] + 1]
    BY <1>4 DEF CallTool
  <2>2. \A k \in Rounds : calls'[k] = IF k = r THEN calls[r] + 1 ELSE calls[k]
    BY <1>0, <2>1
  <2>3. \A k \in Rounds : calls[k] \in Nat
    BY <1>0
  <2>4. \A k \in 1..Len(rounds) : rounds[k].tools \in Nat
    BY <1>0 DEF RoundRecord
  <2>5. \A k \in 1..Len(rounds) : OutcomeJustified(rounds[k])'
    BY <1>0, <1>1, <2>1 DEF StoryOK, OutcomeJustified
  <2> QED BY SMTT(40), <1>0, <1>1, <2>1, <2>2, <2>3, <2>4, <2>5 DEF StoryOK
<1>5. CASE ~Record /\ ~\E r \in Rounds : CallTool(r)
  <2>1. rounds' = rounds /\ calls' = calls /\ tools' \subseteq tools
    BY <1>5 DEF Next, Program, vars, workVars, reportVars, Begin, Refuse, Opened, RoundBegins,
       RoundBeginsAborted, RoundEnds, AbortParent, TimerFires, ToolEnds, LeftoverEnds,
       Recorded, Finalize, WriteFails
  <2>2. \A k \in 1..Len(rounds) : OutcomeJustified(rounds[k])'
    BY <1>0, <1>1, <2>1 DEF StoryOK, OutcomeJustified
  <2> QED BY <1>0, <1>1, <2>1, <2>2 DEF StoryOK
<1> QED BY <1>3, <1>4, <1>5

LEMMA JustifiedStays ==
  ASSUME Justified, parent => parent', own = "timer" => own' = "timer",
         status \in {"succeeded", "failed", "timed_out", "cancelled", "max_rounds"},
         UNCHANGED <<status, rounds>>
  PROVE  Justified'
BY DEF Justified

LEMMA StepProgress ==
  ASSUME IInv, [Next]_vars
  PROVE  ProgressOK'
<1>0. /\ TypeOK /\ OutcomeOK /\ StoryOK /\ ProgressOK /\ SignalsOK /\ ReportOK
      /\ rounds \in Seq(RoundRecord) /\ Len(rounds) \in Nat
      /\ round \in 0..MaxRounds /\ MaxRounds \in Nat \ {0}
  BY LoopAssumption DEF IInv, TypeOK, StoryOK
<1>1. /\ parent => parent'
      /\ own = "timer" => own' = "timer"
  BY StepTypes
(* A loop that goes on with the next round, or finds itself aborted.       *)
<1>2. ASSUME Advance, UNCHANGED <<parent, own, timed, rounds>>,
             Len(rounds) = round, current' = round,
             \A k \in 1..Len(rounds) : rounds[k].said = "continue" /\ rounds[k].status = "completed"
      PROVE  ProgressOK'
  <2>1. CASE Aborted
    <3>1. pc' = "finalizing" /\ status' = AbortStatus /\ round' = round
      BY <1>2, <2>1 DEF Advance
    <3>2. Justified'
      <4>1. CASE parent
        BY <1>2, <3>1, <4>1 DEF Justified, AbortStatus
      <4>2. CASE ~parent
        <5>1. own = "timer"
          BY <1>0, <2>1, <4>2 DEF Aborted, SignalsOK, TypeOK
        <5> QED BY <1>2, <3>1, <4>2, <5>1 DEF Justified, AbortStatus
      <4> QED BY <4>1, <4>2
    <3>3. Completed' = 1..Len(rounds)
      BY <1>0, <1>2 DEF Completed
    <3> QED BY <1>0, <1>2, <3>1, <3>2, <3>3 DEF ProgressOK, AbortStatus
  <2>2. CASE ~Aborted
    <3>1. pc' = "preparing" /\ round' = round + 1
      BY <1>2, <2>2 DEF Advance
    <3> QED BY <1>0, <1>2, <3>1 DEF ProgressOK
  <2> QED BY <2>1, <2>2
(* Steps that leave the place and the story alone.                         *)
<1>3. ASSUME UNCHANGED <<round, current, rounds, status, answer>>,
             \/ pc' = pc /\ outcome' = outcome
             \/ pc \in {"preparing", "running"} /\ pc' \in {"running", "draining"}
      PROVE  ProgressOK'
  <2>1. CASE pc \in {"finalizing", "settled"} /\ answer # "rejected"
    <3>1. pc' = pc /\ Justified /\ status # "none"
      BY <1>0, <1>3, <2>1 DEF ProgressOK
    <3>2. Justified'
      BY <1>0, <1>1, <1>3, <3>1, JustifiedStays DEF TypeOK
    <3> QED BY <1>0, <1>3, <2>1, <3>1, <3>2 DEF ProgressOK, Completed
  <2>2. CASE ~(pc \in {"finalizing", "settled"} /\ answer # "rejected")
    BY <1>0, <1>3, <2>2 DEF ProgressOK
  <2> QED BY <2>1, <2>2
<1>4. CASE Begin(TRUE) \/ Begin(FALSE)
  BY <1>0, <1>4 DEF Begin, ProgressOK
<1>5. CASE Refuse
  <2>1. /\ pc' = "settled" /\ status' = "failed" /\ rounds = <<>> /\ round = 0 /\ current = 0
        /\ UNCHANGED <<round, current, rounds>>
    BY <1>0, <1>5 DEF Refuse, ProgressOK
  <2>2. Justified'
    BY <2>1 DEF Justified
  <2> QED BY <2>1, <2>2 DEF ProgressOK, Completed
<1>6. CASE Opened
  <2>1. /\ Advance /\ UNCHANGED <<parent, own, timed, rounds, current>>
        /\ round = 0 /\ rounds = <<>> /\ current = 0
    BY <1>0, <1>6 DEF Opened, ProgressOK, signalVars
  <2> QED BY <1>2, <2>1
<1>7. CASE \/ RoundBegins
           \/ \E said \in Values \cup {"nothing"}, leaves \in BOOLEAN :
                RoundBeginsAborted(said, leaves)
           \/ \E said \in Values \cup Errors, leaves \in BOOLEAN : RoundEnds(said, leaves)
  <2>1. /\ UNCHANGED <<round, current, rounds, status, answer>>
        /\ pc \in {"preparing", "running"} /\ pc' \in {"running", "draining"}
    BY <1>7 DEF RoundBegins, RoundBeginsAborted, RoundEnds, reportVars
  <2> QED BY <1>3, <2>1
<1>8. CASE \/ \E r \in Rounds : CallTool(r) \/ ToolEnds(r) \/ LeftoverEnds(r)
           \/ AbortParent \/ TimerFires \/ UNCHANGED vars
  <2>1. UNCHANGED <<round, current, rounds, status, answer>>
    BY <1>8 DEF CallTool, ToolEnds, LeftoverEnds, AbortParent, TimerFires, vars, reportVars
  <2>2. (pc' = pc /\ outcome' = outcome) \/ (pc = "running" /\ pc' = "draining")
    BY <1>8 DEF CallTool, ToolEnds, LeftoverEnds, AbortParent, TimerFires, GiveUp, vars
  <2> QED BY <1>3, <2>1, <2>2
<1>9. CASE Record
  <2>1. /\ pc = "draining" /\ pc' = "recording" /\ UNCHANGED <<round, current, outcome>>
        /\ rounds' = Append(rounds, [status |-> outcome.status, said |-> outcome.said,
                                     input |-> current, tools |-> calls[round]])
    BY <1>9 DEF Record
  <2>2. Len(rounds) = round - 1 /\ current = round - 1
    BY <1>0, <2>1 DEF ProgressOK
  <2>3. /\ Len(rounds') = round
        /\ rounds'[round].status = outcome.status /\ rounds'[round].said = outcome.said
    BY <1>0, <2>1, <2>2
  <2> QED BY <1>0, <2>1, <2>2, <2>3 DEF ProgressOK
<1>10. CASE Recorded
  <2>1. /\ pc = "recording" /\ UNCHANGED <<parent, own, timed, rounds, outcome>>
        /\ current' = IF outcome.status = "completed" THEN round ELSE current
        /\ IF Verdict = "none" THEN Advance
           ELSE pc' = "finalizing" /\ status' = Verdict /\ UNCHANGED round
    BY <1>10 DEF Recorded, signalVars
  <2>2. /\ Len(rounds) = round /\ round >= 1 /\ current = round - 1 /\ round \in 1..Len(rounds)
        /\ rounds[round].status = outcome.status /\ rounds[round].said = outcome.said
        /\ OutcomeJustified(outcome)
        /\ outcome.status \in RoundStatuses
    BY <1>0, <2>1 DEF ProgressOK, OutcomeOK, TypeOK, OutcomeJustified
  <2>3. \A k \in 1..Len(rounds) :
          k < round => rounds[k].said = "continue" /\ rounds[k].status = "completed"
    BY <1>0, <2>2 DEF StoryOK
  <2>4. CASE Verdict = "none"
    <3>1. outcome.status = "completed" /\ outcome.said = "continue"
      BY <2>2, <2>4 DEF Verdict, OutcomeJustified
    <3> QED BY <1>0, <1>2, <2>1, <2>2, <2>3, <2>4, <3>1
  <2>5. CASE Verdict # "none"
    <3>1. pc' = "finalizing" /\ status' = Verdict /\ round' = round
      BY <2>1, <2>5
    <3>2. Justified'
      <4>1. CASE outcome.status # "completed"
        <5>1. status' = outcome.status
          BY <3>1, <4>1 DEF Verdict
        <5> QED BY <2>1, <2>2, <4>1, <5>1 DEF Justified, OutcomeJustified, RoundStatuses
      <4>2. CASE outcome.status = "completed" /\ outcome.said = "done"
        BY <2>1, <2>2, <3>1, <4>2 DEF Justified, Verdict
      <4>3. CASE outcome.status = "completed" /\ outcome.said # "done"
        BY <2>1, <2>2, <2>5, <3>1, <4>3 DEF Justified, Verdict, OutcomeJustified
      <4> QED BY <4>1, <4>2, <4>3
    <3>3. /\ \A k \in Completed' : k <= current'
          /\ current' \in Completed' \cup {0}
      <4>1. Completed' = {k \in 1..Len(rounds) : rounds[k].status = "completed"}
        BY <1>0, <2>1 DEF Completed
      <4>2. CASE outcome.status = "completed"
        BY <1>0, <2>1, <2>2, <4>1, <4>2
      <4>3. CASE outcome.status # "completed"
        <5>1. current' = round - 1 /\ round \notin Completed'
          BY <2>1, <2>2, <4>1, <4>3
        <5> QED BY <1>0, <2>2, <2>3, <4>1, <5>1
      <4> QED BY <4>2, <4>3
    <3> QED BY <2>1, <2>2, <2>5, <3>1, <3>2, <3>3 DEF ProgressOK
  <2> QED BY <2>4, <2>5
<1>11. CASE Finalize
  <2>1. /\ pc = "finalizing" /\ pc' = "settled" /\ answer # "rejected"
        /\ UNCHANGED <<parent, own, round, current, rounds, status>>
    BY <1>0, <1>11 DEF Finalize, ReportOK
  <2>2. Justified'
    BY <1>0, <1>1, <2>1, JustifiedStays DEF ProgressOK, TypeOK
  <2> QED BY <1>0, <2>1, <2>2 DEF ProgressOK, Completed
<1>12. CASE WriteFails
  BY <1>12 DEF WriteFails, ProgressOK
<1> QED BY <1>4, <1>5, <1>6, <1>7, <1>8, <1>9, <1>10, <1>11, <1>12 DEF Next, Program

LEMMA StepReport ==
  ASSUME IInv, [Next]_vars
  PROVE  ReportOK'
<1>0. LoopAssumption /\ IInv /\ [Next]_vars /\ TypeOK'
  BY LoopAssumption, StepTypes
<1> USE <1>0 DEF LoopAssumption, IInv, TypeOK, signalVars, reportVars, workVars,
        ReportOK, Verdict, ProgressOK, Justified
<1>1. ASSUME NEW safe \in BOOLEAN, Begin(safe) PROVE ReportOK'
  BY <1>1 DEF Begin
<1>2. CASE Refuse
  BY <1>2 DEF Refuse, Unlink
<1>3. CASE Opened
  BY <1>3 DEF Opened, Advance
<1>4. CASE RoundBegins
  BY <1>4 DEF RoundBegins
<1>5. ASSUME NEW said \in Values \cup {"nothing"}, NEW leaves \in BOOLEAN, RoundBeginsAborted(said, leaves) PROVE ReportOK'
  BY <1>5 DEF RoundBeginsAborted
<1>6. ASSUME NEW said \in Values \cup Errors, NEW leaves \in BOOLEAN, RoundEnds(said, leaves) PROVE ReportOK'
  BY <1>6 DEF RoundEnds
<1>7. CASE Record
  BY <1>7 DEF Record, Drained
<1>8. CASE Recorded
  BY <1>8 DEF Recorded, Advance
<1>9. CASE Finalize
  BY <1>9 DEF Finalize, Unlink
<1>10. CASE WriteFails
  BY <1>10 DEF WriteFails, Unlink
<1>11. ASSUME NEW r \in Rounds, CallTool(r) PROVE ReportOK'
  BY <1>11 DEF CallTool
<1>12. ASSUME NEW r \in Rounds, ToolEnds(r) PROVE ReportOK'
  BY <1>12 DEF ToolEnds
<1>13. ASSUME NEW r \in Rounds, LeftoverEnds(r) PROVE ReportOK'
  BY <1>13 DEF LeftoverEnds
<1>14. CASE AbortParent
  BY <1>14 DEF AbortParent, GiveUp
<1>15. CASE TimerFires
  BY <1>15 DEF TimerFires, GiveUp
<1>16. CASE UNCHANGED vars
  BY <1>16 DEF vars
<1> HIDE DEF LoopAssumption, IInv, TypeOK, ReportOK, Verdict, ProgressOK, Justified
<1> QED BY <1>1, <1>2, <1>3, <1>4, <1>5, <1>6, <1>7, <1>8, <1>9, <1>10, <1>11, <1>12, <1>13, <1>14, <1>15, <1>16 DEF Next, Program

-----------------------------------------------------------------------------
LEMMA StepIInv ==
  ASSUME IInv, [Next]_vars
  PROVE  IInv'
BY StepTypes, StepSignals, StepOutcome, StepStory, StepProgress, StepReport DEF IInv

LEMMA Invariance ==
  Spec => []IInv
<1>1. Init => IInv
  BY InitIInv
<1>2. IInv /\ [Next]_vars => IInv'
  BY StepIInv
<1> QED BY <1>1, <1>2, PTL DEF Spec

LEMMA IInvTells ==
  IInv => LoopTellsItsStory
<1> SUFFICES ASSUME IInv PROVE LoopTellsItsStory
  OBVIOUS
<1>0. /\ TypeOK /\ OutcomeOK /\ StoryOK /\ ProgressOK /\ ReportOK
      /\ rounds \in Seq(RoundRecord) /\ Len(rounds) \in Nat
      /\ DOMAIN rounds = 1..Len(rounds)
  BY DEF IInv, StoryOK
<1>1. ToolsAreRecorded
  <2> SUFFICES ASSUME NEW k \in DOMAIN rounds, k \in tools
               PROVE  calls[k] > rounds[k].tools
    BY DEF ToolsAreRecorded
  <2>1. k \in Rounds /\ rounds[k] \in RoundRecord /\ rounds[k].tools < calls[k]
    BY <1>0, LoopAssumption DEF StoryOK, TypeOK, Rounds
  <2>2. calls[k] \in Nat /\ rounds[k].tools \in Nat
    BY <1>0, <2>1, LoopAssumption DEF TypeOK, RoundRecord
  <2> QED BY <2>1, <2>2
<1>2. \A k \in DOMAIN rounds :
        /\ rounds[k].input = k - 1
        /\ k < Len(rounds) => rounds[k].said = "continue"
        /\ k \in Completed => rounds[k].said \in {"continue", "done"}
  BY <1>0 DEF StoryOK, OutcomeJustified, Completed
<1>3. pc \in {"finalizing", "settled"} /\ answer # "rejected" =>
        /\ Len(rounds) = round /\ Justified
        /\ \A k \in Completed : k <= current
        /\ current \in Completed \cup {0}
  BY <1>0 DEF ProgressOK
<1>4. pc = "settled" =>
        IF answer = "rejected" THEN summary = <<>>
        ELSE /\ summary = <<status, Len(rounds)>>
             /\ answer = "thrown" => status # "succeeded"
  BY <1>0 DEF ReportOK
<1> QED BY <1>0, <1>1, <1>2, <1>3, <1>4 DEF LoopTellsItsStory

(* The records of a loop are a story without gaps, and its report is the   *)
(* one that the story justifies (runLoop() in loop/run.ts), for every      *)
(* number of rounds, of tools in a round and of callbacks left behind.     *)
THEOREM LoopTellsItsStoryHolds ==
  Spec => []LoopTellsItsStory
BY Invariance, IInvTells, PTL

(* A loop under way hears its caller, and its timer if it has one, until   *)
(* it is aborted; one that is over has unlinked itself (the signals and    *)
(* the finally block of runLoop() in loop/run.ts), but for the refused     *)
(* initial state that could not be written down.                           *)
THEOREM SignalsAreLinkedHolds ==
  Spec => []SignalsAreLinked
<1>1. IInv => SignalsAreLinked
  BY DEF IInv, SignalsOK
<1> QED BY <1>1, Invariance, PTL

(* The step form of the promise that an aborted loop makes: no step of one *)
(* under way begins a tool or a round.                                     *)
NoMoreWork == Aborted /\ UnderWay => tools' \subseteq tools /\ round' = round

LEMMA StepNoMoreWork ==
  ASSUME [Next]_vars
  PROVE  NoMoreWork
<1> SUFFICES ASSUME Aborted, UnderWay PROVE tools' \subseteq tools /\ round' = round
  BY DEF NoMoreWork
<1>1. tools' \subseteq tools
  BY DEF Next, Program, vars, workVars, reportVars, Begin, Refuse, Opened, RoundBegins,
     RoundBeginsAborted, RoundEnds, AbortParent, TimerFires, CallTool, ToolEnds, LeftoverEnds,
     Record, Recorded, Finalize, WriteFails
<1>2. round' = round
  BY DEF Next, Program, vars, workVars, reportVars, Begin, Refuse, Opened, RoundBegins,
     RoundBeginsAborted, RoundEnds, AbortParent, TimerFires, CallTool, ToolEnds, LeftoverEnds,
     Record, Recorded, Finalize, WriteFails, Advance
<1> QED BY <1>1, <1>2

(* An aborted loop begins no tool and no other round (runLoopTool() in     *)
(* workflow/dsl.ts, and the test of loopSignal.aborted at the top of a     *)
(* round in loop/run.ts).                                                  *)
THEOREM AbortedLoopBeginsNothing ==
  Spec => [][Aborted /\ UnderWay => tools' \subseteq tools /\ round' = round]_vars
<1>1. [Next]_vars => [NoMoreWork]_vars
  BY StepNoMoreWork
<1>2. Spec => [][NoMoreWork]_vars
  BY <1>1, PTL DEF Spec
<1> QED BY <1>2 DEF NoMoreWork

=============================================================================
