------------------------------ MODULE AgentIds ------------------------------
(* The ids of the agents that a loaded workflow calls: runDirectAgent and  *)
(* resolveLoopAgentId in workflow/dsl.ts, the agent() of the context of a  *)
(* round in loop/context.ts, and the inner calls of a shared agent in      *)
(* shared-agents/execute.ts.  The directory of an agent, its place in the  *)
(* scheduler and its entry in the records of rounds and stages are all     *)
(* found by this id.                                                       *)
(*                                                                         *)
(* A context is the sequence of the instances around a call, from the root *)
(* inwards: [frame, place, index], an invocation of a workflow (main), a   *)
(* round of a loop, or the work of a stage on an item.  place is the path  *)
(* in the script; loops at one place of two scripts have the same label.   *)
(* An id is what the author gave, a number nobody else has, or made of the *)
(* pipeline, item and stage, or of the label and round of a loop.          *)
(* An operator that no other definition uses is a variant of the one after *)
(* it, with one mistake in it; the run uses it to test the property.       *)
EXTENDS WorkflowLoading

CONSTANTS
  IdTexts,  \* what an author may write as an id or a label
  Indices   \* bound: the rounds of a loop, and the items of a pipeline

None == "none"

VARIABLES
  issued,   \* the calls so far: [outer, by, context, given, text, id]
  counters  \* the numbers used in a stage, in a round, and in the run

callVars == <<issued, counters>>

-----------------------------------------------------------------------------
(* The contexts in which the call at a place of a script may be made, when *)
(* the script is invoked in the context outer.                             *)
Repeated == Rounds \cup {"stage"}
Instance(frame, place, index) == [frame |-> frame, place |-> place, index |-> index]

Contexts(outer, path) ==
  LET Spread(contexts, i) ==
        IF path[i] \in Repeated
        THEN {Append(c, Instance(path[i], SubSeq(path, 1, i), k)) :
                c \in contexts, k \in Indices}
        ELSE contexts
  IN FoldLeft(Spread, {Append(outer, Instance("main", <<>>, 0))},
              [i \in DOMAIN path |-> i])

SitesOf(name, method) ==
  {s \in registry[name].text.script.sites : s.method = method /\ Bound(s)}

(* The root, and what it calls itself.                                     *)
Invocations ==
  {<<RootName, <<>>>>}
  \cup UNION {{<<s.arg.ref, c>> : c \in Contexts(<<>>, s.path)} :
                s \in {s \in SitesOf(RootName, "workflow") : s.arg.ref \in DOMAIN registry}}

Innermost(context, frames) ==
  Max({0} \cup {i \in DOMAIN context : context[i].frame \in frames})

(* An active loop or pipeline surrounds the invocations below it as well.  *)
ActiveLoop(context) == Innermost(context, Rounds)
ActiveStage(context) == Innermost(context, {"stage"})
IsChildWorkflow(context) == Innermost(context, {"main"}) > ActiveLoop(context)

-----------------------------------------------------------------------------
(* Each stage at work on an item and each round has a counter of its own;  *)
(* the run has one for loops and makes unique ids for the rest.            *)
Counter(context, i) == <<SubSeq(context, 1, i), i>>
OfRun == <<<<>>, 0>>
Unique == <<<<>>, 1>>

NextOf(numbers, key) == IF key \in DOMAIN numbers THEN numbers[key] + 1 ELSE 1
Taken(numbers, key) == Put(numbers, key, NextOf(numbers, key))

GivenId(text) == <<"given", text>>
StageIdOfAnyItem(context, i, n) ==
  <<"stage", SubSeq(context, 1, i - 1), context[i].place, n>>
StageId(context, i, n) == <<"stage", SubSeq(context, 1, i), n>>
RoundId(context, i, suffix) ==
  <<"round", context[i].place, context[i].index, suffix>>

(* ctx.agent(): an id given, the label, or the number of the call in its   *)
(* round, which counts the labelled ones too.                              *)
CtxAgent(context, text, label, numbers) ==
  LET i == ActiveLoop(context)
      key == Counter(context, i)
  IN IF text # None THEN [id |-> <<GivenId(text)>>, numbers |-> numbers]
     ELSE [ id |-> <<RoundId(context, i, IF label # None THEN <<"text", label>>
                                         ELSE <<"agent", NextOf(numbers, key)>>)>>,
            numbers |-> Taken(numbers, key) ]

(* An agent without an id takes one from the stage or a unique one.        *)
BaseId(context, given, numbers) ==
  LET i == ActiveStage(context)
      key == IF i = 0 THEN Unique ELSE Counter(context, i)
      n == NextOf(numbers, key)
  IN IF given # <<>> THEN [id |-> given[1], numbers |-> numbers]
     ELSE [ id |-> IF i = 0 THEN <<"unique", n>> ELSE StageId(context, i, n),
            numbers |-> Taken(numbers, key) ]

(* resolveLoopAgentId: in a round, the label or another number takes its   *)
(* place, and the id that a child workflow gave is marked with the round.  *)
Resolved(context, given, label, numbers) ==
  LET i == ActiveLoop(context)
      base == BaseId(context, given, numbers)
      Suffixed(suffix, left) == [id |-> RoundId(context, i, suffix), numbers |-> left]
  IN CASE i = 0 \/ (given # <<>> /\ given[1][1] = "round") -> base
       [] i # 0 /\ given = <<>> ->
            IF label # None THEN Suffixed(<<"text", label>>, base.numbers)
            ELSE Suffixed(<<"agent", NextOf(base.numbers, OfRun)>>,
                          Taken(base.numbers, OfRun))
       [] i # 0 /\ given # <<>> /\ given[1][1] = "given" ->
            IF IsChildWorkflow(context) THEN Suffixed(<<"text", given[1][2]>>, base.numbers)
            ELSE base

-----------------------------------------------------------------------------
(* A call names an agent of its own, or a shared one, whose definition may *)
(* call agents several times: with the id of the call, and with the id of  *)
(* the shared agent as their label.                                        *)
IsShared(site) == site.arg.ref \in DOMAIN agents
By(site) == IF site.on = "global" THEN "global" ELSE "ctx"

Handed(site, context, text, label) ==
  IF By(site) = "ctx" THEN CtxAgent(context, text, label, counters)
  ELSE [ id |-> IF text = None THEN <<>> ELSE <<GivenId(text)>>, numbers |-> counters ]

CallAgent(site, context, text, label, inner) ==
  LET handed == Handed(site, context, text, label)
      inLabel == IF IsShared(site) THEN site.arg.ref ELSE label
      first == Resolved(context, handed.id, inLabel, handed.numbers)
      second == Resolved(context, handed.id, inLabel, first.numbers)
      Call(id) ==
        [ outer |-> Len(issued), by |-> By(site), context |-> context, given |-> text,
          text |-> IF text # None THEN text
                   ELSE IF By(site) = "ctx" THEN label ELSE inLabel,
          id |-> id ]
  IN /\ text = None \/ label = None
     /\ inner = 2 => IsShared(site)
     /\ Len(issued) + inner <= project.calls
     /\ IF inner = 1
        THEN issued' = Append(issued, Call(first.id)) /\ counters' = first.numbers
        ELSE issued' = issued \o <<Call(first.id), Call(second.id)>>
             /\ counters' = second.numbers

AgentIsCalled ==
  /\ stage = "ready" /\ Len(issued) < project.calls
  /\ \E invocation \in Invocations :
       \E site \in SitesOf(invocation[1], "agent") :
         \E context \in Contexts(invocation[2], site.path) :
           \E text, label \in IdTexts \cup {None}, inner \in 1..2 :
             CallAgent(site, context, text, label, inner)
  /\ UNCHANGED vars

RunInit == Init /\ issued = <<>> /\ counters = <<>>
RunNext == (Next /\ UNCHANGED callVars) \/ AgentIsCalled
RunSpec == RunInit /\ [][RunNext]_<<vars, callVars>>

-----------------------------------------------------------------------------
InLoop(call) == ActiveLoop(call.context) # 0
Activation(call) == SubSeq(call.context, 1, ActiveLoop(call.context))
SameRound(c, d) ==
  /\ InLoop(c) /\ InLoop(d)
  /\ RoundId(c.context, ActiveLoop(c.context), None)
       = RoundId(d.context, ActiveLoop(d.context), None)

(* Two agents share an id, and so a directory and a place in the running   *)
(* map of the scheduler, only in these ways: the author gave both the same *)
(* id; in rounds of one label and number, both have the same text as id or *)
(* label, or none and were called once through the context and once        *)
(* without, or in two invocations; or they are inner calls of one call of  *)
(* a shared agent, which was given an id or stood in a round.  Outside of  *)
(* loops no two agents without ids share one, in whatever stages, tasks    *)
(* and child workflows they are called.                                    *)
MayShareId(c, d) ==
  \/ c.given = d.given /\ c.given # None
  \/ c.outer = d.outer /\ (c.given # None \/ InLoop(c))
  \/ /\ SameRound(c, d) /\ c.text = d.text
     /\ c.text = None => c.by # d.by \/ (c.by = "ctx" /\ Activation(c) # Activation(d))

IdsAreExplained ==
  \A i, j \in DOMAIN issued :
    i # j /\ issued[i].id = issued[j].id => MayShareId(issued[i], issued[j])
=============================================================================
