-------------------------- MODULE InvocationsProofs --------------------------
(***************************************************************************)
(* Proofs about Invocations, for any number of invocations and of agents,  *)
(* any limits and any deadlines.                                           *)
(***************************************************************************)
EXTENDS Invocations, FiniteSetTheorems, NaturalsInduction, WellFoundedInduction, TLAPS

-----------------------------------------------------------------------------
(* The inductive invariant.  The invocations are numbered in the order of  *)
(* the calls, and the ancestry of one is that of its parent and itself;    *)
(* an invocation has children only once it has begun.                      *)
NotBegun == {"unborn", "beginning", "rejecting"}

Statuses == {"succeeded", "failed", "timed_out", "cancelled"}

FunctionsOK ==
  /\ path \in [Invs -> SUBSET Invs] /\ permits \in [Invs -> Int]
  /\ queue \in [Invs -> Seq(Agents)]
  /\ summary \in [Invs -> Seq(Statuses)] /\ events \in [Invs -> Seq(Statuses \cup {"started"})]

TreeOK ==
  /\ path[0] = {0} /\ pc[0] # "unborn"
  /\ \A i \in Invs : pc[i] = "unborn" => path[i] = {i} /\ permits[i] = -1
  /\ \A i, j \in Invs : pc[i] = "unborn" /\ i <= j => pc[j] = "unborn"
  /\ \A i \in Invs \ {0} : pc[i] # "unborn" =>
       \E p \in 0..(i - 1) : path[i] = path[p] \cup {i} /\ pc[p] \notin NotBegun
  /\ \A i \in Invs : script[i] # "none" => pc[i] \notin NotBegun

AncestryOK ==
  \A i \in Invs : \A j \in path[i] :
    /\ path[j] = path[i] \cap (0..j)
    /\ pc[i] # "unborn" => pc[j] # "unborn"

(* A linked signal has heard the abort of its parent.                      *)
SignalsOK ==
  \A i \in Invs \ {0} :
    /\ pc[i] \in {"unborn", "beginning"} => ~linked[i] /\ ~timer[i] /\ signal[i] = "none"
    /\ pc[i] \in {"running", "saving"} => linked[i]
    /\ linked[i] /\ signal[Parent(i)] # "none" => signal[i] # "none"

(* An error that stands for an abort can be traced to a signal above the   *)
(* invocation or below it.                                                 *)
Related(i, j) == j \in path[i] \/ i \in path[j]
Explained(i, e) ==
  e \in {"timed_out", "cancelled"} => \E j \in Invs : Related(i, j) /\ signal[j] = e

ErrorsOK ==
  \A i \in Invs :
    /\ Explained(i, error[i])
    /\ pc[i] \in {"failing", "rejecting"} => error[i] # "none"
    /\ i # 0 /\ outcome[i] = "thrown" => error[i] # "none"

Told(i) ==
  \/ summary[i] = <<>> /\ outcome[i] = "thrown"
  \/ \E s \in {"succeeded", "failed", "timed_out", "cancelled"} :
       /\ summary[i] = <<s>>
       /\ s = "succeeded" <=> outcome[i] = "value"
       /\ events[i] \in {<<>>, <<s>>, <<"started", s>>}
       /\ Explained(i, s)

StoryOK ==
  \A i \in Invs :
    /\ pc[i] # "done" => summary[i] = <<>> /\ outcome[i] = "none"
    /\ pc[i] \in NotBegun => events[i] = <<>>
    /\ pc[i] \in {"running", "saving"} => events[i] = <<"started">>
    /\ pc[i] = "failing" => events[i] \in {<<>>, <<"started">>}
    /\ pc[i] = "done" => Told(i)

(* An agent has passed the semaphores of its invocation from the outermost *)
(* to the innermost, and waits, if it does, for the first it has not.      *)
AgentsOK ==
  \A a \in Agents :
    /\ agent[a] = "idle" => held[a] = {} /\ owner[a] = 0
    /\ agent[a] # "idle" => pc[owner[a]] # "unborn"
    /\ agent[a] = "working" => held[a] = Semaphores(owner[a])
    /\ agent[a] \in {"acquiring", "queued"} =>
         /\ held[a] \subseteq Semaphores(owner[a]) /\ Ahead(a) # {}
         /\ \A x \in held[a], y \in Ahead(a) : x < y

Elems(q) == {q[n] : n \in 1..Len(q)}
NoRepeats(q) == \A m, n \in 1..Len(q) : q[m] = q[n] => m = n

Waiting(s) == {a \in Agents : agent[a] = "queued" /\ Min(Ahead(a)) = s}
Holders(s) == {a \in Agents : s \in held[a]}

QueuesOK ==
  \A s \in Invs : NoRepeats(queue[s]) /\ Elems(queue[s]) = Waiting(s)

PermitsOK ==
  \A s \in Invs : HasSemaphore(s) =>
    /\ Cardinality(Holders(s)) = permits[s]
    /\ queue[s] # <<>> => permits[s] = limit[s]

IInv ==
  /\ TypeOK
  /\ FunctionsOK
  /\ TreeOK
  /\ AncestryOK
  /\ SignalsOK
  /\ ErrorsOK
  /\ StoryOK
  /\ AgentsOK
  /\ QueuesOK
  /\ PermitsOK

-----------------------------------------------------------------------------
(* Least and greatest elements.                                            *)
LEMMA MinOf ==
  ASSUME NEW S \in SUBSET Nat, S # {}
  PROVE  Min(S) \in S /\ \A y \in S : Min(S) <= y
<1> DEFINE R == OpToRel(<, Nat)
<1>1. PICK x \in S : \A y \in S : <<y, x>> \notin R
  BY NatLessThanWellFounded, WFMin
<1>2. ASSUME NEW y \in S PROVE x <= y
  <2>1. x \in Nat /\ y \in Nat
    OBVIOUS
  <2>2. ~(y < x)
    BY <1>1, <2>1 DEF OpToRel
  <2> QED BY <2>1, <2>2
<1> QED BY <1>1, <1>2 DEF Min

LEMMA MaxOf ==
  ASSUME NEW S \in SUBSET Nat, NEW x \in S, \A y \in S : y <= x
  PROVE  Max(S) = x
<1> DEFINE m == CHOOSE z \in S : \A y \in S : z >= y
<1>1. \A z \in S : z \in Nat
  OBVIOUS
<1>2. \A y \in S : x >= y
  BY <1>1
<1>3. m \in S /\ \A y \in S : m >= y
  BY <1>2
<1>4. m >= x /\ m <= x
  BY <1>3
<1>5. m = x
  <2> HIDE DEF m
  <2> QED BY <1>1, <1>3, <1>4
<1> QED BY <1>5 DEF Max

LEMMA MinOfTwo ==
  ASSUME NEW x \in Nat, NEW y \in Nat
  PROVE  Min({x, y}) \in {x, y} /\ Min({x, y}) <= x /\ Min({x, y}) <= y
BY MinOf

(* The parent is the invocation whose ancestry an invocation continues.    *)
LEMMA ParentOf ==
  ASSUME TypeOK, NEW i \in Invs \ {0}, NEW p \in 0..(i - 1), path[i] = path[p] \cup {i}
  PROVE  Parent(i) = p
<1>1. i \in Nat /\ p \in Invs /\ p \in Nat /\ p < i
  BY BoundsAssumption DEF Invs
<1>2. path[p] \subseteq 0..p /\ p \in path[p]
  BY <1>1 DEF TypeOK
<1>3. path[i] \ {i} = path[p]
  BY <1>1, <1>2
<1>4. path[p] \in SUBSET Nat /\ \A y \in path[p] : y <= p
  BY <1>1, <1>2
<1>5. Max(path[p]) = p
  BY <1>2, <1>4, MaxOf
<1> QED BY <1>3, <1>5 DEF Parent

LEMMA ParentIs ==
  ASSUME TypeOK, TreeOK, NEW i \in Invs \ {0}, pc[i] # "unborn"
  PROVE  /\ Parent(i) \in Invs /\ Parent(i) < i /\ pc[Parent(i)] \notin NotBegun
         /\ path[i] = path[Parent(i)] \cup {i}
<1>1. PICK p \in 0..(i - 1) : path[i] = path[p] \cup {i} /\ pc[p] \notin NotBegun
  BY DEF TreeOK
<1>2. Parent(i) = p
  BY <1>1, ParentOf
<1> QED BY <1>1, <1>2, BoundsAssumption DEF Invs

-----------------------------------------------------------------------------
LEMMA InitIInv ==
  Init => IInv
<1> SUFFICES ASSUME Init PROVE IInv
  OBVIOUS
<1>0. /\ MaxChildren \in Nat /\ MaxAgents \in Nat /\ Concurrency \in Nat \ {0}
      /\ 0 \in Invs /\ Invs \subseteq Nat
  BY BoundsAssumption, CallsAssumption DEF Invs
<1>1. TypeOK
  <2>1. /\ pc \in [Invs -> {"unborn", "beginning", "running", "saving", "failing",
                            "rejecting", "done"}]
        /\ signal \in [Invs -> {"none", "timed_out", "cancelled"}]
        /\ script \in [Invs -> {"none", "running", "ended"}]
        /\ error \in [Invs -> {"none", "failed", "timed_out", "cancelled"}]
        /\ outcome \in [Invs -> {"none", "value", "settled", "thrown"}]
        /\ agent \in [Agents -> {"idle", "acquiring", "queued", "working"}]
    BY DEF Init
  <2>2. linked \in [Invs -> BOOLEAN] /\ deadline \in [Invs -> BOOLEAN] /\ timer \in [Invs -> BOOLEAN]
    BY DEF Init
  <2>3. \A i \in Invs : path[i] \subseteq 0..i /\ i \in path[i]
    BY <1>0 DEF Init
  <2>4. limit \in [Invs -> 1..Concurrency] /\ \A i \in Invs : permits[i] \in -1..limit[i]
    BY <1>0 DEF Init
  <2>5. /\ \A i \in Invs : queue[i] \in Seq(Agents)
        /\ owner \in [Agents -> Invs] /\ held \in [Agents -> SUBSET Invs]
    BY <1>0 DEF Init
  <2> QED BY <2>1, <2>2, <2>3, <2>4, <2>5 DEF TypeOK
<1>2. FunctionsOK
  BY <1>0 DEF Init, FunctionsOK
<1>3. TreeOK /\ AncestryOK
  <2>1. path[0] = {0} /\ pc[0] # "unborn" /\ \A i \in Invs : script[i] = "none"
    BY <1>0 DEF Init
  <2>2. \A i \in Invs : path[i] = {i} /\ permits[i] = -1 /\ (pc[i] = "unborn" <=> i # 0)
    BY <1>0 DEF Init
  <2>3. \A i, j \in Invs : pc[i] = "unborn" /\ i <= j => pc[j] = "unborn"
    BY <1>0, <2>2
  <2>4. \A i \in Invs : {i} = {i} \cap (0..i)
    BY <1>0
  <2> QED BY <2>1, <2>2, <2>3, <2>4 DEF TreeOK, AncestryOK
<1>4. SignalsOK
  BY <1>0 DEF Init, SignalsOK
<1>5. ErrorsOK /\ StoryOK
  BY <1>0 DEF Init, ErrorsOK, Explained, StoryOK, NotBegun
<1>6. AgentsOK /\ QueuesOK /\ PermitsOK
  BY <1>0 DEF Init, AgentsOK, QueuesOK, Waiting, Elems, NoRepeats, PermitsOK, HasSemaphore
<1> QED BY <1>1, <1>2, <1>3, <1>4, <1>5, <1>6 DEF IInv

-----------------------------------------------------------------------------
(* What each action leaves alone.                                          *)
LEMMA Frames ==
  ASSUME [Next]_vars
  PROVE  /\ (\E p \in Invs : Call(p)) \/ UNCHANGED treeVars
         /\ \/ \E i \in Invs : Call(i) \/ CallAgent(i)
            \/ \E a \in Agents : Acquire(a) \/ AgentEnds(a)
            \/ UNCHANGED budgetVars
BY DEF Next, Manager, Script, vars, treeVars, budgetVars, Starts, Rejects, RootBeginFails,
   ScriptReturns, ScriptThrows, Abort, TimerFires, Cancel, Returns, Records, Saves, Unsaved,
   SaveFails, Fails, FailureUnsaved, CallAgent, Acquire, AgentEnds

(* workflow(): the new invocation, its ancestry and its limit.             *)
LEMMA CallIs ==
  ASSUME IInv, NEW p \in Invs, Call(p)
  PROVE  \E i \in Invs \ {0} :
           /\ pc[i] = "unborn" /\ p < i /\ path[i] = {i} /\ permits[i] = -1
           /\ pc[p] \notin NotBegun /\ signal[p] = "none" /\ script[p] = "running"
           /\ \A j \in Invs : pc[j] = "unborn" => i <= j
           /\ pc' = [pc EXCEPT ![i] = "beginning"]
           /\ path' = [path EXCEPT ![i] = path[p] \cup {i}]
           /\ deadline' = [deadline EXCEPT ![i] = i \in Timed \/ deadline[p]]
           /\ \E m \in 1..Concurrency : limit' = [limit EXCEPT ![i] = m]
           /\ \E m \in {-1, 0} : permits' = [permits EXCEPT ![i] = m]
<1>0. TypeOK /\ TreeOK /\ Concurrency \in Nat \ {0} /\ MaxChildren \in Nat
  BY BoundsAssumption, CallsAssumption DEF IInv
<1> DEFINE i == Min(Unborn)
<1>1. Unborn \in SUBSET Nat /\ Unborn # {}
  BY <1>0 DEF Unborn, Invs, Call
<1>2. i \in Unborn /\ \A j \in Unborn : i <= j
  BY <1>1, MinOf
<1>3. i \in Invs \ {0} /\ pc[i] = "unborn" /\ \A j \in Invs : pc[j] = "unborn" => i <= j
  BY <1>0, <1>2 DEF Unborn, TreeOK
<1>4. script[p] = "running" /\ signal[p] = "none" /\ pc[p] \notin NotBegun
  BY <1>0 DEF Call, TreeOK
<1>5. p < i
  <2>1. pc[p] # "unborn" /\ p \in Nat /\ i \in Nat
    BY <1>0, <1>3, <1>4 DEF NotBegun, Invs
  <2>2. ~(i <= p)
    BY <1>0, <1>3, <2>1 DEF TreeOK
  <2> QED BY <2>1, <2>2
<1>6. /\ pc' = [pc EXCEPT ![i] = "beginning"]
      /\ path' = [path EXCEPT ![i] = path[p] \cup {i}]
      /\ deadline' = [deadline EXCEPT ![i] = i \in Timed \/ deadline[p]]
      /\ limit' = [limit EXCEPT ![i] =
                     IF Bound[i] = 0 THEN limit[p] ELSE Min({Bound[i], limit[p]})]
      /\ permits' = [permits EXCEPT ![i] = IF Bound[i] = 0 THEN -1 ELSE 0]
  BY DEF Call
<1>7. (IF Bound[i] = 0 THEN limit[p] ELSE Min({Bound[i], limit[p]})) \in 1..Concurrency
  <2>1. limit[p] \in 1..Concurrency /\ Bound[i] \in Nat
    BY <1>0, <1>3, CallsAssumption DEF TypeOK
  <2>2. CASE Bound[i] = 0
    BY <2>1, <2>2
  <2>3. CASE Bound[i] # 0
    <3>1. Min({Bound[i], limit[p]}) \in {Bound[i], limit[p]} /\ Min({Bound[i], limit[p]}) <= limit[p]
      BY <2>1, MinOfTwo
    <3> QED BY <1>0, <2>1, <2>3, <3>1
  <2> QED BY <2>2, <2>3
<1>8. (IF Bound[i] = 0 THEN -1 ELSE 0) \in {-1, 0}
  OBVIOUS
<1>9. path[i] = {i} /\ permits[i] = -1
  BY <1>0, <1>3 DEF TreeOK
<1> HIDE DEF i
<1> QED BY <1>3, <1>4, <1>5, <1>6, <1>7, <1>8, <1>9

(* How far an invocation comes in a step.                                  *)
Moves ==
  {<<"beginning", "running">>, <<"beginning", "failing">>, <<"beginning", "rejecting">>,
   <<"beginning", "done">>, <<"running", "saving">>, <<"running", "failing">>,
   <<"saving", "done">>, <<"saving", "failing">>, <<"failing", "done">>, <<"rejecting", "done">>}

LEMMA PcMoves ==
  ASSUME TypeOK, [Next]_vars, ~\E p \in Invs : Call(p)
  PROVE  /\ pc' \in [Invs -> {"unborn", "beginning", "running", "saving", "failing", "rejecting", "done"}]
         /\ \A i \in Invs : pc'[i] = pc[i] \/ <<pc[i], pc'[i]>> \in Moves
<1> DEFINE Moved == /\ pc' \in [Invs -> {"unborn", "beginning", "running", "saving", "failing", "rejecting", "done"}]
                    /\ \A i \in Invs : pc'[i] = pc[i] \/ <<pc[i], pc'[i]>> \in Moves
<1>0. pc \in [Invs -> {"unborn", "beginning", "running", "saving", "failing", "rejecting", "done"}]
      /\ 0 \in Invs
  BY BoundsAssumption DEF TypeOK, Invs
<1>1. ASSUME NEW j \in Invs, NEW v, pc' = [pc EXCEPT ![j] = v], v = pc[j] \/ <<pc[j], v>> \in Moves
      PROVE  Moved
  BY <1>0, <1>1 DEF Moves
<1>2. ASSUME NEW j \in Invs, Starts(j) PROVE Moved
  <2>1. \/ pc' = [pc EXCEPT ![j] = "running"]
        \/ pc' = [pc EXCEPT ![j] = "failing"]
    BY <1>2 DEF Starts
  <2>2. pc[j] = "beginning"
    BY <1>2 DEF Starts
  <2> QED BY <1>1, <2>1, <2>2 DEF Moves
<1>3. ASSUME NEW j \in Invs, Rejects(j) PROVE Moved
  BY <1>1, <1>3 DEF Rejects, Moves
<1>4. ASSUME NEW j \in Invs, Saves(j) \/ Unsaved(j) \/ Fails(j) \/ FailureUnsaved(j) PROVE Moved
  <2>1. \/ pc[j] = "saving" /\ pc' = [pc EXCEPT ![j] = "done"]
        \/ pc[j] = "saving" /\ pc' = [pc EXCEPT ![j] = "failing"]
        \/ pc[j] \in {"failing", "rejecting"} /\ pc' = [pc EXCEPT ![j] = "done"]
    BY <1>4 DEF Saves, Unsaved, SaveFails, Fails, FailureUnsaved, Returns
  <2> QED BY <1>1, <2>1 DEF Moves
<1>5. ASSUME NEW j \in Invs, ScriptReturns(j) PROVE Moved
  <2>1. pc' = [pc EXCEPT ![j] = IF pc[j] = "running" THEN "saving" ELSE pc[j]]
    BY <1>5 DEF ScriptReturns
  <2> QED BY <1>1, <2>1 DEF Moves
<1>6. ASSUME NEW j \in Invs, NEW e, ScriptThrows(j, e) PROVE Moved
  <2>1. pc' = [pc EXCEPT ![j] = IF pc[j] = "running" THEN "failing" ELSE pc[j]]
    BY <1>6 DEF ScriptThrows
  <2> QED BY <1>1, <2>1 DEF Moves
<1>7. ASSUME NEW j \in Invs, NEW reason, Abort(j, reason) PROVE Moved
  BY <1>0, <1>7 DEF Abort, GivesUp, Moves
<1>8. CASE RootBeginFails
  BY <1>0, <1>1, <1>8 DEF RootBeginFails, Moves
<1>9. CASE pc' = pc
  BY <1>0, <1>9
<1>10. CASE \E j \in Invs : CallAgent(j)
  BY <1>9, <1>10 DEF CallAgent
<1>11. CASE \E a \in Agents : Acquire(a) \/ AgentEnds(a)
  BY <1>9, <1>11 DEF Acquire, AgentEnds
<1>12. CASE (\E j \in Invs : TimerFires(j)) \/ Cancel
  BY <1>0, <1>7, <1>12 DEF TimerFires, Cancel
<1>13. CASE UNCHANGED vars
  BY <1>9, <1>13 DEF vars
<1>14. ASSUME NEW j \in Invs, Manager(j) \/ TimerFires(j) PROVE Moved
  BY <1>2, <1>3, <1>4, <1>12, <1>14 DEF Manager
<1>15. ASSUME NEW j \in Invs, Script(j) PROVE Moved
  BY <1>5, <1>6, <1>10, <1>15 DEF Script
<1>16. Moved
  BY <1>8, <1>11, <1>12, <1>13, <1>14, <1>15 DEF Next
<1> QED BY <1>16

(* An invocation that was called stays where it is in the tree; one that   *)
(* has begun does not begin again; an aborted signal keeps its reason.     *)
LEMMA Growth ==
  ASSUME IInv, [Next]_vars
  PROVE  \A i \in Invs :
           /\ pc[i] # "unborn" => pc'[i] # "unborn" /\ path'[i] = path[i] /\ limit'[i] = limit[i]
           /\ path[i] \subseteq path'[i]
           /\ pc[i] \notin NotBegun => pc'[i] \notin NotBegun
           /\ signal[i] # "none" => signal'[i] = signal[i]
<1>0. TypeOK /\ FunctionsOK /\ TreeOK /\ SignalsOK
  BY DEF IInv
<1> SUFFICES ASSUME NEW i \in Invs
    PROVE  /\ pc[i] # "unborn" => pc'[i] # "unborn" /\ path'[i] = path[i] /\ limit'[i] = limit[i]
           /\ path[i] \subseteq path'[i]
           /\ pc[i] \notin NotBegun => pc'[i] \notin NotBegun
           /\ signal[i] # "none" => signal'[i] = signal[i]
  OBVIOUS
<1>1. ASSUME NEW p \in Invs, Call(p)
      PROVE  /\ pc[i] # "unborn" => pc'[i] # "unborn" /\ path'[i] = path[i] /\ limit'[i] = limit[i]
             /\ path[i] \subseteq path'[i]
             /\ pc[i] \notin NotBegun => pc'[i] \notin NotBegun
             /\ signal[i] # "none" => signal'[i] = signal[i]
  <2>1. signal' = signal
    BY <1>1 DEF Call, signalVars
  <2>2. PICK c \in Invs \ {0} :
          /\ pc[c] = "unborn" /\ path[c] = {c}
          /\ pc' = [pc EXCEPT ![c] = "beginning"]
          /\ path' = [path EXCEPT ![c] = path[p] \cup {c}]
          /\ \E m \in 1..Concurrency : limit' = [limit EXCEPT ![c] = m]
    BY <1>1, CallIs
  <2>3. CASE i = c
    BY <1>0, <2>1, <2>2, <2>3 DEF TypeOK, FunctionsOK, NotBegun
  <2>4. CASE i # c
    BY <1>0, <2>1, <2>2, <2>4 DEF TypeOK, FunctionsOK
  <2> QED BY <2>3, <2>4
<1>2. CASE ~\E p \in Invs : Call(p)
  <2>1. UNCHANGED treeVars
    BY <1>2, Frames
  <2>2. /\ pc[i] # "unborn" => pc'[i] # "unborn"
        /\ pc[i] \notin NotBegun => pc'[i] \notin NotBegun
    BY <1>0, <1>2, PcMoves DEF Moves, NotBegun
  <2>3. signal[i] # "none" => signal'[i] = signal[i]
    <3>1. CASE \E j \in Invs : Starts(j)
      <4>1. PICK j \in Invs : Starts(j)
        BY <3>1
      <4>2. CASE i = j /\ j # 0
        BY <1>0, <4>1, <4>2 DEF Starts, SignalsOK
      <4>3. CASE i = j /\ j = 0
        <5>1. signal' = [signal EXCEPT ![0] = signal[0]]
          BY <1>0, <4>1, <4>3 DEF Starts, Inherited, TypeOK
        <5> QED BY <1>0, <4>3, <5>1 DEF TypeOK
      <4>4. CASE i # j
        BY <1>0, <4>1, <4>4 DEF Starts, TypeOK
      <4> QED BY <4>2, <4>3, <4>4
    <3>2. CASE \E j \in Invs, reason \in {"timed_out", "cancelled"} : Abort(j, reason)
      BY <3>2 DEF Abort
    <3>3. CASE ~(\E j \in Invs : Starts(j)) /\ ~(\E j \in Invs, reason \in {"timed_out", "cancelled"} : Abort(j, reason))
      <4>1. 0 \in Invs
        BY BoundsAssumption DEF Invs
      <4>2. signal' = signal
        BY <1>2, <3>3, <4>1 DEF Next, Manager, Script, vars, signalVars, Rejects, RootBeginFails,
           ScriptReturns, ScriptThrows, TimerFires, Cancel, Returns, Saves, Unsaved,
           SaveFails, Fails, FailureUnsaved, CallAgent, Acquire, AgentEnds
      <4> QED BY <4>2
    <3> QED BY <3>1, <3>2, <3>3
  <2> QED BY <2>1, <2>2, <2>3 DEF treeVars
<1> QED BY <1>1, <1>2

(* The semaphores of an invocation, and those that an agent has passed.    *)
LEMMA SemaphoresAre ==
  ASSUME IInv, NEW a \in Agents
  PROVE  /\ owner[a] \in Invs
         /\ held[a] \subseteq Semaphores(owner[a])
         /\ \A s \in Semaphores(owner[a]) :
              s \in Invs /\ s \in Nat /\ s \in path[owner[a]] /\ permits[s] \in Nat
         /\ \A s \in held[a] : permits[s] >= 1
<1>0. TypeOK /\ FunctionsOK /\ TreeOK /\ AgentsOK /\ PermitsOK /\ IsFiniteSet(Agents)
  BY BoundsAssumption, FS_Interval DEF IInv, Agents
<1>1. owner[a] \in Invs /\ held[a] \subseteq Invs /\ Invs \subseteq Nat
  BY <1>0 DEF TypeOK, Invs
<1>2. held[a] \subseteq Semaphores(owner[a])
  BY <1>0 DEF AgentsOK, TypeOK
<1>3. ASSUME NEW s \in Semaphores(owner[a])
      PROVE  s \in Invs /\ s \in Nat /\ s \in path[owner[a]] /\ permits[s] \in Nat
  <2>1. s \in path[owner[a]] /\ permits[s] >= 0
    BY DEF Semaphores, HasSemaphore
  <2>2. path[owner[a]] \in SUBSET Invs
    BY <1>0, <1>1 DEF FunctionsOK
  <2>3. s \in Invs /\ permits[s] \in Int
    BY <1>0, <2>1, <2>2 DEF FunctionsOK
  <2> QED BY <1>1, <2>1, <2>3
<1>4. ASSUME NEW s \in held[a] PROVE permits[s] >= 1
  <2>1. s \in Invs /\ permits[s] \in Nat /\ HasSemaphore(s)
    BY <1>2, <1>3 DEF HasSemaphore
  <2>2. Cardinality(Holders(s)) = permits[s]
    BY <1>0, <2>1 DEF PermitsOK
  <2>3. a \in Holders(s) /\ IsFiniteSet(Holders(s))
    BY <1>0, FS_Subset DEF Holders
  <2>4. Cardinality(Holders(s)) # 0
    BY <2>3, FS_EmptySet
  <2> QED BY <2>1, <2>2, <2>4
<1> QED BY <1>1, <1>2, <1>3, <1>4

LEMMA NextSemaphore ==
  ASSUME IInv, NEW a \in Agents, Ahead(a) # {}
  PROVE  /\ Min(Ahead(a)) \in Ahead(a) /\ Min(Ahead(a)) \in Invs
         /\ permits[Min(Ahead(a))] \in Nat
         /\ \A s \in Ahead(a) : Min(Ahead(a)) <= s
<1>1. Ahead(a) \in SUBSET Nat
  BY SemaphoresAre DEF Ahead
<1>2. Min(Ahead(a)) \in Ahead(a) /\ \A s \in Ahead(a) : Min(Ahead(a)) <= s
  BY <1>1, MinOf
<1> QED BY <1>2, SemaphoresAre DEF Ahead

(* A step other than a call makes no semaphore and takes none away.        *)
LEMMA SemaphoresStay ==
  ASSUME IInv, [Next]_vars, ~\E p \in Invs : Call(p)
  PROVE  \A s \in Invs :
           /\ permits'[s] >= 0 <=> permits[s] >= 0
           /\ permits[s] = -1 => permits'[s] = -1
<1>0. permits \in [Invs -> Int] /\ AgentsOK
  BY DEF IInv, FunctionsOK
<1>1. ASSUME NEW a \in Agents, Acquire(a)
      PROVE  \A s \in Invs :
           /\ permits'[s] >= 0 <=> permits[s] >= 0
           /\ permits[s] = -1 => permits'[s] = -1
  <2>1. Ahead(a) # {}
    BY <1>0, <1>1 DEF Acquire, AgentsOK
  <2>2. permits[Min(Ahead(a))] \in Nat /\ Min(Ahead(a)) \in Invs
    BY <2>1, NextSemaphore
  <2>3. permits' = permits \/ permits' = [permits EXCEPT ![Min(Ahead(a))] = permits[Min(Ahead(a))] + 1]
    BY <1>1 DEF Acquire
  <2> QED BY <1>0, <2>2, <2>3
<1>2. ASSUME NEW a \in Agents, AgentEnds(a)
      PROVE  \A s \in Invs :
           /\ permits'[s] >= 0 <=> permits[s] >= 0
           /\ permits[s] = -1 => permits'[s] = -1
  <2>1. \A s \in Invs : permits'[s] = permits[s] \/ (s \in held[a] /\ permits'[s] = permits[s] - 1)
    BY <1>2 DEF AgentEnds, Released
  <2>2. \A s \in held[a] : permits[s] >= 1
    BY SemaphoresAre
  <2> QED BY <1>0, <2>1, <2>2
<1>3. CASE permits' = permits
  BY <1>3
<1>4. CASE \E i \in Invs : CallAgent(i)
  BY <1>3, <1>4 DEF CallAgent
<1> QED BY <1>1, <1>2, <1>3, <1>4, Frames DEF budgetVars

LEMMA StepTree ==
  ASSUME IInv, [Next]_vars
  PROVE  TreeOK'
<1>0. /\ TypeOK /\ FunctionsOK /\ TreeOK /\ MaxChildren \in Nat
      /\ 0 \in Invs /\ Invs \subseteq Nat /\ \A i \in Invs : i \in Nat /\ 0..i \subseteq Invs
  BY BoundsAssumption DEF IInv, Invs
<1>1. path'[0] = {0} /\ pc'[0] # "unborn"
  BY <1>0, Growth DEF TreeOK
<1>2. \A i \in Invs : script'[i] # "none" => pc'[i] \notin NotBegun
  <2> SUFFICES ASSUME NEW i \in Invs, script'[i] # "none" PROVE pc'[i] \notin NotBegun
    OBVIOUS
  <2>1. CASE script[i] # "none"
    BY <1>0, <2>1, Growth DEF TreeOK
  <2>2. CASE script[i] = "none"
    <3>1. PICK j \in Invs : Starts(j) \/ ScriptReturns(j) \/ \E e \in ChildErrors(j) \cup {"failed"} : ScriptThrows(j, e)
      BY <1>0, <2>2 DEF Next, Manager, Script, vars, Call, Rejects, RootBeginFails,
         Abort, TimerFires, Cancel, Returns, Saves, Unsaved,
         SaveFails, Fails, FailureUnsaved, CallAgent, Acquire, AgentEnds
    <3>2. CASE Starts(j)
      BY <1>0, <2>2, <3>2 DEF Starts, TypeOK, NotBegun
    <3>3. CASE ~Starts(j)
      BY <1>0, <2>2, <3>1, <3>3 DEF ScriptReturns, ScriptThrows, TypeOK
    <3> QED BY <3>2, <3>3
  <2> QED BY <2>1, <2>2
<1>3. ASSUME NEW p \in Invs, Call(p)
      PROVE  /\ \A i \in Invs : pc'[i] = "unborn" => path'[i] = {i} /\ permits'[i] = -1
             /\ \A i, j \in Invs : pc'[i] = "unborn" /\ i <= j => pc'[j] = "unborn"
             /\ \A i \in Invs \ {0} : pc'[i] # "unborn" =>
                  \E q \in 0..(i - 1) : path'[i] = path'[q] \cup {i} /\ pc'[q] \notin NotBegun
  <2>1. PICK c \in Invs \ {0} :
          /\ pc[c] = "unborn" /\ p < c
          /\ pc[p] \notin NotBegun
          /\ \A j \in Invs : pc[j] = "unborn" => c <= j
          /\ pc' = [pc EXCEPT ![c] = "beginning"]
          /\ path' = [path EXCEPT ![c] = path[p] \cup {c}]
          /\ \E m \in {-1, 0} : permits' = [permits EXCEPT ![c] = m]
    BY <1>3, CallIs
  <2>2. \A i \in Invs : i # c => pc'[i] = pc[i] /\ path'[i] = path[i] /\ permits'[i] = permits[i]
    BY <1>0, <2>1 DEF TypeOK, FunctionsOK
  <2>3. pc'[c] = "beginning" /\ path'[c] = path[p] \cup {c}
    BY <1>0, <2>1 DEF TypeOK, FunctionsOK
  <2>4. \A i \in Invs : pc'[i] = "unborn" => path'[i] = {i} /\ permits'[i] = -1
    BY <1>0, <2>2, <2>3 DEF TreeOK
  <2>5. ASSUME NEW i \in Invs, NEW j \in Invs, pc'[i] = "unborn", i <= j
        PROVE  pc'[j] = "unborn"
    <3>1. i # c /\ pc[i] = "unborn" /\ c <= i
      BY <2>1, <2>2, <2>3, <2>5
    <3>2. pc[j] = "unborn"
      BY <1>0, <2>5, <3>1 DEF TreeOK
    <3>3. j # c
      <4>1. i \in Nat /\ j \in Nat /\ c \in Nat
        BY <1>0
      <4> QED BY <4>1, <2>5, <3>1
    <3> QED BY <2>2, <3>2, <3>3
  <2>6. ASSUME NEW i \in Invs \ {0}, pc'[i] # "unborn"
        PROVE  \E q \in 0..(i - 1) : path'[i] = path'[q] \cup {i} /\ pc'[q] \notin NotBegun
    <3>1. CASE i = c
      <4>1. p # c /\ p \in 0..(i - 1) /\ path'[p] = path[p] /\ pc'[p] = pc[p]
        BY <1>0, <2>1, <2>2, <3>1
      <4> QED BY <2>1, <2>3, <3>1, <4>1
    <3>2. CASE i # c
      <4>1. PICK q \in 0..(i - 1) : path[i] = path[q] \cup {i} /\ pc[q] \notin NotBegun
        BY <1>0, <2>2, <2>6, <3>2 DEF TreeOK
      <4>2. q \in Invs /\ q # c
        BY <1>0, <2>1, <4>1 DEF NotBegun
      <4> QED BY <2>2, <3>2, <4>1, <4>2
    <3> QED BY <3>1, <3>2
  <2> QED BY <2>4, <2>5, <2>6
<1>4. CASE ~\E p \in Invs : Call(p)
  <2>1. path' = path
    BY <1>4, Frames DEF treeVars
  <2>2. \A i \in Invs : pc'[i] = "unborn" <=> pc[i] = "unborn"
    <3> SUFFICES ASSUME NEW i \in Invs, pc[i] = "unborn" PROVE pc'[i] = "unborn"
      BY Growth
    <3> QED BY <1>0, <1>4, PcMoves DEF Moves
  <2>3. \A i \in Invs : permits[i] = -1 => permits'[i] = -1
    BY <1>4, SemaphoresStay
  <2>4. \A i \in Invs : pc'[i] = "unborn" => path'[i] = {i} /\ permits'[i] = -1
    BY <1>0, <2>1, <2>2, <2>3 DEF TreeOK
  <2>5. \A i, j \in Invs : pc'[i] = "unborn" /\ i <= j => pc'[j] = "unborn"
    BY <1>0, <2>2 DEF TreeOK
  <2>6. ASSUME NEW i \in Invs \ {0}, pc'[i] # "unborn"
        PROVE  \E q \in 0..(i - 1) : path'[i] = path'[q] \cup {i} /\ pc'[q] \notin NotBegun
    <3>1. PICK q \in 0..(i - 1) : path[i] = path[q] \cup {i} /\ pc[q] \notin NotBegun
      BY <1>0, <2>2, <2>6 DEF TreeOK
    <3>2. q \in Invs
      BY <1>0
    <3> QED BY <2>1, <3>1, <3>2, Growth
  <2> QED BY <1>1, <1>2, <2>4, <2>5, <2>6 DEF TreeOK
<1> QED BY <1>1, <1>2, <1>3, <1>4 DEF TreeOK

LEMMA StepAncestry ==
  ASSUME IInv, [Next]_vars
  PROVE  AncestryOK'
<1>0. /\ TypeOK /\ FunctionsOK /\ TreeOK /\ AncestryOK
      /\ \A i \in Invs : i \in Nat /\ path[i] \subseteq 0..i /\ i \in path[i] /\ path[i] \subseteq Invs
  <2>1. TypeOK /\ FunctionsOK /\ TreeOK /\ AncestryOK
    BY DEF IInv
  <2>2. \A i \in Invs : i \in Nat
    BY BoundsAssumption DEF Invs
  <2>3. \A i \in Invs : path[i] \subseteq 0..i /\ i \in path[i]
    BY <2>1 DEF TypeOK
  <2>4. \A i \in Invs : path[i] \subseteq Invs
    BY <2>1 DEF FunctionsOK
  <2> QED BY <2>1, <2>2, <2>3, <2>4
<1>1. ASSUME NEW p \in Invs, Call(p) PROVE AncestryOK'
  <2>1. PICK c \in Invs \ {0} :
          /\ pc[c] = "unborn" /\ p < c /\ path[c] = {c} /\ pc[p] \notin NotBegun
          /\ pc' = [pc EXCEPT ![c] = "beginning"]
          /\ path' = [path EXCEPT ![c] = path[p] \cup {c}]
    BY <1>1, CallIs
  <2>2. \A i \in Invs : i # c => pc'[i] = pc[i] /\ path'[i] = path[i]
    BY <1>0, <2>1 DEF TypeOK, FunctionsOK
  <2>3. pc'[c] = "beginning" /\ path'[c] = path[p] \cup {c}
    BY <1>0, <2>1 DEF TypeOK, FunctionsOK
  <2>4. ASSUME NEW i \in Invs, NEW j \in path'[i]
        PROVE  /\ path'[j] = path'[i] \cap (0..j)
               /\ pc'[i] # "unborn" => pc'[j] # "unborn"
    <3>1. CASE i = c /\ j = c
      <4>1. path[p] \cup {c} \subseteq 0..c
        BY <1>0, <2>1
      <4> QED BY <2>3, <3>1, <4>1
    <3>2. CASE i = c /\ j # c
      <4>1. j \in path[p] /\ j \in 0..p /\ j \in Invs
        BY <1>0, <2>3, <3>2
      <4>2. path'[j] = path[p] \cap (0..j) /\ pc[j] # "unborn"
        BY <1>0, <2>1, <2>2, <3>2, <4>1 DEF AncestryOK, NotBegun
      <4>3. c \notin 0..j
        BY <1>0, <2>1, <4>1
      <4> QED BY <2>2, <2>3, <3>2, <4>1, <4>2, <4>3
    <3>3. CASE i # c
      <4>1. j \in path[i] /\ j \in Invs
        BY <1>0, <2>2, <3>3
      <4>2. j # c
        BY <1>0, <2>1, <3>3, <4>1 DEF TreeOK, AncestryOK
      <4> QED BY <1>0, <2>2, <3>3, <4>1, <4>2 DEF AncestryOK
    <3> QED BY <3>1, <3>2, <3>3
  <2> QED BY <2>4 DEF AncestryOK
<1>2. CASE ~\E p \in Invs : Call(p)
  <2>1. path' = path
    BY <1>2, Frames DEF treeVars
  <2>2. \A i \in Invs : pc'[i] = "unborn" <=> pc[i] = "unborn"
    BY <1>0, <1>2, PcMoves DEF Moves
  <2> QED BY <1>0, <2>1, <2>2 DEF AncestryOK
<1> QED BY <1>1, <1>2

-----------------------------------------------------------------------------
(* What a held, waiting or ending agent leaves behind is within bounds.    *)
LEMMA StepFunctions ==
  ASSUME IInv, [Next]_vars
  PROVE  FunctionsOK'
<1>0. /\ TypeOK /\ FunctionsOK /\ TreeOK /\ ErrorsOK
      /\ \A i \in Invs : i \in Nat
  BY BoundsAssumption DEF IInv, Invs
<1>1. path' \in [Invs -> SUBSET Invs]
  <2>1. ASSUME NEW p \in Invs, Call(p) PROVE path' \in [Invs -> SUBSET Invs]
    <3>1. PICK c \in Invs \ {0} : path' = [path EXCEPT ![c] = path[p] \cup {c}]
      BY <2>1, CallIs
    <3> QED BY <1>0, <3>1 DEF FunctionsOK
  <2> QED BY <1>0, <2>1, Frames DEF treeVars, FunctionsOK
<1>2. permits' \in [Invs -> Int] /\ queue' \in [Invs -> Seq(Agents)]
  <2>1. ASSUME NEW p \in Invs, Call(p) PROVE permits' \in [Invs -> Int] /\ queue' = queue
    <3>1. PICK c \in Invs \ {0} : \E m \in {-1, 0} : permits' = [permits EXCEPT ![c] = m]
      BY <2>1, CallIs
    <3>2. PICK m \in {-1, 0} : permits' = [permits EXCEPT ![c] = m]
      BY <3>1
    <3>3. queue' = queue
      BY <2>1 DEF Call
    <3> QED BY <1>0, <3>2, <3>3 DEF FunctionsOK
  <2>2. ASSUME NEW a \in Agents, Acquire(a) PROVE permits' \in [Invs -> Int] /\ queue' \in [Invs -> Seq(Agents)]
    <3> DEFINE s == Min(Ahead(a))
    <3>1. \/ permits' = [permits EXCEPT ![s] = permits[s] + 1] /\ queue' = queue
          \/ permits' = permits /\ queue' = [queue EXCEPT ![s] = Append(queue[s], a)]
      BY <2>2 DEF Acquire
    <3>2. s \in Invs => permits[s] + 1 \in Int /\ Append(queue[s], a) \in Seq(Agents)
      BY <1>0 DEF FunctionsOK
    <3> HIDE DEF s
    <3>3. CASE s \in Invs
      BY <1>0, <3>1, <3>2, <3>3 DEF FunctionsOK
    <3>4. CASE s \notin Invs
      BY <1>0, <3>1, <3>4 DEF FunctionsOK
    <3> QED BY <3>3, <3>4
  <2>3. ASSUME NEW a \in Agents, AgentEnds(a) PROVE permits' \in [Invs -> Int] /\ queue' \in [Invs -> Seq(Agents)]
    <3> DEFINE given == {s \in Released(a) : queue[s] # <<>>}
    <3>1. permits' = [s \in Invs |-> IF s \in Released(a) \ given THEN permits[s] - 1 ELSE permits[s]]
      BY <2>3 DEF AgentEnds
    <3>2. queue' = [s \in Invs |-> IF s \in given THEN Tail(queue[s]) ELSE queue[s]]
      BY <2>3 DEF AgentEnds
    <3>3. \A s \in Invs : s \in given => Tail(queue[s]) \in Seq(Agents)
      BY <1>0 DEF FunctionsOK
    <3> HIDE DEF given
    <3> QED BY <1>0, <3>1, <3>2, <3>3 DEF FunctionsOK
  <2>4. ASSUME NEW i \in Invs, CallAgent(i) PROVE UNCHANGED <<permits, queue>>
    BY <2>4 DEF CallAgent
  <2> QED BY <1>0, <2>1, <2>2, <2>3, <2>4, Frames DEF budgetVars, FunctionsOK
<1>3. ASSUME NEW i \in Invs, NEW e \in Statuses \cup {"started"}, events' = [events EXCEPT ![i] = Append(events[i], e)]
      PROVE  events' \in [Invs -> Seq(Statuses \cup {"started"})]
  BY <1>0, <1>3 DEF FunctionsOK
<1>4. ASSUME NEW i \in Invs, NEW s \in Statuses, NEW told \in BOOLEAN, Records(i, s, told)
      PROVE  summary' \in [Invs -> Seq(Statuses)] /\ events' \in [Invs -> Seq(Statuses \cup {"started"})]
  <2>1. summary' = [summary EXCEPT ![i] = Append(summary[i], s)]
    BY <1>4 DEF Records
  <2>2. events' = events \/ events' = [events EXCEPT ![i] = Append(events[i], s)]
    BY <1>0, <1>4 DEF Records, FunctionsOK
  <2>3. Append(summary[i], s) \in Seq(Statuses)
    BY <1>0 DEF FunctionsOK
  <2>4. summary' \in [Invs -> Seq(Statuses)]
    BY <1>0, <2>1, <2>3 DEF FunctionsOK
  <2> QED BY <1>0, <1>3, <2>2, <2>4 DEF FunctionsOK
<1>5. summary' \in [Invs -> Seq(Statuses)] /\ events' \in [Invs -> Seq(Statuses \cup {"started"})]
  <2>1. ASSUME NEW i \in Invs, Starts(i) PROVE summary' = summary /\ events' \in [Invs -> Seq(Statuses \cup {"started"})]
    <3>1. events' = events \/ events' = [events EXCEPT ![i] = Append(events[i], "started")]
      BY <2>1 DEF Starts
    <3> QED BY <1>0, <1>3, <2>1, <3>1 DEF FunctionsOK, Starts
  <2>2. ASSUME NEW i \in Invs, Saves(i)
        PROVE  summary' \in [Invs -> Seq(Statuses)] /\ events' \in [Invs -> Seq(Statuses \cup {"started"})]
    BY <1>4, <2>2 DEF Saves, Statuses
  <2>3. ASSUME NEW i \in Invs, Fails(i)
        PROVE  summary' \in [Invs -> Seq(Statuses)] /\ events' \in [Invs -> Seq(Statuses \cup {"started"})]
    <3>1. error[i] \in Statuses
      BY <1>0, <2>3 DEF Fails, ErrorsOK, TypeOK, Statuses
    <3> QED BY <1>4, <2>3, <3>1 DEF Fails
  <2>4. CASE ~\E i \in Invs : Starts(i) \/ Saves(i) \/ Fails(i)
    <3>1. UNCHANGED <<summary, events>>
      BY <2>4 DEF Next, Manager, Script, vars, reportVars, Call, Rejects, RootBeginFails,
         ScriptReturns, ScriptThrows, Abort, TimerFires, Cancel, Unsaved,
         SaveFails, FailureUnsaved, CallAgent, Acquire, AgentEnds
    <3> QED BY <1>0, <3>1 DEF FunctionsOK
  <2> QED BY <1>0, <2>1, <2>2, <2>3, <2>4 DEF FunctionsOK
<1> QED BY <1>1, <1>2, <1>5 DEF FunctionsOK

LEMMA StepTypes ==
  ASSUME IInv, [Next]_vars
  PROVE  TypeOK'
<1>0. /\ TypeOK /\ FunctionsOK /\ TreeOK /\ AgentsOK /\ 0 \in Invs
      /\ \A i \in Invs : i \in Nat
  BY BoundsAssumption DEF IInv, Invs
<1>1. /\ pc \in [Invs -> {"unborn", "beginning", "running", "saving", "failing", "rejecting", "done"}]
      /\ signal \in [Invs -> {"none", "timed_out", "cancelled"}]
      /\ script \in [Invs -> {"none", "running", "ended"}]
      /\ error \in [Invs -> {"none", "failed", "timed_out", "cancelled"}]
      /\ outcome \in [Invs -> {"none", "value", "settled", "thrown"}]
      /\ linked \in [Invs -> BOOLEAN] /\ deadline \in [Invs -> BOOLEAN] /\ timer \in [Invs -> BOOLEAN]
  BY <1>0 DEF TypeOK
<1>2. pc' \in [Invs -> {"unborn", "beginning", "running", "saving", "failing", "rejecting", "done"}]
  <2>1. ASSUME NEW p \in Invs, Call(p) PROVE pc' \in [Invs -> {"unborn", "beginning", "running", "saving", "failing", "rejecting", "done"}]
    <3>1. PICK c \in Invs \ {0} : pc' = [pc EXCEPT ![c] = "beginning"]
      BY <2>1, CallIs
    <3> QED BY <1>1, <3>1
  <2> QED BY <1>0, <2>1, PcMoves
<1>3. signal' \in [Invs -> {"none", "timed_out", "cancelled"}]
  <2>1. ASSUME NEW i \in Invs, Starts(i) PROVE signal' \in [Invs -> {"none", "timed_out", "cancelled"}]
    <3>1. Inherited(i) \in {"none", "timed_out", "cancelled"}
      <4>1. CASE i = 0
        BY <1>1, <4>1 DEF Inherited
      <4>2. CASE i # 0
        <5>1. Parent(i) \in Invs
          BY <1>0, <2>1, <4>2, ParentIs DEF Starts
        <5> QED BY <1>1, <4>2, <5>1 DEF Inherited
      <4> QED BY <4>1, <4>2
    <3>2. PICK late \in {FALSE, deadline[i] /\ i # 0} : signal' = [signal EXCEPT ![i] =
            IF Inherited(i) = "none" /\ late THEN "timed_out" ELSE Inherited(i)]
      BY <2>1 DEF Starts
    <3> QED BY <1>1, <3>1, <3>2
  <2>2. ASSUME NEW j \in Invs, NEW reason \in {"timed_out", "cancelled"}, Abort(j, reason)
        PROVE  signal' \in [Invs -> {"none", "timed_out", "cancelled"}]
    BY <1>1, <2>2 DEF Abort
  <2>3. CASE ~(\E j \in Invs : Starts(j)) /\ ~(\E j \in Invs, reason \in {"timed_out", "cancelled"} : Abort(j, reason))
    <3>1. signal' = signal
      BY <1>0, <2>3 DEF Next, Manager, Script, vars, signalVars, Call, Rejects, RootBeginFails,
         ScriptReturns, ScriptThrows, TimerFires, Cancel, Returns, Saves, Unsaved,
         SaveFails, Fails, FailureUnsaved, CallAgent, Acquire, AgentEnds
    <3> QED BY <1>1, <3>1
  <2> QED BY <2>1, <2>2, <2>3
<1>4. linked' \in [Invs -> BOOLEAN]
  BY ZenonT(60), <1>0, <1>1 DEF Next, Manager, Script, vars, signalVars, Call, Starts, Rejects, RootBeginFails,
     ScriptReturns, ScriptThrows, Abort, TimerFires, Cancel, Returns, Saves, Unsaved,
     SaveFails, Fails, FailureUnsaved, CallAgent, Acquire, AgentEnds
<1>5. timer' \in [Invs -> BOOLEAN]
  <2>1. ASSUME NEW i \in Invs, Starts(i) PROVE timer' \in [Invs -> BOOLEAN]
    <3>1. PICK late \in {FALSE, deadline[i] /\ i # 0} :
            timer' = [timer EXCEPT ![i] = IF i = 0 THEN @ ELSE deadline[i] /\ ~late]
      BY <2>1 DEF Starts
    <3>2. late \in BOOLEAN /\ (IF i = 0 THEN timer[i] ELSE deadline[i] /\ ~late) \in BOOLEAN
      BY <1>1
    <3> QED BY <1>1, <3>1, <3>2
  <2>2. CASE ~\E i \in Invs : Starts(i)
    <3>1. timer' = timer \/ \E i \in Invs : timer' = [timer EXCEPT ![i] = FALSE]
      BY <2>2 DEF Next, Manager, Script, vars, signalVars, Call, Rejects, RootBeginFails,
         ScriptReturns, ScriptThrows, Abort, TimerFires, Cancel, Returns, Saves, Unsaved,
         SaveFails, Fails, FailureUnsaved, CallAgent, Acquire, AgentEnds
    <3> QED BY <1>1, <3>1
  <2> QED BY <2>1, <2>2
<1>6. /\ deadline' \in [Invs -> BOOLEAN]
      /\ limit' \in [Invs -> 1..Concurrency]
      /\ \A i \in Invs : path'[i] \subseteq 0..i /\ i \in path'[i]
  <2>0. limit \in [Invs -> 1..Concurrency] /\ \A i \in Invs : path[i] \subseteq 0..i /\ i \in path[i]
    BY <1>0 DEF TypeOK
  <2>1. ASSUME NEW p \in Invs, Call(p)
        PROVE  /\ deadline' \in [Invs -> BOOLEAN]
               /\ limit' \in [Invs -> 1..Concurrency]
               /\ \A i \in Invs : path'[i] \subseteq 0..i /\ i \in path'[i]
    <3>1. PICK c \in Invs \ {0} :
            /\ p < c
            /\ path' = [path EXCEPT ![c] = path[p] \cup {c}]
            /\ deadline' = [deadline EXCEPT ![c] = c \in Timed \/ deadline[p]]
            /\ \E m \in 1..Concurrency : limit' = [limit EXCEPT ![c] = m]
      BY <2>1, CallIs
    <3>2. path[p] \cup {c} \subseteq 0..c
      BY <1>0, <2>0, <3>1
    <3>3. \A i \in Invs : path'[i] \subseteq 0..i /\ i \in path'[i]
      BY <1>0, <2>0, <3>1, <3>2 DEF FunctionsOK
    <3>4. (c \in Timed \/ deadline[p]) \in BOOLEAN
      OBVIOUS
    <3>5. deadline' \in [Invs -> BOOLEAN]
      BY <1>1, <3>1, <3>4
    <3> QED BY <2>0, <3>1, <3>3, <3>5
  <2> QED BY <1>1, <2>0, <2>1, Frames DEF treeVars
<1>7. script' \in [Invs -> {"none", "running", "ended"}]
  <2>1. ASSUME NEW i \in Invs, NEW v \in {"running", "ended"}, script' = [script EXCEPT ![i] = v]
        PROVE  script' \in [Invs -> {"none", "running", "ended"}]
    BY <1>1, <2>1
  <2>2. CASE script' = script
    BY <1>1, <2>2
  <2>3. ASSUME NEW i \in Invs, Manager(i)
        PROVE  script' \in [Invs -> {"none", "running", "ended"}]
    BY <2>1, <2>2, <2>3 DEF Manager, Starts, Rejects, Returns, Saves, Unsaved, SaveFails, Fails, FailureUnsaved
  <2>4. ASSUME NEW i \in Invs, Script(i) \/ TimerFires(i)
        PROVE  script' \in [Invs -> {"none", "running", "ended"}]
    BY <2>1, <2>2, <2>4 DEF Script, Call, CallAgent, ScriptReturns, ScriptThrows, TimerFires, Abort
  <2>5. CASE RootBeginFails \/ Cancel \/ (\E a \in Agents : Acquire(a) \/ AgentEnds(a)) \/ UNCHANGED vars
    BY <2>2, <2>5 DEF RootBeginFails, Cancel, Abort, Acquire, AgentEnds, vars
  <2> QED BY <2>3, <2>4, <2>5 DEF Next
<1>8. outcome' \in [Invs -> {"none", "value", "settled", "thrown"}]
  <2>1. ASSUME NEW i \in Invs, NEW v \in {"value", "settled", "thrown"}, outcome' = [outcome EXCEPT ![i] = v]
        PROVE  outcome' \in [Invs -> {"none", "value", "settled", "thrown"}]
    BY <1>1, <2>1
  <2>2. CASE outcome' = outcome
    BY <1>1, <2>2
  <2>3. ASSUME NEW i \in Invs, Manager(i)
        PROVE  outcome' \in [Invs -> {"none", "value", "settled", "thrown"}]
    BY <2>1, <2>2, <2>3 DEF Manager, Starts, Rejects, Returns, Saves, Unsaved, SaveFails, Fails,
       Settles, FailureUnsaved, reportVars
  <2>4. ASSUME NEW i \in Invs, Script(i) \/ TimerFires(i)
        PROVE  outcome' \in [Invs -> {"none", "value", "settled", "thrown"}]
    BY <2>1, <2>2, <2>4 DEF Script, Call, CallAgent, ScriptReturns, ScriptThrows, TimerFires, Abort, reportVars
  <2>5. CASE RootBeginFails \/ Cancel \/ (\E a \in Agents : Acquire(a) \/ AgentEnds(a)) \/ UNCHANGED vars
    BY <1>0, <2>1, <2>2, <2>5 DEF RootBeginFails, Cancel, Abort, Acquire, AgentEnds, vars, reportVars
  <2> QED BY <2>3, <2>4, <2>5 DEF Next
<1>9. error' \in [Invs -> {"none", "failed", "timed_out", "cancelled"}]
  <2>1. ASSUME NEW i \in Invs, NEW e \in {"none", "failed", "timed_out", "cancelled"},
               error' = [error EXCEPT ![i] = e]
        PROVE  error' \in [Invs -> {"none", "failed", "timed_out", "cancelled"}]
    BY <1>1, <2>1
  <2>2. ASSUME NEW i \in Invs, Starts(i) PROVE error' \in [Invs -> {"none", "failed", "timed_out", "cancelled"}]
    <3>1. error' = error \/ error' = [error EXCEPT ![i] = signal'[i]]
      BY <2>2 DEF Starts
    <3> QED BY <1>1, <1>3, <2>1, <3>1
  <2>3. ASSUME NEW i \in Invs, Rejects(i) \/ Saves(i) \/ Unsaved(i) \/ Fails(i) \/ FailureUnsaved(i)
        PROVE  error' \in [Invs -> {"none", "failed", "timed_out", "cancelled"}]
    BY <1>1, <2>1, <2>3 DEF Rejects, Saves, Unsaved, SaveFails, Fails, FailureUnsaved
  <2>4. ASSUME NEW i \in Invs, NEW e \in ChildErrors(i) \cup {"failed"}, ScriptThrows(i, e)
        PROVE  error' \in [Invs -> {"none", "failed", "timed_out", "cancelled"}]
    <3>1. e \in {"none", "failed", "timed_out", "cancelled"}
      BY <1>1 DEF ChildErrors
    <3> QED BY <1>1, <2>1, <2>4, <3>1 DEF ScriptThrows
  <2>5. ASSUME NEW j \in Invs, NEW reason \in {"timed_out", "cancelled"}, Abort(j, reason)
        PROVE  error' \in [Invs -> {"none", "failed", "timed_out", "cancelled"}]
    BY <1>1, <2>5 DEF Abort
  <2>6. CASE error' = error
    BY <1>1, <2>6
  <2>7. ASSUME NEW i \in Invs, Call(i) \/ CallAgent(i) \/ ScriptReturns(i) PROVE error' = error
    BY <2>7 DEF Call, CallAgent, ScriptReturns
  <2>8. CASE RootBeginFails \/ (\E a \in Agents : Acquire(a) \/ AgentEnds(a)) \/ UNCHANGED vars
    BY <2>6, <2>8 DEF RootBeginFails, Acquire, AgentEnds, vars
  <2>9. CASE (\E i \in Invs : TimerFires(i)) \/ Cancel
    BY <1>0, <2>5, <2>9 DEF TimerFires, Cancel
  <2>10. ASSUME NEW i \in Invs, Manager(i) \/ Script(i)
         PROVE  error' \in [Invs -> {"none", "failed", "timed_out", "cancelled"}]
    BY <2>2, <2>3, <2>4, <2>6, <2>7, <2>10 DEF Manager, Script
  <2> QED BY <2>8, <2>9, <2>10 DEF Next
<1>10. /\ agent' \in [Agents -> {"idle", "acquiring", "queued", "working"}]
       /\ owner' \in [Agents -> Invs] /\ held' \in [Agents -> SUBSET Invs]
  <2>0. /\ agent \in [Agents -> {"idle", "acquiring", "queued", "working"}]
        /\ owner \in [Agents -> Invs] /\ held \in [Agents -> SUBSET Invs]
    BY <1>0 DEF TypeOK
  <2>1. ASSUME NEW i \in Invs, Call(i) \/ CallAgent(i)
        PROVE  /\ agent' \in [Agents -> {"idle", "acquiring", "queued", "working"}]
               /\ owner' \in [Agents -> Invs] /\ held' \in [Agents -> SUBSET Invs]
    BY <2>0, <2>1 DEF Call, CallAgent, After
  <2>2. ASSUME NEW a \in Agents, Acquire(a)
        PROVE  /\ agent' \in [Agents -> {"idle", "acquiring", "queued", "working"}]
               /\ owner' \in [Agents -> Invs] /\ held' \in [Agents -> SUBSET Invs]
    <3>1. Min(Ahead(a)) \in Invs
      BY <1>0, <2>2, NextSemaphore DEF Acquire, AgentsOK
    <3>2. /\ agent' = agent \/ \E v \in {"working", "acquiring", "queued"} : agent' = [agent EXCEPT ![a] = v]
          /\ owner' = owner
          /\ held' = held \/ held' = [held EXCEPT ![a] = held[a] \cup {Min(Ahead(a))}]
      BY <2>2 DEF Acquire, After
    <3> QED BY <2>0, <3>1, <3>2
  <2>3. ASSUME NEW a \in Agents, AgentEnds(a)
        PROVE  /\ agent' \in [Agents -> {"idle", "acquiring", "queued", "working"}]
               /\ owner' \in [Agents -> Invs] /\ held' \in [Agents -> SUBSET Invs]
    <3> DEFINE given == {s \in Released(a) : queue[s] # <<>>}
               next == [s \in given |-> Head(queue[s])]
    <3>1. /\ held' = [b \in Agents |->
               IF b = a THEN {} ELSE held[b] \cup {s \in given : next[s] = b}]
          /\ agent' = [b \in Agents |->
               IF b = a THEN "idle"
               ELSE IF b \in Range(next)
               THEN After(Ahead(b) \ {s \in given : next[s] = b})
               ELSE agent[b]]
          /\ owner' = [owner EXCEPT ![a] = 0]
      BY <2>3 DEF AgentEnds
    <3>2. given \subseteq Invs
      BY <2>0 DEF Released
    <3> HIDE DEF given, next
    <3> QED BY <1>0, <2>0, <3>1, <3>2 DEF After
  <2> QED BY <2>0, <2>1, <2>2, <2>3, Frames DEF budgetVars
<1>11. \A i \in Invs : permits'[i] \in -1..limit'[i]
  <2>0. /\ \A i \in Invs : permits[i] \in -1..limit[i] /\ limit[i] \in Nat
        /\ permits \in [Invs -> Int] /\ limit \in [Invs -> 1..Concurrency] /\ Concurrency \in Nat
    BY <1>0, CallsAssumption DEF TypeOK, FunctionsOK
  <2>1. ASSUME NEW p \in Invs, Call(p) PROVE \A i \in Invs : permits'[i] \in -1..limit'[i]
    <3>1. PICK c \in Invs \ {0} :
            /\ \E m \in 1..Concurrency : limit' = [limit EXCEPT ![c] = m]
            /\ \E m \in {-1, 0} : permits' = [permits EXCEPT ![c] = m]
      BY <2>1, CallIs
    <3> QED BY <2>0, <3>1
  <2>2. ASSUME NEW a \in Agents, Acquire(a) PROVE \A i \in Invs : permits'[i] \in -1..limit'[i]
    <3>1. Min(Ahead(a)) \in Invs
      BY <1>0, <2>2, NextSemaphore DEF Acquire, AgentsOK
    <3>2. /\ limit' = limit
          /\ \/ permits' = permits
             \/ /\ permits[Min(Ahead(a))] < limit[Min(Ahead(a))]
                /\ permits' = [permits EXCEPT ![Min(Ahead(a))] = permits[Min(Ahead(a))] + 1]
      BY <2>2 DEF Acquire, HasPermit, treeVars
    <3> QED BY <2>0, <3>1, <3>2
  <2>3. ASSUME NEW a \in Agents, AgentEnds(a) PROVE \A i \in Invs : permits'[i] \in -1..limit'[i]
    <3>1. /\ limit' = limit
          /\ \A s \in Invs : permits'[s] = permits[s] \/ (s \in held[a] /\ permits'[s] = permits[s] - 1)
      BY <2>3 DEF AgentEnds, Released, treeVars
    <3>2. \A s \in held[a] : permits[s] >= 1
      BY SemaphoresAre
    <3> QED BY <2>0, <3>1, <3>2
  <2>4. ASSUME NEW i \in Invs, CallAgent(i) PROVE \A j \in Invs : permits'[j] \in -1..limit'[j]
    BY <2>0, <2>4 DEF CallAgent, treeVars
  <2>5. CASE UNCHANGED budgetVars /\ UNCHANGED treeVars
    BY <2>0, <2>5 DEF budgetVars, treeVars
  <2> QED BY <2>1, <2>2, <2>3, <2>4, <2>5, Frames
<1>12. \A i \in Invs : queue'[i] \in Seq(Agents)
  BY StepFunctions DEF FunctionsOK
<1> QED BY <1>2, <1>3, <1>4, <1>5, <1>6, <1>7, <1>8, <1>9, <1>10, <1>11, <1>12 DEF TypeOK

-----------------------------------------------------------------------------
(* An abort is heard along the links below it, and by nothing that has not *)
(* begun.                                                                  *)
LEMMA AbortHeard ==
  ASSUME IInv, NEW j \in Invs, NEW reason \in {"timed_out", "cancelled"}, Abort(j, reason),
         timer[j] \/ j = 0
  PROVE  \A i \in Invs \ {0} :
           /\ pc[i] \in {"unborn", "beginning"} => signal'[i] = "none"
           /\ linked[i] /\ signal'[Parent(i)] # "none" => signal'[i] # "none"
<1>0. /\ TypeOK /\ FunctionsOK /\ TreeOK /\ SignalsOK
      /\ \A i \in Invs : i \in Nat
  BY BoundsAssumption DEF IInv, Invs
<1>1. \A i \in Invs : signal'[i] = IF i \in Hears(j) /\ signal[i] = "none" THEN reason ELSE signal[i]
  BY DEF Abort, Hears
<1>2. ASSUME NEW i \in Invs \ {0}, pc[i] \in {"unborn", "beginning"} PROVE signal'[i] = "none"
  <2>1. signal[i] = "none" /\ ~linked[i] /\ ~timer[i]
    BY <1>0, <1>2 DEF SignalsOK
  <2>2. i \notin Hears(j)
    <3> SUFFICES ASSUME i \in Hears(j) PROVE FALSE
      OBVIOUS
    <3>1. j \in path[i] /\ \A k \in path[i] : k > j => linked[k]
      BY DEF Hears
    <3>2. i \in path[i] /\ j \in 0..i
      BY <1>0, <3>1 DEF TypeOK
    <3>3. ~(i > j)
      BY <2>1, <3>1, <3>2
    <3>4. i \in Nat /\ j \in Nat /\ j <= i
      <4>1. \A k \in Invs : k \in Nat
        BY <1>0
      <4>2. i \in Nat /\ j \in Nat
        BY <4>1
      <4> QED BY <3>2, <4>2
    <3>5. j = i
      BY <3>3, <3>4
    <3> QED BY <2>1, <3>5
  <2> QED BY <1>1, <2>1, <2>2
<1>3. ASSUME NEW i \in Invs \ {0}, linked[i], signal'[Parent(i)] # "none"
      PROVE  signal'[i] # "none"
  <2>1. pc[i] # "unborn"
    BY <1>0, <1>3 DEF SignalsOK
  <2>2. Parent(i) \in Invs /\ path[i] = path[Parent(i)] \cup {i}
    BY <1>0, <2>1, ParentIs
  <2>3. CASE signal[Parent(i)] # "none"
    BY <1>0, <1>1, <1>3, <2>3 DEF SignalsOK
  <2>4. CASE signal[Parent(i)] = "none"
    <3>1. Parent(i) \in Hears(j)
      BY <1>1, <1>3, <2>2, <2>4
    <3>2. i \in Hears(j)
      BY <1>3, <2>2, <3>1 DEF Hears
    <3> QED BY <1>1, <3>2
  <2> QED BY <2>3, <2>4
<1> QED BY <1>2, <1>3

LEMMA StepSignals ==
  ASSUME IInv, [Next]_vars
  PROVE  SignalsOK'
<1>0. /\ TypeOK /\ FunctionsOK /\ TreeOK /\ SignalsOK /\ 0 \in Invs
      /\ \A i \in Invs : i \in Nat
  BY BoundsAssumption DEF IInv, Invs
<1>1. /\ pc \in [Invs -> {"unborn", "beginning", "running", "saving", "failing", "rejecting", "done"}]
      /\ signal \in [Invs -> {"none", "timed_out", "cancelled"}]
      /\ linked \in [Invs -> BOOLEAN] /\ timer \in [Invs -> BOOLEAN]
  BY <1>0 DEF TypeOK
<1>2. ASSUME NEW i \in Invs, pc[i] # "unborn" PROVE Parent(i)' = Parent(i)
  BY <1>2, Growth DEF Parent
<1>3. ASSUME NEW p \in Invs, Call(p) PROVE SignalsOK'
  <2>1. PICK c \in Invs \ {0} : pc[c] = "unborn" /\ pc' = [pc EXCEPT ![c] = "beginning"]
    BY <1>3, CallIs
  <2>2. signal' = signal /\ linked' = linked /\ timer' = timer
    BY <1>3 DEF Call, signalVars
  <2>3. ASSUME NEW i \in Invs \ {0}
        PROVE  /\ pc'[i] \in {"unborn", "beginning"} => pc[i] \in {"unborn", "beginning"}
               /\ pc'[i] \in {"running", "saving"} => pc[i] = pc'[i]
    BY <1>1, <2>1
  <2>4. ASSUME NEW i \in Invs \ {0}, linked'[i], signal'[Parent(i)'] # "none" PROVE signal'[i] # "none"
    <3>1. pc[i] # "unborn"
      BY <1>0, <2>2, <2>4 DEF SignalsOK
    <3> QED BY <1>0, <1>2, <2>2, <2>4, <3>1 DEF SignalsOK
  <2> QED BY <1>0, <2>2, <2>3, <2>4 DEF SignalsOK
<1>4. ASSUME NEW j \in Invs, Starts(j) PROVE SignalsOK'
  <2>1. /\ pc[j] = "beginning"
        /\ linked' = [linked EXCEPT ![j] = j # 0]
        /\ pc' = [pc EXCEPT ![j] = "running"] \/ pc' = [pc EXCEPT ![j] = "failing"]
    BY <1>4 DEF Starts
  <2>2. \A i \in Invs : i # j =>
          /\ pc'[i] = pc[i] /\ signal'[i] = signal[i]
          /\ timer'[i] = timer[i] /\ linked'[i] = linked[i]
    BY <1>1, <1>4, <2>1 DEF Starts
  <2>3. pc'[j] \in {"running", "failing"} /\ linked'[j] = (j # 0)
    BY <1>1, <2>1
  <2>4. Inherited(j) # "none" => signal'[j] # "none"
    BY <1>1, <1>4 DEF Starts
  <2>5. ASSUME NEW i \in Invs \ {0}, linked'[i], signal'[Parent(i)'] # "none" PROVE signal'[i] # "none"
    <3>1. pc[i] # "unborn"
      BY <1>0, <2>1, <2>2, <2>5 DEF SignalsOK
    <3>2. Parent(i) \in Invs /\ Parent(i) # j /\ Parent(i)' = Parent(i)
      BY <1>0, <1>2, <2>1, <3>1, ParentIs DEF NotBegun
    <3>3. signal[Parent(i)] # "none"
      BY <2>2, <2>5, <3>2
    <3>4. CASE i = j
      BY <2>4, <3>3, <3>4 DEF Inherited
    <3>5. CASE i # j
      BY <1>0, <2>2, <2>5, <3>3, <3>5 DEF SignalsOK
    <3> QED BY <3>4, <3>5
  <2>6. ASSUME NEW i \in Invs \ {0}
        PROVE  /\ pc'[i] \in {"unborn", "beginning"} => ~linked'[i] /\ ~timer'[i] /\ signal'[i] = "none"
               /\ pc'[i] \in {"running", "saving"} => linked'[i]
    <3>1. CASE i = j
      BY <2>3, <3>1
    <3>2. CASE i # j
      BY <1>0, <2>2, <3>2 DEF SignalsOK
    <3> QED BY <3>1, <3>2
  <2> QED BY <2>5, <2>6 DEF SignalsOK
<1>5. ASSUME NEW j \in Invs, NEW reason \in {"timed_out", "cancelled"}, Abort(j, reason),
             timer[j] \/ j = 0, timer' = timer \/ timer' = [timer EXCEPT ![j] = FALSE]
      PROVE  SignalsOK'
  <2>1. linked' = linked /\ \A i \in Invs : pc'[i] = pc[i] \/ (pc[i] = "running" /\ pc'[i] = "failing")
    BY <1>5 DEF Abort, GivesUp
  <2>2. \A i \in Invs : ~timer[i] => ~timer'[i]
    BY <1>1, <1>5
  <2>3. ASSUME NEW i \in Invs \ {0}, linked'[i], signal'[Parent(i)'] # "none" PROVE signal'[i] # "none"
    <3>1. pc[i] # "unborn"
      BY <1>0, <2>1, <2>3 DEF SignalsOK
    <3> QED BY <1>2, <1>5, <2>1, <2>3, <3>1, AbortHeard
  <2>4. ASSUME NEW i \in Invs \ {0}
        PROVE  /\ pc'[i] \in {"unborn", "beginning"} => ~linked'[i] /\ ~timer'[i] /\ signal'[i] = "none"
               /\ pc'[i] \in {"running", "saving"} => linked'[i]
    <3>1. pc'[i] \in {"unborn", "beginning"} => signal'[i] = "none" /\ pc[i] = pc'[i]
      BY <1>5, <2>1, AbortHeard
    <3> QED BY <1>0, <2>1, <2>2, <3>1 DEF SignalsOK
  <2> QED BY <2>3, <2>4 DEF SignalsOK
<1>6. ASSUME NEW j \in Invs, NEW result, Returns(j, result) PROVE SignalsOK'
  <2>1. /\ pc' = [pc EXCEPT ![j] = "done"] /\ signal' = signal
        /\ timer' = [timer EXCEPT ![j] = FALSE] /\ linked' = [linked EXCEPT ![j] = FALSE]
    BY <1>6 DEF Returns
  <2>2. pc'[j] = "done" /\ ~linked'[j] /\ \A i \in Invs : i # j =>
          pc'[i] = pc[i] /\ timer'[i] = timer[i] /\ linked'[i] = linked[i]
    BY <1>1, <2>1
  <2>3. ASSUME NEW i \in Invs \ {0}, linked'[i], signal'[Parent(i)'] # "none" PROVE signal'[i] # "none"
    <3>1. i # j /\ linked[i] /\ pc[i] # "unborn"
      BY <1>0, <2>2, <2>3 DEF SignalsOK
    <3> QED BY <1>0, <1>2, <2>1, <2>3, <3>1 DEF SignalsOK
  <2>4. ASSUME NEW i \in Invs \ {0}
        PROVE  /\ pc'[i] \in {"unborn", "beginning"} => ~linked'[i] /\ ~timer'[i] /\ signal'[i] = "none"
               /\ pc'[i] \in {"running", "saving"} => linked'[i]
    BY <1>0, <2>1, <2>2 DEF SignalsOK
  <2> QED BY <2>3, <2>4 DEF SignalsOK
<1>7. ASSUME UNCHANGED signalVars,
             \A i \in Invs : pc'[i] \in {"unborn", "beginning", "running"} => pc[i] = pc'[i],
             \A i \in Invs : pc'[i] = "saving" => pc[i] \in {"running", "saving"}
      PROVE  SignalsOK'
  <2>1. signal' = signal /\ linked' = linked /\ timer' = timer
    BY <1>7 DEF signalVars
  <2>2. ASSUME NEW i \in Invs \ {0}, linked'[i], signal'[Parent(i)'] # "none" PROVE signal'[i] # "none"
    <3>1. pc[i] # "unborn"
      BY <1>0, <2>1, <2>2 DEF SignalsOK
    <3> QED BY <1>0, <1>2, <2>1, <2>2, <3>1 DEF SignalsOK
  <2> QED BY <1>0, <1>7, <2>1, <2>2 DEF SignalsOK
<1>8. ASSUME NEW j \in Invs, Rejects(j) \/ Unsaved(j) \/ ScriptReturns(j) \/ (\E e \in ChildErrors(j) \cup {"failed"} : ScriptThrows(j, e))
      PROVE  SignalsOK'
  <2>1. UNCHANGED signalVars /\
        \/ pc' = [pc EXCEPT ![j] = "rejecting"] \/ pc' = [pc EXCEPT ![j] = "failing"]
        \/ pc' = [pc EXCEPT ![j] = IF pc[j] = "running" THEN "saving" ELSE pc[j]]
        \/ pc' = [pc EXCEPT ![j] = IF pc[j] = "running" THEN "failing" ELSE pc[j]]
    BY <1>8 DEF Rejects, Unsaved, SaveFails, ScriptReturns, ScriptThrows
  <2>2. /\ \A i \in Invs : pc'[i] \in {"unborn", "beginning", "running"} => pc[i] = pc'[i]
        /\ \A i \in Invs : pc'[i] = "saving" => pc[i] \in {"running", "saving"}
    BY <1>1, <2>1
  <2> QED BY <1>7, <2>1, <2>2
<1>9. CASE RootBeginFails
  BY <1>1, <1>7, <1>9 DEF RootBeginFails
<1>10. ASSUME NEW j \in Invs, CallAgent(j) PROVE SignalsOK'
  BY <1>7, <1>10 DEF CallAgent
<1>11. CASE (\E a \in Agents : Acquire(a) \/ AgentEnds(a)) \/ UNCHANGED vars
  BY <1>7, <1>11 DEF Acquire, AgentEnds, vars
<1>12. CASE (\E i \in Invs : TimerFires(i)) \/ Cancel
  BY <1>0, <1>5, <1>12 DEF TimerFires, Cancel
<1>13. ASSUME NEW i \in Invs, Manager(i) \/ Script(i) PROVE SignalsOK'
  BY <1>3, <1>4, <1>6, <1>8, <1>10, <1>13 DEF Manager, Script, Saves, Fails, FailureUnsaved
<1> QED BY <1>9, <1>11, <1>12, <1>13 DEF Next

-----------------------------------------------------------------------------
(* What has been explained stays so, whoever joins the tree; and the error *)
(* of a child explains itself to the parent that passes it on.             *)
LEMMA ExplainedStays ==
  ASSUME IInv, [Next]_vars
  PROVE  \A i \in Invs : \A e : Explained(i, e) =>
           (e \in {"timed_out", "cancelled"} =>
              \E j \in Invs : (j \in path'[i] \/ i \in path'[j]) /\ signal'[j] = e)
<1> SUFFICES ASSUME NEW i \in Invs, NEW e \in {"timed_out", "cancelled"}, Explained(i, e)
             PROVE  \E j \in Invs : (j \in path'[i] \/ i \in path'[j]) /\ signal'[j] = e
  OBVIOUS
<1>1. PICK j \in Invs : Related(i, j) /\ signal[j] = e
  BY DEF Explained
<1>2. signal'[j] = e /\ path[i] \subseteq path'[i] /\ path[j] \subseteq path'[j]
  BY <1>1, Growth
<1> QED BY <1>1, <1>2 DEF Related

LEMMA ChildExplained ==
  ASSUME IInv, NEW i \in Invs, NEW e \in ChildErrors(i)
  PROVE  Explained(i, e) /\ e # "none"
<1>0. AncestryOK /\ TypeOK /\ FunctionsOK /\ ErrorsOK
  BY DEF IInv
<1>1. PICK c \in Invs \ {0} : outcome[c] = "thrown" /\ path[c] = path[i] \cup {c} /\ e = error[c]
  BY DEF ChildErrors
<1>2. Explained(c, e) /\ e # "none"
  BY <1>0, <1>1 DEF ErrorsOK
<1>3. ASSUME NEW j \in Invs, Related(c, j), signal[j] = e
      PROVE  Related(i, j)
  <2>1. i \in path[i] /\ i \in path[c]
    BY <1>0, <1>1 DEF TypeOK
  <2>2. CASE j \in path[c]
    BY <1>1, <2>1, <2>2 DEF Related
  <2>3. CASE c \in path[j]
    BY <1>0, <2>1, <2>3 DEF AncestryOK, Related
  <2> QED BY <1>3, <2>2, <2>3 DEF Related
<1> QED BY <1>2, <1>3 DEF Explained

LEMMA StepErrors ==
  ASSUME IInv, [Next]_vars
  PROVE  ErrorsOK'
<1>0. /\ TypeOK /\ ErrorsOK /\ StoryOK /\ TypeOK' /\ SignalsOK /\ 0 \in Invs
  BY StepTypes, BoundsAssumption DEF IInv, Invs
<1>1. /\ pc \in [Invs -> {"unborn", "beginning", "running", "saving", "failing", "rejecting", "done"}]
      /\ error \in [Invs -> {"none", "failed", "timed_out", "cancelled"}]
      /\ outcome \in [Invs -> {"none", "value", "settled", "thrown"}]
  BY <1>0 DEF TypeOK
<1> DEFINE Good(i) == /\ Explained(i, error[i])
                      /\ pc[i] \in {"failing", "rejecting"} => error[i] # "none"
                      /\ i # 0 /\ outcome[i] = "thrown" => error[i] # "none"
<1>2. ASSUME NEW i \in Invs, error'[i] = error[i], outcome'[i] = outcome[i],
             pc'[i] \in {"failing", "rejecting"} => pc[i] \in {"failing", "rejecting"}
      PROVE  Good(i)'
  BY <1>0, <1>2, ExplainedStays DEF ErrorsOK, Explained, Related
<1>3. ASSUME NEW i \in Invs, error'[i] \in {"failed"} \cup ChildErrors(i)
      PROVE  Good(i)'
  <2>1. Explained(i, error'[i]) /\ error'[i] # "none"
    BY <1>3, ChildExplained DEF Explained
  <2> QED BY <2>1, ExplainedStays DEF Explained, Related
<1>4. ASSUME NEW i \in Invs, error'[i] = signal'[i], signal'[i] # "none"
      PROVE  Good(i)'
  <2>1. i \in path'[i]
    BY <1>0 DEF TypeOK
  <2> QED BY <1>4, <2>1 DEF Explained, Related
<1>5. ASSUME NEW p \in Invs, Call(p) PROVE ErrorsOK'
  <2>1. PICK c \in Invs \ {0} : pc[c] = "unborn" /\ pc' = [pc EXCEPT ![c] = "beginning"]
    BY <1>5, CallIs
  <2>2. error' = error /\ outcome' = outcome
    BY <1>5 DEF Call, reportVars
  <2> QED BY <1>1, <1>2, <2>1, <2>2 DEF ErrorsOK
<1>6. ASSUME NEW j \in Invs, NEW e, error' = [error EXCEPT ![j] = e], Good(j)',
             \A i \in Invs : i # j => pc'[i] = pc[i] /\ outcome'[i] = outcome[i]
      PROVE  ErrorsOK'
  <2>1. ASSUME NEW i \in Invs, i # j PROVE Good(i)'
    BY <1>1, <1>2, <1>6, <2>1
  <2> QED BY <1>6, <2>1 DEF ErrorsOK
<1>7. ASSUME NEW j \in Invs, Starts(j) PROVE ErrorsOK'
  <2>1. outcome' = outcome /\ \A i \in Invs : i # j => pc'[i] = pc[i]
    BY <1>1, <1>7 DEF Starts, reportVars
  <2>2. CASE signal'[j] = "none"
    BY <1>1, <1>2, <1>7, <2>1, <2>2 DEF Starts, ErrorsOK
  <2>3. CASE signal'[j] # "none"
    <3>1. error' = [error EXCEPT ![j] = signal'[j]]
      BY <1>7, <2>3 DEF Starts
    <3>2. Good(j)'
      BY <1>1, <1>4, <2>3, <3>1
    <3> QED BY <1>6, <2>1, <3>1, <3>2
  <2> QED BY <2>2, <2>3
<1>8. ASSUME NEW j \in Invs, Rejects(j) \/ Unsaved(j) \/ FailureUnsaved(j) PROVE ErrorsOK'
  <2>1. /\ error' = [error EXCEPT ![j] = "failed"]
        /\ \A i \in Invs : i # j => pc'[i] = pc[i] /\ outcome'[i] = outcome[i]
    BY <1>1, <1>8 DEF Rejects, Unsaved, SaveFails, FailureUnsaved, Returns, reportVars
  <2>2. Good(j)'
    BY <1>1, <1>3, <2>1
  <2> QED BY <1>6, <2>1, <2>2
<1>9. ASSUME NEW j \in Invs, Saves(j) PROVE ErrorsOK'
  <2>1. /\ error' = [error EXCEPT ![j] = "none"]
        /\ pc'[j] = "done" /\ outcome'[j] = "value"
        /\ \A i \in Invs : i # j => pc'[i] = pc[i] /\ outcome'[i] = outcome[i]
    BY <1>1, <1>9 DEF Saves, Returns
  <2>2. error'[j] = "none"
    BY <1>1, <2>1
  <2>3. Good(j)'
    BY <2>1, <2>2 DEF Explained
  <2> QED BY <1>6, <2>1, <2>3
<1>10. ASSUME NEW j \in Invs, Fails(j) PROVE ErrorsOK'
  <2>1. /\ error' = [error EXCEPT ![j] = IF Settles(j) = "thrown" THEN error[j] ELSE "none"]
        /\ pc'[j] = "done" /\ outcome'[j] = Settles(j)
        /\ pc[j] \in {"failing", "rejecting"}
        /\ \A i \in Invs : i # j => pc'[i] = pc[i] /\ outcome'[i] = outcome[i]
    BY <1>1, <1>10 DEF Fails, Returns
  <2>2. error'[j] = IF Settles(j) = "thrown" THEN error[j] ELSE "none"
    BY <1>1, <2>1
  <2>3. error[j] # "none" /\ Explained(j, error[j])
    BY <1>0, <2>1 DEF ErrorsOK
  <2>4. Good(j)'
    BY <2>1, <2>2, <2>3, ExplainedStays DEF Explained, Related
  <2> QED BY <1>6, <2>1, <2>4
<1>11. ASSUME NEW j \in Invs, NEW e \in ChildErrors(j) \cup {"failed"}, ScriptThrows(j, e)
       PROVE  ErrorsOK'
  <2>1. /\ error' = [error EXCEPT ![j] = IF pc[j] = "running" THEN e ELSE error[j]]
        /\ pc' = [pc EXCEPT ![j] = IF pc[j] = "running" THEN "failing" ELSE pc[j]]
        /\ outcome' = outcome
    BY <1>11 DEF ScriptThrows, reportVars
  <2>2. Good(j)'
    <3>1. CASE pc[j] = "running"
      BY <1>1, <1>3, <2>1, <3>1
    <3>2. CASE pc[j] # "running"
      BY <1>1, <1>2, <2>1, <3>2
    <3> QED BY <3>1, <3>2
  <2> QED BY <1>1, <1>6, <2>1, <2>2
<1>12. ASSUME NEW j \in Invs, ScriptReturns(j) PROVE ErrorsOK'
  <2>1. /\ pc' = [pc EXCEPT ![j] = IF pc[j] = "running" THEN "saving" ELSE pc[j]]
        /\ outcome' = outcome /\ error' = error
    BY <1>12 DEF ScriptReturns, reportVars
  <2> QED BY <1>1, <1>2, <2>1 DEF ErrorsOK
<1>13. ASSUME NEW j \in Invs, NEW reason \in {"timed_out", "cancelled"}, Abort(j, reason)
       PROVE  ErrorsOK'
  <2> DEFINE told == {i \in Hears(j) : signal[i] = "none"}
             stops == {i \in told : GivesUp(i)}
  <2>1. /\ \A i \in Invs : i \in told => signal'[i] = reason
        /\ \A i \in Invs : i \in stops => error'[i] = reason
        /\ \A i \in Invs : i \notin stops => error'[i] = error[i] /\ pc'[i] = pc[i]
        /\ outcome' = outcome
    BY <1>13 DEF Abort, reportVars
  <2>2. stops \subseteq told
    OBVIOUS
  <2> HIDE DEF told, stops
  <2>3. ASSUME NEW i \in Invs PROVE Good(i)'
    <3>1. CASE i \in stops
      BY <1>4, <2>1, <2>2, <3>1
    <3>2. CASE i \notin stops
      BY <1>2, <2>1, <3>2
    <3> QED BY <3>1, <3>2
  <2> QED BY <2>3 DEF ErrorsOK
<1>14. CASE RootBeginFails
  <2>1. /\ error' = error /\ pc'[0] = "done"
        /\ \A i \in Invs : i # 0 => pc'[i] = pc[i] /\ outcome'[i] = outcome[i]
    BY <1>0, <1>1, <1>14 DEF RootBeginFails
  <2>2. Good(0)'
    BY <1>0, <2>1, ExplainedStays DEF ErrorsOK, Explained, Related
  <2>3. ASSUME NEW i \in Invs, i # 0 PROVE Good(i)'
    BY <1>2, <2>1, <2>3
  <2> QED BY <2>2, <2>3 DEF ErrorsOK
<1>15. CASE (\E i \in Invs : CallAgent(i)) \/ (\E a \in Agents : Acquire(a) \/ AgentEnds(a)) \/ UNCHANGED vars
  <2>1. error' = error /\ pc' = pc /\ outcome' = outcome
    BY <1>15 DEF CallAgent, Acquire, AgentEnds, vars, reportVars
  <2> QED BY <1>2, <2>1 DEF ErrorsOK
<1>16. CASE (\E i \in Invs : TimerFires(i)) \/ Cancel
  BY <1>0, <1>13, <1>16 DEF TimerFires, Cancel
<1>17. ASSUME NEW i \in Invs, Manager(i) \/ Script(i) PROVE ErrorsOK'
  BY <1>5, <1>7, <1>8, <1>9, <1>10, <1>11, <1>12, <1>15, <1>17 DEF Manager, Script
<1> QED BY <1>14, <1>15, <1>16, <1>17 DEF Next

LEMMA ShortAppends ==
  ASSUME NEW x, NEW y
  PROVE  Append(<<>>, y) = <<y>> /\ Append(<<x>>, y) = <<x, y>>
<1>1. <<>> \in Seq({x, y}) /\ <<x>> \in Seq({x, y}) /\ <<x, y>> \in Seq({x, y}) /\ <<y>> \in Seq({x, y})
  OBVIOUS
<1>2. /\ Len(Append(<<x>>, y)) = 2 /\ Append(<<x>>, y)[1] = x /\ Append(<<x>>, y)[2] = y
      /\ Append(<<x>>, y) \in Seq({x, y})
  BY <1>1
<1>3. Len(<<x, y>>) = 2 /\ <<x, y>>[1] = x /\ <<x, y>>[2] = y
  OBVIOUS
<1>4. ASSUME NEW q \in Seq({x, y}), Len(q) = 2, q[1] = x, q[2] = y PROVE q = <<x, y>>
  BY <1>4
<1>5. Append(<<x>>, y) = <<x, y>>
  BY <1>2, <1>4
<1> QED BY <1>5

LEMMA StepStory ==
  ASSUME IInv, [Next]_vars
  PROVE  StoryOK'
<1>0. /\ TypeOK /\ FunctionsOK /\ ErrorsOK /\ StoryOK /\ FunctionsOK' /\ 0 \in Invs
  BY StepFunctions, BoundsAssumption DEF IInv, Invs
<1>1. /\ pc \in [Invs -> {"unborn", "beginning", "running", "saving", "failing", "rejecting", "done"}]
      /\ error \in [Invs -> {"none", "failed", "timed_out", "cancelled"}]
      /\ outcome \in [Invs -> {"none", "value", "settled", "thrown"}]
      /\ summary \in [Invs -> Seq(Statuses)] /\ events \in [Invs -> Seq(Statuses \cup {"started"})]
  BY <1>0 DEF TypeOK, FunctionsOK
<1> DEFINE Good(i) == /\ pc[i] # "done" => summary[i] = <<>> /\ outcome[i] = "none"
                      /\ pc[i] \in NotBegun => events[i] = <<>>
                      /\ pc[i] \in {"running", "saving"} => events[i] = <<"started">>
                      /\ pc[i] = "failing" => events[i] \in {<<>>, <<"started">>}
                      /\ pc[i] = "done" => Told(i)
<1>2. ASSUME NEW i \in Invs, summary'[i] = summary[i], events'[i] = events[i], outcome'[i] = outcome[i], Told(i)
      PROVE  Told(i)'
  <2>1. CASE summary[i] = <<>> /\ outcome[i] = "thrown"
    BY <1>2, <2>1 DEF Told
  <2>2. CASE ~(summary[i] = <<>> /\ outcome[i] = "thrown")
    <3>1. PICK s \in Statuses :
            /\ summary[i] = <<s>>
            /\ s = "succeeded" <=> outcome[i] = "value"
            /\ events[i] \in {<<>>, <<s>>, <<"started", s>>}
            /\ Explained(i, s)
      BY <1>2, <2>2 DEF Told, Statuses
    <3>2. Explained(i, s)'
      BY <3>1, ExplainedStays DEF Explained, Related
    <3> QED BY <1>2, <3>1, <3>2 DEF Told, Statuses
  <2> QED BY <2>1, <2>2
<1>3. ASSUME NEW i \in Invs, summary'[i] = summary[i], events'[i] = events[i], outcome'[i] = outcome[i],
             \/ pc'[i] = pc[i]
             \/ pc[i] \in NotBegun /\ pc'[i] \in NotBegun \cup {"failing"}
             \/ pc[i] \in {"running", "saving"} /\ pc'[i] \in {"running", "saving", "failing"}
      PROVE  Good(i)'
  <2>1. CASE pc[i] = "done"
    BY <1>0, <1>2, <1>3, <2>1 DEF StoryOK, NotBegun
  <2>2. CASE pc[i] # "done"
    <3>1. pc'[i] # "done"
      BY <1>3, <2>2 DEF NotBegun
    <3> QED BY <1>0, <1>3, <2>2, <3>1 DEF StoryOK, NotBegun
  <2> QED BY <2>1, <2>2
<1>4. ASSUME NEW j \in Invs, Good(j)',
             \A i \in Invs : i # j =>
               /\ pc'[i] = pc[i] /\ outcome'[i] = outcome[i]
               /\ summary'[i] = summary[i] /\ events'[i] = events[i]
      PROVE  StoryOK'
  BY <1>3, <1>4 DEF StoryOK
<1>5. ASSUME NEW p \in Invs, Call(p) PROVE StoryOK'
  <2>1. PICK c \in Invs \ {0} : pc[c] = "unborn" /\ pc' = [pc EXCEPT ![c] = "beginning"]
    BY <1>5, CallIs
  <2>2. UNCHANGED <<summary, events, outcome>>
    BY <1>5 DEF Call, reportVars
  <2> QED BY <1>1, <1>3, <2>1, <2>2 DEF StoryOK, NotBegun
<1>6. ASSUME NEW j \in Invs, Starts(j) PROVE StoryOK'
  <2>1. /\ pc[j] = "beginning" /\ summary' = summary /\ outcome' = outcome
        /\ \/ /\ pc' = [pc EXCEPT ![j] = "running"]
              /\ events' = [events EXCEPT ![j] = Append(events[j], "started")]
           \/ /\ pc' = [pc EXCEPT ![j] = "failing"]
              /\ events' = events
    BY <1>6 DEF Starts
  <2>2. events[j] = <<>> /\ Append(<<>>, "started") = <<"started">>
    BY <1>0, <2>1 DEF StoryOK, NotBegun
  <2>3. \A i \in Invs : i # j => pc'[i] = pc[i] /\ events'[i] = events[i]
    BY <1>1, <2>1
  <2>4. CASE pc' = [pc EXCEPT ![j] = "failing"] /\ events' = events
    BY <1>1, <1>3, <1>4, <2>1, <2>3, <2>4 DEF NotBegun
  <2>5. CASE pc' = [pc EXCEPT ![j] = "running"] /\ events' = [events EXCEPT ![j] = Append(events[j], "started")]
    <3>1. pc'[j] = "running" /\ events'[j] = <<"started">>
      BY <1>1, <2>2, <2>5
    <3>2. summary'[j] = <<>> /\ outcome'[j] = "none"
      BY <1>0, <2>1 DEF StoryOK
    <3>3. Good(j)'
      BY <3>1, <3>2 DEF NotBegun
    <3> QED BY <1>4, <2>1, <2>3, <3>3
  <2> QED BY <2>1, <2>4, <2>5
<1>7. ASSUME NEW j \in Invs, Rejects(j) \/ Unsaved(j) \/ ScriptReturns(j) \/ (\E e \in ChildErrors(j) \cup {"failed"} : ScriptThrows(j, e))
      PROVE  StoryOK'
  <2>1. UNCHANGED <<summary, events, outcome>>
    BY <1>7 DEF Rejects, Unsaved, SaveFails, ScriptReturns, ScriptThrows, reportVars
  <2>2. \/ pc[j] = "beginning" /\ pc' = [pc EXCEPT ![j] = "rejecting"]
        \/ pc[j] = "saving" /\ pc' = [pc EXCEPT ![j] = "failing"]
        \/ pc' = [pc EXCEPT ![j] = IF pc[j] = "running" THEN "saving" ELSE pc[j]]
        \/ pc' = [pc EXCEPT ![j] = IF pc[j] = "running" THEN "failing" ELSE pc[j]]
    BY <1>7 DEF Rejects, Unsaved, SaveFails, ScriptReturns, ScriptThrows
  <2>3. ASSUME NEW i \in Invs
        PROVE  \/ pc'[i] = pc[i]
               \/ pc[i] \in NotBegun /\ pc'[i] \in NotBegun \cup {"failing"}
               \/ pc[i] \in {"running", "saving"} /\ pc'[i] \in {"running", "saving", "failing"}
    BY <1>1, <2>2 DEF NotBegun
  <2> QED BY <1>3, <2>1, <2>3 DEF StoryOK
<1>8. ASSUME NEW j \in Invs, NEW reason, Abort(j, reason) PROVE StoryOK'
  <2>1. /\ UNCHANGED <<summary, events, outcome>>
        /\ \A i \in Invs : pc'[i] = pc[i] \/ (pc[i] = "running" /\ pc'[i] = "failing")
    BY <1>8 DEF Abort, GivesUp, reportVars
  <2> QED BY <1>3, <2>1 DEF StoryOK
<1>9. ASSUME NEW j \in Invs, Saves(j) PROVE StoryOK'
  <2>1. /\ pc[j] = "saving" /\ pc' = [pc EXCEPT ![j] = "done"]
        /\ outcome' = [outcome EXCEPT ![j] = "value"]
        /\ summary' = [summary EXCEPT ![j] = Append(summary[j], "succeeded")]
        /\ events' = [events EXCEPT ![j] = Append(events[j], "succeeded")]
    BY <1>9 DEF Saves, Records, Returns
  <2>2. /\ summary[j] = <<>> /\ events[j] = <<"started">>
        /\ Append(<<>>, "succeeded") = <<"succeeded">>
        /\ Append(<<"started">>, "succeeded") = <<"started", "succeeded">>
    BY <1>0, <2>1, ShortAppends DEF StoryOK
  <2>3. /\ pc'[j] = "done" /\ outcome'[j] = "value"
        /\ summary'[j] = <<"succeeded">> /\ events'[j] = <<"started", "succeeded">>
    BY <1>1, <2>1, <2>2
  <2>4. Good(j)'
    BY <2>3 DEF Told, Explained, NotBegun
  <2> QED BY <1>1, <1>4, <2>1, <2>4
<1>10. ASSUME NEW j \in Invs, Fails(j) PROVE StoryOK'
  <2> DEFINE s == error[j]
  <2>1. /\ pc[j] \in {"failing", "rejecting"} /\ pc' = [pc EXCEPT ![j] = "done"]
        /\ outcome' = [outcome EXCEPT ![j] = Settles(j)]
        /\ summary' = [summary EXCEPT ![j] = Append(summary[j], s)]
        /\ events' = [events EXCEPT ![j] = IF pc[j] = "failing" THEN Append(events[j], s) ELSE events[j]]
    BY <1>10 DEF Fails, Records, Returns
  <2>2. s \in {"failed", "timed_out", "cancelled"} /\ Explained(j, s)
    BY <1>0, <1>1, <2>1 DEF ErrorsOK
  <2>3. /\ summary[j] = <<>> /\ events[j] \in {<<>>, <<"started">>}
        /\ pc[j] = "rejecting" => events[j] = <<>>
    BY <1>0, <2>1 DEF StoryOK, NotBegun
  <2>5. /\ Append(<<>>, s) = <<s>>
        /\ Append(<<"started">>, s) = <<"started", s>>
    BY ShortAppends
  <2>6. /\ pc'[j] = "done" /\ outcome'[j] = Settles(j) /\ summary'[j] = <<s>>
        /\ events'[j] \in {<<>>, <<s>>, <<"started", s>>}
    BY <1>1, <2>1, <2>3, <2>5
  <2>7. s # "succeeded" /\ outcome'[j] # "value"
    BY <2>2, <2>6 DEF Settles
  <2>8. s \in {"timed_out", "cancelled"} =>
          \E k \in Invs : (k \in path'[j] \/ j \in path'[k]) /\ signal'[k] = s
    BY <2>2, ExplainedStays
  <2>9. Told(j)'
    <3> HIDE DEF s
    <3>1. s \in {"failed", "timed_out", "cancelled"}
      BY <2>2
    <3>2. PICK t \in {"failed", "timed_out", "cancelled"} : t = s
      BY <3>1
    <3>3. /\ summary'[j] = <<t>> /\ events'[j] \in {<<>>, <<t>>, <<"started", t>>}
          /\ t # "succeeded" /\ outcome'[j] # "value"
          /\ t \in {"timed_out", "cancelled"} =>
               \E k \in Invs : (k \in path'[j] \/ j \in path'[k]) /\ signal'[k] = t
      BY <2>6, <2>7, <2>8, <3>2
    <3>4. Explained(j, t)'
      BY <3>3 DEF Explained, Related
    <3> QED BY <3>3, <3>4 DEF Told
  <2>10. Good(j)'
    BY <2>6, <2>9 DEF NotBegun
  <2> QED BY <1>1, <1>4, <2>1, <2>10
<1>11. ASSUME NEW j \in Invs, FailureUnsaved(j) PROVE StoryOK'
  <2>1. /\ pc[j] \in {"failing", "rejecting"} /\ pc' = [pc EXCEPT ![j] = "done"]
        /\ outcome' = [outcome EXCEPT ![j] = "thrown"] /\ summary' = summary /\ events' = events
    BY <1>11 DEF FailureUnsaved, Returns
  <2>2. pc'[j] = "done" /\ outcome'[j] = "thrown" /\ summary'[j] = <<>>
    BY <1>0, <1>1, <2>1 DEF StoryOK
  <2>3. Good(j)'
    BY <2>2 DEF Told, NotBegun
  <2> QED BY <1>1, <1>4, <2>1, <2>3
<1>12. CASE RootBeginFails
  <2>1. /\ pc[0] = "beginning" /\ pc' = [pc EXCEPT ![0] = "done"]
        /\ outcome' = [outcome EXCEPT ![0] = "thrown"] /\ summary' = summary /\ events' = events
    BY <1>12 DEF RootBeginFails
  <2>2. pc'[0] = "done" /\ outcome'[0] = "thrown" /\ summary'[0] = <<>>
    BY <1>0, <1>1, <2>1 DEF StoryOK
  <2>3. Good(0)'
    BY <2>2 DEF Told, NotBegun
  <2> QED BY <1>0, <1>1, <1>4, <2>1, <2>3
<1>13. CASE (\E i \in Invs : CallAgent(i)) \/ (\E a \in Agents : Acquire(a) \/ AgentEnds(a)) \/ UNCHANGED vars
  <2>1. UNCHANGED <<pc, summary, events, outcome>>
    BY <1>13 DEF CallAgent, Acquire, AgentEnds, vars, reportVars
  <2> QED BY <1>3, <2>1 DEF StoryOK
<1>14. CASE (\E i \in Invs : TimerFires(i)) \/ Cancel
  BY <1>0, <1>8, <1>14 DEF TimerFires, Cancel
<1>15. ASSUME NEW i \in Invs, Manager(i) \/ Script(i) PROVE StoryOK'
  BY <1>5, <1>6, <1>7, <1>9, <1>10, <1>11, <1>13, <1>15 DEF Manager, Script
<1> QED BY <1>12, <1>13, <1>14, <1>15 DEF Next

-----------------------------------------------------------------------------
(* An agent keeps what is ahead of it as long as it takes no semaphore.    *)
LEMMA OwnerBorn ==
  ASSUME IInv, NEW a \in Agents
  PROVE  owner[a] \in Invs /\ pc[owner[a]] # "unborn"
<1>1. TypeOK /\ TreeOK /\ AgentsOK
  BY DEF IInv
<1> QED BY <1>1 DEF TypeOK, TreeOK, AgentsOK

LEMMA SemaphoresKept ==
  ASSUME IInv, [Next]_vars, NEW i \in Invs, pc[i] # "unborn"
  PROVE  Semaphores(i)' = Semaphores(i)
<1>0. TypeOK /\ FunctionsOK /\ AncestryOK
  BY DEF IInv
<1>1. path'[i] = path[i] /\ path[i] \in SUBSET Invs
  BY <1>0, Growth DEF FunctionsOK
<1>2. ASSUME NEW p \in Invs, Call(p), NEW s \in path[i] PROVE permits'[s] = permits[s]
  <2>1. PICK c \in Invs \ {0} : pc[c] = "unborn" /\ \E m \in {-1, 0} : permits' = [permits EXCEPT ![c] = m]
    BY <1>2, CallIs
  <2>2. s # c /\ s \in Invs
    BY <1>0, <1>1, <2>1 DEF AncestryOK
  <2> QED BY <1>0, <2>1, <2>2 DEF FunctionsOK
<1>3. \A s \in path[i] : permits'[s] >= 0 <=> permits[s] >= 0
  BY <1>1, <1>2, SemaphoresStay
<1> QED BY <1>1, <1>3 DEF Semaphores, HasSemaphore

LEMMA AheadKept ==
  ASSUME IInv, [Next]_vars, NEW a \in Agents, owner'[a] = owner[a], held'[a] = held[a]
  PROVE  Ahead(a)' = Ahead(a)
<1>1. Semaphores(owner[a])' = Semaphores(owner[a])
  <2>1. \A i \in Invs : pc[i] # "unborn" => Semaphores(i)' = Semaphores(i)
    BY SemaphoresKept
  <2> QED BY <2>1, OwnerBorn DEF Semaphores, HasSemaphore
<1> QED BY <1>1 DEF Ahead

-----------------------------------------------------------------------------
(* Queues: what joining and leaving one does to its elements.              *)
LEMMA AppendElems ==
  ASSUME NEW S, NEW q \in Seq(S), NEW t \in S
  PROVE  /\ Elems(Append(q, t)) = Elems(q) \cup {t}
         /\ NoRepeats(q) /\ t \notin Elems(q) => NoRepeats(Append(q, t))
<1> DEFINE r == Append(q, t)
<1>1. /\ Len(q) \in Nat /\ Len(r) = Len(q) + 1
      /\ \A n \in 1..Len(q) : r[n] = q[n]
      /\ r[Len(q) + 1] = t
  OBVIOUS
<1>2. Elems(r) \subseteq Elems(q) \cup {t}
  BY <1>1 DEF Elems
<1>3. Elems(q) \cup {t} \subseteq Elems(r)
  BY <1>1 DEF Elems
<1>4. ASSUME NoRepeats(q), t \notin Elems(q) PROVE NoRepeats(r)
  BY <1>1, <1>4 DEF NoRepeats, Elems
<1> QED BY <1>2, <1>3, <1>4

LEMMA TailElems ==
  ASSUME NEW S, NEW q \in Seq(S), q # <<>>, NoRepeats(q)
  PROVE  /\ Head(q) \in Elems(q)
         /\ Elems(Tail(q)) = Elems(q) \ {Head(q)}
         /\ NoRepeats(Tail(q))
<1> DEFINE r == Tail(q)
<1>1. /\ Len(q) \in Nat /\ Len(q) >= 1 /\ Len(r) = Len(q) - 1
      /\ \A n \in 1..Len(r) : r[n] = q[n + 1]
      /\ Head(q) = q[1]
  OBVIOUS
<1>2. \A n \in 1..Len(r) : n + 1 \in 1..Len(q) /\ n + 1 # 1
  BY <1>1
<1>3. NoRepeats(r)
  BY <1>1, <1>2 DEF NoRepeats
<1>4. 1 \in 1..Len(q)
  BY <1>1
<1>5. Elems(r) \subseteq Elems(q) \ {Head(q)}
  BY <1>1, <1>2, <1>4 DEF NoRepeats, Elems
<1>6. ASSUME NEW x \in Elems(q) \ {Head(q)} PROVE x \in Elems(r)
  <2>1. PICK n \in 1..Len(q) : x = q[n]
    BY DEF Elems
  <2>2. n # 1
    BY <1>1, <1>6, <2>1
  <2>3. n - 1 \in 1..Len(r) /\ r[n - 1] = x
    BY <1>1, <2>1, <2>2
  <2> QED BY <2>3 DEF Elems
<1> QED BY <1>1, <1>3, <1>4, <1>5, <1>6 DEF Elems

LEMMA EmptyQueue ==
  ASSUME NEW S, NEW q \in Seq(S), Elems(q) = {}
  PROVE  q = <<>>
<1>1. q # <<>> => 1 \in 1..Len(q)
  OBVIOUS
<1> QED BY <1>1 DEF Elems

(* Those who wait for a semaphore, and what AgentEnds(a) does to each.     *)
LEMMA WaitingIs ==
  ASSUME IInv, NEW s \in Invs, NEW b \in Waiting(s)
  PROVE  /\ b \in Agents /\ agent[b] = "queued" /\ Min(Ahead(b)) = s
         /\ s \in Ahead(b) /\ permits[s] \in Nat /\ s \notin held[b]
         /\ \A t \in Ahead(b) : s <= t
<1>1. b \in Agents /\ agent[b] = "queued" /\ Min(Ahead(b)) = s
  BY DEF Waiting
<1>2. Ahead(b) # {}
  BY <1>1 DEF IInv, AgentsOK
<1> QED BY <1>1, <1>2, NextSemaphore DEF Ahead

Given(a) == {s \in held[a] : queue[s] # <<>>}

LEMMA GivenIs ==
  ASSUME IInv, NEW a \in Agents, agent[a] = "working", NEW s \in Given(a)
  PROVE  /\ s \in Invs /\ s \in held[a] /\ queue[s] # <<>>
         /\ Head(queue[s]) \in Waiting(s) /\ Head(queue[s]) # a
<1>0. FunctionsOK /\ QueuesOK
  BY DEF IInv
<1>1. s \in held[a] /\ queue[s] # <<>> /\ s \in Invs
  BY SemaphoresAre DEF Given
<1>2. queue[s] \in Seq(Agents) /\ NoRepeats(queue[s]) /\ Elems(queue[s]) = Waiting(s)
  BY <1>0, <1>1 DEF FunctionsOK, QueuesOK
<1>3. Head(queue[s]) \in Waiting(s)
  BY <1>1, <1>2, TailElems
<1>4. agent[Head(queue[s])] = "queued"
  BY <1>3 DEF Waiting
<1> QED BY <1>1, <1>3, <1>4

LEMMA AgentEndsIs ==
  ASSUME IInv, NEW a \in Agents, AgentEnds(a)
  PROVE  /\ agent[a] = "working" /\ agent'[a] = "idle" /\ held'[a] = {} /\ owner'[a] = 0
         /\ \A b \in Agents \ {a} : owner'[b] = owner[b]
         /\ \A s \in Invs :
              /\ permits'[s] = IF s \in held[a] \ Given(a) THEN permits[s] - 1 ELSE permits[s]
              /\ queue'[s] = IF s \in Given(a) THEN Tail(queue[s]) ELSE queue[s]
         /\ \A s \in Given(a) :
              LET b == Head(queue[s]) IN
              held'[b] = held[b] \cup {s} /\ agent'[b] = After(Ahead(b) \ {s})
         /\ \A b \in Agents \ {a} : (\A s \in Given(a) : b # Head(queue[s])) =>
              held'[b] = held[b] /\ agent'[b] = agent[b]
<1> DEFINE next == [s \in Given(a) |-> Head(queue[s])]
<1>0. TypeOK /\ FunctionsOK
  BY DEF IInv
<1>1. /\ agent[a] = "working"
      /\ permits' = [s \in Invs |->
           IF s \in held[a] \ Given(a) THEN permits[s] - 1 ELSE permits[s]]
      /\ queue' = [s \in Invs |-> IF s \in Given(a) THEN Tail(queue[s]) ELSE queue[s]]
      /\ held' = [b \in Agents |->
           IF b = a THEN {} ELSE held[b] \cup {s \in Given(a) : next[s] = b}]
      /\ agent' = [b \in Agents |->
           IF b = a THEN "idle"
           ELSE IF b \in Range(next)
           THEN After(Ahead(b) \ {s \in Given(a) : next[s] = b})
           ELSE agent[b]]
      /\ owner' = [owner EXCEPT ![a] = 0]
  BY DEF AgentEnds, Released, Given
<1>2. Range(next) = {Head(queue[s]) : s \in Given(a)} /\ \A s \in Given(a) : next[s] = Head(queue[s])
  BY DEF Range
<1> HIDE DEF next
<1>3. ASSUME NEW s \in Given(a)
      PROVE  /\ held'[Head(queue[s])] = held[Head(queue[s])] \cup {s}
             /\ agent'[Head(queue[s])] = After(Ahead(Head(queue[s])) \ {s})
  <2>1. Head(queue[s]) \in Waiting(s) /\ Head(queue[s]) # a
    BY <1>1, GivenIs
  <2>2. \A t \in Given(a) : next[t] = Head(queue[s]) <=> t = s
    <3>1. \A t \in Given(a) : Head(queue[t]) = Head(queue[s]) => t = s
      BY <1>1, <2>1, GivenIs DEF Waiting
    <3> QED BY <1>2, <3>1
  <2>3. {t \in Given(a) : next[t] = Head(queue[s])} = {s}
    BY <2>2
  <2>4. Head(queue[s]) \in Agents /\ Head(queue[s]) \in Range(next)
    BY <1>2, <2>1 DEF Waiting
  <2> QED BY <1>1, <2>1, <2>3, <2>4
<1>4. ASSUME NEW b \in Agents \ {a}, \A s \in Given(a) : b # Head(queue[s])
      PROVE  held'[b] = held[b] /\ agent'[b] = agent[b]
  <2>1. {s \in Given(a) : next[s] = b} = {} /\ b \notin Range(next)
    BY <1>2, <1>4
  <2> QED BY <1>1, <2>1
<1> QED BY <1>0, <1>1, <1>3, <1>4 DEF TypeOK

-----------------------------------------------------------------------------
(* An agent that takes the next semaphore is as it should be: at work when *)
(* it was the last one, and with those above the rest otherwise.           *)
AgentGood(a) ==
  /\ agent[a] = "idle" => held[a] = {} /\ owner[a] = 0
  /\ agent[a] # "idle" => pc[owner[a]] # "unborn"
  /\ agent[a] = "working" => held[a] = Semaphores(owner[a])
  /\ agent[a] \in {"acquiring", "queued"} =>
       /\ held[a] \subseteq Semaphores(owner[a]) /\ Ahead(a) # {}
       /\ \A x \in held[a], y \in Ahead(a) : x < y

LEMMA PassingIsGood ==
  ASSUME IInv, [Next]_vars, NEW a \in Agents, agent[a] \in {"acquiring", "queued"},
         owner'[a] = owner[a], held'[a] = held[a] \cup {Min(Ahead(a))},
         agent'[a] = After(Ahead(a) \ {Min(Ahead(a))})
  PROVE  AgentGood(a)'
<1> DEFINE s == Min(Ahead(a))
<1>0. /\ held[a] \subseteq Semaphores(owner[a]) /\ Ahead(a) # {}
      /\ \A x \in held[a], y \in Ahead(a) : x < y
  BY DEF IInv, AgentsOK
<1>1. s \in Ahead(a) /\ \A y \in Ahead(a) : s <= y
  BY <1>0, NextSemaphore
<1>2. Semaphores(owner[a])' = Semaphores(owner[a]) /\ pc'[owner[a]] # "unborn"
  <2>1. \A i \in Invs : pc[i] # "unborn" => Semaphores(i)' = Semaphores(i)
    BY SemaphoresKept
  <2> QED BY <2>1, OwnerBorn, Growth DEF Semaphores, HasSemaphore
<1>3. Ahead(a)' = Ahead(a) \ {s}
  BY <1>2 DEF Ahead
<1>4. held'[a] \subseteq Semaphores(owner[a])
  BY <1>0, <1>1 DEF Ahead
<1>5. ASSUME NEW x \in held'[a], NEW y \in Ahead(a) \ {s} PROVE x < y
  <2>1. s \in Nat /\ y \in Nat
    BY <1>1, SemaphoresAre DEF Ahead
  <2>2. CASE x = s
    BY <1>1, <2>1, <2>2
  <2>3. CASE x # s
    BY <1>0, <2>3
  <2> QED BY <2>2, <2>3
<1>6. CASE Ahead(a) \ {s} = {}
  <2>1. agent'[a] = "working"
    BY <1>6 DEF After
  <2>2. held'[a] = Semaphores(owner[a])
    BY <1>4, <1>6 DEF Ahead
  <2> QED BY <1>2, <2>1, <2>2 DEF AgentGood, Semaphores, HasSemaphore
<1>7. CASE Ahead(a) \ {s} # {}
  <2>1. agent'[a] = "acquiring"
    BY <1>7 DEF After
  <2> HIDE DEF s
  <2> QED BY <1>2, <1>3, <1>4, <1>5, <1>7, <2>1 DEF AgentGood, Semaphores, HasSemaphore, Ahead
<1> QED BY <1>6, <1>7

LEMMA StayingIsGood ==
  ASSUME IInv, [Next]_vars, NEW a \in Agents, owner'[a] = owner[a], held'[a] = held[a],
         agent'[a] = agent[a] \/ (agent[a] = "acquiring" /\ agent'[a] = "queued")
  PROVE  AgentGood(a)'
<1>1. AgentGood(a)
  BY DEF IInv, AgentsOK, AgentGood
<1>2. Semaphores(owner[a])' = Semaphores(owner[a]) /\ pc'[owner[a]] # "unborn"
  <2>1. \A i \in Invs : pc[i] # "unborn" => Semaphores(i)' = Semaphores(i)
    BY SemaphoresKept
  <2> QED BY <2>1, OwnerBorn, Growth DEF Semaphores, HasSemaphore
<1>3. Ahead(a)' = Ahead(a)
  BY AheadKept
<1> QED BY <1>1, <1>2, <1>3 DEF AgentGood, Ahead, Semaphores, HasSemaphore

LEMMA StepAgents ==
  ASSUME IInv, [Next]_vars
  PROVE  AgentsOK'
<1>0. /\ TypeOK /\ TreeOK /\ AgentsOK /\ 0 \in Invs
      /\ agent \in [Agents -> {"idle", "acquiring", "queued", "working"}]
      /\ owner \in [Agents -> Invs] /\ held \in [Agents -> SUBSET Invs]
  BY BoundsAssumption DEF IInv, Invs, TypeOK
<1> SUFFICES ASSUME NEW b \in Agents PROVE AgentGood(b)'
  BY DEF AgentsOK, AgentGood
<1>1. CASE UNCHANGED <<agent, owner, held>>
  BY <1>1, StayingIsGood
<1>2. ASSUME NEW i \in Invs, CallAgent(i) PROVE AgentGood(b)'
  <2> DEFINE a == Min({c \in Agents : agent[c] = "idle"})
  <2>1. a \in Agents /\ agent[a] = "idle"
    <3>1. {c \in Agents : agent[c] = "idle"} \in SUBSET Nat /\ {c \in Agents : agent[c] = "idle"} # {}
      BY <1>2, BoundsAssumption DEF CallAgent, Agents
    <3> QED BY <3>1, MinOf
  <2>2. /\ script[i] = "running"
        /\ agent' = [agent EXCEPT ![a] = After(Semaphores(i))]
        /\ owner' = [owner EXCEPT ![a] = i]
        /\ held' = held
    BY <1>2 DEF CallAgent
  <2> HIDE DEF a
  <2>3. CASE b # a
    BY <1>0, <2>1, <2>2, <2>3, StayingIsGood
  <2>4. CASE b = a
    <3>1. agent'[a] = After(Semaphores(i)) /\ owner'[a] = i /\ held'[a] = {}
      BY <1>0, <2>1, <2>2 DEF AgentsOK
    <3>2. pc[i] # "unborn"
      BY <1>0, <2>2 DEF TreeOK, NotBegun
    <3>3. Semaphores(i)' = Semaphores(i) /\ pc'[i] # "unborn"
      BY <3>2, SemaphoresKept, Growth
    <3> DEFINE Sem(j) == {s \in path'[j] : permits'[s] >= 0}
    <3>4. Sem(i) = Semaphores(i)
      BY <3>3 DEF Semaphores, HasSemaphore
    <3>5. Sem(owner'[a]) = Semaphores(i)
      <4> HIDE DEF Sem
      <4> QED BY <3>1, <3>4
    <3>6. CASE Semaphores(i) = {}
      <4>1. agent'[a] = "working" /\ held'[a] = Sem(owner'[a])
        <5> HIDE DEF Sem
        <5> QED BY <3>1, <3>5, <3>6 DEF After
      <4> QED BY <2>4, <3>1, <3>3, <4>1 DEF AgentGood, Semaphores, HasSemaphore
    <3>7. CASE Semaphores(i) # {}
      <4>1. agent'[a] = "acquiring" /\ held'[a] = {} /\ Sem(owner'[a]) \ held'[a] # {}
        <5> HIDE DEF Sem
        <5> QED BY <3>1, <3>5, <3>7 DEF After
      <4> QED BY <2>4, <3>1, <3>3, <4>1 DEF AgentGood, Ahead, Semaphores, HasSemaphore
    <3> QED BY <3>6, <3>7
  <2> QED BY <2>3, <2>4
<1>3. ASSUME NEW a \in Agents, Acquire(a) PROVE AgentGood(b)'
  <2>1. /\ agent[a] = "acquiring" /\ owner' = owner
        /\ \/ /\ held' = [held EXCEPT ![a] = held[a] \cup {Min(Ahead(a))}]
              /\ agent' = [agent EXCEPT ![a] = After(Ahead(a) \ {Min(Ahead(a))})]
           \/ held' = held /\ agent' = [agent EXCEPT ![a] = "queued"]
    BY <1>3 DEF Acquire
  <2>2. CASE b # a
    BY <1>0, <2>1, <2>2, StayingIsGood
  <2>3. CASE b = a /\ held' = held /\ agent' = [agent EXCEPT ![a] = "queued"]
    BY <1>0, <2>1, <2>3, StayingIsGood
  <2>4. CASE /\ b = a /\ held' = [held EXCEPT ![a] = held[a] \cup {Min(Ahead(a))}]
             /\ agent' = [agent EXCEPT ![a] = After(Ahead(a) \ {Min(Ahead(a))})]
    <3>1. /\ held'[a] = held[a] \cup {Min(Ahead(a))}
          /\ agent'[a] = After(Ahead(a) \ {Min(Ahead(a))})
      BY <1>0, <2>4
    <3> QED BY <2>1, <2>4, <3>1, PassingIsGood
  <2> QED BY <2>1, <2>2, <2>3, <2>4
<1>4. ASSUME NEW a \in Agents, AgentEnds(a) PROVE AgentGood(b)'
  <2>1. CASE b = a
    <3>1. agent'[a] = "idle" /\ held'[a] = {} /\ owner'[a] = 0
      BY <1>4, AgentEndsIs
    <3> QED BY <2>1, <3>1 DEF AgentGood
  <2>2. ASSUME NEW s \in Given(a), b = Head(queue[s]) PROVE AgentGood(b)'
    <3>1. agent[a] = "working" /\ held'[b] = held[b] \cup {s} /\ agent'[b] = After(Ahead(b) \ {s})
      BY <1>4, <2>2, AgentEndsIs
    <3>2. b \in Waiting(s) /\ s \in Invs /\ b # a
      BY <2>2, <3>1, GivenIs
    <3>3. agent[b] = "queued" /\ s = Min(Ahead(b))
      BY <3>2, WaitingIs
    <3>4. owner'[b] = owner[b]
      BY <1>4, <3>2, AgentEndsIs
    <3> QED BY <3>1, <3>3, <3>4, PassingIsGood
  <2>3. CASE b # a /\ \A s \in Given(a) : b # Head(queue[s])
    <3>1. owner'[b] = owner[b] /\ held'[b] = held[b] /\ agent'[b] = agent[b]
      BY <1>4, <2>3, AgentEndsIs
    <3> QED BY <3>1, StayingIsGood
  <2> QED BY <2>1, <2>2, <2>3
<1>5. ASSUME NEW p \in Invs, Call(p) PROVE UNCHANGED <<agent, owner, held>>
  BY <1>5 DEF Call
<1> QED BY <1>1, <1>2, <1>3, <1>4, <1>5, Frames DEF budgetVars

(* Who waits after a step: b waits for s if it did and was not let in.     *)
LEMMA StillWaiting ==
  ASSUME IInv, [Next]_vars, NEW s \in Invs, NEW b \in Agents,
         owner'[b] = owner[b], held'[b] = held[b], agent'[b] = agent[b]
  PROVE  b \in Waiting(s)' <=> b \in Waiting(s)
<1>1. Ahead(b)' = Ahead(b)
  BY AheadKept
<1> QED BY <1>1 DEF Waiting

LEMMA StepQueues ==
  ASSUME IInv, [Next]_vars
  PROVE  QueuesOK'
<1>0. /\ TypeOK /\ FunctionsOK /\ QueuesOK /\ AgentsOK
      /\ agent \in [Agents -> {"idle", "acquiring", "queued", "working"}]
      /\ owner \in [Agents -> Invs] /\ held \in [Agents -> SUBSET Invs]
      /\ queue \in [Invs -> Seq(Agents)]
  BY DEF IInv, TypeOK, FunctionsOK
<1>1. ASSUME queue' = queue,
             \A b \in Agents : \/ owner'[b] = owner[b] /\ held'[b] = held[b] /\ agent'[b] = agent[b]
                               \/ agent[b] # "queued" /\ agent'[b] # "queued"
      PROVE  QueuesOK'
  <2>1. ASSUME NEW s \in Invs, NEW b \in Agents PROVE b \in Waiting(s)' <=> b \in Waiting(s)
    <3>1. CASE owner'[b] = owner[b] /\ held'[b] = held[b] /\ agent'[b] = agent[b]
      BY <3>1, StillWaiting
    <3>2. CASE agent[b] # "queued" /\ agent'[b] # "queued"
      BY <3>2 DEF Waiting
    <3> QED BY <1>1, <3>1, <3>2
  <2>2. \A s \in Invs : Waiting(s)' = Waiting(s)
    <3>1. \A s \in Invs : Waiting(s)' \subseteq Agents /\ Waiting(s) \subseteq Agents
      BY DEF Waiting
    <3> QED BY <2>1, <3>1
  <2> QED BY <1>0, <1>1, <2>2 DEF QueuesOK
<1>2. ASSUME NEW i \in Invs, CallAgent(i) PROVE QueuesOK'
  <2> DEFINE a == Min({c \in Agents : agent[c] = "idle"})
  <2>1. a \in Agents /\ agent[a] = "idle"
    <3>1. {c \in Agents : agent[c] = "idle"} \in SUBSET Nat /\ {c \in Agents : agent[c] = "idle"} # {}
      BY <1>2, BoundsAssumption DEF CallAgent, Agents
    <3> QED BY <3>1, MinOf
  <2>2. /\ agent' = [agent EXCEPT ![a] = After(Semaphores(i))]
        /\ owner' = [owner EXCEPT ![a] = i]
        /\ held' = held /\ queue' = queue
    BY <1>2 DEF CallAgent
  <2>3. After(Semaphores(i)) # "queued"
    BY DEF After
  <2> HIDE DEF a
  <2> QED BY <1>0, <1>1, <2>1, <2>2, <2>3
<1>3. ASSUME NEW a \in Agents, Acquire(a) PROVE QueuesOK'
  <2> DEFINE s == Min(Ahead(a))
  <2>1. s \in Invs
    BY <1>0, <1>3, NextSemaphore DEF Acquire, AgentsOK
  <2>2. /\ agent[a] = "acquiring" /\ owner' = owner
        /\ \/ /\ held' = [held EXCEPT ![a] = held[a] \cup {s}] /\ queue' = queue
              /\ agent' = [agent EXCEPT ![a] = After(Ahead(a) \ {s})]
           \/ /\ held' = held /\ queue' = [queue EXCEPT ![s] = Append(queue[s], a)]
              /\ agent' = [agent EXCEPT ![a] = "queued"]
    BY <1>3 DEF Acquire
  <2>3. CASE /\ held' = [held EXCEPT ![a] = held[a] \cup {s}] /\ queue' = queue
             /\ agent' = [agent EXCEPT ![a] = After(Ahead(a) \ {s})]
    <3>1. After(Ahead(a) \ {s}) # "queued"
      BY DEF After
    <3> HIDE DEF s
    <3> QED BY <1>0, <1>1, <2>2, <2>3, <3>1
  <2>4. CASE /\ held' = held /\ queue' = [queue EXCEPT ![s] = Append(queue[s], a)]
             /\ agent' = [agent EXCEPT ![a] = "queued"]
    <3>1. \A b \in Agents : owner'[b] = owner[b] /\ held'[b] = held[b]
      BY <2>2, <2>4
    <3>2. \A b \in Agents : b # a => agent'[b] = agent[b]
      BY <1>0, <2>4
    <3>3. Ahead(a)' = Ahead(a)
      BY <3>1, AheadKept
    <3>4. \A t \in Invs : a \in Waiting(t)' <=> t = s
      BY <1>0, <2>4, <3>3 DEF Waiting
    <3>5. \A t \in Invs : a \notin Waiting(t)
      BY <2>2 DEF Waiting
    <3>6. \A t \in Invs, b \in Agents : b # a => (b \in Waiting(t)' <=> b \in Waiting(t))
      BY <3>1, <3>2, StillWaiting
    <3> HIDE DEF s
    <3>7. ASSUME NEW t \in Invs PROVE NoRepeats(queue'[t]) /\ Elems(queue'[t]) = Waiting(t)'
      <4>1. Waiting(t)' \subseteq Agents /\ Waiting(t) \subseteq Agents
        BY DEF Waiting
      <4>2. NoRepeats(queue[t]) /\ Elems(queue[t]) = Waiting(t) /\ queue[t] \in Seq(Agents)
        BY <1>0 DEF QueuesOK
      <4>3. CASE t = s
        <5>1. queue'[t] = Append(queue[t], a)
          BY <1>0, <2>4, <4>3
        <5>2. Waiting(t)' = Waiting(t) \cup {a}
          BY <3>4, <3>6, <4>1, <4>3
        <5> QED BY <3>5, <4>2, <5>1, <5>2, AppendElems
      <4>4. CASE t # s
        <5>1. queue'[t] = queue[t]
          BY <1>0, <2>4, <4>4
        <5>2. Waiting(t)' = Waiting(t)
          BY <3>4, <3>5, <3>6, <4>1, <4>4
        <5> QED BY <4>2, <5>1, <5>2
      <4> QED BY <4>3, <4>4
    <3> QED BY <3>7 DEF QueuesOK
  <2> QED BY <2>2, <2>3, <2>4
<1>4. ASSUME NEW a \in Agents, AgentEnds(a) PROVE QueuesOK'
  <2>1. agent[a] = "working" /\ agent'[a] = "idle"
    BY <1>4, AgentEndsIs
  <2>2. ASSUME NEW s \in Given(a)
        PROVE  /\ Head(queue[s]) \in Waiting(s) /\ Head(queue[s]) \in Agents /\ s \in Invs
               /\ \A t \in Invs : Head(queue[s]) \notin Waiting(t)'
    <3>1. Head(queue[s]) \in Waiting(s) /\ s \in Invs /\ Head(queue[s]) \in Agents
      BY <2>1, GivenIs DEF Waiting
    <3>2. agent'[Head(queue[s])] # "queued"
      BY <1>4, AgentEndsIs DEF After
    <3> QED BY <3>1, <3>2 DEF Waiting
  <2>3. ASSUME NEW b \in Agents, \A s \in Given(a) : b # Head(queue[s]), NEW t \in Invs
        PROVE  b \in Waiting(t)' <=> b \in Waiting(t)
    <3>1. CASE b = a
      BY <2>1, <3>1 DEF Waiting
    <3>2. CASE b # a
      BY <1>4, <2>3, <3>2, AgentEndsIs, StillWaiting
    <3> QED BY <3>1, <3>2
  <2>4. ASSUME NEW s \in Given(a), NEW t \in Invs, Head(queue[s]) \in Waiting(t) PROVE t = s
    BY <2>2, <2>4 DEF Waiting
  <2>5. ASSUME NEW t \in Invs PROVE NoRepeats(queue'[t]) /\ Elems(queue'[t]) = Waiting(t)'
    <3>1. Waiting(t)' \subseteq Agents /\ Waiting(t) \subseteq Agents
      BY DEF Waiting
    <3>2. NoRepeats(queue[t]) /\ Elems(queue[t]) = Waiting(t) /\ queue[t] \in Seq(Agents)
      BY <1>0 DEF QueuesOK
    <3>3. CASE t \in Given(a)
      <4>1. queue'[t] = Tail(queue[t]) /\ queue[t] # <<>>
        BY <1>4, <3>3, AgentEndsIs DEF Given
      <4>2. Waiting(t)' = Waiting(t) \ {Head(queue[t])}
        <5>1. Head(queue[t]) \notin Waiting(t)'
          BY <2>2, <3>3
        <5>2. ASSUME NEW b \in Agents, b # Head(queue[t]) PROVE b \in Waiting(t)' <=> b \in Waiting(t)
          <6>1. CASE \E s \in Given(a) : b = Head(queue[s])
            BY <2>2, <2>4, <5>2, <6>1
          <6>2. CASE \A s \in Given(a) : b # Head(queue[s])
            BY <2>3, <6>2
          <6> QED BY <6>1, <6>2
        <5> QED BY <3>1, <5>1, <5>2
      <4> QED BY <3>2, <4>1, <4>2, TailElems
    <3>4. CASE t \notin Given(a)
      <4>1. queue'[t] = queue[t]
        BY <1>4, <3>4, AgentEndsIs
      <4>2. Waiting(t)' = Waiting(t)
        <5>1. ASSUME NEW b \in Agents PROVE b \in Waiting(t)' <=> b \in Waiting(t)
          <6>1. CASE \E s \in Given(a) : b = Head(queue[s])
            BY <2>2, <2>4, <3>4, <6>1
          <6>2. CASE \A s \in Given(a) : b # Head(queue[s])
            BY <2>3, <6>2
          <6> QED BY <6>1, <6>2
        <5> QED BY <3>1, <5>1
      <4> QED BY <3>2, <4>1, <4>2
    <3> QED BY <3>3, <3>4
  <2> QED BY <2>5 DEF QueuesOK
<1>5. ASSUME NEW p \in Invs, Call(p) PROVE UNCHANGED <<queue, agent, owner, held>>
  BY <1>5 DEF Call
<1>6. CASE UNCHANGED <<queue, agent, owner, held>>
  BY <1>1, <1>6
<1> QED BY <1>2, <1>3, <1>4, <1>5, <1>6, Frames DEF budgetVars

LEMMA HoldersAre ==
  ASSUME NEW i \in Invs
  PROVE  /\ Holders(i) \subseteq Agents /\ IsFiniteSet(Holders(i))
         /\ Cardinality(Holders(i)) \in Nat
<1>1. IsFiniteSet(Agents)
  <2>1. MaxAgents \in Int /\ 1 \in Int
    BY BoundsAssumption
  <2> QED BY <2>1, FS_Interval DEF Agents
<1>2. Holders(i) \subseteq Agents
  BY DEF Holders
<1>3. IsFiniteSet(Holders(i))
  BY <1>1, <1>2, FS_Subset
<1> QED BY <1>2, <1>3, FS_CardinalityType

LEMMA StepPermits ==
  ASSUME IInv, [Next]_vars
  PROVE  PermitsOK'
<1>0. /\ TypeOK /\ FunctionsOK /\ QueuesOK /\ AgentsOK /\ PermitsOK
      /\ held \in [Agents -> SUBSET Invs]
      /\ queue \in [Invs -> Seq(Agents)] /\ permits \in [Invs -> Int]
      /\ \A s \in Invs : permits[s] \in -1..limit[s] /\ limit[s] \in Nat
  BY CallsAssumption DEF IInv, TypeOK, FunctionsOK
<1>1. \A s \in Invs : Holders(s) \subseteq Agents /\ IsFiniteSet(Holders(s)) /\ Cardinality(Holders(s)) \in Nat
  BY HoldersAre
<1> DEFINE Good(s) == HasSemaphore(s) =>
                        /\ Cardinality(Holders(s)) = permits[s]
                        /\ queue[s] # <<>> => permits[s] = limit[s]
<1>2. ASSUME NEW s \in Invs, permits'[s] = permits[s], queue'[s] = queue[s], limit'[s] = limit[s], held' = held
      PROVE  Good(s)'
  BY <1>0, <1>2 DEF PermitsOK, HasSemaphore, Holders
<1>3. ASSUME NEW p \in Invs, Call(p) PROVE PermitsOK'
  <2>1. PICK c \in Invs \ {0} :
          /\ pc[c] = "unborn" /\ permits[c] = -1
          /\ \E m \in 1..Concurrency : limit' = [limit EXCEPT ![c] = m]
          /\ \E m \in {-1, 0} : permits' = [permits EXCEPT ![c] = m]
    BY <1>3, CallIs
  <2>2. held' = held /\ queue' = queue
    BY <1>3 DEF Call
  <2>3. ASSUME NEW s \in Invs, s # c PROVE Good(s)'
    BY <1>0, <1>2, <2>1, <2>2, <2>3 DEF TypeOK
  <2>4. Good(c)'
    <3>1. permits'[c] \in {-1, 0}
      BY <1>0, <2>1
    <3>2. Holders(c) = {}
      <4>1. \A b \in Agents : \A s \in held[b] : permits[s] >= 1
        BY SemaphoresAre
      <4> QED BY <2>1, <4>1 DEF Holders
    <3>3. Waiting(c) = {}
      <4>1. \A b \in Waiting(c) : permits[c] \in Nat
        BY WaitingIs
      <4> QED BY <2>1, <4>1
    <3>4. queue[c] = <<>>
      BY <1>0, <3>3, EmptyQueue DEF QueuesOK
    <3>5. Holders(c)' = {}
      BY <2>2, <3>2 DEF Holders
    <3>6. Cardinality(Holders(c)') = 0
      BY <3>5, FS_EmptySet
    <3> QED BY <2>2, <3>1, <3>4, <3>6 DEF HasSemaphore
  <2> QED BY <2>3, <2>4 DEF PermitsOK
<1>4. ASSUME NEW a \in Agents, Acquire(a) PROVE PermitsOK'
  <2>0. PICK s \in Invs : s = Min(Ahead(a)) /\ s \in Ahead(a) /\ permits[s] \in Nat
    BY <1>0, <1>4, NextSemaphore DEF Acquire, AgentsOK
  <2>1. s \in Invs /\ s \in Ahead(a) /\ permits[s] \in Nat
    BY <2>0
  <2>2. /\ limit' = limit
        /\ \/ /\ HasPermit(s) /\ queue' = queue
              /\ permits' = [permits EXCEPT ![s] = permits[s] + 1]
              /\ held' = [held EXCEPT ![a] = held[a] \cup {s}]
           \/ /\ ~HasPermit(s) /\ permits' = permits /\ held' = held
              /\ queue' = [queue EXCEPT ![s] = Append(queue[s], a)]
    BY <1>4, <2>0 DEF Acquire, treeVars
  <2>3. CASE /\ HasPermit(s) /\ queue' = queue
             /\ permits' = [permits EXCEPT ![s] = permits[s] + 1]
             /\ held' = [held EXCEPT ![a] = held[a] \cup {s}]
    <3>1. \A t \in Invs : t # s => permits'[t] = permits[t] /\ Holders(t)' = Holders(t)
      BY <1>0, <2>3 DEF Holders
    <3>2. /\ permits'[s] = permits[s] + 1 /\ Holders(s)' = Holders(s) \cup {a}
          /\ a \notin Holders(s)
      <4>1. permits'[s] = permits[s] + 1
        BY <1>0, <2>1, <2>3
      <4>2. \A b \in Agents : s \in held'[b] <=> s \in held[b] \/ b = a
        BY <1>0, <2>1, <2>3
      <4>3. a \notin Holders(s)
        BY <2>1 DEF Holders, Ahead
      <4> QED BY <4>1, <4>2, <4>3 DEF Holders
    <3>3. Cardinality(Holders(s)) = permits[s] /\ queue[s] = <<>>
      BY <1>0, <2>1, <2>3 DEF PermitsOK, HasSemaphore, HasPermit
    <3>4. Cardinality(Holders(s)') = permits'[s]
      BY ZenonT(60), <1>1, <2>1, <3>2, <3>3, FS_AddElement
    <3>5. ASSUME NEW t \in Invs PROVE Good(t)'
      <4>1. CASE t = s
        <5>1. queue'[s] = <<>> /\ Cardinality(Holders(s)') = permits'[s]
          BY <2>3, <3>3, <3>4
        <5> QED BY <4>1, <5>1 DEF HasSemaphore
      <4>2. CASE t # s
        BY <1>0, <2>2, <2>3, <3>1, <4>2 DEF PermitsOK, HasSemaphore
      <4> QED BY <4>1, <4>2
    <3> QED BY <3>5 DEF PermitsOK
  <2>4. CASE /\ ~HasPermit(s) /\ permits' = permits /\ held' = held
             /\ queue' = [queue EXCEPT ![s] = Append(queue[s], a)]
    <3>1. permits[s] = limit[s]
      BY <1>0, <2>1, <2>4 DEF HasPermit
    <3>2. \A t \in Invs : Holders(t)' = Holders(t)
      BY <2>4 DEF Holders
    <3>3. ASSUME NEW t \in Invs PROVE Good(t)'
      <4>1. CASE t = s
        BY <1>0, <2>2, <2>4, <3>1, <3>2, <4>1 DEF PermitsOK, HasSemaphore
      <4>2. CASE t # s
        BY <1>0, <1>2, <2>2, <2>4, <4>2
      <4> QED BY <4>1, <4>2
    <3> QED BY <3>3 DEF PermitsOK
  <2> QED BY <2>2, <2>3, <2>4
<1>5. ASSUME NEW a \in Agents, AgentEnds(a) PROVE PermitsOK'
  <2>1. agent[a] = "working" /\ held'[a] = {} /\ limit' = limit
    BY <1>5, AgentEndsIs DEF AgentEnds, treeVars
  <2>2. ASSUME NEW s \in Given(a)
        PROVE  /\ Head(queue[s]) \in Agents \ {a} /\ s \notin held[Head(queue[s])] /\ s \in Invs
               /\ s \in held[a] /\ held'[Head(queue[s])] = held[Head(queue[s])] \cup {s}
    BY <1>5, <2>1, GivenIs, WaitingIs, AgentEndsIs
  <2>3. ASSUME NEW b \in Agents \ {a}, NEW t \in Invs
        PROVE  t \in held'[b] <=> t \in held[b] \/ (t \in Given(a) /\ b = Head(queue[t]))
    <3>1. CASE \E s \in Given(a) : b = Head(queue[s])
      <4>1. PICK s \in Given(a) : b = Head(queue[s])
        BY <3>1
      <4>2. held'[b] = held[b] \cup {s}
        BY <2>2, <4>1
      <4>3. \A u \in Given(a) : b = Head(queue[u]) => u = s
        BY <2>1, <4>1, GivenIs DEF Waiting
      <4> QED BY <4>1, <4>2, <4>3
    <3>2. CASE \A s \in Given(a) : b # Head(queue[s])
      <4>1. held'[b] = held[b]
        BY <1>5, <3>2, AgentEndsIs
      <4> QED BY <3>2, <4>1
    <3> QED BY <3>1, <3>2
  <2>4. \A t \in Invs : /\ permits'[t] = IF t \in held[a] \ Given(a) THEN permits[t] - 1 ELSE permits[t]
                        /\ queue'[t] = IF t \in Given(a) THEN Tail(queue[t]) ELSE queue[t]
    BY <1>5, AgentEndsIs
  <2>5. ASSUME NEW t \in Invs, t \in Given(a) PROVE Good(t)'
    <3> DEFINE b == Head(queue[t])
    <3>1. b \in Agents \ {a} /\ b \notin Holders(t) /\ a \in Holders(t)
      BY <2>2, <2>5 DEF Holders
    <3>2. Holders(t)' = (Holders(t) \ {a}) \cup {b}
      BY <2>1, <2>3, <2>5, <3>1 DEF Holders
    <3> HIDE DEF b
    <3>3. /\ IsFiniteSet(Holders(t) \ {a}) /\ Cardinality(Holders(t) \ {a}) = Cardinality(Holders(t)) - 1
      BY <1>1, <3>1, FS_RemoveElement
    <3>4. Cardinality((Holders(t) \ {a}) \cup {b}) = Cardinality(Holders(t))
      <4>1. b \notin Holders(t) \ {a} /\ Cardinality(Holders(t)) \in Nat
        BY <1>1, <3>1
      <4>2. Cardinality((Holders(t) \ {a}) \cup {b}) = Cardinality(Holders(t) \ {a}) + 1
        BY <3>3, <4>1, FS_AddElement
      <4> QED BY <3>3, <4>1, <4>2
    <3>5. Cardinality(Holders(t)') = Cardinality(Holders(t))
      BY <3>2, <3>4
    <3>6. permits'[t] = permits[t] /\ queue[t] # <<>>
      BY <2>4, <2>5 DEF Given
    <3> QED BY <1>0, <2>1, <3>5, <3>6 DEF PermitsOK, HasSemaphore
  <2>6. ASSUME NEW t \in Invs, t \in held[a] \ Given(a) PROVE Good(t)'
    <3>1. Holders(t)' = Holders(t) \ {a} /\ a \in Holders(t)
      BY <2>1, <2>3, <2>6 DEF Holders
    <3>2. Cardinality(Holders(t)') = Cardinality(Holders(t)) - 1
      BY <1>1, <3>1, FS_RemoveElement
    <3>3. permits'[t] = permits[t] - 1 /\ queue'[t] = <<>> /\ permits[t] \in Int /\ permits[t] >= 1
      BY <1>0, <2>4, <2>6, SemaphoresAre DEF Given
    <3> QED BY SMTT(40), <1>0, <3>2, <3>3 DEF PermitsOK, HasSemaphore
  <2>7. ASSUME NEW t \in Invs, t \notin held[a] PROVE Good(t)'
    <3>1. t \notin Given(a)
      BY <2>7 DEF Given
    <3>2. Holders(t)' = Holders(t)
      BY <2>1, <2>3, <2>7, <3>1 DEF Holders
    <3>3. permits'[t] = permits[t] /\ queue'[t] = queue[t]
      BY <2>4, <2>7, <3>1
    <3> QED BY <1>0, <2>1, <3>2, <3>3 DEF PermitsOK, HasSemaphore
  <2>8. ASSUME NEW t \in Invs PROVE Good(t)'
    BY <2>5, <2>6, <2>7
  <2> QED BY <2>8 DEF PermitsOK
<1>6. CASE UNCHANGED <<permits, queue, held>> /\ UNCHANGED limit
  BY <1>2, <1>6 DEF PermitsOK
<1>7. ASSUME NEW i \in Invs, CallAgent(i) PROVE UNCHANGED <<permits, queue, held>> /\ UNCHANGED limit
  BY <1>7 DEF CallAgent, treeVars
<1> QED BY <1>3, <1>4, <1>5, <1>6, <1>7, Frames DEF budgetVars, treeVars

-----------------------------------------------------------------------------
LEMMA Invariance ==
  Spec => []IInv
<1>1. Init => IInv
  BY InitIInv
<1>2. IInv /\ [Next]_vars => IInv'
  BY StepTypes, StepFunctions, StepTree, StepAncestry, StepSignals, StepErrors, StepStory,
     StepAgents, StepQueues, StepPermits DEF IInv
<1> QED BY <1>1, <1>2, PTL DEF Spec

LEMMA BudgetIs ==
  IInv => BudgetExact
<1> SUFFICES ASSUME IInv, NEW i \in Invs, HasSemaphore(i)
             PROVE  /\ Cardinality({a \in Agents : agent[a] = "working" /\ i \in path[owner[a]]}) <= limit[i]
                    /\ Cardinality({a \in Agents : i \in held[a]}) = permits[i]
                    /\ queue[i] # <<>> => permits[i] = limit[i]
                    /\ \A a \in Range(queue[i]) : held[a] = Semaphores(owner[a]) \cap (path[i] \ {i})
  BY DEF BudgetExact
<1>0. /\ TypeOK /\ FunctionsOK /\ AncestryOK /\ AgentsOK /\ QueuesOK /\ PermitsOK
      /\ permits[i] \in -1..limit[i] /\ limit[i] \in Nat /\ i \in Nat
      /\ \A j \in Invs : j \in Nat
  <2>1. TypeOK /\ FunctionsOK /\ AncestryOK /\ AgentsOK /\ QueuesOK /\ PermitsOK
    BY DEF IInv
  <2>2. permits[i] \in -1..limit[i] /\ limit[i] \in Nat
    BY <2>1, CallsAssumption DEF TypeOK, FunctionsOK
  <2>3. \A j \in Invs : j \in Nat
    BY BoundsAssumption DEF Invs
  <2> QED BY <2>1, <2>2, <2>3
<1>1. Holders(i) = {a \in Agents : i \in held[a]} /\ IsFiniteSet(Holders(i))
  BY HoldersAre DEF Holders
<1>2. /\ Cardinality({a \in Agents : i \in held[a]}) = permits[i]
      /\ queue[i] # <<>> => permits[i] = limit[i]
  BY <1>0, <1>1 DEF PermitsOK
<1>3. Cardinality({a \in Agents : agent[a] = "working" /\ i \in path[owner[a]]}) <= limit[i]
  <2> DEFINE W == {a \in Agents : agent[a] = "working" /\ i \in path[owner[a]]}
  <2>1. W \subseteq Holders(i)
    BY <1>0 DEF AgentsOK, Holders, Semaphores
  <2>2. IsFiniteSet(W) /\ Cardinality(W) <= Cardinality(Holders(i))
    BY <1>1, <2>1, FS_Subset
  <2>3. Cardinality(W) \in Nat /\ Cardinality(Holders(i)) \in Nat
    BY <1>1, <2>2, FS_CardinalityType
  <2> QED BY <1>0, <1>1, <1>2, <2>2, <2>3
<1>4. ASSUME NEW a \in Range(queue[i])
      PROVE  held[a] = Semaphores(owner[a]) \cap (path[i] \ {i})
  <2>1. a \in Waiting(i)
    <3>1. queue[i] \in Seq(Agents) /\ Elems(queue[i]) = Waiting(i)
      BY <1>0 DEF QueuesOK, FunctionsOK
    <3> QED BY <3>1 DEF Range, Elems
  <2>2. /\ a \in Agents /\ agent[a] = "queued" /\ i \in Ahead(a)
        /\ \A t \in Ahead(a) : i <= t
    BY <2>1, WaitingIs
  <2>3. /\ held[a] \subseteq Semaphores(owner[a])
        /\ \A x \in held[a] : x < i
    BY <1>0, <2>2 DEF AgentsOK
  <2>4. i \in path[owner[a]] /\ owner[a] \in Invs /\ Semaphores(owner[a]) \subseteq path[owner[a]]
    BY <2>2, SemaphoresAre DEF Ahead
  <2>5. path[i] = path[owner[a]] \cap (0..i)
    BY <1>0, <2>4 DEF AncestryOK
  <2>6. ASSUME NEW x \in Semaphores(owner[a]) PROVE x \in held[a] <=> x \in path[i] \ {i}
    <3>1. x \in Nat /\ x \in path[owner[a]]
      BY <2>2, <2>6, SemaphoresAre
    <3>2. CASE x \in held[a]
      BY <1>0, <2>3, <2>5, <3>1, <3>2
    <3>3. CASE x \notin held[a]
      <4>1. i <= x
        BY <2>2, <2>6, <3>3 DEF Ahead
      <4> QED BY <1>0, <2>5, <3>1, <3>3, <4>1
    <3> QED BY <3>2, <3>3
  <2> QED BY <2>3, <2>6
<1> QED BY <1>2, <1>3, <1>4

(* No more agents of a subtree work than its limit allows, at every level  *)
(* of the tree at once, no permit is lost, and agents never wait in a      *)
(* circle (acquire() and release() of concurrencyBudget in                 *)
(* workflow/invocation-manager.ts).                                        *)
THEOREM BudgetExactHolds ==
  Spec => []BudgetExact
BY Invariance, BudgetIs, PTL

LEMMA ReportsAre ==
  IInv => ReportsAgree
<1> SUFFICES ASSUME IInv, NEW i \in Invs
             PROVE  /\ pc[i] # "done" => summary[i] = <<>> /\ outcome[i] = "none"
                    /\ pc[i] = "done" =>
                         \/ summary[i] = <<>> /\ outcome[i] = "thrown"
                         \/ \E s \in {"succeeded", "failed", "timed_out", "cancelled"} :
                              /\ summary[i] = <<s>>
                              /\ s = "succeeded" <=> outcome[i] = "value"
                              /\ events[i] \in {<<>>, <<s>>, <<"started", s>>}
                              /\ s \in {"timed_out", "cancelled"} =>
                                   \E j \in Invs : (j \in path[i] \/ i \in path[j]) /\ signal[j] = s
  BY DEF ReportsAgree, IInv
<1> QED BY DEF IInv, StoryOK, Told, Explained, Related

(* The summary, the events and the answer of an invocation agree, whatever *)
(* write fails, and it blames an abort or a deadline only if there was one *)
(* above it or below (invokeChild() and executeRoot() in                   *)
(* workflow/invocation-manager.ts).                                        *)
THEOREM ReportsAgreeHolds ==
  Spec => []ReportsAgree
BY Invariance, ReportsAre, PTL

(* An invocation in progress has heard every abort of its parent, also the *)
(* one that came while its first artifacts were written (the link between  *)
(* the two signals in invokeChild() in workflow/invocation-manager.ts).    *)
THEOREM AbortIsHeardHolds ==
  Spec => []AbortIsHeard
<1>1. IInv => AbortIsHeard
  BY DEF IInv, SignalsOK, AbortIsHeard
<1> QED BY <1>1, Invariance, PTL

=============================================================================
