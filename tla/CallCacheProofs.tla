--------------------------- MODULE CallCacheProofs ---------------------------
(***************************************************************************)
(* Proofs about CallCache, for any workflows, any number of calls in       *)
(* progress and any number of resumes.                                     *)
(***************************************************************************)
EXTENDS CallCache, FiniteSetTheorems, TLAPS

Records(i) == prog[i].kind \in {"agent", "marker"}
Settled(i) == phase[i] \notin {"new", "hit", "live"}
Listed == {"appended", "writing", "opened", "done"}
Indexing == {"writing", "opened"}

SequenceIn(p, i) == Cardinality({j \in 1..i : p[j].kind # "plain"})

-----------------------------------------------------------------------------
(* The inductive invariant.  Calls begin in order, and one that is settled *)
(* has the entry it records.                                               *)
CallsOK ==
  /\ disk \in [calls : SUBSET Entry,
               index : [entries : SUBSET Entry, torn : BOOLEAN],
               results : SUBSET (1..Len(prog))]
  /\ \A i \in DOMAIN prog :
       /\ i >= next <=> phase[i] = "new"
       /\ phase[i] \in {"hit", "live"} => prog[i].kind = "agent"
       /\ phase[i] \notin {"new", "done"} => Records(i)
       /\ ~(Records(i) /\ Settled(i)) => outcome[i] = Pending
       /\ Records(i) /\ Settled(i) =>
            /\ outcome[i] \in Entry
            /\ outcome[i].seq = Sequence(i) /\ outcome[i].fp = prog[i].fp
            /\ outcome[i].origin <= run
            /\ prog[i].kind = "marker" => outcome[i].origin = run

(* calls.jsonl and the index hold entries of calls that got that far; the  *)
(* entries loaded from an earlier run succeeded, one per number.           *)
EntriesOK ==
  /\ \A e \in disk.calls : \E i \in DOMAIN prog :
       Records(i) /\ phase[i] \in Listed /\ e = outcome[i]
  /\ \A e \in current : \E i \in DOMAIN prog :
       Records(i) /\ phase[i] \in Listed /\ e = outcome[i] /\ e.ok
  /\ \A i \in DOMAIN prog :
       /\ Records(i) /\ phase[i] \in Listed => outcome[i] \in disk.calls
       /\ phase[i] \in Indexing => outcome[i] \in current
       /\ prog[i].kind = "agent" /\ outcome[i].ok => Sequence(i) \in disk.results
  /\ \A e \in previous : e.ok /\ e.origin < run
  /\ \A e, f \in previous : e.seq = f.seq => e = f

(* Every success was executed live, or belongs to a marker.                *)
MarkerPrints ==
  UNION {{p[i].fp : i \in {j \in DOMAIN p : p[j].kind = "marker"}} : p \in Programs}
Genuine(e) == <<e.fp, e.origin>> \in executed \/ e.fp \in MarkerPrints

OriginOK ==
  /\ \A e \in previous : Genuine(e)
  /\ \A i \in DOMAIN prog : outcome[i].ok => Genuine(outcome[i])

(* The lookup is on as long as all that was made so far was replayed, and  *)
(* is turned off by the first call that finds nothing.                     *)
Found(j) == prog[j].kind # "plain" /\ (Records(j) => Matches(j) # {})
Findable(i) == \A j \in 1..i : Found(j)
AllFindable == \A j \in 1..(next - 1) : Found(j)

LookupOK ==
  usable => \A i \in 1..(next - 1) :
    /\ prog[i].kind # "plain"
    /\ readEnabled /\ prog[i].kind = "agent" => Replayed(i)

HitsOK ==
  \A i \in DOMAIN prog :
    /\ ~readEnabled => ~Replayed(i)
    /\ phase[i] = "hit" => Matches(i) # {}

ReuseOK ==
  readEnabled =>
    /\ AllFindable => usable
    /\ \A i \in 1..(next - 1) :
         prog[i].kind = "agent" /\ Findable(i) => Replayed(i)

PrefixOK == ReplayIsAPrefix /\ LookupOK /\ HitsOK /\ ReuseOK

(* A prefix of calls that all returned successfully is in the index, as    *)
(* far as it is whole, when calls are made one after the other.            *)
Returned(i) == phase[i] = "done" /\ (outcome[i].ok \/ prog[i].kind = "parallel")
Succeeded(i) == \A j \in 1..i : Returned(j)

SerialOK ==
  /\ ~noCache /\ ~writeIndex =>
       \E i \in DOMAIN prog : Records(i) /\ phase[i] = "done" /\ ~outcome[i].ok
  /\ serial =>
       /\ \A i \in DOMAIN prog :
            /\ i < next - 1 => phase[i] = "done"
            /\ phase[i] \in Indexing => snapshot[i] = current
            /\ phase[i] = "opened" => disk.index = [entries |-> {}, torn |-> TRUE]
       /\ ~noCache => \A i \in DOMAIN prog :
            Records(i) /\ Succeeded(i) =>
              /\ outcome[i] \in current
              /\ ~disk.index.torn => outcome[i] \in disk.index.entries

(* What the previous run left of such a prefix.                            *)
PriorOK ==
  /\ prior.returned \subseteq DOMAIN prior.prog
  /\ readEnabled /\ prior.cached /\ prior.serial =>
       \A i \in DOMAIN prior.prog : (1..i \subseteq prior.returned) =>
         /\ prior.prog[i].kind # "plain"
         /\ prior.prog[i].kind \in {"agent", "marker"} =>
              \E e \in previous : /\ e.ok /\ e.fp = prior.prog[i].fp
                                  /\ e.seq = SequenceIn(prior.prog, i)

IInv ==
  /\ TypeOK
  /\ CallsOK
  /\ EntriesOK
  /\ OriginOK
  /\ PrefixOK
  /\ SerialOK
  /\ PriorOK

-----------------------------------------------------------------------------
(* Sequence numbers.                                                       *)
LEMMA ProgramIsSeq ==
  ASSUME TypeOK
  PROVE  Len(prog) \in Nat /\ DOMAIN prog = 1..Len(prog)
BY ProgramsAssumption DEF TypeOK

LEMMA SequenceRange ==
  ASSUME TypeOK, NEW i \in DOMAIN prog
  PROVE  /\ Sequence(i) \in 0..i /\ Sequence(i) = SequenceIn(prog, i)
         /\ prog[i].kind # "plain" => Sequence(i) \in 1..Len(prog)
<1> DEFINE S == {j \in 1..i : prog[j].kind # "plain"}
<1>1. i \in 1..Len(prog) /\ Len(prog) \in Nat /\ i \in Nat
  BY ProgramIsSeq
<1>2. IsFiniteSet(1..i) /\ Cardinality(1..i) = i
  BY <1>1, FS_Interval
<1>3. IsFiniteSet(S) /\ Cardinality(S) <= i /\ Cardinality(S) \in Nat
  BY <1>2, FS_Subset, FS_CardinalityType
<1>4. ASSUME prog[i].kind # "plain" PROVE Cardinality(S) # 0
  <2>1. i \in S
    BY <1>1, <1>4
  <2> QED BY <1>3, <2>1, FS_EmptySet
<1> QED BY <1>1, <1>3, <1>4 DEF Sequence, SequenceIn

LEMMA SequenceGrows ==
  ASSUME TypeOK, NEW i \in DOMAIN prog, NEW j \in DOMAIN prog, i < j,
         prog[j].kind # "plain"
  PROVE  Sequence(i) < Sequence(j)
<1> DEFINE S(k) == {m \in 1..k : prog[m].kind # "plain"}
<1>1. i \in Nat /\ j \in Nat /\ 1 <= j
  BY ProgramIsSeq
<1>2. IsFiniteSet(1..i) /\ IsFiniteSet(1..j)
  BY <1>1, FS_Interval
<1>3. /\ IsFiniteSet(S(i)) /\ Cardinality(S(i)) \in Nat
      /\ IsFiniteSet(S(j)) /\ Cardinality(S(j)) \in Nat
  BY <1>2, FS_Subset, FS_CardinalityType
<1>4. j \notin S(i) /\ S(i) \cup {j} \subseteq S(j)
  BY <1>1
<1>5. Cardinality(S(i) \cup {j}) = Cardinality(S(i)) + 1
  BY <1>3, <1>4, FS_AddElement
<1>6. Cardinality(S(i) \cup {j}) <= Cardinality(S(j))
  BY <1>3, <1>4, FS_Subset
<1> QED BY <1>3, <1>5, <1>6 DEF Sequence

LEMMA SequenceInjective ==
  ASSUME TypeOK, NEW i \in DOMAIN prog, NEW j \in DOMAIN prog,
         Records(i), Records(j), Sequence(i) = Sequence(j)
  PROVE  i = j
<1>1. i \in Int /\ j \in Int /\ prog[i].kind # "plain" /\ prog[j].kind # "plain"
  BY ProgramIsSeq DEF Records
<1>2. Sequence(i) \in Int /\ Sequence(j) \in Int
  BY SequenceRange
<1>3. ~(i < j) /\ ~(j < i)
  BY <1>1, <1>2, SequenceGrows
<1> QED BY <1>1, <1>3

-----------------------------------------------------------------------------
(* What a call of the workflow leaves alone, and how the places change.    *)
Places == {"new", "hit", "live", "ended", "appended", "writing", "opened", "done"}

Moves(i, from, to) ==
  phase[i] = from /\ phase' = [phase EXCEPT ![i] = to]

SameRun ==
  UNCHANGED <<run, prog, noCache, previous, prior>>

LEMMA CallsStay ==
  ASSUME NEW i, Call(i)
  PROVE  SameRun
BY DEF Call, SameRun, memory, BeginCall, BeginMarker, BeginParallel, BeginPlainTool, Makes,
       Execute, Materialize, AppendLine, PushEntry, OpenIndex, WriteIndex

LEMMA SameSequences ==
  ASSUME SameRun
  PROVE  /\ \A i : Sequence(i)' = Sequence(i) /\ Records(i)' = Records(i)
         /\ \A i : /\ Matches(i)' = Matches(i) /\ Found(i)' = Found(i)
                   /\ Findable(i)' = Findable(i)
         /\ readEnabled' = readEnabled
BY DEF SameRun, Sequence, Records, Matches, Found, Findable, readEnabled

LEMMA PrintOf ==
  ASSUME TypeOK, NEW i \in DOMAIN prog
  PROVE  prog[i].fp \in {c.fp : c \in UNION {{p[k] : k \in DOMAIN p} : p \in Programs}}
BY DEF TypeOK

LEMMA NewEntry ==
  ASSUME TypeOK, NEW i \in DOMAIN prog, NEW ok \in BOOLEAN
  PROVE  [seq |-> Sequence(i), fp |-> prog[i].fp, ok |-> ok, origin |-> run] \in Entry
BY SMTT(40), SequenceRange, PrintOf DEF TypeOK, Entry

(* The entry that is replayed is the one that was found.                   *)
LEMMA FoundEntry ==
  ASSUME IInv, NEW i \in DOMAIN prog, phase[i] = "hit"
  PROVE  LET e == CHOOSE f \in previous : f.seq = Sequence(i) IN
           e \in previous /\ e.seq = Sequence(i) /\ e.ok /\ e.fp = prog[i].fp
<1>1. PICK e \in previous : e.seq = Sequence(i) /\ e.ok /\ e.fp = prog[i].fp
  BY DEF IInv, PrefixOK, LookupOK, HitsOK, ReuseOK, Matches
<1>2. \A f \in previous : f.seq = Sequence(i) => f = e
  BY <1>1 DEF IInv, EntriesOK
<1> QED BY <1>1, <1>2

-----------------------------------------------------------------------------
(* The steps of a call, by what they change.                               *)
NewOutcome(i, e) == outcome' = [outcome EXCEPT ![i] = e]
OwnEntry(i, ok) == [seq |-> Sequence(i), fp |-> prog[i].fp, ok |-> ok, origin |-> run]

Begins(i) ==
  /\ i = next /\ next' = next + 1
  /\ serial' = (serial /\ Busy = {})
  /\ UNCHANGED <<snapshot, writeIndex, current, disk, executed>>
Looks(i) ==
  /\ Begins(i) /\ prog[i].kind = "agent" /\ usable' = AfterLookup(i)
  /\ Moves(i, "new", IF Hit(i) THEN "hit" ELSE "live") /\ outcome' = outcome
Marks(i) ==
  /\ Begins(i) /\ prog[i].kind = "marker" /\ usable' = AfterLookup(i)
  /\ Moves(i, "new", "ended") /\ \E ok \in BOOLEAN : NewOutcome(i, OwnEntry(i, ok))
Passes(i) ==
  /\ Begins(i) /\ prog[i].kind = "parallel" /\ usable' = usable
  /\ Moves(i, "new", "done") /\ outcome' = outcome
Breaks(i) ==
  /\ Begins(i) /\ prog[i].kind = "plain" /\ usable' = FALSE
  /\ Moves(i, "new", "done") /\ outcome' = outcome

GoesOn == UNCHANGED <<next, serial, usable>>
Runs(i, ok) ==
  /\ GoesOn /\ Moves(i, "live", "ended") /\ NewOutcome(i, OwnEntry(i, ok))
  /\ disk' = IF ok THEN [disk EXCEPT !.results = Saved(i)] ELSE disk
  /\ executed' = IF ok THEN executed \cup {<<prog[i].fp, run>>} ELSE executed
  /\ UNCHANGED <<snapshot, writeIndex, current>>
Copies(i) ==
  /\ GoesOn /\ Moves(i, "hit", "ended")
  /\ NewOutcome(i, CHOOSE e \in previous : e.seq = Sequence(i))
  /\ disk' = [disk EXCEPT !.results = Saved(i)]
  /\ UNCHANGED <<snapshot, writeIndex, current, executed>>
Lists(i) ==
  /\ GoesOn /\ Moves(i, "ended", "appended")
  /\ disk' = [disk EXCEPT !.calls = disk.calls \cup {outcome[i]}]
  /\ UNCHANGED <<outcome, snapshot, writeIndex, current, executed>>
Pushes(i) ==
  /\ GoesOn /\ Moves(i, "appended", "writing") /\ outcome[i].ok /\ writeIndex
  /\ current' = current \cup {outcome[i]}
  /\ snapshot' = [snapshot EXCEPT ![i] = current']
  /\ UNCHANGED <<outcome, writeIndex, disk, executed>>
Drops(i) ==
  /\ GoesOn /\ Moves(i, "appended", "done") /\ ~(outcome[i].ok /\ writeIndex)
  /\ writeIndex' = FALSE
  /\ UNCHANGED <<outcome, snapshot, current, disk, executed>>
Opens(i) ==
  /\ GoesOn /\ Moves(i, "writing", "opened")
  /\ disk' = [disk EXCEPT !.index = [entries |-> {}, torn |-> TRUE]]
  /\ UNCHANGED <<outcome, snapshot, writeIndex, current, executed>>
Rewrites(i) ==
  /\ GoesOn /\ Moves(i, "opened", "done")
  /\ disk' = [disk EXCEPT !.index = Overwritten(disk.index, snapshot[i])]
  /\ UNCHANGED <<outcome, snapshot, writeIndex, current, executed>>

CallStep(i) ==
  \/ Looks(i) \/ Marks(i) \/ Passes(i) \/ Breaks(i)
  \/ \E ok \in BOOLEAN : Runs(i, ok)
  \/ Copies(i) \/ Lists(i) \/ Pushes(i) \/ Drops(i) \/ Opens(i) \/ Rewrites(i)

LEMMA CallSteps ==
  ASSUME TypeOK, CallsOK, NEW i \in DOMAIN prog, Call(i)
  PROVE  SameRun /\ CallStep(i)
<1> USE DEF Moves, NewOutcome, OwnEntry, Reach, memory, GoesOn
<1>1. BeginCall(i) \/ BeginMarker(i) \/ BeginParallel(i) \/ BeginPlainTool(i)
        => Looks(i) \/ Marks(i) \/ Passes(i) \/ Breaks(i)
  <2>1. Makes(i) => Begins(i) /\ phase[i] = "new"
    BY ProgramIsSeq DEF Makes, Begins, CallsOK
  <2>2. BeginCall(i) => Looks(i)
    BY <2>1 DEF BeginCall, Looks
  <2>3. BeginMarker(i) => Marks(i)
    BY <2>1 DEF BeginMarker, Marks
  <2>4. BeginParallel(i) => Passes(i)
    BY <2>1 DEF BeginParallel, Passes
  <2>5. BeginPlainTool(i) => Breaks(i)
    BY <2>1 DEF BeginPlainTool, AfterPlainTool, Breaks
  <2> QED BY <2>2, <2>3, <2>4, <2>5
<1>2. ASSUME NEW ok \in BOOLEAN, Execute(i, ok) PROVE Runs(i, ok)
  BY <1>2 DEF Execute, Runs
<1>3. Materialize(i) => Copies(i)
  BY DEF Materialize, Copies
<1>4. AppendLine(i) => Lists(i)
  BY DEF AppendLine, Lists
<1>5. PushEntry(i) => Pushes(i) \/ Drops(i)
  BY DEF PushEntry, Indexed, Pushes, Drops
<1>6. OpenIndex(i) => Opens(i)
  BY DEF OpenIndex, Truncated, Opens
<1>7. WriteIndex(i) => Rewrites(i)
  BY DEF WriteIndex, Rewrites
<1> QED BY <1>1, <1>2, <1>3, <1>4, <1>5, <1>6, <1>7, CallsStay DEF Call, CallStep

(* Between runs nothing is left but what was loaded.                       *)
Resumes(p, off) ==
  /\ run < MaxRuns /\ run' = run + 1
  /\ Fresh(p, off, Load(disk))
  /\ executed' = executed
  /\ prior' = [prog |-> prog, results |-> disk.results,
               returned |-> {i \in DOMAIN prog : Returned(i)},
               cached |-> ~noCache, serial |-> serial]

LEMMA StepCases ==
  ASSUME TypeOK, CallsOK, [Next]_vars
  PROVE  \/ UNCHANGED vars
         \/ \E i \in DOMAIN prog : SameRun /\ CallStep(i)
         \/ \E p \in Programs, off \in BOOLEAN : Resumes(p, off)
BY CallSteps DEF Next, Resume, Resumes, Returned

-----------------------------------------------------------------------------
(* Types, and the shape of the calls.                                      *)
LEMMA OverwrittenIs ==
  ASSUME NEW index \in [entries : SUBSET Entry, torn : BOOLEAN], NEW text \in SUBSET Entry
  PROVE  /\ Overwritten(index, text) \in [entries : SUBSET Entry, torn : BOOLEAN]
         /\ Overwritten(index, text).entries \in {index.entries, text}
         /\ ~Overwritten(index, text).torn => Overwritten(index, text).entries = text
BY DEF Overwritten

LEMMA LoadIs ==
  ASSUME TypeOK, CallsOK, EntriesOK, NEW e \in Load(disk)
  PROVE  /\ e.ok
         /\ \E i \in DOMAIN prog : Records(i) /\ phase[i] \in Listed /\ e = outcome[i]
BY DEF Load, Rebuilt, TypeOK, EntriesOK

LEMMA CallTypes ==
  ASSUME IInv, NEW i \in DOMAIN prog, SameRun, CallStep(i)
  PROVE  TypeOK' /\ disk' \in [calls : SUBSET Entry,
                     index : [entries : SUBSET Entry, torn : BOOLEAN],
                     results : SUBSET (1..Len(prog))]
<1> DEFINE DiskType == [calls : SUBSET Entry,
                        index : [entries : SUBSET Entry, torn : BOOLEAN],
                        results : SUBSET (1..Len(prog))]
<1>0. /\ TypeOK /\ CallsOK /\ i \in 1..Len(prog) /\ Len(prog) \in Nat
      /\ disk \in DiskType /\ current \subseteq Entry /\ previous \subseteq Entry
      /\ disk.index.entries \subseteq current
      /\ phase \in [DOMAIN prog -> Places]
      /\ outcome \in [DOMAIN prog -> Entry \cup {Pending}]
      /\ snapshot \in [DOMAIN prog -> SUBSET current]
      /\ next \in 1..(Len(prog) + 1)
  BY ProgramIsSeq DEF IInv, CallsOK, TypeOK, Places
<1>1. SameRun
  OBVIOUS
<1>2. \A ok \in BOOLEAN : OwnEntry(i, ok) \in Entry
  BY <1>0, NewEntry DEF OwnEntry
<1>3. phase' \in [DOMAIN prog -> Places]
  BY SMTT(40), <1>0 DEF CallStep, Looks, Marks, Passes, Breaks, Runs, Copies, Lists, Pushes, Drops,
     Opens, Rewrites, Moves, Places
<1>4. next' \in 1..(Len(prog) + 1)
  <2>1. next' = next \/ (i = next /\ next' = next + 1)
    BY DEF CallStep, Begins, GoesOn, Looks, Marks, Passes, Breaks, Runs, Copies, Lists,
       Pushes, Drops, Opens, Rewrites
  <2> QED BY <1>0, <2>1
<1>5. outcome' \in [DOMAIN prog -> Entry \cup {Pending}]
  <2>1. ASSUME Copies(i) PROVE (CHOOSE e \in previous : e.seq = Sequence(i)) \in Entry
    BY <1>0, <2>1, FoundEntry DEF Copies, Moves
  <2> QED BY ZenonT(60), <1>0, <1>2, <2>1 DEF CallStep, Looks, Marks, Passes, Breaks, Runs, Copies,
     Lists, Pushes, Drops, Opens, Rewrites, NewOutcome
<1>6. ASSUME Pushes(i) PROVE outcome[i] \in Entry
  BY <1>6 DEF IInv, CallsOK, Pushes, Moves, Settled
<1>7. current' \subseteq Entry /\ current \subseteq current'
  BY <1>0, <1>6 DEF CallStep, Begins, Looks, Marks, Passes, Breaks, Runs, Copies,
     Lists, Pushes, Drops, Opens, Rewrites
<1>8. snapshot' \in [DOMAIN prog -> SUBSET current']
  <2>1. CASE Pushes(i)
    BY <1>0, <1>7, <2>1 DEF Pushes
  <2>2. CASE ~Pushes(i)
    BY <1>0, <1>7, <2>2 DEF CallStep, Begins, Looks, Marks, Passes, Breaks, Runs, Copies,
       Lists, Drops, Opens, Rewrites
  <2> QED BY <2>1, <2>2
<1>9. disk' \in DiskType /\ disk'.index.entries \subseteq current'
  <2>1. CASE (\E ok \in BOOLEAN : Runs(i, ok)) \/ Copies(i)
    <3>1. prog[i].kind = "agent"
      BY <2>1 DEF IInv, CallsOK, Runs, Copies, Moves
    <3>2. Saved(i) \subseteq 1..Len(prog)
      BY <1>0, <3>1, SequenceRange DEF Saved
    <3>3. disk' = disk \/ disk' = [disk EXCEPT !.results = Saved(i)]
      BY <2>1 DEF Runs, Copies
    <3> QED BY <1>0, <1>7, <3>2, <3>3
  <2>2. CASE Lists(i)
    <3>1. outcome[i] \in Entry
      BY <2>2 DEF IInv, CallsOK, Lists, Moves, Settled
    <3> QED BY <1>0, <1>7, <2>2, <3>1 DEF Lists
  <2>3. CASE Opens(i)
    BY <1>0, <1>7, <2>3 DEF Opens
  <2>4. CASE Rewrites(i)
    <3>1. snapshot[i] \subseteq current /\ snapshot[i] \subseteq Entry
      BY <1>0
    <3>2. Overwritten(disk.index, snapshot[i]) \in [entries : SUBSET Entry, torn : BOOLEAN]
          /\ Overwritten(disk.index, snapshot[i]).entries \in {disk.index.entries, snapshot[i]}
      BY <1>0, <3>1, OverwrittenIs
    <3> HIDE DEF Overwritten
    <3> QED BY <1>0, <1>7, <2>4, <3>1, <3>2 DEF Rewrites
  <2>5. CASE disk' = disk
    BY <1>0, <1>7, <2>5
  <2> QED BY <2>1, <2>2, <2>3, <2>4, <2>5 DEF CallStep, Begins, Looks, Marks, Passes,
     Breaks, Pushes, Drops
<1>10. serial' \in BOOLEAN /\ usable' \in BOOLEAN /\ writeIndex' \in BOOLEAN
  BY <1>0 DEF TypeOK, CallStep, Begins, GoesOn, Looks, Marks, Passes, Breaks, Runs, Copies,
     Lists, Pushes, Drops, Opens, Rewrites, AfterLookup
<1>11. run' \in 1..MaxRuns /\ prog' \in Programs /\ noCache' \in BOOLEAN /\ previous' \subseteq Entry
  BY <1>0, <1>1 DEF TypeOK, SameRun
<1>12. prog' = prog
  BY <1>1 DEF SameRun
<1>13. disk'.calls \subseteq Entry /\ disk'.results \subseteq 1..Len(prog)
  BY <1>9
<1> QED BY <1>3, <1>4, <1>5, <1>7, <1>8, <1>9, <1>10, <1>11, <1>12, <1>13 DEF TypeOK, Places

(* The other calls are left alone, and this one goes one step further.     *)
LEMMA OthersStay ==
  ASSUME IInv, NEW i \in DOMAIN prog, SameRun, CallStep(i)
  PROVE  /\ \A k \in DOMAIN prog : k # i =>
              /\ phase'[k] = phase[k] /\ outcome'[k] = outcome[k]
              /\ k >= next' <=> k >= next
         /\ i < next'
         /\ phase'[i] # "new"
<1>0. /\ phase \in [DOMAIN prog -> Places] /\ next \in Nat
      /\ outcome \in [DOMAIN prog -> Entry \cup {Pending}]
      /\ \A k \in DOMAIN prog : k \in Nat /\ (k >= next <=> phase[k] = "new")
  BY ProgramIsSeq DEF IInv, TypeOK, CallsOK, Places
<1>1. \A k \in DOMAIN prog : k # i => phase'[k] = phase[k]
  BY <1>0 DEF CallStep, Looks, Marks, Passes, Breaks, Runs, Copies, Lists, Pushes, Drops,
     Opens, Rewrites, Moves
<1>2. \A k \in DOMAIN prog : k # i => outcome'[k] = outcome[k]
  BY <1>0 DEF CallStep, Looks, Marks, Passes, Breaks, Runs, Copies, Lists, Pushes, Drops,
     Opens, Rewrites, NewOutcome
<1>3. \/ i = next /\ next' = next + 1
      \/ next' = next /\ phase[i] # "new"
  BY <1>0 DEF CallStep, Begins, GoesOn, Looks, Marks, Passes, Breaks, Runs, Copies,
     Lists, Pushes, Drops, Opens, Rewrites, Moves
<1>4. phase'[i] # "new"
  BY <1>0 DEF CallStep, Looks, Marks, Passes, Breaks, Runs, Copies, Lists, Pushes, Drops,
     Opens, Rewrites, Moves
<1> QED BY <1>0, <1>1, <1>2, <1>3, <1>4

LEMMA CallShapes ==
  ASSUME IInv, NEW i \in DOMAIN prog, SameRun, CallStep(i)
  PROVE  CallsOK'
<1>0. /\ TypeOK /\ CallsOK
      /\ phase \in [DOMAIN prog -> Places] /\ next \in Nat
      /\ outcome \in [DOMAIN prog -> Entry \cup {Pending}]
      /\ run \in Nat
  BY DEF IInv, TypeOK, Places
<1>1. /\ prog' = prog /\ run' = run
      /\ \A k : Sequence(k)' = Sequence(k) /\ (Records(k)' <=> Records(k))
  BY SameSequences DEF SameRun
<1>2. /\ i >= next' <=> phase'[i] = "new"
      /\ \A k \in DOMAIN prog : k # i =>
           /\ phase'[k] = phase[k] /\ outcome'[k] = outcome[k]
           /\ k >= next' <=> k >= next
  BY <1>0, OthersStay, ProgramIsSeq, CallTypes DEF TypeOK
<1> DEFINE Shape ==
      /\ phase'[i] \in {"hit", "live"} => prog[i].kind = "agent"
      /\ phase'[i] \notin {"new", "done"} => Records(i)
      /\ ~(Records(i) /\ phase'[i] \notin {"new", "hit", "live"}) => outcome'[i] = Pending
      /\ Records(i) /\ phase'[i] \notin {"new", "hit", "live"} =>
           /\ outcome'[i] \in Entry
           /\ outcome'[i].seq = Sequence(i) /\ outcome'[i].fp = prog[i].fp
           /\ outcome'[i].origin <= run
           /\ prog[i].kind = "marker" => outcome'[i].origin = run
<1>3. Shape
  <2>1. \A ok \in BOOLEAN : OwnEntry(i, ok) \in Entry
    BY <1>0, NewEntry DEF OwnEntry
  <2>2. CASE Looks(i)
    BY <1>0, <2>2 DEF Looks, Moves, CallsOK, Settled, Records
  <2>3. CASE Marks(i)
    BY <1>0, <2>1, <2>3 DEF Marks, Moves, NewOutcome, OwnEntry, Records
  <2>4. CASE Passes(i) \/ Breaks(i)
    BY <1>0, <2>4 DEF Passes, Breaks, Moves, CallsOK, Settled, Records
  <2>5. ASSUME NEW ok \in BOOLEAN, Runs(i, ok) PROVE Shape
    BY <1>0, <2>1, <2>5 DEF Runs, Moves, NewOutcome, OwnEntry, CallsOK, Records
  <2>6. CASE Copies(i)
    <3> DEFINE e == CHOOSE f \in previous : f.seq = Sequence(i)
    <3>1. phase[i] = "hit" /\ phase'[i] = "ended" /\ outcome'[i] = e
      BY <1>0, <2>6 DEF Copies, Moves, NewOutcome
    <3>2. e \in previous /\ e.seq = Sequence(i) /\ e.fp = prog[i].fp
      BY <3>1, FoundEntry
    <3> HIDE DEF e
    <3>3. e \in Entry /\ e.origin <= run
      BY <1>0, <3>2 DEF IInv, TypeOK, EntriesOK, Entry
    <3>4. prog[i].kind = "agent"
      BY <1>0, <3>1 DEF CallsOK
    <3> QED BY <3>1, <3>2, <3>3, <3>4 DEF Records
  <2>7. CASE Lists(i) \/ Pushes(i) \/ Drops(i) \/ Opens(i) \/ Rewrites(i)
    <3>1. /\ outcome' = outcome /\ phase[i] \notin {"new", "hit", "live", "done"}
          /\ phase'[i] \notin {"new", "hit", "live"}
      BY <1>0, <2>7 DEF Lists, Pushes, Drops, Opens, Rewrites, Moves
    <3> QED BY <1>0, <3>1 DEF CallsOK, Settled
  <2> QED BY <2>2, <2>3, <2>4, <2>5, <2>6, <2>7 DEF CallStep
<1>4. disk' \in [calls : SUBSET Entry,
                 index : [entries : SUBSET Entry, torn : BOOLEAN],
                 results : SUBSET (1..Len(prog))]
  BY CallTypes
<1>5. ASSUME NEW k \in DOMAIN prog
      PROVE  /\ k >= next' <=> phase'[k] = "new"
             /\ phase'[k] \in {"hit", "live"} => prog[k].kind = "agent"
             /\ phase'[k] \notin {"new", "done"} => Records(k)
             /\ ~(Records(k) /\ Settled(k)') => outcome'[k] = Pending
             /\ Records(k) /\ Settled(k)' =>
                  /\ outcome'[k] \in Entry
                  /\ outcome'[k].seq = Sequence(k) /\ outcome'[k].fp = prog[k].fp
                  /\ outcome'[k].origin <= run
                  /\ prog[k].kind = "marker" => outcome'[k].origin = run
  <2>1. CASE k = i
    BY <1>2, <1>3, <2>1 DEF Settled
  <2>2. CASE k # i
    BY <1>0, <1>2, <2>2 DEF CallsOK, Settled
  <2> QED BY <2>1, <2>2
<1> HIDE DEF Shape
<1> QED BY <1>1, <1>4, <1>5 DEF CallsOK, Entry, Records

-----------------------------------------------------------------------------
(* The entries in memory and on disk.                                      *)
LEMMA CallEntries ==
  ASSUME IInv, NEW i \in DOMAIN prog, SameRun, CallStep(i)
  PROVE  EntriesOK'
<1>0. /\ TypeOK /\ CallsOK /\ EntriesOK
      /\ phase \in [DOMAIN prog -> Places]
      /\ outcome \in [DOMAIN prog -> Entry \cup {Pending}]
      /\ disk \in [calls : SUBSET Entry,
                   index : [entries : SUBSET Entry, torn : BOOLEAN],
                   results : SUBSET (1..Len(prog))]
  BY DEF IInv, TypeOK, CallsOK, Places
<1>1. /\ prog' = prog /\ run' = run /\ previous' = previous
      /\ \A k : Sequence(k)' = Sequence(k) /\ (Records(k)' <=> Records(k))
  BY SameSequences DEF SameRun
<1>2. \A k \in DOMAIN prog : k # i => phase'[k] = phase[k] /\ outcome'[k] = outcome[k]
  BY OthersStay
<1>3. /\ phase[i] \in Listed => phase'[i] \in Listed
      /\ phase[i] \in Listed \cup {"ended"} => outcome'[i] = outcome[i]
  BY <1>0 DEF CallStep, Looks, Marks, Passes, Breaks, Runs, Copies, Lists, Pushes, Drops,
     Opens, Rewrites, Moves, Listed
<1>4. \A e : (\E k \in DOMAIN prog : Records(k) /\ phase[k] \in Listed /\ e = outcome[k])
        => \E k \in DOMAIN prog : Records(k) /\ phase'[k] \in Listed /\ e = outcome'[k]
  BY <1>2, <1>3
<1>5. /\ disk'.calls = IF Lists(i) THEN disk.calls \cup {outcome[i]} ELSE disk.calls
      /\ disk.results \subseteq disk'.results
  <2>1. CASE Lists(i)
    BY <1>0, <2>1 DEF Lists
  <2>2. CASE ~Lists(i)
    BY <1>0, <2>2 DEF CallStep, Begins, Looks, Marks, Passes, Breaks, Runs, Copies, Pushes,
       Drops, Opens, Rewrites, Saved
  <2> QED BY <2>1, <2>2
<1>6. ASSUME Lists(i)
      PROVE  Records(i) /\ phase[i] = "ended" /\ phase'[i] = "appended" /\ outcome' = outcome
  BY <1>0, <1>6 DEF Lists, Moves, CallsOK
<1>7. \A e \in disk'.calls : \E k \in DOMAIN prog :
        Records(k) /\ phase'[k] \in Listed /\ e = outcome'[k]
  BY SMTT(40), <1>0, <1>4, <1>5, <1>6 DEF EntriesOK, Listed
<1>8. current' = IF Pushes(i) THEN current \cup {outcome[i]} ELSE current
  BY <1>0 DEF CallStep, Begins, Looks, Marks, Passes, Breaks, Runs, Copies, Lists, Pushes,
     Drops, Opens, Rewrites
<1>9. ASSUME Pushes(i)
      PROVE  /\ Records(i) /\ phase[i] = "appended" /\ phase'[i] = "writing"
             /\ outcome' = outcome /\ outcome[i].ok
  BY <1>0, <1>9 DEF Pushes, Moves, CallsOK
<1>10. \A e \in current' : \E k \in DOMAIN prog :
         Records(k) /\ phase'[k] \in Listed /\ e = outcome'[k] /\ e.ok
  <2> TAKE e \in current'
  <2>1. CASE e \in current
    <3>1. e.ok /\ \E k \in DOMAIN prog : Records(k) /\ phase[k] \in Listed /\ e = outcome[k]
      BY <1>0, <2>1 DEF EntriesOK
    <3> QED BY <1>4, <3>1
  <2>2. CASE Pushes(i) /\ e = outcome[i]
    BY <1>9, <2>2 DEF Listed
  <2> QED BY <1>8, <2>1, <2>2
<1>11. Records(i) /\ phase'[i] \in Listed => outcome'[i] \in disk'.calls
  <2>1. CASE phase[i] \in Listed
    BY <1>0, <1>3, <1>5, <2>1 DEF EntriesOK
  <2>2. CASE Lists(i)
    BY <1>5, <1>6, <2>2
  <2>3. Records(i) /\ phase'[i] \in Listed /\ phase[i] \notin Listed => Lists(i)
    BY <1>0 DEF CallStep, Looks, Marks, Passes, Breaks, Runs, Copies, Lists, Pushes, Drops,
       Opens, Rewrites, Moves, Listed, Records
  <2> QED BY <2>1, <2>2, <2>3
<1>12. phase'[i] \in Indexing => outcome'[i] \in current'
  <2>1. CASE Pushes(i)
    BY <1>8, <1>9, <2>1
  <2>2. phase'[i] \in Indexing /\ ~Pushes(i) => phase[i] \in Indexing /\ outcome' = outcome
    BY <1>0 DEF CallStep, Looks, Marks, Passes, Breaks, Runs, Copies, Lists, Drops,
       Opens, Rewrites, Moves, Indexing
  <2> QED BY <1>0, <1>8, <2>1, <2>2 DEF EntriesOK
<1>13. prog[i].kind = "agent" /\ outcome'[i].ok => Sequence(i) \in disk'.results
  <2>1. CASE (\E ok \in BOOLEAN : Runs(i, ok)) \/ Copies(i)
    <3>1. \/ disk'.results = Saved(i)
          \/ outcome'[i].ok = FALSE
      BY <1>0, <2>1 DEF Runs, Copies, NewOutcome, OwnEntry
    <3> QED BY <3>1 DEF Saved
  <2>2. CASE outcome' = outcome
    BY <1>0, <1>5, <2>2 DEF EntriesOK
  <2>3. CASE Marks(i)
    BY <2>3 DEF Marks
  <2> QED BY <2>1, <2>2, <2>3 DEF CallStep, Looks, Passes, Breaks, Lists, Pushes, Drops,
          Opens, Rewrites
<1>14. ASSUME NEW k \in DOMAIN prog
       PROVE  /\ Records(k) /\ phase'[k] \in Listed => outcome'[k] \in disk'.calls
              /\ phase'[k] \in Indexing => outcome'[k] \in current'
              /\ prog[k].kind = "agent" /\ outcome'[k].ok => Sequence(k) \in disk'.results
  <2>1. CASE k = i
    BY <1>11, <1>12, <1>13, <2>1
  <2>2. CASE k # i
    BY <1>0, <1>2, <1>5, <1>8, <2>2 DEF EntriesOK
  <2> QED BY <2>1, <2>2
<1> QED BY <1>0, <1>1, <1>7, <1>10, <1>14 DEF EntriesOK

-----------------------------------------------------------------------------
(* Where the results come from.                                            *)
LEMMA CallOrigins ==
  ASSUME IInv, NEW i \in DOMAIN prog, SameRun, CallStep(i)
  PROVE  OriginOK'
<1>0. /\ TypeOK /\ OriginOK
      /\ outcome \in [DOMAIN prog -> Entry \cup {Pending}]
  BY DEF IInv, TypeOK
<1>1. prog' = prog /\ previous' = previous
  BY DEF SameRun
<1>2. executed \subseteq executed'
  BY DEF CallStep, Begins, Looks, Marks, Passes, Breaks, Runs, Copies, Lists, Pushes,
     Drops, Opens, Rewrites
<1>3. \A e : Genuine(e) => Genuine(e)'
  BY <1>2 DEF Genuine
<1>4. \A k \in DOMAIN prog : k # i => outcome'[k] = outcome[k]
  BY OthersStay
<1>5. outcome'[i].ok => Genuine(outcome[i])'
  <2>1. CASE outcome' = outcome
    BY <1>0, <1>3, <2>1 DEF OriginOK, Genuine
  <2>2. CASE Marks(i)
    <3>1. outcome'[i].fp = prog[i].fp /\ prog[i].kind = "marker" /\ prog \in Programs
      BY <1>0, <2>2 DEF Marks, NewOutcome, OwnEntry, TypeOK
    <3>2. prog[i].fp \in MarkerPrints
      BY <3>1 DEF MarkerPrints
    <3> QED BY <3>1, <3>2 DEF Genuine
  <2>3. ASSUME NEW ok \in BOOLEAN, Runs(i, ok), outcome'[i].ok
        PROVE  Genuine(outcome[i])'
    <3>1. outcome'[i] = OwnEntry(i, ok) /\ (ok => <<prog[i].fp, run>> \in executed')
      BY <1>0, <2>3 DEF Runs, NewOutcome
    <3> QED BY <2>3, <3>1 DEF OwnEntry, Genuine
  <2>4. CASE Copies(i)
    <3>1. outcome'[i] = CHOOSE e \in previous : e.seq = Sequence(i)
      BY <1>0, <2>4 DEF Copies, NewOutcome
    <3>2. phase[i] = "hit"
      BY <2>4 DEF Copies, Moves
    <3>3. outcome'[i] \in previous
      BY <3>1, <3>2, FoundEntry
    <3> QED BY <1>0, <1>3, <3>3 DEF OriginOK, Genuine
  <2> QED BY <2>1, <2>2, <2>3, <2>4 DEF CallStep, Looks, Passes, Breaks, Lists, Pushes,
          Drops, Opens, Rewrites
<1>6. ASSUME NEW k \in DOMAIN prog, outcome'[k].ok PROVE Genuine(outcome[k])'
  BY <1>0, <1>3, <1>4, <1>5, <1>6 DEF OriginOK, Genuine
<1>7. \A e \in previous : Genuine(e)'
  BY <1>0, <1>3 DEF OriginOK, Genuine
<1> QED BY <1>1, <1>6, <1>7 DEF OriginOK

-----------------------------------------------------------------------------
(* What is replayed.  Whether a call is replayed is settled when it begins. *)
LEMMA ReplayedStays ==
  ASSUME IInv, NEW i \in DOMAIN prog, SameRun, CallStep(i)
  PROVE  /\ \A k \in DOMAIN prog : k # i => (Replayed(k)' <=> Replayed(k))
         /\ i # next => (Replayed(i)' <=> Replayed(i))
         /\ i = next => /\ Looks(i) \/ Marks(i) \/ Passes(i) \/ Breaks(i)
                        /\ Replayed(i)' <=> Looks(i) /\ Hit(i)
         /\ phase'[i] = "hit" => Looks(i) /\ Hit(i)
<1>0. /\ TypeOK /\ CallsOK /\ run \in Nat
      /\ phase \in [DOMAIN prog -> Places]
      /\ outcome \in [DOMAIN prog -> Entry \cup {Pending}]
  BY DEF IInv, TypeOK, Places
<1>1. run' = run /\ prog' = prog
  BY DEF SameRun
<1>2. \A k \in DOMAIN prog : k # i => phase'[k] = phase[k] /\ outcome'[k] = outcome[k]
  BY OthersStay
<1>3. \A k \in DOMAIN prog : k # i => (Replayed(k)' <=> Replayed(k))
  BY <1>1, <1>2 DEF Replayed, Pending
<1>4. i = next <=> phase[i] = "new"
  <2>1. next \in Nat /\ i \in Nat /\ (i >= next <=> phase[i] = "new")
    BY <1>0, ProgramIsSeq DEF TypeOK, CallsOK
  <2>2. phase[i] = "new" => i = next
    BY DEF CallStep, Begins, Looks, Marks, Passes, Breaks, Runs, Copies, Lists,
       Pushes, Drops, Opens, Rewrites, Moves
  <2> QED BY <2>1, <2>2
<1>5. phase'[i] = "hit" => Looks(i) /\ Hit(i)
  BY <1>0 DEF CallStep, Looks, Marks, Passes, Breaks, Runs, Copies, Lists, Pushes, Drops,
     Opens, Rewrites, Moves
<1>6. ASSUME phase[i] = "new"
      PROVE  /\ Looks(i) \/ Marks(i) \/ Passes(i) \/ Breaks(i)
             /\ Replayed(i)' <=> Looks(i) /\ Hit(i)
  <2>1. Looks(i) \/ Marks(i) \/ Passes(i) \/ Breaks(i)
    BY <1>6 DEF CallStep, Runs, Copies, Lists, Pushes, Drops, Opens, Rewrites, Moves
  <2>2. outcome[i] = Pending
    BY <1>0, <1>6 DEF CallsOK, Settled
  <2>3. CASE Looks(i)
    BY <1>0, <1>1, <2>2, <2>3 DEF Looks, Moves, Replayed, Pending
  <2>4. CASE Marks(i)
    <3>1. outcome'[i].origin = run /\ phase'[i] = "ended" /\ prog[i].kind = "marker"
      BY <1>0, <2>4 DEF Marks, Moves, NewOutcome, OwnEntry
    <3> QED BY <1>1, <2>1, <3>1 DEF Looks, Replayed
  <2>5. CASE Passes(i) \/ Breaks(i)
    BY <1>0, <1>1, <2>2, <2>5 DEF Passes, Breaks, Looks, Moves, Replayed, Pending
  <2> QED BY <2>1, <2>3, <2>4, <2>5
<1>7. ASSUME phase[i] # "new" PROVE Replayed(i)' <=> Replayed(i)
  <2>1. ASSUME NEW ok \in BOOLEAN, Runs(i, ok) PROVE Replayed(i)' <=> Replayed(i)
    <3>1. phase[i] = "live" /\ phase'[i] = "ended" /\ outcome[i] = Pending
          /\ outcome'[i] = OwnEntry(i, ok)
      BY <1>0, <2>1 DEF Runs, Moves, NewOutcome, CallsOK, Settled
    <3> QED BY <1>1, <3>1 DEF Replayed, OwnEntry
  <2>2. CASE Copies(i)
    <3>1. /\ phase[i] = "hit"
          /\ outcome'[i] = CHOOSE e \in previous : e.seq = Sequence(i)
      BY <1>0, <2>2 DEF Copies, Moves, NewOutcome
    <3>2. outcome'[i] \in previous
      BY <3>1, FoundEntry
    <3>3. outcome'[i].origin < run /\ outcome'[i].origin >= 1
      BY <3>2 DEF IInv, EntriesOK, TypeOK, Entry
    <3>4. outcome'[i] # Pending /\ outcome'[i].origin # run
      BY <1>0, <3>3 DEF Pending
    <3> QED BY <1>1, <3>1, <3>4 DEF Replayed
  <2>3. CASE Lists(i) \/ Pushes(i) \/ Drops(i) \/ Opens(i) \/ Rewrites(i)
    <3>1. outcome' = outcome /\ phase[i] # "hit" /\ phase'[i] # "hit"
      BY <1>0, <2>3 DEF Lists, Pushes, Drops, Opens, Rewrites, Moves
    <3> QED BY <1>1, <3>1 DEF Replayed, Pending
  <2> QED BY <1>7, <2>1, <2>2, <2>3 DEF CallStep, Looks, Marks, Passes, Breaks, Moves
<1> QED BY <1>3, <1>4, <1>5, <1>6, <1>7

LEMMA NewIsNotReplayed ==
  ASSUME IInv, NEW k \in DOMAIN prog, k >= next
  PROVE  ~Replayed(k)
BY DEF IInv, CallsOK, Replayed, Settled

LEMMA CallPrefixes ==
  ASSUME IInv, NEW i \in DOMAIN prog, SameRun, CallStep(i)
  PROVE  PrefixOK'
<1>0. /\ TypeOK /\ CallsOK /\ PrefixOK
      /\ Len(prog) \in Nat /\ DOMAIN prog = 1..Len(prog)
      /\ next \in 1..(Len(prog) + 1) /\ usable \in BOOLEAN
  BY ProgramIsSeq DEF IInv, TypeOK
<1>1. /\ prog' = prog /\ previous' = previous
      /\ readEnabled' <=> readEnabled
      /\ \A k : /\ Matches(k)' = Matches(k) /\ (Found(k)' <=> Found(k))
                /\ (Findable(k)' <=> Findable(k))
                /\ Records(k)' <=> Records(k)
  BY SameSequences DEF SameRun
<1>2. /\ \A k \in DOMAIN prog : k # i => (Replayed(k)' <=> Replayed(k)) /\ phase'[k] = phase[k]
      /\ phase'[i] = "hit" => Looks(i) /\ Hit(i)
  BY ReplayedStays, OthersStay
<1>3. CASE i # next
  <2>1. /\ next' = next /\ (usable' <=> usable)
    BY <1>3 DEF CallStep, Begins, GoesOn, Looks, Marks, Passes, Breaks, Runs, Copies, Lists,
       Pushes, Drops, Opens, Rewrites
  <2>2. \A k \in DOMAIN prog : Replayed(k)' <=> Replayed(k)
    BY <1>2, <1>3, ReplayedStays
  <2>3. phase'[i] # "hit"
    BY <1>2, <1>3 DEF Looks, Begins
  <2>4. ReplayIsAPrefix'
    BY <1>0, <1>1, <2>2 DEF PrefixOK, LookupOK, HitsOK, ReuseOK, ReplayIsAPrefix
  <2>5. \A k \in 1..(next - 1) : k \in DOMAIN prog
    BY <1>0
  <2>6. \A k \in DOMAIN prog : /\ ~readEnabled => ~Replayed(k)'
                               /\ phase'[k] = "hit" => Matches(k) # {}
    BY <1>0, <1>2, <2>2, <2>3 DEF PrefixOK, LookupOK, HitsOK, ReuseOK
  <2>8. AllFindable' <=> AllFindable
    BY <2>1 DEF SameRun, AllFindable, Found, Records, Matches, Sequence
  <2>9. usable => \A k \in 1..(next - 1) :
          /\ prog[k].kind # "plain"
          /\ readEnabled /\ prog[k].kind = "agent" => Replayed(k)'
    BY <1>0, <2>2, <2>5 DEF PrefixOK, LookupOK, HitsOK, ReuseOK
  <2>10. readEnabled =>
       /\ AllFindable => usable
       /\ \A k \in 1..(next - 1) :
            prog[k].kind = "agent" /\ Findable(k) => Replayed(k)'
    BY <1>0, <2>2, <2>5 DEF PrefixOK, LookupOK, HitsOK, ReuseOK
  <2>11. ASSUME NEW k \in 1..(next - 1)' PROVE (Findable(k)' <=> Findable(k)) /\ k \in 1..(next' - 1)
    BY <1>1
  <2>12. ASSUME readEnabled'
        PROVE  /\ AllFindable' => usable'
               /\ \A k \in (1..(next - 1))' :
                    prog'[k].kind = "agent" /\ Findable(k)' => Replayed(k)'
    BY <1>1, <2>1, <2>8, <2>10, <2>11, <2>12
  <2>13. usable' => \A k \in (1..(next - 1))' :
          /\ prog'[k].kind # "plain"
          /\ readEnabled' /\ prog'[k].kind = "agent" => Replayed(k)'
    BY <1>1, <2>1, <2>9
  <2>14. \A k \in DOMAIN prog' :
          /\ ~readEnabled' => ~Replayed(k)'
          /\ phase'[k] = "hit" => Matches(k)' # {}
    BY <1>1, <2>6
  <2>21. LookupOK'
    BY <2>13 DEF LookupOK
  <2>22. HitsOK'
    BY <2>14 DEF HitsOK
  <2>23. ReuseOK'
    BY <2>12 DEF ReuseOK
  <2> QED BY <2>4, <2>21, <2>22, <2>23 DEF PrefixOK
<1>4. CASE i = next
  <2>1. /\ next' = next + 1
        /\ Looks(i) \/ Marks(i) \/ Passes(i) \/ Breaks(i)
        /\ Replayed(i)' <=> Looks(i) /\ Hit(i)
    BY <1>4, ReplayedStays DEF Begins, Looks, Marks, Passes, Breaks
  <2>2. \A k \in 1..(next' - 1) : k \in DOMAIN prog /\ (k = i \/ k \in 1..(next - 1))
    BY <1>0, <1>4, <2>1
  <2>3. \A k \in DOMAIN prog : k < i => k \in 1..(next - 1) /\ k # i
    BY <1>0, <1>4
  <2>4. \A k \in DOMAIN prog : k > i => ~Replayed(k)'
    BY <1>0, <1>2, <1>4, NewIsNotReplayed
  <2>5. Hit(i) => \A k \in 1..(next - 1) :
          prog[k].kind # "plain" /\ (prog[k].kind = "agent" => Replayed(k))
    BY <1>0 DEF Hit, PrefixOK, LookupOK, HitsOK, ReuseOK
  <2>6. ReplayIsAPrefix'
    <3>1. ASSUME NEW a \in DOMAIN prog, NEW b \in DOMAIN prog, a < b, Replayed(b)'
          PROVE  prog[a].kind # "plain" /\ (prog[a].kind = "agent" => Replayed(a)')
      <4>1. CASE b = i
        BY <1>2, <2>1, <2>3, <2>5, <3>1, <4>1
      <4>2. CASE b < i
        <5>1. a # i /\ b # i
          BY <1>0, <3>1, <4>2
        <5>2. Replayed(b)
          BY <1>2, <3>1, <5>1
        <5>3. prog[a].kind # "plain" /\ (prog[a].kind = "agent" => Replayed(a))
          BY <1>0, <3>1, <5>2 DEF PrefixOK, LookupOK, HitsOK, ReuseOK, ReplayIsAPrefix
        <5> QED BY <1>2, <5>1, <5>3
      <4> QED BY <1>0, <2>4, <3>1, <4>1, <4>2
    <3> QED BY <1>1, <3>1 DEF ReplayIsAPrefix
  <2>7. usable' => \A k \in 1..(next' - 1) :
          /\ prog[k].kind # "plain"
          /\ readEnabled /\ prog[k].kind = "agent" => Replayed(k)'
    <3>1. ASSUME usable' PROVE usable /\ ~Breaks(i) /\ (Looks(i) /\ readEnabled => Hit(i))
      BY <1>0, <2>1, <3>1 DEF Looks, Marks, Passes, Breaks, AfterLookup, Hit
    <3>2. ASSUME usable'
          PROVE  /\ prog[i].kind # "plain"
                 /\ readEnabled /\ prog[i].kind = "agent" => Replayed(i)'
      BY <2>1, <3>1, <3>2 DEF Looks, Marks, Passes, Breaks
    <3>3. ASSUME usable', NEW k \in 1..(next - 1)
          PROVE  /\ prog[k].kind # "plain"
                 /\ readEnabled /\ prog[k].kind = "agent" => Replayed(k)'
      <4>1. k \in DOMAIN prog /\ k # i
        BY <1>0, <1>4
      <4> QED BY <1>0, <1>2, <3>1, <3>3, <4>1 DEF PrefixOK, LookupOK, HitsOK, ReuseOK
    <3> QED BY <2>2, <3>2, <3>3
  <2>8. \A k \in DOMAIN prog : /\ ~readEnabled => ~Replayed(k)'
                               /\ phase'[k] = "hit" => Matches(k) # {}
    BY <1>0, <1>2, <2>1 DEF PrefixOK, LookupOK, HitsOK, ReuseOK, Hit
  <2>9. ASSUME readEnabled, Findable(i) PROVE usable' /\ (prog[i].kind = "agent" => Replayed(i)')
    <3>1. AllFindable
      <4>1. \A j \in 1..(next - 1) : j \in 1..i
        BY <1>0, <1>4
      <4> QED BY <2>9, <4>1 DEF AllFindable, Findable
    <3>2. usable
      BY <1>0, <2>9, <3>1 DEF PrefixOK, LookupOK, HitsOK, ReuseOK
    <3>3. i \in 1..i
      BY <1>0
    <3>4. prog[i].kind # "plain" /\ (Records(i) => Matches(i) # {})
      BY <2>9, <3>3 DEF Findable, Found
    <3>5. CASE Looks(i)
      BY <2>1, <2>9, <3>2, <3>4, <3>5 DEF Looks, AfterLookup, Hit, Records
    <3>6. CASE Marks(i)
      BY <2>9, <3>2, <3>4, <3>6 DEF Marks, AfterLookup, Records
    <3>7. CASE Passes(i)
      BY <3>2, <3>7 DEF Passes
    <3> QED BY <2>1, <3>4, <3>5, <3>6, <3>7 DEF Breaks
  <2>10. readEnabled =>
       /\ Findable(i) => usable'
       /\ \A k \in 1..(next' - 1) :
            prog[k].kind = "agent" /\ Findable(k) => Replayed(k)'
    <3>1. next' - 1 = i
      BY <1>0, <1>4, <2>1
    <3>2. ASSUME readEnabled, NEW k \in 1..(next - 1), prog[k].kind = "agent", Findable(k)
          PROVE  Replayed(k)'
      <4>1. k \in DOMAIN prog /\ k # i
        BY <1>0, <1>4
      <4> QED BY <1>0, <1>2, <3>2, <4>1 DEF PrefixOK, LookupOK, HitsOK, ReuseOK
    <3> QED BY <2>2, <2>9, <3>1, <3>2
  <2>11. AllFindable' <=> Findable(i)
    <3>1. next' - 1 = i
      BY <1>0, <1>4, <2>1
    <3> QED BY <3>1 DEF SameRun, AllFindable, Findable, Found, Records, Matches, Sequence
  <2>12. ASSUME NEW k \in 1..(next - 1)' PROVE (Findable(k)' <=> Findable(k)) /\ k \in 1..(next' - 1)
    BY <1>1
  <2>13. ASSUME readEnabled'
        PROVE  /\ AllFindable' => usable'
               /\ \A k \in (1..(next - 1))' :
                    prog'[k].kind = "agent" /\ Findable(k)' => Replayed(k)'
    BY <1>1, <2>10, <2>11, <2>12, <2>13
  <2>14. usable' => \A k \in (1..(next - 1))' :
          /\ prog'[k].kind # "plain"
          /\ readEnabled' /\ prog'[k].kind = "agent" => Replayed(k)'
    BY <1>1, <2>7
  <2>15. \A k \in DOMAIN prog' :
          /\ ~readEnabled' => ~Replayed(k)'
          /\ phase'[k] = "hit" => Matches(k)' # {}
    BY <1>1, <2>8
  <2>21. LookupOK'
    BY <2>14 DEF LookupOK
  <2>22. HitsOK'
    BY <2>15 DEF HitsOK
  <2>23. ReuseOK'
    BY <2>13 DEF ReuseOK
  <2> QED BY <2>6, <2>21, <2>22, <2>23 DEF PrefixOK
<1> QED BY <1>3, <1>4

-----------------------------------------------------------------------------
(* What a run that makes its calls one after the other leaves on disk.     *)
LEMMA SerialPlaces ==
  ASSUME IInv, NEW i \in DOMAIN prog, SameRun, CallStep(i), serial'
  PROVE  /\ serial
         /\ \A k \in DOMAIN prog : k # i =>
              /\ phase[k] \in {"new", "done"}
              /\ phase[k] = "done" => k < i
              /\ k < next' - 1 => phase[k] = "done"
<1>0. /\ TypeOK /\ CallsOK /\ SerialOK
      /\ Len(prog) \in Nat /\ DOMAIN prog = 1..Len(prog)
      /\ next \in 1..(Len(prog) + 1)
      /\ \A k \in DOMAIN prog : k >= next <=> phase[k] = "new"
  BY ProgramIsSeq DEF IInv, TypeOK, CallsOK
<1>1. CASE Looks(i) \/ Marks(i) \/ Passes(i) \/ Breaks(i)
  <2>1. i = next /\ next' = next + 1 /\ serial /\ Busy = {}
    BY <1>1 DEF Looks, Marks, Passes, Breaks, Begins
  <2>2. \A k \in DOMAIN prog : phase[k] \in {"new", "done"}
    BY <2>1 DEF Busy
  <2> QED BY <1>0, <2>1, <2>2
<1>2. CASE ~(Looks(i) \/ Marks(i) \/ Passes(i) \/ Breaks(i))
  <2>1. next' = next /\ serial /\ phase[i] \notin {"new", "done"}
    BY <1>2 DEF CallStep, Runs, Copies, Lists, Pushes, Drops, Opens, Rewrites, GoesOn, Moves
  <2>2. i = next - 1
    BY <1>0, <2>1 DEF SerialOK
  <2>3. \A k \in DOMAIN prog : k < next - 1 => phase[k] = "done"
    BY <1>0, <2>1 DEF SerialOK
  <2> QED BY <1>0, <2>1, <2>2, <2>3
<1> QED BY <1>1, <1>2

LEMMA CallSerial ==
  ASSUME IInv, NEW i \in DOMAIN prog, SameRun, CallStep(i)
  PROVE  SerialOK'
<1>0. /\ TypeOK /\ CallsOK /\ EntriesOK /\ SerialOK
      /\ Len(prog) \in Nat /\ DOMAIN prog = 1..Len(prog)
      /\ phase \in [DOMAIN prog -> Places]
      /\ snapshot \in [DOMAIN prog -> SUBSET current]
      /\ disk \in [calls : SUBSET Entry,
                   index : [entries : SUBSET Entry, torn : BOOLEAN],
                   results : SUBSET (1..Len(prog))]
      /\ current \subseteq Entry
  BY ProgramIsSeq DEF IInv, TypeOK, CallsOK, Places
<1>1. /\ prog' = prog /\ noCache' = noCache
      /\ \A k : Records(k)' <=> Records(k)
  BY SameSequences DEF SameRun
<1>2. \A k \in DOMAIN prog : k # i => phase'[k] = phase[k] /\ outcome'[k] = outcome[k]
  BY OthersStay
<1>3. phase[i] # "done"
  BY DEF CallStep, Looks, Marks, Passes, Breaks, Runs, Copies, Lists, Pushes, Drops,
     Opens, Rewrites, Moves
<1>4. Drops(i) => /\ Records(i) /\ phase'[i] = "done" /\ outcome' = outcome
                  /\ ~(outcome[i].ok /\ writeIndex)
  BY <1>0 DEF Drops, Moves, CallsOK
<1>5. ~Drops(i) => writeIndex' = writeIndex
  BY DEF CallStep, Begins, Looks, Marks, Passes, Breaks, Runs, Copies, Lists, Pushes,
     Opens, Rewrites
<1>6. ASSUME ~noCache, ~writeIndex'
      PROVE  \E k \in DOMAIN prog : Records(k) /\ phase'[k] = "done" /\ ~outcome'[k].ok
  <2>1. CASE ~writeIndex
    <3>1. PICK k \in DOMAIN prog : Records(k) /\ phase[k] = "done" /\ ~outcome[k].ok
      BY <1>0, <1>6, <2>1 DEF SerialOK
    <3> QED BY <1>2, <1>3, <3>1
  <2>2. CASE writeIndex
    BY <1>4, <1>5, <1>6, <2>2
  <2> QED BY <2>1, <2>2
<1>7. current \subseteq current'
  BY DEF CallStep, Begins, Looks, Marks, Passes, Breaks, Runs, Copies, Lists, Pushes,
     Drops, Opens, Rewrites
<1>8. CASE serial'
  <2>1. /\ serial
        /\ \A k \in DOMAIN prog : k # i =>
             /\ phase[k] \in {"new", "done"}
             /\ phase[k] = "done" => k < i
             /\ k < next' - 1 => phase[k] = "done"
    BY <1>8, SerialPlaces
  <2>2. ASSUME NEW k \in DOMAIN prog, k < next' - 1 PROVE phase'[k] = "done"
    <3>1. k # i
      <4>1. i = next' - 1 \/ (phase[i] \notin {"new", "done"} /\ next' = next)
        BY <1>0 DEF CallStep, Begins, GoesOn, Looks, Marks, Passes, Breaks, Runs, Copies,
           Lists, Pushes, Drops, Opens, Rewrites, Moves, TypeOK
      <4> QED BY <1>0, <2>1, <2>2, <4>1 DEF SerialOK
    <3> QED BY <1>2, <2>1, <2>2, <3>1
  <2>3. phase'[i] \in Indexing => snapshot'[i] = current'
    BY <1>0, <2>1 DEF SerialOK, CallStep, Looks, Marks, Passes, Breaks, Runs, Copies, Lists,
       Pushes, Drops, Opens, Rewrites, Moves, Indexing
  <2>4. phase'[i] = "opened" => disk'.index = [entries |-> {}, torn |-> TRUE]
    BY <1>0 DEF CallStep, Looks, Marks, Passes, Breaks, Runs, Copies, Lists, Pushes, Drops,
       Opens, Rewrites, Moves
  <2>5. ASSUME NEW k \in DOMAIN prog
        PROVE  /\ phase'[k] \in Indexing => snapshot'[k] = current'
               /\ phase'[k] = "opened" => disk'.index = [entries |-> {}, torn |-> TRUE]
    BY <1>2, <2>1, <2>3, <2>4 DEF Indexing
  <2>6. Rewrites(i) => /\ disk'.index.torn \/ disk'.index.entries = current
                       /\ outcome[i] \in current /\ outcome' = outcome
    <3>1. ASSUME Rewrites(i) PROVE phase[i] \in Indexing /\ snapshot[i] = current
      BY <1>0, <2>1, <3>1 DEF Rewrites, Moves, Indexing, SerialOK
    <3>2. ASSUME Rewrites(i) PROVE disk'.index = Overwritten(disk.index, snapshot[i])
      BY <1>0, <3>2 DEF Rewrites
    <3>3. ~Overwritten(disk.index, snapshot[i]).torn
            => Overwritten(disk.index, snapshot[i]).entries = snapshot[i]
      BY <1>0, OverwrittenIs
    <3>4. Rewrites(i) => outcome' = outcome
      BY DEF Rewrites
    <3> HIDE DEF Overwritten
    <3> QED BY <1>0, <3>1, <3>2, <3>3, <3>4 DEF EntriesOK
  <2>7. ~Rewrites(i) => disk'.index.torn \/ disk'.index = disk.index
    BY <1>0 DEF CallStep, Begins, Looks, Marks, Passes, Breaks, Runs, Copies, Lists, Pushes,
       Drops, Opens
  <2>8. ASSUME ~noCache, NEW k \in DOMAIN prog, Records(k), Succeeded(k)'
        PROVE  /\ outcome'[k] \in current'
               /\ ~disk'.index.torn => outcome'[k] \in disk'.index.entries
    <3>0. \A j \in 1..k : /\ j \in DOMAIN prog /\ phase'[j] = "done"
                          /\ outcome'[j].ok \/ prog[j].kind = "parallel"
      BY <1>0, <1>1, <2>8 DEF Succeeded, Returned
    <3>1. CASE k # i
      <4>1. phase[k] = "done" /\ k < i
        BY <1>0, <1>2, <2>1, <3>0, <3>1
      <4>2. \A j \in 1..k : j # i
        BY <1>0, <4>1
      <4>3. Succeeded(k)
        BY <1>2, <3>0, <4>2 DEF Succeeded, Returned
      <4>4. outcome[k] \in current /\ (~disk.index.torn => outcome[k] \in disk.index.entries)
        BY <1>0, <2>1, <2>8, <4>3 DEF SerialOK
      <4> QED BY <1>2, <1>7, <2>6, <2>7, <3>1, <4>4
    <3>2. CASE k = i
      <4>1. phase'[i] = "done" /\ Records(i) /\ outcome'[i].ok
        BY <1>0, <2>8, <3>0, <3>2 DEF Records
      <4>2. ~Drops(i)
        <5> SUFFICES ASSUME Drops(i) PROVE FALSE
          OBVIOUS
        <5>1. ~writeIndex
          BY <1>4, <4>1
        <5>2. PICK w \in DOMAIN prog : Records(w) /\ phase[w] = "done" /\ ~outcome[w].ok
          BY <1>0, <2>8, <5>1 DEF SerialOK
        <5>3. w # i /\ w < i /\ w \in 1..k
          BY <1>0, <1>3, <2>1, <3>2, <5>2
        <5> QED BY <1>2, <3>0, <5>2, <5>3 DEF Records
      <4>3. Rewrites(i)
        BY <1>0, <4>1, <4>2 DEF CallStep, Looks, Marks, Passes, Breaks, Runs, Copies, Lists,
           Pushes, Opens, Moves, Records
      <4> QED BY <1>7, <2>6, <3>2, <4>3
    <3> QED BY <3>1, <3>2
  <2> QED BY <1>1, <1>6, <1>8, <2>2, <2>5, <2>8 DEF SerialOK
<1>9. CASE ~serial'
  BY <1>1, <1>6, <1>9 DEF SerialOK
<1> QED BY <1>8, <1>9

LEMMA CallPrior ==
  ASSUME IInv, SameRun
  PROVE  PriorOK'
BY DEF IInv, PriorOK, SameRun, readEnabled, SequenceIn

-----------------------------------------------------------------------------
(* A run starts with what it loaded and nothing else.                      *)
LEMMA InitIInv ==
  ASSUME Init
  PROVE  IInv
<1>0. /\ run = 1 /\ prog \in Programs /\ noCache = FALSE /\ next = 1
      /\ usable = TRUE /\ writeIndex = TRUE /\ current = {} /\ previous = {}
      /\ disk = [calls |-> {}, index |-> [entries |-> {}, torn |-> FALSE], results |-> {}]
      /\ serial = TRUE /\ executed = {} /\ prior = NoPrior
      /\ Len(prog) \in Nat /\ DOMAIN prog = 1..Len(prog) /\ 1 \in 1..MaxRuns
  BY ProgramsAssumption, BoundsAssumption DEF Init, EmptyDisk
<1>1. \A i \in DOMAIN prog : phase[i] = "new" /\ outcome[i] = Pending /\ snapshot[i] = {}
  BY DEF Init
<1>2. TypeOK
  <2>1. /\ phase \in [DOMAIN prog -> {"new", "hit", "live", "ended", "appended",
                                     "writing", "opened", "done"}]
        /\ outcome \in [DOMAIN prog -> Entry \cup {Pending}]
        /\ snapshot \in [DOMAIN prog -> SUBSET {}]
    BY DEF Init
  <2>2. snapshot \in [DOMAIN prog -> SUBSET current]
    BY <1>0, <2>1
  <2>3. serial \in BOOLEAN /\ noCache \in BOOLEAN /\ usable \in BOOLEAN /\ writeIndex \in BOOLEAN
    BY DEF Init
  <2>4. run \in 1..MaxRuns /\ next \in 1..(Len(prog) + 1)
    BY <1>0
  <2>5. disk.results \subseteq 1..Len(prog) /\ disk.index.entries \subseteq current
    BY <1>0
  <2> QED BY <1>0, <2>1, <2>2, <2>3, <2>4, <2>5 DEF TypeOK
<1>3. CallsOK
  BY <1>0, <1>1 DEF CallsOK, Settled
<1>4. EntriesOK
  BY <1>0, <1>1 DEF EntriesOK, Listed, Indexing, Pending
<1>5. OriginOK
  BY <1>0, <1>1 DEF OriginOK, Pending
<1>6. \A i \in DOMAIN prog : ~Replayed(i)
  BY <1>1 DEF Replayed
<1>7. PrefixOK
  BY <1>0, <1>1, <1>6 DEF PrefixOK, LookupOK, HitsOK, ReuseOK, ReplayIsAPrefix
<1>8. \A i \in DOMAIN prog : ~Succeeded(i)
  BY <1>0, <1>1 DEF Succeeded, Returned
<1>9. SerialOK
  BY <1>0, <1>1, <1>8 DEF SerialOK, Indexing
<1>10. PriorOK
  BY <1>0 DEF PriorOK, readEnabled, NoPrior
<1> QED BY <1>2, <1>3, <1>4, <1>5, <1>7, <1>9, <1>10 DEF IInv

(* A prefix that returned is what the next run loads.                      *)
LEMMA PrefixIsLoaded ==
  ASSUME IInv, ~noCache, serial, NEW i \in DOMAIN prog, Succeeded(i)
  PROVE  /\ prog[i].kind # "plain"
         /\ Records(i) => /\ outcome[i] \in Load(disk) /\ outcome[i].ok
                          /\ outcome[i].fp = prog[i].fp
                          /\ outcome[i].seq = SequenceIn(prog, i)
<1>0. TypeOK /\ CallsOK /\ EntriesOK /\ SerialOK
  BY DEF IInv
<1>1. i \in 1..i
  BY <1>0, ProgramIsSeq
<1>2. phase[i] = "done" /\ (outcome[i].ok \/ prog[i].kind = "parallel")
  BY <1>1 DEF Succeeded, Returned
<1>3. prog[i].kind # "plain"
  BY <1>0, <1>2 DEF CallsOK, Records, Pending
<1>4. ASSUME Records(i)
      PROVE  /\ outcome[i] \in Load(disk) /\ outcome[i].ok /\ outcome[i].fp = prog[i].fp
             /\ outcome[i].seq = SequenceIn(prog, i)
  <2>1. outcome[i].ok
    BY <1>2, <1>4 DEF Records
  <2>2. outcome[i].fp = prog[i].fp /\ outcome[i].seq = Sequence(i)
    BY <1>0, <1>2, <1>4 DEF CallsOK, Settled
  <2>3. Sequence(i) = SequenceIn(prog, i)
    BY <1>0, SequenceRange
  <2>4. outcome[i] \in disk.calls
    BY <1>0, <1>2, <1>4 DEF EntriesOK, Listed
  <2>5. ~disk.index.torn => outcome[i] \in disk.index.entries
    BY <1>0, <1>4 DEF SerialOK
  <2>6. outcome[i] \in Load(disk)
    BY <2>1, <2>4, <2>5 DEF Load, Rebuilt
  <2> QED BY <2>1, <2>2, <2>3, <2>6
<1> QED BY <1>3, <1>4

LEMMA ResumeStep ==
  ASSUME IInv, NEW p \in Programs, NEW off \in BOOLEAN, Resumes(p, off)
  PROVE  IInv'
<1>0. /\ run' = run + 1 /\ run < MaxRuns /\ prog' = p /\ noCache' = off /\ next' = 1
      /\ usable' = TRUE /\ writeIndex' = ~off /\ current' = {}
      /\ previous' = IF off THEN {} ELSE Load(disk)
      /\ disk' = [calls |-> {}, index |-> [entries |-> {}, torn |-> FALSE], results |-> {}]
      /\ serial' = TRUE /\ executed' = executed
      /\ Len(p) \in Nat /\ DOMAIN p = 1..Len(p)
  BY ProgramsAssumption DEF Resumes, Fresh, EmptyDisk
<1>1. \A i \in DOMAIN p : phase'[i] = "new" /\ outcome'[i] = Pending /\ snapshot'[i] = {}
  BY DEF Resumes, Fresh
<1>2. /\ TypeOK /\ CallsOK /\ EntriesOK /\ OriginOK /\ SerialOK
      /\ run \in 1..MaxRuns /\ MaxRuns \in Nat
      /\ disk.calls \subseteq Entry /\ disk.index.entries \subseteq Entry
      /\ outcome \in [DOMAIN prog -> Entry \cup {Pending}]
  BY BoundsAssumption DEF IInv, TypeOK, CallsOK
<1>3. Load(disk) \subseteq Entry
  BY <1>2 DEF Load, Rebuilt
<1>4. /\ \A e \in Load(disk) : e.ok /\ e.origin < run + 1 /\ Genuine(e)
      /\ \A e, f \in Load(disk) : e.seq = f.seq => e = f
  <2>1. ASSUME NEW e \in Load(disk)
        PROVE  \E i \in DOMAIN prog : /\ Records(i) /\ e = outcome[i] /\ e.seq = Sequence(i)
                                      /\ e.ok /\ e.origin <= run /\ e \in Entry
    BY <1>2, <1>3, LoadIs DEF CallsOK, Settled, Listed
  <2>2. \A e, f \in Load(disk) : e.seq = f.seq => e = f
    BY <1>2, <2>1, SequenceInjective
  <2>3. ASSUME NEW e \in Load(disk) PROVE e.ok /\ e.origin < run + 1 /\ Genuine(e)
    <3>1. PICK i \in DOMAIN prog : e = outcome[i] /\ e.ok /\ e.origin <= run /\ e \in Entry
      BY <2>1
    <3>2. e.origin \in Int
      BY <3>1 DEF Entry
    <3> QED BY <1>2, <3>1, <3>2 DEF OriginOK
  <2> QED BY <2>2, <2>3
<1>5. TypeOK'
  <2>1. /\ phase' \in [DOMAIN p -> {"new", "hit", "live", "ended", "appended",
                                    "writing", "opened", "done"}]
        /\ outcome' \in [DOMAIN p -> Entry \cup {Pending}]
        /\ snapshot' \in [DOMAIN p -> SUBSET {}]
    BY DEF Resumes, Fresh
  <2>2. run' \in 1..MaxRuns /\ 1 \in 1..(Len(p) + 1) /\ previous' \subseteq Entry
    BY <1>0, <1>2, <1>3
  <2> QED BY <1>0, <2>1, <2>2 DEF TypeOK
<1>6. CallsOK'
  BY <1>0, <1>1 DEF CallsOK, Settled, Entry
<1>7. EntriesOK'
  <2>1. /\ \A e \in previous' : e.ok /\ e.origin < run'
        /\ \A e, f \in previous' : e.seq = f.seq => e = f
    BY <1>0, <1>4
  <2>2. disk'.calls = {}
    BY <1>0
  <2> QED BY <1>0, <1>1, <2>1, <2>2 DEF EntriesOK, Listed, Indexing, Pending
<1>8. OriginOK'
  <2>1. \A e : Genuine(e)' <=> Genuine(e)
    BY <1>0 DEF Genuine
  <2>2. \A e \in previous' : Genuine(e)'
    BY <1>0, <1>4, <2>1
  <2>3. \A i \in DOMAIN p : ~outcome'[i].ok
    BY <1>1 DEF Pending
  <2> QED BY <1>0, <2>2, <2>3 DEF OriginOK
<1>9. PrefixOK'
  <2>1. \A i \in DOMAIN p : ~Replayed(i)'
    BY <1>1 DEF Replayed
  <2> QED BY <1>0, <1>1, <2>1 DEF PrefixOK, LookupOK, HitsOK, ReuseOK, ReplayIsAPrefix
<1>10. SerialOK'
  <2>1. \A i \in DOMAIN p : ~Succeeded(i)'
    BY <1>0, <1>1 DEF Succeeded, Returned
  <2>2. ~(~noCache' /\ ~writeIndex')
    BY <1>0
  <2>3. \A i \in DOMAIN prog' :
          /\ ~(i < next' - 1) /\ phase'[i] \notin Indexing /\ phase'[i] # "opened"
          /\ ~Succeeded(i)'
    BY <1>0, <1>1, <2>1 DEF Indexing
  <2> QED BY <2>2, <2>3 DEF SerialOK
<1>11. PriorOK'
  <2>1. /\ prior'.prog = prog /\ prior'.returned = {i \in DOMAIN prog : Returned(i)}
        /\ prior'.cached = ~noCache /\ prior'.serial = serial
    BY DEF Resumes
  <2>2. ASSUME ~off, ~noCache, serial, NEW i \in DOMAIN prog, 1..i \subseteq prior'.returned
        PROVE  /\ prog[i].kind # "plain"
               /\ Records(i) => \E e \in previous' : /\ e.ok /\ e.fp = prog[i].fp
                                                     /\ e.seq = SequenceIn(prog, i)
    <3>1. Succeeded(i)
      BY <2>1, <2>2 DEF Succeeded
    <3> QED BY <1>0, <2>2, <3>1, PrefixIsLoaded
  <2> QED BY <1>0, <2>1, <2>2 DEF PriorOK, readEnabled, Records
<1> QED BY <1>5, <1>6, <1>7, <1>8, <1>9, <1>10, <1>11 DEF IInv

LEMMA SameIInv ==
  ASSUME IInv, UNCHANGED vars
  PROVE  IInv'
<1>0. /\ run' = run /\ prog' = prog /\ noCache' = noCache /\ next' = next
      /\ phase' = phase /\ outcome' = outcome /\ snapshot' = snapshot
      /\ usable' = usable /\ writeIndex' = writeIndex /\ current' = current
      /\ previous' = previous /\ disk' = disk /\ prior' = prior /\ serial' = serial
      /\ executed' = executed
  BY DEF vars, memory
<1> USE <1>0
<1>1. TypeOK' /\ CallsOK'
  <2>1. TypeOK'
    BY DEF IInv, TypeOK
  <2>2. CallsOK'
    <3>1. (disk \in [calls : SUBSET Entry,
                      index : [entries : SUBSET Entry, torn : BOOLEAN],
                      results : SUBSET (1..Len(prog))])'
      BY DEF IInv, CallsOK
    <3>2. \A i \in DOMAIN prog : Sequence(i)' = Sequence(i)
      BY DEF Sequence
    <3>3. \A i \in DOMAIN prog : (Settled(i)' <=> Settled(i)) /\ (Records(i)' <=> Records(i))
      BY DEF Settled, Records
    <3>4. \A i \in DOMAIN prog :
            /\ i >= next <=> phase[i] = "new"
            /\ phase[i] \in {"hit", "live"} => prog[i].kind = "agent"
            /\ phase[i] \notin {"new", "done"} => Records(i)
            /\ ~(Records(i) /\ Settled(i)) => outcome[i] = Pending
            /\ Records(i) /\ Settled(i) =>
                 /\ outcome[i] \in Entry
                 /\ outcome[i].seq = Sequence(i) /\ outcome[i].fp = prog[i].fp
                 /\ outcome[i].origin <= run
                 /\ prog[i].kind = "marker" => outcome[i].origin = run
      BY DEF IInv, CallsOK
    <3> QED BY <3>1, <3>2, <3>3, <3>4 DEF CallsOK
  <2> QED BY <2>1, <2>2
<1>2. EntriesOK' /\ OriginOK'
  BY DEF IInv, EntriesOK, OriginOK, Genuine, Records, Sequence
<1>3. PrefixOK'
  BY DEF IInv, PrefixOK, LookupOK, HitsOK, ReuseOK, ReplayIsAPrefix, Replayed, AllFindable,
     Findable, Found, Matches, Records, Sequence,
     readEnabled
<1>4. SerialOK' /\ PriorOK'
  BY DEF IInv, SerialOK, PriorOK, Succeeded, Returned, Records, readEnabled
<1> QED BY <1>1, <1>2, <1>3, <1>4 DEF IInv

LEMMA StepIInv ==
  ASSUME IInv, [Next]_vars
  PROVE  IInv'
<1>1. \/ UNCHANGED vars
      \/ \E i \in DOMAIN prog : SameRun /\ CallStep(i)
      \/ \E p \in Programs, off \in BOOLEAN : Resumes(p, off)
  BY StepCases DEF IInv
<1>2. ASSUME NEW i \in DOMAIN prog, SameRun, CallStep(i) PROVE IInv'
  BY <1>2, CallTypes, CallShapes, CallEntries, CallOrigins, CallPrefixes, CallSerial,
     CallPrior DEF IInv
<1> QED BY <1>1, <1>2, ResumeStep, SameIInv

LEMMA Invariance ==
  Spec => []IInv
BY InitIInv, StepIInv, PTL DEF Spec

-----------------------------------------------------------------------------
(* What the workflow gets from the cache is what it would have got then,   *)
(* however the program was edited and wherever the earlier runs stopped:   *)
(* findPrefixCacheHit() and the turning off of the prefix are enough.      *)
THEOREM ReplayIsSoundHolds ==
  Spec => []ReplayIsSound
<1>1. ASSUME IInv PROVE ReplayIsSound
  <2>1. ASSUME NEW i \in DOMAIN prog, prog[i].kind = "agent", outcome[i].ok
        PROVE  /\ outcome[i].fp = prog[i].fp
               /\ <<outcome[i].fp, outcome[i].origin>> \in executed
    <3>1. outcome[i].fp = prog[i].fp
      BY <1>1, <2>1 DEF IInv, CallsOK, Pending
    <3>2. Genuine(outcome[i])
      BY <1>1, <2>1 DEF IInv, OriginOK
    <3>3. prog \in Programs
      BY <1>1 DEF IInv, TypeOK
    <3>4. prog[i].fp \notin MarkerPrints
      BY <2>1, <3>3, FingerprintsAssumption DEF MarkerPrints
    <3> QED BY <3>1, <3>2, <3>4 DEF Genuine
  <2> QED BY <1>1, <2>1 DEF IInv, PrefixOK, LookupOK, HitsOK, ReuseOK, ReplayIsSound, ResultsAreGenuine
<1> QED BY <1>1, Invariance, PTL

(* Wherever the run stops between two of its writes, loadCacheIndex()      *)
(* finds only entries of calls that succeeded and whose result file is     *)
(* there.                                                                  *)
THEOREM CrashLeavesLoadableEntriesHolds ==
  Spec => []CrashLeavesLoadableEntries
<1>1. ASSUME IInv PROVE CrashLeavesLoadableEntries
  <2>0. TypeOK /\ CallsOK /\ EntriesOK
    BY <1>1 DEF IInv
  <2>1. ASSUME NEW e \in Load(disk), NEW i \in DOMAIN prog, prog[i].kind = "agent",
               Sequence(i) = e.seq
        PROVE  e.seq \in disk.results
    <3>1. e.ok /\ \E j \in DOMAIN prog : Records(j) /\ phase[j] \in Listed /\ e = outcome[j]
      BY <2>0, LoadIs
    <3>2. PICK j \in DOMAIN prog : Records(j) /\ phase[j] \in Listed /\ e = outcome[j]
      BY <3>1
    <3>3. e.seq = Sequence(j)
      BY <2>0, <3>2 DEF CallsOK, Settled, Listed
    <3>4. i = j
      BY <2>0, <2>1, <3>2, <3>3, SequenceInjective DEF Records
    <3> QED BY <2>0, <2>1, <3>1, <3>2, <3>4 DEF EntriesOK
  <2> QED BY <2>0, <2>1, LoadIs DEF CrashLeavesLoadableEntries
<1> QED BY <1>1, Invariance, PTL

(* A prefix of calls that returned and is unchanged is replayed whole when *)
(* the run before made its calls one after the other, also when that run   *)
(* stopped with its index half written.                                    *)
THEOREM SerialPrefixReusedHolds ==
  Spec => []SerialPrefixReused
<1>1. ASSUME IInv PROVE SerialPrefixReused
  <2> SUFFICES ASSUME prior.serial, readEnabled, prior.cached, NEW i \in DOMAIN prog,
                      prog[i].kind = "agent", phase[i] # "new",
                      \A j \in 1..i : j \in prior.returned /\ prior.prog[j] = prog[j]
               PROVE  Replayed(i)
    BY DEF SerialPrefixReused, LongestPrefixReused
  <2>0. /\ TypeOK /\ CallsOK /\ PrefixOK /\ PriorOK
        /\ DOMAIN prog = 1..Len(prog) /\ Len(prog) \in Nat
        /\ next \in 1..(Len(prog) + 1)
    BY <1>1, ProgramIsSeq DEF IInv, TypeOK
  <2>1. i \in 1..(next - 1)
    BY <2>0 DEF CallsOK
  <2>2. ASSUME NEW j \in 1..i
        PROVE  prog[j].kind # "plain" /\ (Records(j) => Matches(j) # {})
    <3>1. j \in DOMAIN prog /\ 1..j \subseteq 1..i
      BY <2>0
    <3>2. j \in DOMAIN prior.prog /\ 1..j \subseteq prior.returned /\ prior.prog[j] = prog[j]
      BY <2>0, <3>1 DEF PriorOK
    <3>3. /\ prog[j].kind # "plain"
          /\ Records(j) => \E e \in previous : /\ e.ok /\ e.fp = prog[j].fp
                                               /\ e.seq = SequenceIn(prior.prog, j)
      BY <2>0, <3>2 DEF PriorOK, Records
    <3>4. \A k \in 1..j : prior.prog[k] = prog[k]
      BY <3>1
    <3>5. SequenceIn(prior.prog, j) = SequenceIn(prog, j)
      BY <3>4 DEF SequenceIn
    <3>6. Sequence(j) = SequenceIn(prog, j)
      BY <2>0, <3>1, SequenceRange
    <3> QED BY <3>3, <3>5, <3>6 DEF Matches
  <2>3. Findable(i)
    BY <2>2 DEF Findable, Found
  <2> QED BY <2>0, <2>1, <2>3 DEF PrefixOK, LookupOK, HitsOK, ReuseOK
<1> QED BY <1>1, Invariance, PTL
=============================================================================
