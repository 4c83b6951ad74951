----------------------------- MODULE CallCache -----------------------------
(* The call cache of a run and its replay by a resumed run:                *)
(* artifacts/call-cache.ts, the cache path of agent() and tool() in        *)
(* workflow/dsl.ts and the markers of loop/replay.ts.                      *)
(*                                                                         *)
(* A run executes a program, the calls its workflow makes in order, at     *)
(* most Width of them at a time.  Each call takes the next sequence number *)
(* and looks in the entries of the previous run; the first call that finds *)
(* nothing turns the lookup off for the rest of the run.  A call that ends *)
(* writes its result file, appends a line to calls.jsonl and, as long as   *)
(* everything succeeded, rewrites cache-index.json from memory.  The run   *)
(* may stop between any two of these writes; a resumed run loads the       *)
(* directory it left.                                                      *)
(*                                                                         *)
(* An operator that no other definition uses is a variant of the one after *)
(* it, with one mistake in it; the runs use it to test the properties.     *)
EXTENDS Integers, Sequences, FiniteSets

CONSTANTS
  Programs,   \* the workflows a run may execute, sequences of calls
  Width,      \* calls in progress at a time: bounds parallel() and pipelines
  MaxRuns     \* bound on the number of runs, the first one and its resumes

(* A call is an agent() or a cacheable tool() ("agent": its fingerprint    *)
(* tells them apart), a loop marker, a parallel() that only takes a        *)
(* sequence number, or a tool() that is not cacheable ("plain").           *)
Kinds == {"agent", "marker", "parallel", "plain"}

ASSUME ProgramsAssumption ==
  \A p \in Programs : /\ p \in Seq({p[i] : i \in DOMAIN p})
                      /\ \A i \in DOMAIN p : p[i].kind \in Kinds
(* fp stands for the kind and the fingerprint of an entry, which the        *)
(* lookup compares both.                                                   *)
ASSUME FingerprintsAssumption ==
  \A p, q \in Programs : \A i \in DOMAIN p, j \in DOMAIN q :
    p[i].kind = "agent" /\ q[j].kind = "marker" => p[i].fp # q[j].fp
ASSUME BoundsAssumption == Width \in Nat \ {0} /\ MaxRuns \in Nat \ {0}

VARIABLES
  run,        \* the number of the current run
  prog,       \* the workflow it executes
  noCache,    \* whether it was started with --no-cache
  next,       \* the position of the next call the workflow makes
  phase,      \* how far each call is
  outcome,    \* the entry each ended call records
  snapshot,   \* the index each call is about to write
  usable,     \* cache.prefixCacheUsable
  writeIndex, \* cache.writeIndex
  current,    \* cache.currentEntries
  previous,   \* cache.previousEntries
  disk,       \* the directory of this run
  prior,      \* what the run before it was: program, directory, what ended
  serial,     \* history: no two calls of this run were ever in progress
  executed    \* history: <<fingerprint, run>> of every live success

memory == <<usable, writeIndex, current, previous>>
vars == <<run, prog, noCache, next, phase, outcome, snapshot, memory, disk,
          prior, serial, executed>>

(* runtime.callSequence when the call at position i is made.               *)
Sequence(i) == Cardinality({j \in 1..i : prog[j].kind # "plain"})

(* calls.jsonl, cache-index.json and the result files of a run directory.  *)
(* The index is rewritten in place: opening it truncates it, and a shorter *)
(* text written over a longer one leaves a tail that does not parse.       *)
EmptyDisk ==
  [calls |-> {}, index |-> [entries |-> {}, torn |-> FALSE], results |-> {}]

Truncated(index) == [entries |-> {}, torn |-> TRUE]
Overwritten(index, text) ==
  IF index.entries \subseteq text THEN [entries |-> text, torn |-> FALSE]
                                  ELSE [index EXCEPT !.torn = TRUE]

(* loadCacheIndex(): the index when it parses, else what calls.jsonl says  *)
(* succeeded.                                                              *)
Rebuilt(calls) == {e \in calls : e.ok}
LoadIndexOnly(d) == d.index.entries
Load(d) == IF d.index.torn THEN Rebuilt(d.calls) ELSE d.index.entries

Pending == [seq |-> 0, fp |-> "none", ok |-> FALSE, origin |-> 0]

(* What a new run starts from: loadRuntimeCallCache() and createRun().     *)
Fresh(p, off, loaded) ==
  /\ prog' = p
  /\ noCache' = off
  /\ next' = 1
  /\ phase' = [i \in DOMAIN p |-> "new"]
  /\ outcome' = [i \in DOMAIN p |-> Pending]
  /\ snapshot' = [i \in DOMAIN p |-> {}]
  /\ usable' = TRUE
  /\ writeIndex' = ~off
  /\ current' = {}
  /\ previous' = IF off THEN {} ELSE loaded
  /\ disk' = EmptyDisk
  /\ serial' = TRUE

NoPrior == [prog |-> <<>>, results |-> {}, returned |-> {}, cached |-> FALSE,
            serial |-> TRUE]

Init ==
  /\ run = 1
  /\ prog \in Programs
  /\ noCache = FALSE
  /\ next = 1
  /\ phase = [i \in DOMAIN prog |-> "new"]
  /\ outcome = [i \in DOMAIN prog |-> Pending]
  /\ snapshot = [i \in DOMAIN prog |-> {}]
  /\ usable = TRUE
  /\ writeIndex = TRUE
  /\ current = {}
  /\ previous = {}
  /\ disk = EmptyDisk
  /\ prior = NoPrior
  /\ serial = TRUE
  /\ executed = {}

(* Whether this run reads a cache at all: it was resumed and may.          *)
readEnabled == run > 1 /\ ~noCache

-----------------------------------------------------------------------------
Reach(i, label) == phase' = [phase EXCEPT ![i] = label]
Busy == {i \in DOMAIN prog : phase[i] \notin {"new", "done"}}

(* The entry findPrefixCacheHit() accepts for the call at position i.      *)
MatchesSequence(i) == {e \in previous : e.seq = Sequence(i) /\ e.ok}
Matches(i) ==
  {e \in previous : e.seq = Sequence(i) /\ e.ok /\ e.fp = prog[i].fp}

Hit(i) == readEnabled /\ usable /\ Matches(i) # {}

(* A lookup that finds nothing ends the prefix.                            *)
AfterLookup(i) == IF readEnabled THEN usable /\ Matches(i) # {} ELSE usable

Makes(i) ==
  /\ i \in DOMAIN prog
  /\ i = next
  /\ Cardinality(Busy) < Width
  /\ next' = next + 1
  /\ serial' = (serial /\ Busy = {})
  /\ UNCHANGED <<run, prog, noCache, snapshot, writeIndex, current, previous,
                 disk, prior, executed>>

(* agent() or a cacheable tool(): takes a number and looks, in one turn.   *)
BeginCall(i) ==
  /\ Makes(i)
  /\ prog[i].kind = "agent"
  /\ usable' = AfterLookup(i)
  /\ Reach(i, IF Hit(i) THEN "hit" ELSE "live")
  /\ UNCHANGED outcome

(* A loop marker looks too, but records itself whatever it finds.          *)
BeginMarker(i) ==
  /\ Makes(i)
  /\ prog[i].kind = "marker"
  /\ usable' = AfterLookup(i)
  /\ \E ok \in BOOLEAN :
       outcome' = [outcome EXCEPT ![i] =
         [seq |-> Sequence(i), fp |-> prog[i].fp, ok |-> ok, origin |-> run]]
  /\ Reach(i, "ended")

BeginParallel(i) ==
  /\ Makes(i)
  /\ prog[i].kind = "parallel"
  /\ Reach(i, "done")
  /\ UNCHANGED <<usable, outcome>>

(* A tool that is not cacheable runs live and ends the prefix.             *)
AfterPlainTool == FALSE
BeginPlainTool(i) ==
  /\ Makes(i)
  /\ prog[i].kind = "plain"
  /\ usable' = AfterPlainTool
  /\ Reach(i, "done")
  /\ UNCHANGED outcome

(* The result file is written before the call is recorded.                 *)
SavedNothing(i) == disk.results
Saved(i) == disk.results \cup {Sequence(i)}

(* The call ran: recordAgentCall() or recordToolCall() is given its result *)
(* and writes agent-result.json or tool-result.json of a success.          *)
Execute(i, ok) ==
  /\ phase[i] = "live"
  /\ outcome' = [outcome EXCEPT ![i] =
       [seq |-> Sequence(i), fp |-> prog[i].fp, ok |-> ok, origin |-> run]]
  /\ disk' = IF ok THEN [disk EXCEPT !.results = Saved(i)] ELSE disk
  /\ executed' = IF ok THEN executed \cup {<<prog[i].fp, run>>} ELSE executed
  /\ Reach(i, "ended")
  /\ UNCHANGED <<run, prog, noCache, next, snapshot, memory, prior,
                 serial>>

(* materializeCachedAgentResult(), materializeCachedToolResult(): the old  *)
(* result is copied into this run.                                         *)
Materialize(i) ==
  /\ phase[i] = "hit"
  /\ Sequence(i) \in prior.results
  /\ outcome' = [outcome EXCEPT ![i] =
       CHOOSE e \in previous : e.seq = Sequence(i)]
  /\ disk' = [disk EXCEPT !.results = Saved(i)]
  /\ Reach(i, "ended")
  /\ UNCHANGED <<run, prog, noCache, next, snapshot, memory, prior,
                 serial, executed>>

(* recordCallEntry(): the line is appended to calls.jsonl ...              *)
AppendLine(i) ==
  /\ phase[i] = "ended"
  /\ disk' = [disk EXCEPT !.calls = @ \cup {outcome[i]}]
  /\ Reach(i, "appended")
  /\ UNCHANGED <<run, prog, noCache, next, outcome, snapshot, memory, prior,
                 serial, executed>>

(* ... and when that is done, the entry joins the index in memory, unless  *)
(* this call or an earlier recorded one did not succeed.                   *)
Indexed(i) == outcome[i].ok /\ writeIndex
PushEntry(i) ==
  /\ phase[i] = "appended"
  /\ IF Indexed(i)
     THEN /\ current' = current \cup {outcome[i]}
          /\ snapshot' = [snapshot EXCEPT ![i] = current']
          /\ Reach(i, "writing")
          /\ UNCHANGED writeIndex
     ELSE /\ writeIndex' = FALSE
          /\ Reach(i, "done")
          /\ UNCHANGED <<current, snapshot>>
  /\ UNCHANGED <<run, prog, noCache, next, outcome, usable, previous, disk,
                 prior, serial, executed>>

(* writeJson("cache-index.json"): opened, then written; two calls may be   *)
(* doing this at once.                                                     *)
OpenIndex(i) ==
  /\ phase[i] = "writing"
  /\ disk' = [disk EXCEPT !.index = Truncated(@)]
  /\ Reach(i, "opened")
  /\ UNCHANGED <<run, prog, noCache, next, outcome, snapshot, memory, prior,
                 serial, executed>>

WriteIndex(i) ==
  /\ phase[i] = "opened"
  /\ disk' = [disk EXCEPT !.index = Overwritten(@, snapshot[i])]
  /\ Reach(i, "done")
  /\ UNCHANGED <<run, prog, noCache, next, outcome, snapshot, memory, prior,
                 serial, executed>>

(* The run is over, or the process died, wherever it was; the user resumes *)
(* from its directory, perhaps with an edited workflow.                    *)
Resume(p, off) ==
  /\ run < MaxRuns
  /\ run' = run + 1
  /\ Fresh(p, off, Load(disk))
  /\ prior' = [prog |-> prog, results |-> disk.results,
               returned |-> {i \in DOMAIN prog : phase[i] = "done"
                                 /\ (outcome[i].ok \/ prog[i].kind = "parallel")},
               cached |-> ~noCache, serial |-> serial]
  /\ UNCHANGED executed

-----------------------------------------------------------------------------
Call(i) ==
  \/ BeginCall(i) \/ BeginMarker(i) \/ BeginParallel(i) \/ BeginPlainTool(i)
  \/ \E ok \in BOOLEAN : Execute(i, ok)
  \/ Materialize(i)
  \/ AppendLine(i) \/ PushEntry(i) \/ OpenIndex(i) \/ WriteIndex(i)

Next ==
  \/ \E i \in DOMAIN prog : Call(i)
  \/ \E p \in Programs, off \in BOOLEAN : Resume(p, off)

Spec == Init /\ [][Next]_vars

-----------------------------------------------------------------------------
Entry ==
  [seq : Nat, fp : {c.fp : c \in UNION {{p[i] : i \in DOMAIN p} : p \in Programs}},
   ok : BOOLEAN, origin : 1..MaxRuns]

TypeOK ==
  /\ run \in 1..MaxRuns
  /\ prog \in Programs
  /\ serial \in BOOLEAN /\ noCache \in BOOLEAN /\ usable \in BOOLEAN /\ writeIndex \in BOOLEAN
  /\ next \in 1..(Len(prog) + 1)
  /\ phase \in [DOMAIN prog -> {"new", "hit", "live", "ended", "appended",
                                "writing", "opened", "done"}]
  /\ outcome \in [DOMAIN prog -> Entry \cup {Pending}]
  /\ snapshot \in [DOMAIN prog -> SUBSET current]
  /\ current \subseteq Entry /\ previous \subseteq Entry
  /\ disk.calls \subseteq Entry /\ disk.index.entries \subseteq current
  /\ disk.results \subseteq 1..Len(prog)

(* A call that was replayed.                                               *)
Replayed(i) == phase[i] = "hit" \/ (outcome[i] # Pending /\ outcome[i].origin # run)

(* A result the workflow sees was produced by a live execution of the very *)
(* same call, in this run or in a run it descends from, however many runs  *)
(* crashed in between.                                                     *)
ResultsAreGenuine ==
  \A i \in DOMAIN prog : prog[i].kind = "agent" /\ outcome[i].ok =>
    /\ outcome[i].fp = prog[i].fp
    /\ <<outcome[i].fp, outcome[i].origin>> \in executed

(* What is replayed is a prefix: nothing the workflow did before a         *)
(* replayed call was executed live, so it cannot depend on a new result.   *)
ReplayIsAPrefix ==
  \A i, j \in DOMAIN prog :
    i < j /\ Replayed(j) =>
      /\ prog[i].kind # "plain"
      /\ prog[i].kind = "agent" => Replayed(i)

(* What the workflow gets from the cache is what it would have got then.   *)
ReplayIsSound == TypeOK /\ ResultsAreGenuine /\ ReplayIsAPrefix

(* Whenever the run stops, the entries a resumed run would load point at   *)
(* results that are on disk and name only calls that succeeded.            *)
CrashLeavesLoadableEntries ==
  \A e \in Load(disk) :
    /\ e.ok
    /\ \A i \in DOMAIN prog :
         prog[i].kind = "agent" /\ Sequence(i) = e.seq => e.seq \in disk.results

(* Promised by `resume`: a call whose whole prefix is unchanged and had    *)
(* returned successfully in the previous run is replayed.                  *)
LongestPrefixReused ==
  \A i \in DOMAIN prog :
    /\ readEnabled /\ prior.cached
    /\ prog[i].kind = "agent" /\ phase[i] # "new"
    /\ \A j \in 1..i : /\ j \in prior.returned
                       /\ prior.prog[j] = prog[j]
    => Replayed(i)

(* It holds when the previous run made its calls one after the other, also *)
(* across several resumes, stops between any two writes, loop markers and  *)
(* numbers taken by parallel().                                            *)
SerialPrefixReused == prior.serial => LongestPrefixReused
=============================================================================
