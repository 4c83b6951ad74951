------------------------------ MODULE TaskPool ------------------------------
(***************************************************************************)
(* What the scheduler promises its callers, with no queue, map, timer or   *)
(* event loop: a pool in which at most Limit tasks are active, that can be *)
(* closed once.  Closing discards every waiting task at that instant,      *)
(* leaves the active ones to end, and lets nothing begin afterwards.       *)
(***************************************************************************)
EXTENDS Naturals, FiniteSets

CONSTANTS Tasks, Limit

VARIABLES phase, closed

poolVars == <<phase, closed>>

Active == {t \in Tasks : phase[t] = "active"}

PoolInit ==
  /\ phase = [t \in Tasks |-> "new"]
  /\ closed = FALSE

Submit(t) ==
  /\ phase[t] = "new"
  /\ phase' = [phase EXCEPT ![t] = IF closed THEN "done" ELSE "waiting"]
  /\ UNCHANGED closed

Begin(t) ==
  /\ phase[t] = "waiting"
  /\ ~closed
  /\ Cardinality(Active) < Limit
  /\ phase' = [phase EXCEPT ![t] = "active"]
  /\ UNCHANGED closed

Finish(t) ==
  /\ phase[t] = "active"
  /\ phase' = [phase EXCEPT ![t] = "done"]
  /\ UNCHANGED closed

(* Close the pool, from outside (ended = {}) or because the task in ended  *)
(* has just failed.                                                        *)
Close(ended) ==
  /\ ~closed
  /\ closed' = TRUE
  /\ ended \subseteq Active
  /\ phase' = [t \in Tasks |->
                 IF phase[t] = "waiting" \/ t \in ended THEN "done"
                 ELSE phase[t]]

PoolNext ==
  \/ \E t \in Tasks : Submit(t) \/ Begin(t) \/ Finish(t) \/ Close({t})
  \/ Close({})

PoolSpec == PoolInit /\ [][PoolNext]_poolVars
=============================================================================
