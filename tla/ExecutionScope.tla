--------------------------- MODULE ExecutionScope ---------------------------
(* Where tools may be called, as the run time decides it                   *)
(* (workflow/scope.ts, and the functions of the script's globals that open *)
(* a scope: workflow/sandbox.ts, dsl.ts, loop/run.ts,                      *)
(* orchestration/pipeline/stage-runner.ts, shared-agents/execute.ts).      *)
(*                                                                         *)
(* A scope is [location, allowed, window, nested, bound]: where the code   *)
(* runs, whether tools are allowed there, whether it is the top level of a *)
(* script, whether it is a function called from there (which the number of *)
(* stack frames of the script tells), and the names of the round contexts  *)
(* that are in the lexical scope.                                          *)
EXTENDS ScriptValidation

(* deriveChildWorkflowToolScope and withToolTopLevelWindow: every          *)
(* invocation starts anew, whatever surrounds the call.                    *)
TopScope ==
  [ location |-> "workflow-top-level", allowed |-> TRUE, window |-> TRUE,
    nested |-> FALSE, bound |-> {} ]

(* withToolForbidden.                                                      *)
Forbidden(scope, location) ==
  [scope EXCEPT !.location = location, !.allowed = FALSE, !.window = FALSE]

BoundIn(frame) ==
  CASE frame \in {"round", "alias-round"} -> {"round"}
    [] frame = "ctx-round" -> {"ctx"}
    [] OTHER -> {}

Opened(scope, frame) ==
  CASE frame \in {"helper", "accessor"} -> [scope EXCEPT !.nested = TRUE]
    [] frame = "callback" -> Forbidden(scope, "asynchronous-callback")
    [] frame = "task" -> Forbidden(scope, "parallel-task")
    [] frame = "stage" -> Forbidden(scope, "pipeline-stage")
    [] frame = "definition" -> Forbidden(scope, "shared-agent-definition")
    [] frame \in Rounds \cup {"alias-round"} ->
         [Forbidden(scope, "loop-round") EXCEPT !.bound = @ \cup BoundIn(frame)]
    [] OTHER -> scope

ScopeAt(path) == FoldLeft(Opened, TopScope, path)

(* Can the call be made at all: is there such an object?                   *)
Bound(site) == site.on = "global" \/ site.on \in ScopeAt(site.path).bound

(* assertToolAllowed for tool(), assertLoopContextToolAllowed for the      *)
(* tool() of a round's context.                                            *)
ToolRuns(site) ==
  LET scope == ScopeAt(site.path)
  IN IF site.on = "global" THEN scope.allowed /\ scope.window /\ ~scope.nested
     ELSE Bound(site) /\ scope.location = "loop-round"
=============================================================================
