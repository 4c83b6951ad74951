-------------------------- MODULE ScriptValidation --------------------------
(* The static validation of a workflow script (workflow/validate.ts), as a *)
(* function of the calls it contains.                                      *)
(*                                                                         *)
(* A call site is [path, on, method, arg, line].  path is the sequence of  *)
(* the frames around it, outermost first: the main workflow, a helper, a   *)
(* callback, a getter or setter (accessor), a thunk of parallel() (task)   *)
(* or an argument of it that is no function, the run function of a stage   *)
(* of pipeline(), a function inside defineAgent(), an argument of loop()   *)
(* other than run (loop-part), an argument of loop() that is no object     *)
(* literal (loop-value), and the run function of a loop: its second        *)
(* parameter named otherwise (round), named ctx (ctx-round) or left out    *)
(* (bare-round), or the loop called through another name (alias-round).    *)
(* on is the global function, a method of ctx or of the round's parameter. *)
(* arg is [shape, bad, ref, args, extra]: absent, other or an object       *)
(* literal; whether some key or value of it is refused; what it names      *)
(* (absent, dynamic, a path or a name); what is passed on (absent, unsafe, *)
(* misfit, fits); and in extra what a loop says of the number of rounds,   *)
(* and an agent call of the provider, if it is a literal.                  *)
(* env is [tools, agents, providers, schemas, names, ceiling, dynamicIds]; *)
(* names is <<>> in the pass over the root alone.                          *)
(* An operator that no other definition uses is a variant of the one after *)
(* it, with one mistake in it; the runs use it to test the properties.     *)
EXTENDS Naturals, SequencesExt, FiniteSetsExt

Rounds == {"round", "ctx-round", "bare-round"}

-----------------------------------------------------------------------------
(* The flags of visit() on the way down to a call.  direct says that the   *)
(* nearest function is the run function of a recognised loop.              *)
TopFlags ==
  [ forbidden |-> FALSE, depth |-> 0, inLoop |-> FALSE, rounds |-> {},
    parallel |-> FALSE, main |-> FALSE, direct |-> FALSE ]

(* Only the default export, met at depth one, may call tools.              *)
WithinForgetsDepth(f, isMain) ==
  [f EXCEPT !.depth = @ + 1, !.main = (f.depth = 0 /\ isMain), !.direct = FALSE]

Within(f, isMain) ==
  [f EXCEPT !.depth = @ + 1, !.main = (f.depth = 0 /\ isMain), !.direct = FALSE,
            !.forbidden = @ \/ f.depth > 0 \/ ~isMain]

(* A stage is visited twice: by itself, with the flags dropped, and as     *)
(* part of the argument it stands in.  What else loop() holds besides run  *)
(* keeps two flags only.                                                   *)
TwoFlags(f) == [TopFlags EXCEPT !.forbidden = f.forbidden, !.depth = f.depth]

RoundNames(frame) == IF frame = "round" THEN {"round"} ELSE {"ctx"}

Entered(f, frame) ==
  CASE frame = "main" -> {Within(f, TRUE)}
    [] frame \in {"helper", "callback", "alias-round"} -> {Within(f, FALSE)}
    [] frame = "accessor" -> {f}
    [] frame = "argument" -> {[f EXCEPT !.forbidden = TRUE, !.parallel = TRUE]}
    [] frame = "task" ->
         {Within([f EXCEPT !.forbidden = TRUE, !.parallel = TRUE], FALSE)}
    [] frame = "stage" -> {Within([TwoFlags(f) EXCEPT !.forbidden = TRUE], FALSE),
                           Within([f EXCEPT !.forbidden = TRUE, !.main = FALSE], FALSE)}
    [] frame = "definition" -> {Within([f EXCEPT !.forbidden = TRUE, !.main = FALSE], FALSE)}
    [] frame = "loop-part" -> {TwoFlags(f)}
    [] frame = "loop-value" -> {[f EXCEPT !.rounds = {}]}
    [] frame \in Rounds ->
         {[Within([TopFlags EXCEPT !.depth = f.depth, !.forbidden = TRUE, !.inLoop = TRUE,
                                   !.rounds = RoundNames(frame)], FALSE)
             EXCEPT !.direct = TRUE]}

Visits(path) ==
  FoldLeft(LAMBDA flags, frame : UNION {Entered(f, frame) : f \in flags}, {TopFlags}, path)

-----------------------------------------------------------------------------
(* Is the object the call is made on taken for a context?                  *)
Recognised(site, f) == site.on \in {"global", "ctx"} \/ site.on \in f.rounds

(* validateToolCall: a tool of the round may be called in the function of  *)
(* the round itself, outside of parallel().                                *)
ToolMisplaced(site, f) ==
  /\ f.forbidden
  /\ ~(f.inLoop /\ site.on \in f.rounds /\ ~f.parallel /\ f.direct)

LoopMisplacedInMain(f) == f.parallel \/ f.inLoop \/ f.depth > 0

(* validateLoopCall.                                                       *)
LoopMisplaced(f) ==
  f.parallel \/ f.inLoop \/ (f.depth > 0 /\ ~f.main /\ ~f.inLoop)

(* break() and parallel() are no methods of a round's context.             *)
Misplaced(site, f) ==
  CASE site.method = "tool" -> ToolMisplaced(site, f)
    [] site.method = "loop" -> LoopMisplaced(f)
    [] site.method = "break" -> site.on \in f.rounds \/ (f.inLoop /\ site.on = "ctx")
    [] OTHER -> FALSE

(* What a name in the call must satisfy: known, and its arguments fit the  *)
(* schema of what it names, as far as both are static.                     *)
Names(site) == site.arg.ref \notin {"absent", "dynamic", "path"}
Misfit(env, site) == site.arg.args = "misfit" /\ site.arg.ref \in env.schemas

WorkflowArgBad(env, site) ==
  \/ site.arg.shape # "object" \/ site.arg.bad
  \/ site.arg.ref \in {"absent", "path"}
  \/ Names(site) /\ env.names # <<>> /\ (site.arg.ref \notin env.names[1] \/ Misfit(env, site))

ToolArgBad(env, site) ==
  \/ site.arg.shape # "object" \/ site.arg.bad
  \/ ~Names(site) \/ site.arg.ref \notin env.tools \/ Misfit(env, site)
  \/ site.arg.args \in {"absent", "unsafe"}

(* A call of an agent names a shared one, or gives a prompt of its own.    *)
AgentArgBad(env, site) ==
  \/ site.arg.shape # "object" \/ site.arg.bad
  \/ site.arg.ref = "path"
  \/ site.arg.ref = "dynamic" /\ ~env.dynamicIds
  \/ Names(site) /\ (site.arg.ref \notin env.agents \/ Misfit(env, site))
  \/ site.arg.ref = "absent" /\ site.arg.args = "absent"

(* An argument that is no object literal may hold one, unless it is        *)
(* static; the number of rounds is tested when it is a literal.            *)
LoopArgBad(env, site) ==
  \/ site.arg.shape = "absent" \/ site.arg.bad
  \/ site.arg.shape = "object" /\ ~(site.arg.extra \subseteq 1..env.ceiling)

ArgBad(env, site) ==
  CASE site.method = "workflow" -> WorkflowArgBad(env, site)
    [] site.method = "tool" -> ToolArgBad(env, site)
    [] site.method = "agent" -> AgentArgBad(env, site)
    [] site.method = "loop" -> LoopArgBad(env, site)
    [] OTHER -> FALSE

ProviderUnknown(env, site) ==
  /\ site.method = "agent" /\ site.arg.shape = "object"
  /\ ~(site.arg.extra \subseteq env.providers)

(* A second loop of the same label, wherever it stands.                    *)
LabelTaken(sites, site) ==
  /\ site.method = "loop" /\ site.arg.shape = "object" /\ Names(site)
  /\ \E other \in sites : /\ other.method = "loop" /\ other.arg.shape = "object"
                          /\ other.line < site.line
                          /\ other.arg.ref = site.arg.ref

(* Imports, computed access to the context, the process, the file system   *)
(* and the like, and another name for tool().  Clocks and random numbers   *)
(* are only warned about.                                                  *)
Banned == {"import", "computed", "global-object", "tool-alias"}

SiteIssues(env, sites, site) ==
  LET flags == Visits(site.path)
      Known(f) == Recognised(site, f)
  IN {"WORKFLOW_VALIDATION_ERROR" : f \in {f \in flags :
        \/ site.method \in Banned
        \/ Known(f) /\ (Misplaced(site, f) \/ ArgBad(env, site) \/ LabelTaken(sites, site))}}
     \cup {"PROVIDER_REFERENCE_NOT_FOUND" : f \in {f \in flags :
            Known(f) /\ ProviderUnknown(env, site)}}

(* validateWorkflow, warnings left out.                                    *)
ScriptIssues(env, script) ==
  UNION {SiteIssues(env, script.sites, site) : site \in script.sites}
  \cup (IF script.schemaOk THEN {} ELSE {"WORKFLOW_VALIDATION_ERROR"})

(* assertWorkflowValid and the end of validateRegistryDependencies: which  *)
(* error the issues become.                                                *)
Accepted == "accepted"
VerdictOf(issues) ==
  CASE issues = {} -> Accepted
    [] "PROVIDER_REFERENCE_NOT_FOUND" \in issues -> "PROVIDER_REFERENCE_NOT_FOUND"
    [] OTHER -> "WORKFLOW_VALIDATION_ERROR"

(* extractWorkflowDependencies looks for workflow() as a global or on ctx, *)
(* not on the parameter of a round.                                        *)
Dependencies(script) ==
  {site.arg.ref : site \in {s \in script.sites :
     s.method = "workflow" /\ s.on \in {"global", "ctx"} /\ s.arg.shape = "object"
     /\ s.arg.ref \notin {"absent", "dynamic"}}}
=============================================================================
