-------------------------- MODULE WorkflowLoading --------------------------
(* From the configuration of a project to the registries a run works with: *)
(* cli/commands/run.ts up to the dry-run check, with workflow/resolve-     *)
(* target.ts, shared-agents/load.ts, tools/load.ts, workflow/discovery.ts  *)
(* and validateRegistryDependencies.  The files are read several times on  *)
(* the way, with awaits between, and anybody may edit them meanwhile.      *)
(*                                                                         *)
(* What is written in a file is [kind, name, meta, ok, schema, version,    *)
(* imports, script]: a workflow, an agent, a tool or something else; its   *)
(* name or id; whether its metadata is a literal, static but no literal    *)
(* (which the listing can read and the parser cannot), or missing; whether *)
(* the definition is valid; whether it declares an input schema; the rest  *)
(* of a tool's contract; the files a tool imports; and the calls of a      *)
(* workflow, with whether its own schema compiles.                         *)
(* An operator that no other definition uses is a variant of the one after *)
(* it, with one mistake in it; the runs use it to test the properties.     *)
EXTENDS Discovery, ExecutionScope

CONSTANTS Scenarios,     \* families of projects to load
          RoundCeiling   \* workflow.maxLoopRounds, 20 by default

ASSUME RoundCeilingAssumption == RoundCeiling \in Nat \ {0}

VARIABLES
  project,     \* the command and the configuration, as the scenario gives them
  disk,        \* the files of the project
  edits,       \* what somebody will still write: a set of [path, real, text]
  stage,       \* the next step of the run command, or ready, or refused
  verdict,     \* the error code, or Accepted
  collected,   \* by resource, the result of the scan
  target,      \* [path, narrowing]: the root file, and the candidates or <<>>
  checked,     \* files past the check of where they lie, not read yet: <<resource, path>>
  late,        \* those that were written between such a check and the read of them
  agentFiles,  \* the files of the shared agents, as the check found them
  agents,      \* the registry of shared agents: id -> [path, text]
  contracts,   \* what the static validation read of each tool file: path -> text
  pending,     \* files whose imports are still to be inspected, and then files to be
               \* copied: [path, passed], and whether that path was checked
  inspected,   \* files whose imports were
  mirror,      \* the copies of the tool files: path -> text
  temp,        \* the directory of the copies was made, and its removal not tried
  tools,       \* the registry of tools: id -> [path, text]
  queue,       \* workflow files still to be read: [path, strict]
  seen,        \* the real files that were
  ambiguous,   \* names dropped because two candidates share them
  registry,    \* workflows: name -> [path, text]
  stack,       \* the dependency walk: [name, todo, issues] from the root down
  walked       \* name -> issues of the workflows that were left

vars == <<project, disk, edits, stage, verdict, collected, target, checked, late, agentFiles,
          agents, contracts, pending, inspected, mirror, temp, tools, queue, seen, ambiguous,
          registry, stack, walked>>
scanVars == <<collected, target>>
checkVars == <<checked, late>>
agentVars == <<agentFiles, agents>>
importVars == <<pending, inspected>>
toolVars == <<contracts, importVars, mirror, temp, tools>>
registryVars == <<queue, seen, ambiguous, registry>>
walkVars == <<stack, walked>>

-----------------------------------------------------------------------------
Discovered == NormalizedDiscovery(project.keys)
Stages == {"precollect", "target", "parse", "agents", "definitions", "tools", "contracts",
           "imports", "mirror", "import", "collect", "root", "read", "walk", "ready", "refused"}

Init ==
  \E family \in Scenarios : \E p \in family :
    /\ project = p /\ disk = p.disk /\ edits = p.edits
    /\ stage = "precollect" /\ verdict = Accepted
    /\ collected = [r \in Resources |-> {}]
    /\ target = [path |-> Outside, narrowing |-> <<>>]
    /\ checked = {} /\ late = {} /\ agentFiles = <<>> /\ agents = <<>>
    /\ contracts = <<>> /\ pending = <<>> /\ inspected = {} /\ mirror = <<>>
    /\ tools = <<>> /\ temp = FALSE
    /\ queue = <<>> /\ seen = {} /\ ambiguous = {} /\ registry = <<>>
    /\ stack = <<>> /\ walked = <<>>

(* A map in which a key has a value.                                       *)
Put(map, key, value) ==
  [k \in DOMAIN map \cup {key} |-> IF k = key THEN value ELSE map[k]]

Refuse(code) == stage' = "refused" /\ verdict' = code
Proceed(next) == stage' = next /\ verdict' = verdict

(* Where a file lies is checked before its text is read, and awaits are in *)
(* between.                                                                *)
Checked(resource, path) ==
  checked' = checked \cup {<<resource, path>>} /\ late' = late \ {<<resource, path>>}
Read(resource, path) == checked' = checked \ {<<resource, path>>} /\ late' = late

(* Somebody writes to a file, or puts a link in its place, while the run   *)
(* loads.  Nobody takes a file away.                                       *)
Edit ==
  /\ stage \notin {"walk", "ready", "refused"}
  /\ \E e \in edits :
       /\ disk' = [disk EXCEPT ![e.path].text = e.text, ![e.path].real = e.real]
       /\ edits' = edits \ {e}
       /\ late' = late \cup {c \in checked : c[2] = e.path}
  /\ UNCHANGED <<project, stage, verdict, scanVars, checked, agentVars, toolVars, registryVars,
                 walkVars>>

-----------------------------------------------------------------------------
(* precollectAllResourcesForLoad, and checkDiscoveryPolicy.  A scan is one *)
(* step: it only says which files are read later.                          *)
Precollect ==
  /\ stage = "precollect"
  /\ LET found == Precollected(Discovered, disk, project.strict, project.configured)
         says == PolicyVerdict(Discovered, found, project.strict)
     IN /\ collected' = [r \in Resources |-> found[r].files]
        /\ IF says = Passed THEN Proceed("target") ELSE Refuse(says)
  /\ UNCHANGED <<project, disk, edits, target, checkVars, agentVars, toolVars, registryVars,
                 walkVars>>

Parses(text) == text.kind = "workflow" /\ text.meta = "literal"

(* resolveWorkflowFileTarget: where the file lies, and in ParseTarget what *)
(* it says then.                                                           *)
FileTargetFault(path) ==
  CASE disk[path].kind = "missing" -> "WORKFLOW_FILE_NOT_FOUND"
    [] disk[path].kind # "missing" /\ ~Inside(disk, path) -> "SECURITY_POLICY_VIOLATION"
    [] OTHER -> Accepted

Aim(path, narrowing, next) ==
  target' = [path |-> path, narrowing |-> narrowing] /\ Proceed(next)
NoTarget(code) == target' = target /\ Refuse(code)

(* A name that is no file of the project either is just not found.         *)
AsFileRefused(fault) == IF project.byName THEN "WORKFLOW_TARGET_NOT_FOUND" ELSE fault

AimByPath(path) ==
  IF FileTargetFault(path) = Accepted THEN Aim(path, <<>>, "parse")
  ELSE NoTarget(AsFileRefused(FileTargetFault(path)))

(* resolveWorkflowTarget.  A name is looked up in a scan of its own, which *)
(* is never strict, and is tried as a file of that name when nobody bears  *)
(* it (project.asFile).                                                    *)
ResolveTarget ==
  /\ stage = "target"
  /\ LET listing == FoundWorkflows(Discovered, disk, project.configured)
         matches == Namesakes(listing, project.target)
     IN CASE ~project.byName -> AimByPath(project.asFile)
          [] project.byName /\ DiscoveryFailed(listing, FALSE) ->
               NoTarget("WORKFLOW_DISCOVERY_FAILED")
          [] project.byName /\ ~DiscoveryFailed(listing, FALSE) ->
               CASE matches = {} -> AimByPath(project.asFile)
                 [] Cardinality(matches) = 1 ->
                      LET match == CHOOSE r \in matches : TRUE
                      IN Aim(match.path, <<UniqueNames(listing) \cup {match.path}>>, "agents")
                 [] OTHER -> NoTarget("WORKFLOW_DUPLICATE_NAME")
  /\ UNCHANGED <<project, disk, edits, collected, checkVars, agentVars, toolVars, registryVars,
                 walkVars>>

ParseTarget ==
  /\ stage = "parse"
  /\ IF Parses(Written(disk, target.path)) THEN Proceed("agents")
     ELSE Refuse(AsFileRefused("WORKFLOW_PARSE_ERROR"))
  /\ UNCHANGED <<project, disk, edits, scanVars, checkVars, agentVars, toolVars, registryVars,
                 walkVars>>

-----------------------------------------------------------------------------
(* The candidates of a resource in the order of their paths.               *)
InOrder(files) == SetToSortSeq(files, LAMBDA a, b : a.path < b.path)

(* Definitions by id, as far as the files are valid and no id comes twice. *)
Entry(disk_, path) == [path |-> path, text |-> Written(disk_, path)]
Registered(entries) ==
  [id \in {e.text.name : e \in entries} |-> CHOOSE e \in entries : e.text.name = id]
SharedName(entries) ==
  \E e, f \in entries : e # f /\ e.text.name = f.text.name

ValidAgent(text) == text.kind = "agent" /\ text.ok

(* loadSharedAgentRegistry: first it is checked, for each file in turn,    *)
(* where it lies, then they are counted.                                   *)
AgentCandidates == InOrder(collected["sharedAgents"])

CheckAgent ==
  /\ stage = "agents"
  /\ IF Len(agentFiles) = Len(AgentCandidates)
     THEN /\ IF Len(agentFiles) > project.maxAgents THEN Refuse("SHARED_AGENT_INVALID_DEFINITION")
             ELSE Proceed("definitions")
          /\ UNCHANGED <<agentFiles, checkVars>>
     ELSE LET real == disk[AgentCandidates[Len(agentFiles) + 1].real].real
          IN IF real = Outside
             THEN /\ Refuse("SHARED_AGENT_SECURITY_POLICY_VIOLATION")
                  /\ UNCHANGED <<agentFiles, checkVars>>
             ELSE /\ agentFiles' = Append(agentFiles, real)
                  /\ Checked("sharedAgents", real) /\ Proceed("agents")
  /\ UNCHANGED <<project, disk, edits, scanVars, agents, toolVars, registryVars, walkVars>>

(* Then each is read, evaluated and registered.                            *)
ReadAgent ==
  /\ stage = "definitions"
  /\ LET read == Cardinality(DOMAIN agents)
     IN IF read = Len(agentFiles) THEN Proceed("tools") /\ UNCHANGED <<agents, checkVars>>
        ELSE LET path == agentFiles[read + 1]
                 entry == Entry(disk, path)
             IN /\ Read("sharedAgents", path)
                /\ CASE ~ValidAgent(entry.text) ->
                          Refuse("SHARED_AGENT_INVALID_DEFINITION") /\ UNCHANGED agents
                     [] ValidAgent(entry.text) /\ entry.text.name \in DOMAIN agents ->
                          Refuse("SHARED_AGENT_DUPLICATE_ID") /\ UNCHANGED agents
                     [] OTHER -> agents' = Put(agents, entry.text.name, entry)
                                 /\ Proceed("definitions")
  /\ UNCHANGED <<project, disk, edits, scanVars, agentFiles, toolVars, registryVars, walkVars>>

-----------------------------------------------------------------------------
(* loadToolRegistry.  The files are checked first; behind a link to the    *)
(* project none passes for one inside of it.  Here as below the order of   *)
(* the files is left out: each refusal has the same code.                  *)
ToolFiles == {f.real : f \in collected["tools"]}

CheckTool ==
  /\ stage = "tools"
  /\ LET left == {path \in ToolFiles : <<"tools", path>> \notin checked}
     IN IF left = {} THEN Proceed("contracts") /\ UNCHANGED checkVars
        ELSE IF project.linked \/ ~Inside(disk, Min(left))
        THEN Refuse("SECURITY_POLICY_VIOLATION") /\ UNCHANGED checkVars
        ELSE Checked("tools", Min(left)) /\ Proceed("tools")
  /\ UNCHANGED <<project, disk, edits, scanVars, agentVars, toolVars, registryVars, walkVars>>

(* Then the contract of each file is read without running it, through the  *)
(* path under which the file was found; all that is wrong is reported      *)
(* together.  The directory for the copies is made.                        *)
HasContract(text) == text.kind = "tool" /\ text.meta # "none" /\ text.ok

Pending(paths, passed) ==
  LET order == SetToSortSeq(paths, LAMBDA a, b : a < b)
  IN [i \in DOMAIN order |-> [path |-> order[i], passed |-> passed]]

CompareContracts ==
  LET entries == {[path |-> p, text |-> contracts[p]] : p \in ToolFiles}
  IN CASE \E path \in ToolFiles : ~HasContract(contracts[path]) ->
            Refuse("TOOL_INVALID_DEFINITION") /\ UNCHANGED <<temp, pending>>
       [] (\A path \in ToolFiles : HasContract(contracts[path])) /\ SharedName(entries) ->
            Refuse("TOOL_DUPLICATE_DEFINITION") /\ UNCHANGED <<temp, pending>>
       [] OTHER -> /\ temp' = TRUE
                   /\ pending' = Pending(ToolFiles, TRUE)
                   /\ Proceed("imports")

ReadContract ==
  /\ stage = "contracts"
  /\ LET left == ToolFiles \ DOMAIN contracts
         found == CHOOSE c \in collected["tools"] : c.real = Min(left)
     IN IF left = {} THEN CompareContracts /\ UNCHANGED <<contracts, checkVars>>
        ELSE /\ contracts' = Put(contracts, Min(left), Written(disk, found.path))
             /\ Read("tools", Min(left))
             /\ Proceed("contracts") /\ UNCHANGED <<temp, pending>>
  /\ UNCHANGED <<project, disk, edits, scanVars, agentVars, inspected, mirror, tools,
                 registryVars, walkVars>>

-----------------------------------------------------------------------------
(* What stops the copying is reported when the copies are taken away.      *)
Abandon(code) == stage' = "import" /\ verdict' = code

(* inspectImportsRecursive, depth first: no import may leave the workspace *)
(* or be excluded.  A file that is not there is passed over.               *)
CheckImport ==
  /\ stage = "imports" /\ pending # <<>> /\ ~Head(pending).passed
  /\ LET path == Head(pending).path
         real == disk[path].real
     IN CASE disk[path].kind = "missing" ->
               pending' = Tail(pending) /\ Proceed("imports") /\ UNCHANGED checkVars
          [] /\ disk[path].kind # "missing"
             /\ real = Outside \/ Excluded(Discovered["tools"], real) ->
               Abandon("SECURITY_POLICY_VIOLATION") /\ UNCHANGED <<pending, checkVars>>
          [] OTHER -> /\ pending' = <<[path |-> real, passed |-> TRUE]>> \o Tail(pending)
                      /\ Checked("imports", real) /\ Proceed("imports")
  /\ UNCHANGED <<project, disk, edits, scanVars, agentVars, contracts, inspected, mirror, temp,
                 tools, registryVars, walkVars>>

InspectFile ==
  /\ stage = "imports" /\ pending # <<>> /\ Head(pending).passed
  /\ LET path == Head(pending).path
         real == disk[path].real
         imports == IF real \in inspected THEN {} ELSE disk[real].text.imports
     IN /\ pending' = Pending(imports, FALSE) \o Tail(pending)
        /\ inspected' = inspected \cup {real}
        /\ Read("imports", path)
  /\ UNCHANGED <<project, disk, edits, stage, verdict, scanVars, agentVars, contracts, mirror,
                 temp, tools, registryVars, walkVars>>

(* mirrorDirectory: what is beside a tool file is copied with it, unless   *)
(* excluded, and must not leave the workspace either.                      *)
StartMirror ==
  /\ stage = "imports" /\ pending = <<>>
  /\ pending' = Pending(ToolFiles \cup (IF ToolFiles = {} THEN {} ELSE project.beside), FALSE)
  /\ inspected' = {}
  /\ Proceed("mirror")
  /\ UNCHANGED <<project, disk, edits, scanVars, checkVars, agentVars, contracts, mirror, temp,
                 tools, registryVars, walkVars>>

CheckEntry ==
  /\ stage = "mirror" /\ pending # <<>> /\ ~Head(pending).passed
  /\ LET path == Head(pending).path
     IN CASE ~Inside(disk, path) ->
               Abandon("SECURITY_POLICY_VIOLATION") /\ UNCHANGED <<pending, checkVars>>
          [] Inside(disk, path) /\ Excluded(Discovered["tools"], path) ->
               pending' = Tail(pending) /\ Proceed("mirror") /\ UNCHANGED checkVars
          [] OTHER -> /\ pending' = <<[path |-> path, passed |-> TRUE]>> \o Tail(pending)
                      /\ Checked("tools", path) /\ Proceed("mirror")
  /\ UNCHANGED <<project, disk, edits, scanVars, agentVars, contracts, inspected, mirror, temp,
                 tools, registryVars, walkVars>>

(* The file is read anew, wherever its path leads by now.                  *)
CopyEntry ==
  /\ stage = "mirror" /\ pending # <<>> /\ Head(pending).passed
  /\ LET path == Head(pending).path
     IN mirror' = Put(mirror, path, Written(disk, path)) /\ Read("tools", path)
  /\ pending' = Tail(pending)
  /\ UNCHANGED <<project, disk, edits, stage, verdict, scanVars, agentVars, contracts, inspected,
                 temp, tools, registryVars, walkVars>>

MirrorIsComplete ==
  /\ stage = "mirror" /\ pending = <<>>
  /\ Proceed("import")
  /\ UNCHANGED <<project, disk, edits, scanVars, checkVars, agentVars, toolVars, registryVars,
                 walkVars>>

(* assertRuntimeDefinitionMatchesStaticContract: the definition that the   *)
(* copy exports is the one that was validated.                             *)
KeepsContractByName(path) ==
  /\ path \in DOMAIN mirror /\ HasContract(mirror[path])
  /\ mirror[path].name = contracts[path].name

KeepsContract(path) ==
  /\ path \in DOMAIN mirror /\ HasContract(mirror[path])
  /\ mirror[path].name = contracts[path].name
  /\ mirror[path].version = contracts[path].version

(* loadMirroredToolModules and buildToolRegistry; the finally clause tries *)
(* to take the copies away, whatever the outcome.                          *)
ToolImport ==
  /\ stage = "import"
  /\ temp' = FALSE
  /\ CASE verdict # Accepted -> Refuse(verdict) /\ UNCHANGED tools
       [] verdict = Accepted /\ \E path \in ToolFiles : ~KeepsContract(path) ->
            Refuse("TOOL_INVALID_DEFINITION") /\ UNCHANGED tools
       [] verdict = Accepted /\ \A path \in ToolFiles : KeepsContract(path) ->
            IF Cardinality(ToolFiles) > project.maxTools
            THEN Refuse("TOOL_INVALID_DEFINITION") /\ UNCHANGED tools
            ELSE /\ tools' = Registered({[path |-> p, text |-> mirror[p]] : p \in ToolFiles})
                 /\ Proceed("collect")
  /\ UNCHANGED <<project, disk, edits, scanVars, checkVars, agentVars, contracts, importVars,
                 mirror, registryVars, walkVars>>

-----------------------------------------------------------------------------
(* discoverWorkflowRegistry: the paths to read, those of the candidates    *)
(* after that of the root.  After a run by name only those count whose     *)
(* real file is one of the paths the name was resolved with, and every one *)
(* of them must parse; otherwise only old keys forgive a file that does    *)
(* not.                                                                    *)
CollectWorkflows ==
  /\ stage = "collect"
  /\ LET Chosen(c) == ~project.linked /\ c.real \in target.narrowing[1]
         Must(c) == Given(target.narrowing) \/ c.source \notin {"legacy-discovery", "legacy-dir"}
         candidates == InOrder({c \in collected["workflow"] :
                                  /\ c.real # target.path
                                  /\ Given(target.narrowing) => Chosen(c)})
     IN queue' = [i \in DOMAIN candidates |->
                    [path |-> candidates[i].real, strict |-> Must(candidates[i])]]
  /\ Proceed("root")
  /\ UNCHANGED <<project, disk, edits, scanVars, checkVars, agentVars, toolVars, seen, ambiguous,
                 registry, walkVars>>

(* What a script is validated against.                                     *)
Env(names) ==
  [ tools |-> DOMAIN tools, agents |-> DOMAIN agents, providers |-> project.providers,
    names |-> names, ceiling |-> RoundCeiling, dynamicIds |-> project.dynamicIds,
    schemas |-> {id \in DOMAIN tools : tools[id].text.schema}
                \cup {id \in DOMAIN agents : agents[id].text.schema}
                \cup {n \in DOMAIN registry : registry[n].text.schema} ]

(* The loop over the paths: the real path of each is checked, and what was *)
(* seen already is passed over; the file is read next.                     *)
CheckRoot ==
  /\ stage = "root" /\ checked = {}
  /\ LET real == disk[target.path].real
     IN IF real = Outside THEN Refuse("SECURITY_POLICY_VIOLATION") /\ UNCHANGED <<checkVars, seen>>
        ELSE seen' = {real} /\ Checked("workflow", target.path) /\ Proceed("root")
  /\ UNCHANGED <<project, disk, edits, scanVars, agentVars, toolVars, queue, ambiguous, registry,
                 walkVars>>

(* The root must parse, and is validated at once, but for the names.       *)
ReadRoot ==
  /\ stage = "root" /\ checked # {}
  /\ LET entry == Entry(disk, target.path)
         fault == IF Parses(entry.text) THEN VerdictOf(ScriptIssues(Env(<<>>), entry.text.script))
                  ELSE "WORKFLOW_PARSE_ERROR"
     IN IF fault = Accepted THEN registry' = Put(<<>>, entry.text.name, entry) /\ Proceed("read")
        ELSE UNCHANGED registry /\ Refuse(fault)
  /\ Read("workflow", target.path)
  /\ UNCHANGED <<project, disk, edits, scanVars, agentVars, toolVars, queue, seen, ambiguous,
                 walkVars>>

CheckWorkflow ==
  /\ stage = "read" /\ queue # <<>> /\ checked = {}
  /\ LET real == disk[Head(queue).path].real
     IN CASE real = Outside ->
               Refuse("SECURITY_POLICY_VIOLATION") /\ UNCHANGED <<queue, seen, checkVars>>
          [] real # Outside /\ real \in seen ->
               queue' = Tail(queue) /\ Proceed("read") /\ UNCHANGED <<seen, checkVars>>
          [] OTHER -> /\ seen' = seen \cup {real} /\ Checked("workflow", Head(queue).path)
                      /\ Proceed("read") /\ UNCHANGED queue
  /\ UNCHANGED <<project, disk, edits, scanVars, agentVars, toolVars, ambiguous, registry,
                 walkVars>>

(* Two files of one name: the root keeps it; of two others neither counts. *)
Adopted(entry) ==
  LET name == entry.text.name
  IN CASE name \in DOMAIN registry ->
            IF registry[name].path = target.path THEN [defs |-> registry, drops |-> {}]
            ELSE [ defs |-> [n \in DOMAIN registry \ {name} |-> registry[n]],
                   drops |-> {name} ]
       [] name \notin DOMAIN registry ->
            [ defs |-> IF name \in ambiguous THEN registry ELSE Put(registry, name, entry),
              drops |-> {} ]

ReadWorkflow ==
  /\ stage = "read" /\ queue # <<>> /\ checked # {}
  /\ LET next == Head(queue)
         entry == Entry(disk, next.path)
         Stop(code) == Refuse(code) /\ UNCHANGED <<ambiguous, registry>>
     IN /\ queue' = Tail(queue)
        /\ Read("workflow", next.path)
        /\ CASE ~Parses(entry.text) ->
                  IF next.strict THEN Stop("WORKFLOW_PARSE_ERROR")
                  ELSE Proceed("read") /\ UNCHANGED <<ambiguous, registry>>
             [] Parses(entry.text) ->
                  IF Given(target.narrowing) /\ Adopted(entry).drops # {}
                  THEN Stop("WORKFLOW_DUPLICATE_DEFINITION")
                  ELSE /\ registry' = Adopted(entry).defs
                       /\ ambiguous' = ambiguous \cup Adopted(entry).drops
                       /\ Proceed("read")
  /\ UNCHANGED <<project, disk, edits, scanVars, agentVars, toolVars, seen, walkVars>>

-----------------------------------------------------------------------------
(* validateRegistryDependencies, from the root.                            *)
IssuesOf(name) == ScriptIssues(Env(<<DOMAIN registry>>), registry[name].text.script)
Frame(name) ==
  [name |-> name, todo |-> Dependencies(registry[name].text.script), issues |-> IssuesOf(name)]
RootName == CHOOSE n \in DOMAIN registry : registry[n].path = target.path

StartWalk ==
  /\ stage = "read" /\ queue = <<>>
  /\ stack' = <<Frame(RootName)>>
  /\ Proceed("walk")
  /\ UNCHANGED <<project, disk, edits, scanVars, checkVars, agentVars, toolVars, registryVars,
                 walked>>

(* check() of the next dependency: one that is being visited closes a      *)
(* cycle, one that was left has its issues kept, an unknown one is an      *)
(* issue itself.                                                           *)
VisitDependency ==
  /\ stage = "walk" /\ Last(stack).todo # {}
  /\ LET name == CHOOSE n \in Last(stack).todo : TRUE
         Told(issues) == [stack EXCEPT ![Len(stack)] =
                            [ name |-> @.name, todo |-> @.todo \ {name},
                              issues |-> @.issues \cup issues ]]
     IN CASE \E i \in DOMAIN stack : stack[i].name = name ->
               Refuse("WORKFLOW_VALIDATION_ERROR") /\ UNCHANGED stack
          [] OTHER ->
               /\ Proceed("walk")
               /\ stack' = CASE name \in DOMAIN walked -> Told(walked[name])
                             [] name \notin DOMAIN walked \cup DOMAIN registry ->
                                  Told({"WORKFLOW_VALIDATION_ERROR"})
                             [] OTHER -> Append(Told({}), Frame(name))
  /\ UNCHANGED <<project, disk, edits, scanVars, checkVars, agentVars, toolVars, registryVars,
                 walked>>

LeaveForgets(stack_) == SubSeq(stack_, 1, Len(stack_) - 1)

(* The issues of a workflow are also those of the one that calls it.       *)
Leave(stack_) ==
  LET above == SubSeq(stack_, 1, Len(stack_) - 1)
  IN IF above = <<>> THEN above
     ELSE [above EXCEPT ![Len(above)] = [ name |-> @.name, todo |-> @.todo,
                                          issues |-> @.issues \cup Last(stack_).issues ]]

LeaveWorkflow ==
  /\ stage = "walk" /\ Last(stack).todo = {}
  /\ walked' = Put(walked, Last(stack).name, Last(stack).issues)
  /\ stack' = Leave(stack)
  /\ IF Len(stack) > 1 THEN Proceed("walk")
     ELSE IF Last(stack).issues = {} THEN Proceed("ready")
     ELSE Refuse(VerdictOf(Last(stack).issues))
  /\ UNCHANGED <<project, disk, edits, scanVars, checkVars, agentVars, toolVars, registryVars>>

Next ==
  \/ Edit
  \/ Precollect \/ ResolveTarget \/ ParseTarget
  \/ CheckAgent \/ ReadAgent
  \/ CheckTool \/ ReadContract \/ CheckImport \/ InspectFile
  \/ StartMirror \/ CheckEntry \/ CopyEntry \/ MirrorIsComplete \/ ToolImport
  \/ CollectWorkflows \/ CheckRoot \/ ReadRoot \/ CheckWorkflow \/ ReadWorkflow
  \/ StartWalk \/ VisitDependency \/ LeaveWorkflow

Spec == Init /\ [][Next]_vars
-----------------------------------------------------------------------------
(* Properties.                                                             *)
CallsOf(name) == Dependencies(registry[name].text.script)

(* What a workflow calls, directly or through others: what is in every set *)
(* that has the ones it calls and those that its members call.             *)
Reached(name) ==
  LET names == DOMAIN registry \cup UNION {CallsOf(n) : n \in DOMAIN registry}
      Closed(S) == \A n \in S \cap DOMAIN registry : CallsOf(n) \subseteq S
  IN {m \in names : \A S \in SUBSET names : CallsOf(name) \subseteq S /\ Closed(S) => m \in S}

(* A run that starts has a registry in which everything the root calls,    *)
(* directly or through others, is present, has passed the validation, and  *)
(* does not call itself again; and however loading ends, the removal of    *)
(* the copies was tried.                                                   *)
RegistryIsClosed ==
  /\ stage \in Stages
  /\ stage \in {"ready", "refused"} => ~temp
  /\ stage = "ready" =>
       \A n \in {RootName} \cup Reached(RootName) :
         n \in DOMAIN registry /\ IssuesOf(n) = {} /\ n \notin Reached(n)

(* What is registered as a tool is a tool file as it was validated: one    *)
(* that was found, under the id and with the version of the contract that  *)
(* was read of it, whoever has edited it since; and no file is left out.   *)
ToolsAreAsValidated ==
  /\ \A id \in DOMAIN tools : LET t == tools[id] IN
       /\ t.path \in ToolFiles /\ HasContract(t.text)
       /\ contracts[t.path].name = id /\ t.text.name = id
       /\ contracts[t.path].version = t.text.version
  /\ stage = "ready" => \A path \in ToolFiles : \E id \in DOMAIN tools : tools[id].path = path

(* What a run may call was meant to be there.  A workflow other than the   *)
(* root was matched by an include, not excluded, lay in the workspace when *)
(* it was found and is the only one of its name; an agent or a tool is the *)
(* only one of its id; and a tool is registered under the contract that    *)
(* was validated, even if the file was edited while it was loaded.  What   *)
(* lies outside is never loaded through a link that was there at the check *)
(* before the read; the check is not repeated at the read, so a file that  *)
(* becomes such a link between the two (late) is read through it.          *)
Matched(resource, real) ==
  \E c \in collected[resource] :
    /\ c.real = real /\ real # Outside /\ ~Excluded(Discovered[resource], c.path)
    /\ \E p \in ToSet(Discovered[resource].include) : c.path \in p.matches
(* Entries with the text of the file outside, as <<resource, path>>.       *)
FromOutside(entries, resource) ==
  {<<resource, entries[k].path>> : k \in {k \in DOMAIN entries :
                                          entries[k].text = disk[Outside].text}}
NothingStrayIsLoaded ==
  stage = "ready" =>
    /\ \A n \in DOMAIN registry :
         registry[n].path # target.path =>
           /\ Matched("workflow", registry[n].path)
           /\ project.edits = {} =>
                \A c \in collected["workflow"] :
                  /\ Parses(Written(disk, c.path)) /\ Written(disk, c.path).name = n
                  /\ ~Given(target.narrowing)
                  => c.real = registry[n].path
    /\ Cardinality(collected["sharedAgents"]) = Cardinality(DOMAIN agents)
    /\ ToolsAreAsValidated
    /\ \A id \in DOMAIN tools : Matched("tools", tools[id].path)
    /\ FromOutside(registry, "workflow") \cup FromOutside(agents, "sharedAgents")
         \cup FromOutside(tools, "tools") \subseteq late

(* The two guards of tool() agree.  In a workflow that is run, a tool call *)
(* which the run time lets through stands where the documentation allows   *)
(* it: no task of parallel(), no stage, no shared agent around it, and the *)
(* global one in no round; a call that the validation recognised is let    *)
(* through, unless it stands in a getter or setter.  A loop called through *)
(* another name escapes the validation.                                    *)
Around(site, frames) == \E i \in DOMAIN site.path : site.path[i] \in frames
PlacementsAgree ==
  stage = "ready" =>
    \A n \in {RootName} \cup Reached(RootName) :
      \A site \in {s \in registry[n].text.script.sites :
                     s.method = "tool" /\ Bound(s) /\ ~Around(s, {"alias-round"})} :
        /\ ToolRuns(site) =>
             /\ ~Around(site, {"task", "stage", "definition"})
             /\ site.on = "global" => ~Around(site, Rounds)
        /\ ToolRuns(site) \/ Around(site, {"accessor"})

(* A project with nothing wrong in it is not refused.                      *)
Sound(text, resource) ==
  CASE resource = "workflow" -> Parses(text) /\ text.script.schemaOk
    [] resource = "sharedAgents" -> ValidAgent(text)
    [] resource = "tools" -> HasContract(text) /\ text.imports = {}
Alone(files) == \A e, f \in files : e.real # f.real =>
                  Written(disk, e.path).name # Written(disk, f.path).name
Documented(site) ==
  /\ site.method \in {"tool", "agent", "workflow", "loop"}
  /\ site.arg.shape = "object" /\ ~site.arg.bad /\ site.arg.args = "fits"
  /\ CASE site.method = "tool" -> /\ site.arg.ref \in DOMAIN tools
                                  /\ \/ site.on = "global" /\ site.path = <<"main">>
                                     \/ \E f \in {"round", "ctx-round"} :
                                          /\ site.path = <<"main", f>>
                                          /\ site.on \in BoundIn(f)
       [] site.method = "agent" -> site.arg.ref \in DOMAIN agents /\ site.arg.extra = {}
       [] site.method = "workflow" ->
            \E f \in collected["workflow"] : Written(disk, f.path).name = site.arg.ref
       [] site.method = "loop" -> /\ site.path = <<"main">> /\ site.on = "global"
                                  /\ site.arg.ref = "dynamic"
                                  /\ site.arg.extra \subseteq 1..RoundCeiling
Clean ==
  /\ project.edits = {} /\ ~project.linked /\ project.beside = {}
  /\ ConfigSaid(Discovered) = {}
  /\ \A r \in Resources : LET c == Collected(r, Discovered[r], disk, FALSE, TRUE) IN
       /\ c.said = {} /\ c.listed = {} /\ Alone(c.files) /\ c.files # {}
       /\ \A f \in c.files : f.real = f.path /\ Sound(Written(disk, f.path), r)
  /\ Cardinality(Collected("sharedAgents", Discovered["sharedAgents"], disk, FALSE, TRUE).files)
       <= project.maxAgents
  /\ Cardinality(Collected("tools", Discovered["tools"], disk, FALSE, TRUE).files)
       <= project.maxTools
  /\ \E f \in Collected("workflow", Discovered["workflow"], disk, FALSE, TRUE).files :
       IF project.byName THEN Written(disk, f.path).name = project.target
       ELSE f.path = project.asFile
Faulty(text) == \E site \in text.script.sites : ~Documented(site)
RefusalsAreJustified ==
  stage = "refused" /\ Clean =>
    \/ Faulty(Written(disk, target.path))
    \/ /\ registry # <<>>
       /\ \E n \in {RootName} \cup Reached(RootName) :
            n \in DOMAIN registry /\ (n \in Reached(n) \/ Faulty(registry[n].text))
=============================================================================
