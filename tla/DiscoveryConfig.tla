-------------------------- MODULE DiscoveryConfig --------------------------
(* Where a run looks for workflows, shared agents and tools: the keys of   *)
(* the configuration and the directories of the command line, brought to   *)
(* one list of patterns to take and one to leave out for each resource     *)
(* (config/path-discovery.ts, config/path-safety.ts,                       *)
(* discovery/compile-patterns.ts).                                         *)
(*                                                                         *)
(* A pattern is [form, fault, matches, generic, base]: what its text is    *)
(* taken for, what is wrong with it, the paths it matches, whether it ends *)
(* in a bare extension such as .js, and the state of the directory (or of  *)
(* the file, for a literal path) that it starts at.  A list is             *)
(* [ok, patterns], ok being false when it is not an array of strings.      *)
(* The keys of a resource are [cli, include, exclude, old, default], each  *)
(* of the first three <<>> or <<value>>; old is [ok, include, exclude].    *)
EXTENDS Naturals, SequencesExt

Resources == {"workflow", "sharedAgents", "tools"}
Given(option) == option # <<>>

-----------------------------------------------------------------------------
(* Which key the patterns come from.                                       *)
IncludeSource(resource, keys) ==
  CASE Given(keys.cli) -> "cli-override"
    [] ~Given(keys.cli) /\ Given(keys.include) -> "new"
    [] ~Given(keys.cli) /\ ~Given(keys.include) /\ keys.old.ok /\ Given(keys.old.include) ->
         IF resource = "workflow" THEN "legacy-discovery" ELSE "legacy-dir"
    [] OTHER -> "default"

ExcludeSource(resource, keys) ==
  CASE Given(keys.exclude) -> "new"
    [] /\ ~Given(keys.exclude) /\ resource = "workflow"
       /\ keys.old.ok /\ Given(keys.old.exclude) -> "legacy-discovery"
    [] OTHER -> "default"

Listed(patterns) == [ok |-> TRUE, patterns |-> patterns]

IncludeList(resource, keys) ==
  CASE IncludeSource(resource, keys) = "cli-override" -> Listed(keys.cli)
    [] IncludeSource(resource, keys) = "new" -> keys.include[1]
    [] IncludeSource(resource, keys) \in {"legacy-discovery", "legacy-dir"} ->
         keys.old.include[1]
    [] IncludeSource(resource, keys) = "default" -> Listed(keys.default)

(* The excludes of DEFAULT_CONFIG are not used when the user gives none.   *)
ExcludeList(resource, keys) ==
  CASE ExcludeSource(resource, keys) = "new" -> keys.exclude[1]
    [] ExcludeSource(resource, keys) = "legacy-discovery" -> keys.old.exclude[1]
    [] ExcludeSource(resource, keys) = "default" -> Listed(<<>>)

-----------------------------------------------------------------------------
(* A diagnostic of the configuration.  Every error here is fatal in a      *)
(* strict context, no warning is.                                          *)
Diagnostic(resource, level, code) == [resource |-> resource, level |-> level, code |-> code]
FatalInStrict(d) == d.level = "error"

(* normalizePatternForMatching, then classifyPathPattern.                  *)
NoFault == "none"
SafetyFault(p, source) ==
  CASE p.fault = "empty" -> "EMPTY_PATTERN"
    [] p.fault = "slash" -> "DIRECTORY_ONLY"
    [] p.fault = "absolute" /\ source # "cli-override" -> "ABSOLUTE_CONFIG_PATTERN"
    [] p.fault = "absolute-outside" ->
         IF source = "cli-override" THEN "OUTSIDE_WORKSPACE" ELSE "ABSOLUTE_CONFIG_PATTERN"
    [] p.fault = "outside" -> "OUTSIDE_WORKSPACE"
    [] OTHER -> NoFault

PatternFault(p, source) ==
  CASE SafetyFault(p, source) # NoFault -> SafetyFault(p, source)
    [] SafetyFault(p, source) = NoFault /\ p.form = "suffix" -> "UNSUPPORTED_RESOURCE_SUFFIX"
    [] SafetyFault(p, source) = NoFault /\ p.form = "directory" -> "DIRECTORY_ONLY"
    [] OTHER -> NoFault

Kept(list, source) ==
  IF list.ok THEN SelectSeq(list.patterns, LAMBDA p : PatternFault(p, source) = NoFault)
  ELSE <<>>

ListErrors(resource, list, source) ==
  IF list.ok
  THEN {Diagnostic(resource, "error", PatternFault(p, source)) :
          p \in {q \in ToSet(list.patterns) : PatternFault(q, source) # NoFault}}
  ELSE {Diagnostic(resource, "error", "INVALID_TYPE")}

(* The notes on keys that give way to others, and on old ones.             *)
SourceNotes(resource, keys) ==
  LET include == IncludeSource(resource, keys)
      oldInclude == keys.old.ok /\ Given(keys.old.include)
      oldExclude == resource = "workflow" /\ keys.old.ok /\ Given(keys.old.exclude)
      Note(said, code) == IF said THEN {Diagnostic(resource, "warning", code)} ELSE {}
  IN Note(include = "cli-override", "CLI_OVERRIDE_USED")
     \cup Note(\/ include = "new" /\ oldInclude
               \/ Given(keys.exclude) /\ oldExclude, "NEW_OVERRIDES_LEGACY")
     \cup Note(\/ include \in {"legacy-discovery", "legacy-dir"}
               \/ ExcludeSource(resource, keys) = "legacy-discovery",
               "LEGACY_KEY_USED")
     \cup IF keys.old.ok THEN {} ELSE {Diagnostic(resource, "error", "INVALID_TYPE")}

(* normalizeResourceDiscovery: what is left of the two lists, and all that *)
(* was said on the way.                                                    *)
NormalizedResource(resource, keys) ==
  LET from == IncludeSource(resource, keys)
      leaves == ExcludeSource(resource, keys)
  IN [ source |-> from, excludeSource |-> leaves,
       include |-> Kept(IncludeList(resource, keys), from),
       exclude |-> Kept(ExcludeList(resource, keys), leaves),
       said |-> SourceNotes(resource, keys)
                \cup ListErrors(resource, IncludeList(resource, keys), from)
                \cup ListErrors(resource, ExcludeList(resource, keys), leaves) ]

(* normalizeDiscoveryConfig.                                               *)
NormalizedDiscovery(keys) ==
  [resource \in Resources |-> NormalizedResource(resource, keys[resource])]
ConfigSaid(discovery) == UNION {discovery[resource].said : resource \in Resources}

(* computeMarkerPolicy: must the name of a file that the pattern matches   *)
(* carry .workflow., .agent. or .tool.?                                    *)
MarkerRequired(discovered, p) ==
  /\ discovered.source \notin {"cli-override", "legacy-discovery", "legacy-dir"}
  /\ ~p.generic
=============================================================================
