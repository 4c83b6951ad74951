-------------------------- MODULE RunConfiguration --------------------------
(* How a run command comes to its configuration, what an agent that is     *)
(* called under it gets, and how resume replays the command                *)
(* (cli/commands/run.ts, cli/commands/resume.ts, config/load.ts).          *)
(*                                                                         *)
(* A scenario is a project, a command line, a call that the workflow makes *)
(* and, if the run is resumed, what the project has become by then and the *)
(* options of the resume.  Everything that the commands read and decide    *)
(* follows from it; the value of a setting is the name of who wrote it.    *)
(* An operator that no other definition uses is a variant of the one after *)
(* it, with one mistake in it; the run uses it to test the properties.     *)
EXTENDS ProviderSelection, Profiles

CONSTANTS
  Scenarios,     \* the projects, command lines and calls looked at, in families
  AliasOrder,    \* the names that aliases have, sorted
  BuiltIns       \* the built-in providers (BUILT_IN_PROVIDER_NAMES)

VARIABLES
  scenario,      \* what is given; fixed
  pc,            \* what the command does next
  outcome,       \* how the last command ended: None, "ok" or an error code
  file,          \* config.yaml as it is on disk
  flags,         \* the options of the command
  base,          \* the configuration of the first load, without a profile
  profile,       \* the selected profile
  config,        \* the configuration of the second load, with it
  selection,     \* what the agent got
  recorded,      \* run-input.json of the last run, with the place of the run
  first          \* what the agent of the first run got, and its run settings

vars == <<scenario, pc, outcome, file, flags, base, profile, config, selection,
          recorded, first>>

-----------------------------------------------------------------------------
(* loadConfig.  cli is [run, noRetry, retry].  The settings of a run come  *)
(* from the flags, then the file, then DEFAULT_CONFIG.                     *)
RunSettings == {"concurrency", "failFast"}
NotLoaded == [error |-> None, found |-> [aliases |-> <<>>, error |-> None]]

AliasInput(f) ==
  [ defs |-> f.aliases, order |-> AliasOrder, providers |-> DOMAIN f.providers,
    builtIns |-> BuiltIns, maxDepth |-> f.aliasMaxDepth ]

OutDir(f, out, selected) ==
  CASE out -> "cli"
    [] ~out /\ "outDir" \in DOMAIN selected.resolved.run ->
         selected.resolved.run.outDir
    [] ~out /\ "outDir" \notin DOMAIN selected.resolved.run /\ f.outDir -> "file"
    [] OTHER -> "builtIn"

Restricted(says, settings) == [s \in DOMAIN says \cap settings |-> says[s]]

Merged(f, cli) ==
  cli.run @@ f.defaults
  @@ [provider |-> "mock", concurrency |-> "builtIn", failFast |-> "builtIn"]

LoadFault(f, found, merged) ==
  IF ~f.ok THEN "CONFIG_VALIDATION_ERROR"
  ELSE IF found.error # None THEN found.error
  ELSE IF merged.provider \notin DOMAIN f.providers \cup DOMAIN found.aliases
  THEN "PROVIDER_REFERENCE_NOT_FOUND" ELSE None

Loaded(f, cli, outDir, found, merged) ==
  IF LoadFault(f, found, merged) # None
  THEN [error |-> LoadFault(f, found, merged), found |-> found]
  ELSE LET cliRetry == [noRetry |-> cli.noRetry, fields |-> cli.retry]
       IN [ error |-> None, found |-> found, providers |-> f.providers,
            profiles |-> f.profiles, settings |-> Restricted(merged, RunSettings),
            retry |-> GlobalPolicy(f.retry, cliRetry), outDir |-> outDir,
            layers |->
              [ cli |-> Restricted(cli.run, CallSettings \cup {"provider"}),
                cliRetry |-> cliRetry,
                config |-> Restricted(f.defaults,
                                      {"provider", "model", "timeoutMs"}),
                configRetry |-> f.retry ] ]

LoadConfig(f, cli, out, selected) ==
  Loaded(f, cli, OutDir(f, out, selected), ResolveAliases(AliasInput(f)),
         Merged(f, cli))

(* parseRetryCliOptions: --no-retry goes with no other retry option.       *)
UsageError(raw) == raw.noRetry /\ DOMAIN raw.retry # {}

Explicit(raw) == [run |-> raw.run, noRetry |-> raw.noRetry, retry |-> raw.retry]

(* The flags over the profile, as resume merges them; the run command also *)
(* lets a flag that tunes retry take back the no of the profile            *)
(* (mergedCliOverrides).                                                   *)
PlainlyMerged(asFlags, explicit) ==
  [ run |-> explicit.run @@ asFlags.run,
    retry |-> explicit.retry @@ asFlags.retry,
    noRetry |-> explicit.noRetry \/ asFlags.noRetry ]

MergedFlags(asFlags, explicit) ==
  [ run |-> explicit.run @@ asFlags.run,
    retry |-> explicit.retry @@ asFlags.retry,
    noRetry |-> explicit.noRetry
                \/ (asFlags.noRetry /\ DOMAIN explicit.retry = {}) ]

(* validateProfileOptions: the external file first, then the catalog.      *)
RunCatalog(loaded, raw) ==
  Catalog(loaded.profiles,
          IF raw.profiles THEN scenario.external.profiles ELSE <<>>)

ResolvedProfile(loaded, raw) ==
  CASE raw.profiles /\ scenario.external.state # "ok" ->
         [NoSelection EXCEPT !.error =
            IF scenario.external.state = "missing" THEN "PROFILE_FILE_NOT_FOUND"
            ELSE "PROFILE_FILE_INVALID"]
    [] OTHER -> SelectProfile(RunCatalog(loaded, raw), raw.profile)

-----------------------------------------------------------------------------
NoRun == [flags |-> None, profile |-> None, source |-> None, outDir |-> None]
NotCalled == [selection |-> NotSelected, settings |-> <<>>]

Init ==
  /\ \E family \in Scenarios : scenario \in family
  /\ pc = "parse" /\ outcome = None
  /\ file = scenario.file /\ flags = scenario.flags
  /\ base = NotLoaded /\ profile = NoSelection /\ config = NotLoaded
  /\ selection = NotSelected /\ recorded = NoRun /\ first = NotCalled

Fail(code) ==
  /\ pc' = "ended" /\ outcome' = code

(* runWorkflowService: the options, the first load, the profile, the       *)
(* second load.  Each of them can end the command.                         *)
ParseOptions ==
  /\ pc = "parse"
  /\ IF UsageError(flags) THEN Fail("CLI_USAGE_ERROR")
     ELSE pc' = "base" /\ UNCHANGED outcome
  /\ UNCHANGED <<scenario, file, flags, base, profile, config, selection,
                 recorded, first>>

LoadBase ==
  /\ pc = "base"
  /\ base' = LoadConfig(file, Explicit(flags), flags.out, NoSelection)
  /\ IF base'.error # None THEN Fail(base'.error)
     ELSE pc' = "profile" /\ UNCHANGED outcome
  /\ UNCHANGED <<scenario, file, flags, profile, config, selection, recorded,
                 first>>

ResolveRunProfile ==
  /\ pc = "profile"
  /\ profile' = ResolvedProfile(base, flags)
  /\ IF profile'.error # None THEN Fail(profile'.error)
     ELSE pc' = "reload" /\ UNCHANGED outcome
  /\ UNCHANGED <<scenario, file, flags, base, config, selection, recorded, first>>

Reload ==
  /\ pc = "reload"
  /\ config' = LoadConfig(file,
                 MergedFlags(AsFlags(profile.resolved), Explicit(flags)),
                 flags.out, profile)
  /\ IF config'.error # None THEN Fail(config'.error)
     ELSE pc' = "record" /\ UNCHANGED outcome
  /\ UNCHANGED <<scenario, file, flags, base, profile, selection, recorded, first>>

(* run-input.json: the options as they were given, the effective failFast, *)
(* and the profile by its name.  --no-retry is not among them: it comes    *)
(* from the parser as retry: false, and noRetry is what is written down.   *)
RecordRun ==
  /\ pc = "record"
  /\ recorded' = [ flags |-> [flags EXCEPT !.noRetry = FALSE,
                                !.run = [failFast |-> config.settings.failFast]
                                        @@ @],
                   profile |-> profile.selected, source |-> profile.source,
                   outDir |-> config.outDir ]
  /\ pc' = "call"
  /\ UNCHANGED <<scenario, outcome, file, flags, base, profile, config, selection,
                 first>>

(* runDirectAgent up to the selection, and the adapter looked up.  An      *)
(* error is the result of the call and not the end of the command.         *)
CallAgent ==
  /\ pc = "call"
  /\ selection' =
       CheckedSelection(SelectProvider(scenario.call, config.layers,
                          config.found.aliases, config.providers, BuiltIns),
                        BuiltIns)
  /\ first' = IF flags.resume THEN first
              ELSE [selection |-> selection', settings |-> config.settings]
  /\ pc' = "ended" /\ outcome' = "ok"
  /\ UNCHANGED <<scenario, file, flags, base, profile, config, recorded>>

-----------------------------------------------------------------------------
(* Between the run and its continuation the project may be edited.  Then   *)
(* resumeCommand: look the run up, read what it recorded, ...              *)
Edit ==
  /\ pc = "ended" /\ outcome = "ok" /\ ~flags.resume
  /\ scenario.resume.asked
  /\ file' = scenario.resume.file
  /\ flags' = scenario.resume.flags
  /\ pc' = "lookup" /\ outcome' = None
  /\ base' = NotLoaded /\ profile' = NoSelection /\ config' = NotLoaded
  /\ selection' = NotSelected
  /\ UNCHANGED <<scenario, recorded, first>>

(* The root under which a bare run id is looked for: that of today's       *)
(* configuration, with the profile if one is given now.                    *)
LookUpFault(loaded, chosen, root) ==
  IF UsageError(flags) THEN "CLI_USAGE_ERROR"
  ELSE IF loaded.error # None THEN loaded.error
  ELSE IF flags.profile \notin DOMAIN loaded.profiles \cup {None}
  THEN "CLI_USAGE_ERROR"
  ELSE IF chosen.error # None THEN chosen.error ELSE root.error

LookUp ==
  /\ pc = "lookup"
  /\ LET loaded == LoadConfig(file, Explicit(flags), flags.out, NoSelection)
         chosen == ResolvedProfile(loaded, flags)
         root == LoadConfig(file,
                   PlainlyMerged(AsFlags(chosen.resolved), Explicit(flags)),
                   flags.out, chosen)
         error == LookUpFault(loaded, chosen, root)
     IN IF error # None
        THEN Fail(error) /\ UNCHANGED <<base, profile>>
        ELSE /\ base' = root /\ profile' = chosen
             /\ pc' = "find" /\ UNCHANGED outcome
  /\ UNCHANGED <<scenario, file, flags, config, selection, recorded, first>>

(* resolvePreviousRun: a path is taken as it is; an id is looked for under *)
(* the root and then under the built-in one.  Then what the run recorded   *)
(* is read, which may be gone or not what a run writes.                    *)
FindRun ==
  /\ pc = "find"
  /\ IF scenario.resume.byPath \/ recorded.outDir \in {base.outDir, "builtIn"}
     THEN CASE scenario.resume.record = "ok" -> pc' = "replay" /\ UNCHANGED outcome
            [] scenario.resume.record = "badProfile" -> Fail("PROFILE_VALIDATION_ERROR")
            [] scenario.resume.record \in {"missing", "invalid"} -> Fail("CLI_USAGE_ERROR")
     ELSE Fail("CLI_USAGE_ERROR")
  /\ UNCHANGED <<scenario, file, flags, base, profile, config, selection,
                 recorded, first>>

(* The recorded profile, unless another is given now, must still be in the *)
(* configuration (the external file is not asked), the workflow must have  *)
(* its name, and the command is the recorded one under the options given   *)
(* now.                                                                    *)
ReplayedFlagsOfNow(now) ==
  LET then == recorded.flags
  IN [ then EXCEPT !.run = now.run @@ @, !.retry = now.retry @@ @,
         !.noRetry = now.noRetry, !.out = now.out,
         !.profiles = FALSE, !.profile = now.profile, !.resume = TRUE ]

ReplayedFlags(now) ==
  LET then == recorded.flags
  IN [ then EXCEPT !.run = now.run @@ @, !.retry = now.retry @@ @,
         !.noRetry = now.noRetry, !.out = now.out, !.profiles = FALSE,
         !.profile = IF now.profile # None THEN now.profile ELSE recorded.profile,
         !.resume = TRUE ]

ReplayFault(chosen, again) ==
  LET old == flags.profile = None /\ recorded.profile # None
  IN IF old /\ recorded.profile \notin DOMAIN base.profiles THEN "CLI_USAGE_ERROR"
     ELSE IF old /\ chosen.error # None THEN chosen.error
     ELSE IF old /\ again.error # None THEN again.error
     ELSE IF scenario.resume.renamed THEN "WORKFLOW_RESUME_TARGET_CHANGED" ELSE None

Replay ==
  /\ pc = "replay"
  /\ LET chosen == SelectProfile(Catalog(base.profiles, <<>>), recorded.profile)
         again == LoadConfig(file,
                    PlainlyMerged(AsFlags(chosen.resolved), Explicit(flags)),
                    flags.out, chosen)
         error == ReplayFault(chosen, again)
     IN IF error # None THEN Fail(error) /\ UNCHANGED flags
        ELSE /\ flags' = ReplayedFlags(flags)
             /\ pc' = "parse" /\ UNCHANGED outcome
  /\ base' = NotLoaded /\ profile' = NoSelection
  /\ UNCHANGED <<scenario, file, config, selection, recorded, first>>

Next ==
  \/ ParseOptions \/ LoadBase \/ ResolveRunProfile \/ Reload \/ RecordRun
  \/ CallAgent \/ Edit \/ LookUp \/ FindRun \/ Replay

Spec == Init /\ [][Next]_vars

-----------------------------------------------------------------------------
(* What the commands are to come to, told from what is given.              *)
Called == pc = "ended" /\ outcome = "ok"
Resumed == Called /\ flags.resume

HeardProfiles(name) == IF name = None THEN <<>> ELSE Words(RunCatalog(base, flags), name)

(* What the profiles heard say of the settings; the last one has its way.  *)
ProfileSays ==
  LET words == HeardProfiles(flags.profile)
      Run(n) == RunCatalog(base, flags)[n].profile.run
      Giving(s) == SelectSeq(words, LAMBDA n : s \in DOMAIN Run(n))
      given == UNION {DOMAIN Run(n) : n \in ToSet(words)}
  IN [s \in given |-> Run(Last(Giving(s)))[s]]

(* What the aliases on the line of a name say.                             *)
LineSays(in, name) ==
  LET line == IF name \in DOMAIN in.defs THEN Line(in, name) ELSE <<>>
      Giving(s) == SelectSeq(line, LAMBDA n : s \in in.defs[n].gives)
      given == UNION {in.defs[n].gives : n \in ToSet(line)}
  IN [s \in given |-> Head(Giving(s))]

LineProvider(in, name) ==
  IF name \in DOMAIN in.defs THEN in.defs[Last(Line(in, name))].provider ELSE name

(* What is inherited is sound.  The aliases that the configuration holds   *)
(* are what their definitions make them, whichever was resolved first, and *)
(* it is refused with a reason when they make none.  A selected profile    *)
(* inherits from its bases in order, from every one, through whichever     *)
(* paths it reaches them, or is refused with a reason, whether it comes    *)
(* from the configuration or from a file of profiles.                      *)
InheritanceIsSound ==
  /\ base # NotLoaded /\ base.error # "CONFIG_VALIDATION_ERROR" =>
       AliasesFollow(AliasInput(file), base.found)
  /\ /\ profile # NoSelection
     /\ profile.error \notin {"PROFILE_FILE_NOT_FOUND", "PROFILE_FILE_INVALID"}
     => ProfileFollows(RunCatalog(base, flags), flags.profile, profile)

(* The name that the agent is called under, and what is given for that     *)
(* call alone or by the command line: stronger than any profile.           *)
RequestedName ==
  (scenario.call.gives @@ flags.run @@ ProfileSays @@ file.defaults
   @@ BuiltInLayer).provider

StrongerThanProfiles ==
  scenario.call.gives @@ LineSays(AliasInput(file), RequestedName) @@ flags.run

(* Nothing but a profile says how hard to think.                           *)
EffortOfProfileAlone ==
  /\ "thinkingEffort" \in DOMAIN ProfileSays
  /\ "thinkingEffort" \notin DOMAIN StrongerThanProfiles

(* The agent gets each setting from the first of: the call, the nearest    *)
(* alias, the flags, the last profile, the provider's configuration, the   *)
(* defaults of the file, what is built in.  (Of a thinking effort that a   *)
(* profile alone gives, see ProfileEffortIsHeard.)  This is told from the  *)
(* sources themselves and so spans both loads of the configuration, the    *)
(* merge of the flags and the selection; a resumed run obeys it with the   *)
(* options that it replays.                                                *)
PrecedenceHolds ==
  Called =>
    LET in == AliasInput(file)
        profileSays == ProfileSays
        name == RequestedName
        own == LineProvider(in, name)
        provider == IF own \in DOMAIN file.providers THEN file.providers[own]
                    ELSE [says |-> <<>>, thinking |-> <<>>]
        heard == StrongerThanProfiles @@ profileSays
                 @@ provider.says @@ provider.thinking
                 @@ file.defaults @@ BuiltInLayer
        claimed == IF EffortOfProfileAlone THEN CallSettings \ {"thinkingEffort"}
                   ELSE CallSettings
    IN /\ selection.requested.value = name
       /\ IF name \notin DOMAIN in.defs \cup in.providers \cup BuiltIns
          THEN selection.error = "PROVIDER_REFERENCE_NOT_FOUND"
          ELSE /\ selection.provider = own
               /\ \A s \in claimed :
                    selection.settings[s].value =
                      IF s \in DOMAIN heard THEN heard[s] ELSE None
               /\ \A s \in CallSettings : \A d \in selection.displaced[s] :
                    d.value # selection.settings[s].value
       /\ \A s \in RunSettings :
            config.settings[s] =
              (flags.run @@ profileSays @@ file.defaults
               @@ [concurrency |-> "builtIn", failFast |-> "builtIn"])[s]

(* Stated by configuration.md, which lists thinkingEffort among the        *)
(* options of a profile's run, and by the test of their precedence: a      *)
(* thinking effort that the profile alone gives is the one that the agent  *)
(* is called with.                                                         *)
ProfileEffortIsHeard ==
  Called /\ selection.provider # None /\ EffortOfProfileAlone =>
    selection.settings["thinkingEffort"].value = ProfileSays["thinkingEffort"]

(* The retry policy of the agent can be explained from the layers that     *)
(* speak (PolicyIsExplained), a flag beats a profile and a profile the     *)
(* file: --no-retry is obeyed by every call that does not say otherwise,   *)
(* and a flag that tunes retry switches on what a profile switched off.    *)
RetryIsExplained ==
  Called /\ selection.provider # None =>
    LET layers == config.layers
        policy == selection.retry
        alias == IF selection.alias = None THEN NoAlias
                 ELSE config.found.aliases[selection.alias]
        silent == scenario.call.retry.kind = "absent" /\ alias.retry.kind = "absent"
        single == "maxAttempts" \in DOMAIN flags.retry
                  /\ flags.retry.maxAttempts = 1
        word == profile.resolved.retry
    IN /\ PolicyIsExplained(RetryInputs(scenario.call, layers, alias), policy)
       /\ \A l \in selection.retryDisplaced : Rank[l] < Rank[policy.source]
       /\ silent /\ flags.noRetry => ~policy.on /\ policy.disabledBy = "cli"
       /\ silent /\ DOMAIN flags.retry # {} =>
            /\ \A f \in DOMAIN flags.retry : policy.policy[f] = flags.retry[f]
            /\ word.kind \in {"absent", "off"} => policy.on = ~single
       /\ silent /\ ~flags.noRetry /\ flags.retry = <<>> /\ word.kind = "off" =>
            ~policy.on

(* Resume replays the run: in a project that was not edited, without       *)
(* options of its own, it finds a run that lies where the project's        *)
(* configuration puts it and gives the agent what the run gave it.  Not    *)
(* promised are a run that was given --no-retry, which is not recorded,    *)
(* and one whose profile came from a file, which resume does not read.     *)
(* An option given now is stronger than the one recorded.                  *)
ResumeReplays ==
  LET now == scenario.resume
      same == now.file = scenario.file /\ ~now.renamed /\ now.record = "ok"
      plain == /\ now.flags.run = <<>> /\ now.flags.retry = <<>>
               /\ ~now.flags.noRetry /\ now.flags.profile = None /\ ~now.flags.out
      reachable == now.byPath \/ recorded.outDir \in {"builtIn", "file"}
  IN /\ pc = "ended" /\ first # NotCalled /\ (Resumed \/ outcome # "ok")
        /\ same /\ plain /\ ~scenario.flags.noRetry
        /\ recorded.source \in {None, "config"} =>
          /\ outcome = "ok" \/ (outcome = "CLI_USAGE_ERROR" /\ ~reachable)
          /\ outcome = "ok" => /\ selection = first.selection
                               /\ config.settings = first.settings
     /\ Resumed =>
          /\ \A s \in DOMAIN now.flags.run : flags.run[s] = now.flags.run[s]
          /\ now.flags.profile # None => profile.selected = now.flags.profile
          /\ now.flags.profile = None /\ recorded.profile # None =>
               profile.selected = recorded.profile
=============================================================================
