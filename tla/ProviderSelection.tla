------------------------- MODULE ProviderSelection -------------------------
(* Which provider, model, thinking effort, time limit and retry policy a   *)
(* call of an agent gets (agents/resolve-provider-selection.ts and the     *)
(* checks that follow it).                                                 *)
(*                                                                         *)
(* call is [gives, retry]: the settings that the call gives, with their    *)
(* values.  layers is [cli, cliRetry, config, configRetry]: the same for   *)
(* the flags and for the configuration file.  providers are the settings   *)
(* of each configured provider, aliases the resolved aliases.              *)
(* An operator that no other definition uses is a variant of the one after *)
(* it, with one mistake in it; the run uses it to test the properties.     *)
EXTENDS ProviderAliases

CallSettings == {"model", "thinkingEffort", "timeoutMs"}

BuiltInLayer == [provider |-> "mock", timeoutMs |-> "builtIn"]

(* assertThinkingEffortSupported: four providers know of a thinking        *)
(* effort, of which mock takes any and codex not the extremes.             *)
EffortProviders == {"mock", "codex", "pi", "opencode"}
EffortFault(provider, effort) ==
  CASE effort = None -> None
    [] effort # None /\ provider \notin EffortProviders ->
         "THINKING_EFFORT_NOT_SUPPORTED"
    [] provider = "codex" /\ effort \in {"off", "xhigh"} ->
         "THINKING_EFFORT_VALUE_UNSUPPORTED"
    [] OTHER -> None

(* What each layer says, the first to be asked first.  The two fields of a *)
(* provider that give a thinking effort are two layers of one name.        *)
SayingsFlagsFirst(call, layers, alias, provider) ==
  << [source |-> "agent", says |-> call.gives],
     [source |-> "cli", says |-> layers.cli],
     [source |-> "providerAlias", says |-> alias.says],
     [source |-> "providerConfig", says |-> provider.says],
     [source |-> "providerConfig", says |-> provider.thinking],
     [source |-> "globalConfig", says |-> layers.config],
     [source |-> "builtIn", says |-> BuiltInLayer] >>

Sayings(call, layers, alias, provider) ==
  << [source |-> "agent", says |-> call.gives],
     [source |-> "providerAlias", says |-> alias.says],
     [source |-> "cli", says |-> layers.cli],
     [source |-> "providerConfig", says |-> provider.says],
     [source |-> "providerConfig", says |-> provider.thinking],
     [source |-> "globalConfig", says |-> layers.config],
     [source |-> "builtIn", says |-> BuiltInLayer] >>

(* selectSettingAndOverrides: the first candidate wins; each later one of  *)
(* another value is kept as displaced.                                     *)
Candidates(sayings, setting) ==
  LET giving == SelectSeq(sayings, LAMBDA l : setting \in DOMAIN l.says)
  IN [i \in DOMAIN giving |->
        [source |-> giving[i].source, value |-> giving[i].says[setting]]]

Winner(candidates) ==
  IF candidates = <<>> THEN [source |-> None, value |-> None]
  ELSE Head(candidates)

Displaced(candidates) ==
  {candidates[i] : i \in {j \in DOMAIN candidates :
                            candidates[j].value # candidates[1].value}}

(* resolveProviderReference: an alias first, then a provider.              *)
KnownReference(name, aliases, providers, builtIns) ==
  name \in DOMAIN aliases \cup DOMAIN providers \cup builtIns

(* The retry candidates: for each layer that speaks, the policy of it and  *)
(* of the layers below it.                                                 *)
RetryInputs(call, layers, alias) ==
  [ global |-> layers.configRetry, cli |-> layers.cliRetry,
    alias |-> alias.retry, agent |-> call.retry,
    aliasOwner |-> [f \in RetryFields |-> IF alias.retryFrom[f] = None
                                          THEN alias.retryBy
                                          ELSE alias.retryFrom[f]] ]

RetryCandidates(in) ==
  LET NoCli == [noRetry |-> FALSE, fields |-> <<>>]
      below ==
        << [source |-> "agent", speaks |-> in.agent.kind # "absent", in |-> in],
           [source |-> "providerAlias", speaks |-> in.alias.kind # "absent",
            in |-> [in EXCEPT !.agent = Silent]],
           [source |-> "cli", speaks |-> HasCliRetry(in.cli),
            in |-> [in EXCEPT !.agent = Silent, !.alias = Silent]],
           [source |-> "globalConfig", speaks |-> in.global.kind # "absent",
            in |-> [in EXCEPT !.agent = Silent, !.alias = Silent, !.cli = NoCli]],
           [source |-> "builtIn", speaks |-> TRUE,
            in |-> [in EXCEPT !.agent = Silent, !.alias = Silent, !.cli = NoCli,
                              !.global = Silent]] >>
      speaking == SelectSeq(below, LAMBDA l : l.speaks)
  IN [i \in DOMAIN speaking |->
        [source |-> speaking[i].source, value |-> Layered(speaking[i].in)]]

(* isRetryPolicyEquivalent: policies that are off are all alike.           *)
SamePolicy(p, q) == p.on = q.on /\ (p.on => p.policy = q.policy)

-----------------------------------------------------------------------------
(* resolveProviderSelection                                                *)
NotSelected ==
  [ requested |-> [source |-> None, value |-> None], alias |-> None,
    provider |-> None,
    settings |-> [s \in CallSettings |-> [source |-> None, value |-> None]],
    displaced |-> [s \in CallSettings |-> {}], retry |-> Untouched,
    retryDisplaced |-> {}, error |-> None ]

SelectProvider(call, layers, aliases, providers, builtIns) ==
  LET requested ==
        Winner(Candidates(Sayings(call, layers, NoAlias,
                                  [says |-> <<>>, thinking |-> <<>>]), "provider"))
      name == requested.value
      alias == IF name \in DOMAIN aliases THEN aliases[name] ELSE NoAlias
      provider == IF name \in DOMAIN aliases THEN alias.provider ELSE name
      own == IF provider \in DOMAIN providers THEN providers[provider]
             ELSE [says |-> <<>>, thinking |-> <<>>]
      sayings == Sayings(call, layers, alias, own)
      in == RetryInputs(call, layers, alias)
      retries == RetryCandidates(in)
  IN IF ~KnownReference(name, aliases, providers, builtIns)
     THEN [NotSelected EXCEPT !.requested = requested,
                              !.error = "PROVIDER_REFERENCE_NOT_FOUND"]
     ELSE [ requested |-> requested,
            alias |-> IF name \in DOMAIN aliases THEN name ELSE None,
            provider |-> provider,
            settings |-> [s \in CallSettings |-> Winner(Candidates(sayings, s))],
            displaced |-> [s \in CallSettings |->
                             Displaced(Candidates(sayings, s))],
            retry |-> Layered(in),
            retryDisplaced |-> {retries[i].source : i \in
              {j \in DOMAIN retries :
                 ~SamePolicy(retries[j].value, retries[1].value)}},
            error |-> None ]

(* validateResolvedProviderSelection, and then the registry of adapters,   *)
(* which has the built-in providers and no others: a provider that the     *)
(* configuration adds can be selected but not called.                      *)
CheckedSelection(selection, builtIns) ==
  LET effort == selection.settings["thinkingEffort"].value
      fault == EffortFault(selection.provider, effort)
  IN CASE selection.error # None -> selection
       [] selection.error = None /\ fault # None ->
            [selection EXCEPT !.error = fault]
       [] selection.error = None /\ fault = None
            /\ selection.provider \notin builtIns ->
            [selection EXCEPT !.error = "PROVIDER_UNAVAILABLE"]
       [] OTHER -> selection
=============================================================================
