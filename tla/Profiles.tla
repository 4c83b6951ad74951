------------------------------ MODULE Profiles ------------------------------
(* Profiles: named sets of run options, kept in the configuration file or  *)
(* in a file of their own, that extend one another (config/profiles.ts).   *)
(*                                                                         *)
(* A profile is [extends, run, context, retry]: the names of its bases in  *)
(* their order, the options it gives (an argument and the output directory *)
(* among them) with their values, what its context has at one key, and its *)
(* retry.  An option other than the provider has the name of the profile   *)
(* for its value.  A retry in a profile is false, a set of fields, or an   *)
(* object with a policy and perhaps enabled, which is called wrapped here. *)
(* An operator that no other definition uses is a variant of the one after *)
(* it, with one mistake in it; the run uses it to test the properties.     *)
EXTENDS RetryLayers, SequencesExt

NoRetryWord ==
  [kind |-> "absent", fields |-> <<>>, wrapped |-> FALSE, policy |-> <<>>,
   enabled |-> None]
NoContext == [kind |-> "absent", keys |-> <<>>]
EmptyProfile == [run |-> <<>>, context |-> NoContext, retry |-> NoRetryWord]

(* buildProfileCatalog: a profile of the external file takes the place of  *)
(* the one with its name in the configuration.                             *)
Catalog(inline, external) ==
  [ n \in DOMAIN inline \cup DOMAIN external |->
      IF n \notin DOMAIN external
      THEN [profile |-> inline[n], source |-> "config"]
      ELSE [ profile |-> external[n],
             source |-> IF n \in DOMAIN inline THEN "external-override"
                        ELSE "external" ] ]

(* mergeContext at one key: objects are merged, anything else is replaced. *)
MergedContext(base, child) ==
  IF base.kind = "object" /\ child.kind = "object"
  THEN [child EXCEPT !.keys = @ @@ base.keys]
  ELSE IF child.kind = "absent" THEN base ELSE child

(* An object over an object keeps what only the lower one has, of either   *)
(* form; a policy replaces the policy whole.                               *)
MergedWord(base, child) ==
  IF base.kind = "object" /\ child.kind = "object"
  THEN [ kind |-> "object", fields |-> child.fields @@ base.fields,
         wrapped |-> base.wrapped \/ child.wrapped,
         policy |-> IF child.wrapped THEN child.policy ELSE base.policy,
         enabled |-> IF child.enabled # None THEN child.enabled ELSE base.enabled ]
  ELSE IF child.kind = "absent" THEN base ELSE child

(* mergeProfiles                                                           *)
MergeBeneath(base, child) ==
  [ run |-> base.run @@ child.run,
    context |-> MergedContext(base.context, child.context),
    retry |-> MergedWord(base.retry, child.retry) ]

MergeProfiles(base, child) ==
  [ run |-> child.run @@ base.run,
    context |-> MergedContext(base.context, child.context),
    retry |-> MergedWord(base.retry, child.retry) ]

-----------------------------------------------------------------------------
(* dfs of resolveSelectedProfile.  found is [cache, chain, error]: the     *)
(* profiles resolved, in the order in which they were, and the error that  *)
(* ends the search.  The bases are visited from left to right, each over   *)
(* what the ones before it gave, and the profile's own word comes last.    *)
RECURSIVE VisitProfile(_, _, _, _)
VisitProfile(catalog, found, name, visiting) ==
  LET profile == catalog[name].profile
      Visit(acc, base) ==
        IF acc.error # None THEN acc
        ELSE IF base \notin DOMAIN catalog
        THEN [acc EXCEPT !.error = "PROFILE_NOT_FOUND"]
        ELSE VisitProfile(catalog, acc, base, Append(visiting, name))
      below == FoldLeft(Visit, found, profile.extends)
      OnTop(acc, base) == MergeProfiles(acc, below.cache[base])
      bases == FoldLeft(OnTop, EmptyProfile, profile.extends)
  IN IF name \in DOMAIN found.cache THEN found
     ELSE IF name \in ToSet(visiting)
     THEN [found EXCEPT !.error = "PROFILE_VALIDATION_ERROR"]
     ELSE IF below.error # None THEN below
     ELSE [ below EXCEPT !.chain = Append(@, name),
                         !.cache = (name :> MergeProfiles(bases, profile)) @@ @ ]

(* resolveSelectedProfile.  Without a name there is no selection.          *)
NoSelection ==
  [selected |-> None, source |-> None, resolved |-> EmptyProfile, chain |-> <<>>,
   error |-> None]

SelectProfile(catalog, name) ==
  LET found == VisitProfile(catalog,
                 [cache |-> <<>>, chain |-> <<>>, error |-> None], name, <<>>)
  IN CASE name = None -> NoSelection
       [] name # None /\ name \notin DOMAIN catalog ->
            [NoSelection EXCEPT !.error = "PROFILE_NOT_FOUND"]
       [] name \in DOMAIN catalog /\ found.error # None ->
            [NoSelection EXCEPT !.error = found.error]
       [] OTHER -> [ selected |-> name, source |-> catalog[name].source,
                     resolved |-> found.cache[name], chain |-> found.chain,
                     error |-> None ]

(* profileRunOptionsToCliOverrides: what the profile says as flags would.  *)
(* Of a wrapped retry only the policy counts.  A single attempt is the     *)
(* same as no retry.  The thinking effort is handed over apart.            *)
AsFlags(profile) ==
  LET retry == profile.retry
      off == retry.kind = "off" \/ retry.enabled = "no"
      said == IF retry.wrapped THEN retry.policy ELSE retry.fields
      kept == CASE ~off -> DOMAIN said
                [] off /\ retry.wrapped -> DOMAIN said \cap {"disableDelay"}
                [] OTHER -> {}
  IN [ run |-> [s \in DOMAIN profile.run \ {"outDir", "arg", "thinkingEffort"} |->
                  profile.run[s]],
       noRetry |-> off \/ ("maxAttempts" \in DOMAIN said
                           /\ said.maxAttempts = 1),
       retry |-> [f \in kept |-> said[f]],
       thinkingEffort |-> IF "thinkingEffort" \in DOMAIN profile.run
                          THEN profile.run.thinkingEffort ELSE None ]

-----------------------------------------------------------------------------
(* The profiles by their meaning.  Words(n): the profiles whose word is    *)
(* heard when n is selected, the later ones louder; a profile that two     *)
(* bases share is heard once for each.  Defined as far as the names go.    *)
Words(catalog, n) ==
  LET Heard(name) == SelectSeq(catalog[name].profile.extends,
                               LAMBDA b : b \in DOMAIN catalog)
      words[deep \in Nat] ==
        IF deep = 0 THEN [name \in DOMAIN catalog |-> <<name>>]
        ELSE [ name \in DOMAIN catalog |->
                 FlattenSeq([i \in DOMAIN Heard(name) |->
                               words[deep - 1][Heard(name)[i]]]) \o <<name>> ]
  IN words[Cardinality(DOMAIN catalog)][n]

Bases(catalog, n) ==
  IF n \in DOMAIN catalog THEN ToSet(catalog[n].profile.extends) ELSE {}

(* The names that n reaches in at least one step.                          *)
Beyond(catalog, n) ==
  LET reach[deep \in Nat] ==
        IF deep = 0 THEN Bases(catalog, n)
        ELSE LET near == reach[deep - 1]
             IN near \cup UNION {Bases(catalog, m) : m \in near}
  IN reach[Cardinality(DOMAIN catalog)]

(* The selected profile.                                                   *)
(*  - It is found unless a name that it reaches is missing or it rests on  *)
(*    itself, and the error says which.                                    *)
(*  - The chain names every profile that it rests on once, each after its  *)
(*    bases, and ends with the profile.                                    *)
(*  - Each option has the value that the last profile heard gives it, and  *)
(*    no option is lost; so has the context, whose last object is there in *)
(*    full, and the retry of profiles that speak of it in one form.        *)
ProfileFollows(catalog, name, selection) ==
  LET reached == {name} \cup Beyond(catalog, name)
      missing == \E m \in reached : m \notin DOMAIN catalog
      cyclic == \E m \in reached : m \in Beyond(catalog, m)
      words == Words(catalog, name)
      P(i) == catalog[words[i]].profile
      LastOne(Says(_)) == SelectLastInSeq(words, LAMBDA m : Says(catalog[m].profile))
      contextAt == LastOne(LAMBDA p : p.context.kind # "absent")
      retryAt == LastOne(LAMBDA p : p.retry.kind # "absent")
      resolved == selection.resolved
      At(n) == SelectInSeq(selection.chain, LAMBDA m : m = n)
  IN CASE name = None -> selection = NoSelection
       [] name # None /\ selection.error # None ->
            \/ selection.error = "PROFILE_NOT_FOUND" /\ missing
            \/ selection.error = "PROFILE_VALIDATION_ERROR" /\ cyclic
       [] name # None /\ selection.error = None ->
            /\ ~missing /\ ~cyclic
            /\ ToSet(selection.chain) = reached
            /\ Len(selection.chain) = Cardinality(reached)
            /\ Last(selection.chain) = name
            /\ \A m \in reached : \A b \in Bases(catalog, m) : At(b) < At(m)
            /\ DOMAIN resolved.run = UNION {DOMAIN P(i).run : i \in DOMAIN words}
            /\ \A s \in DOMAIN resolved.run :
                 resolved.run[s] = P(LastOne(LAMBDA p : s \in DOMAIN p.run)).run[s]
            /\ IF contextAt = 0 THEN resolved.context = NoContext
               ELSE /\ resolved.context.kind = P(contextAt).context.kind
                    /\ \A k \in DOMAIN P(contextAt).context.keys :
                         resolved.context.keys[k] = P(contextAt).context.keys[k]
            /\ IF retryAt = 0 THEN resolved.retry = NoRetryWord
               ELSE /\ resolved.retry.kind = P(retryAt).retry.kind
                    /\ \A f \in DOMAIN P(retryAt).retry.fields :
                         resolved.retry.fields[f] = P(retryAt).retry.fields[f]
=============================================================================
