-------------------------- MODULE ProviderAliases --------------------------
(* Provider aliases: names that stand for a provider and some settings,    *)
(* each of which may extend another alias (config/provider-aliases.ts).    *)
(*                                                                         *)
(* A definition is [ok, provider, extends, gives, retry]: ok is false for  *)
(* one that the validation of steps 3 and 4 rejects, gives is the set of   *)
(* the settings it gives, a null model included.  The value of a setting   *)
(* is the name of the alias that wrote it.                                 *)
EXTENDS RetryLayers, SequencesExt

AliasSettings == {"model", "thinkingEffort", "timeoutMs"}

(* What an alias without a parent inherits.                                *)
NoAlias ==
  [ chain |-> <<>>, provider |-> None, providerFrom |-> None, says |-> <<>>,
    retry |-> Silent, retryFrom |-> NoOwner, retryBy |-> None ]

(* in is [defs, order, providers, builtIns, maxDepth]: the definitions by  *)
(* name, the names in the order of sort(), the configured providers, the   *)
(* built-in ones, and the longest chain allowed.                           *)
Names(in) == SelectSeq(in.order, LAMBDA n : n \in DOMAIN in.defs)

(* resolveAlias up to the recursive call: the chain of aliases that is     *)
(* being visited, from n up to the one whose parent is resolved already,   *)
(* is absent, or must not be visited.                                      *)
Climb(in, done, n) ==
  LET Parent(visiting) == in.defs[Last(visiting)].extends
      up[visiting \in Seq(STRING)] ==
        IF \/ Parent(visiting) \notin DOMAIN in.defs
           \/ Parent(visiting) \in DOMAIN done
           \/ Parent(visiting) \in ToSet(visiting)
           \/ Len(visiting) + 1 > in.maxDepth
        THEN visiting ELSE up[Append(visiting, Parent(visiting))]
  IN up[<<n>>]

ClimbFault(in, done, visiting) ==
  LET parent == in.defs[Last(visiting)].extends
  IN CASE parent = None -> None
       [] parent # None /\ parent \notin DOMAIN in.defs -> "PARENT_NOT_FOUND"
       [] parent \in DOMAIN in.defs /\ parent \in DOMAIN done -> None
       [] parent \in ToSet(visiting) -> "CYCLE_DETECTED"
       [] OTHER -> "MAX_DEPTH_EXCEEDED"

(* The checks of one alias under its parent.  The length of the chain is   *)
(* tested here again: the parent may have been resolved before, so that    *)
(* the visit that came through it was shorter than the chain.              *)
MergeFault(in, n, parent) ==
  LET def == in.defs[n]
      provider == IF def.provider = None THEN parent.provider ELSE def.provider
  IN IF Len(parent.chain) + 1 > in.maxDepth THEN "MAX_DEPTH_EXCEEDED"
     ELSE IF parent.provider # None /\ provider # parent.provider THEN "PROVIDER_REPLACEMENT"
     ELSE IF provider = None THEN "PROVIDER_REQUIRED"
     ELSE IF provider \notin in.providers THEN "PROVIDER_NOT_FOUND" ELSE None

(* What the alias says of retry: nothing leaves the parent's word, false   *)
(* and an object over false start afresh, an object goes over an object    *)
(* field by field.                                                         *)
MergedRetry(n, retry, parent) ==
  CASE retry.kind = "absent" ->
         [retry |-> parent.retry, from |-> parent.retryFrom, by |-> parent.retryBy]
    [] retry.kind = "off" -> [retry |-> Off, from |-> NoOwner, by |-> n]
    [] retry.kind = "tuned" ->
         [ retry |-> Tuned(retry.fields @@ parent.retry.fields), by |-> n,
           from |-> [f \in RetryFields |-> IF f \in DOMAIN retry.fields THEN n
                                           ELSE parent.retryFrom[f]] ]

MergeAlias(in, n, parent) ==
  LET def == in.defs[n]
      retry == MergedRetry(n, def.retry, parent)
  IN [ chain |-> Append(parent.chain, n),
       provider |-> IF parent.provider # None THEN parent.provider
                    ELSE def.provider,
       providerFrom |-> IF parent.provider # None THEN parent.providerFrom ELSE n,
       says |-> [s \in def.gives |-> n] @@ parent.says,
       retry |-> retry.retry, retryFrom |-> retry.from, retryBy |-> retry.by ]

(* resolveAlias: climb, then merge on the way back.  A fault ends it all.  *)
ResolveAlias(in, found, n) ==
  LET visiting == Climb(in, found.aliases, n)
      fault == ClimbFault(in, found.aliases, visiting)
      Settle(m, acc) ==
        LET extended == in.defs[m].extends
            parent == IF extended = None THEN NoAlias ELSE acc.aliases[extended]
            wrong == MergeFault(in, m, parent)
        IN IF acc.error # None THEN acc
           ELSE IF wrong # None THEN [acc EXCEPT !.error = wrong]
           ELSE [acc EXCEPT !.aliases = (m :> MergeAlias(in, m, parent)) @@ @]
  IN IF found.error # None \/ n \in DOMAIN found.aliases THEN found
     ELSE IF fault # None THEN [found EXCEPT !.error = fault]
     ELSE FoldRight(Settle, visiting, found)

(* resolveProviderAliases: every definition is looked at, then every name, *)
(* before the first alias is resolved.                                     *)
ResolveAliases(in) ==
  LET none == [aliases |-> <<>>, error |-> None]
      Resolve(found, n) == ResolveAlias(in, found, n)
  IN IF \E n \in DOMAIN in.defs : ~in.defs[n].ok
     THEN [none EXCEPT !.error = "INVALID_DEFINITION"]
     ELSE IF DOMAIN in.defs \cap (in.builtIns \cup in.providers) # {}
     THEN [none EXCEPT !.error = "NAMESPACE_CONFLICT"]
     ELSE FoldLeft(Resolve, none, Names(in))

-----------------------------------------------------------------------------
(* The aliases by their meaning, without an order of resolution.  Line(n)  *)
(* is n, the alias it extends, the one that extends, ... as far as it goes *)
(* without a repetition.                                                   *)
Line(in, n) ==
  LET up[line \in Seq(STRING)] ==
        LET parent == in.defs[Last(line)].extends
        IN IF parent \notin DOMAIN in.defs \/ parent \in ToSet(line)
           THEN line ELSE up[Append(line, parent)]
  IN up[<<n>>]

Nearest(line, Wanted(_)) == SelectInSeq(line, Wanted)

(* What an alias is to be: the nearest alias on its line that says         *)
(* something has its way, false hides what is above it, and the provider   *)
(* is the one at the root of the line.                                     *)
AliasIsFaithful(in, n, alias) ==
  LET line == Line(in, n)
      root == Last(line)
      Def(i) == in.defs[line[i]]
      by == Nearest(line, LAMBDA m : in.defs[m].retry.kind # "absent")
      wall == Nearest(line, LAMBDA m : in.defs[m].retry.kind = "off")
      Giver(f) == Nearest(line, LAMBDA m : f \in DOMAIN in.defs[m].retry.fields)
  IN /\ alias.chain = Reverse(line)
     /\ Len(line) <= in.maxDepth
     /\ in.defs[root].extends = None
     /\ alias.provider = in.defs[root].provider /\ alias.providerFrom = root
     /\ \A i \in DOMAIN line : Def(i).provider \in {None, alias.provider}
     /\ DOMAIN alias.says = UNION {Def(i).gives : i \in DOMAIN line}
     /\ \A s \in DOMAIN alias.says :
          alias.says[s] = line[Nearest(line, LAMBDA m : s \in in.defs[m].gives)]
     /\ alias.retryBy = IF by = 0 THEN None ELSE line[by]
     /\ alias.retry.kind = IF by = 0 THEN "absent" ELSE Def(by).retry.kind
     /\ \A f \in RetryFields :
          LET giver == Giver(f)
              seen == giver # 0 /\ (wall = 0 \/ giver < wall)
          IN /\ f \in DOMAIN alias.retry.fields <=> seen
             /\ seen => /\ alias.retry.fields[f] = Def(giver).retry.fields[f]
                        /\ alias.retryFrom[f] = line[giver]

(* A reason to refuse the definitions, told from the lines alone.          *)
AliasDefect(in, code) ==
  \E n \in DOMAIN in.defs :
    LET def == in.defs[n]
        line == Line(in, n)
        end == in.defs[Last(line)]
    IN CASE code = "INVALID_DEFINITION" -> ~def.ok
         [] code = "NAMESPACE_CONFLICT" -> n \in in.builtIns \cup in.providers
         [] code = "PARENT_NOT_FOUND" ->
              end.extends # None /\ end.extends \notin DOMAIN in.defs
         [] code = "CYCLE_DETECTED" -> end.extends \in ToSet(line)
         [] code = "MAX_DEPTH_EXCEEDED" ->
              Len(line) > in.maxDepth
              \/ (end.extends # None /\ Len(line) + 1 > in.maxDepth)
         [] code = "PROVIDER_REQUIRED" ->
              def.extends = None /\ def.provider = None
         [] code = "PROVIDER_NOT_FOUND" ->
              def.provider # None /\ def.provider \notin in.providers
         [] code = "PROVIDER_REPLACEMENT" ->
              /\ def.provider # None
              /\ \E i \in DOMAIN line :
                   in.defs[line[i]].provider \notin {None, def.provider}

AliasErrors ==
  {"INVALID_DEFINITION", "NAMESPACE_CONFLICT", "PARENT_NOT_FOUND",
   "CYCLE_DETECTED", "MAX_DEPTH_EXCEEDED", "PROVIDER_REQUIRED",
   "PROVIDER_NOT_FOUND", "PROVIDER_REPLACEMENT"}

(* The aliases that the loader gives out: an error is about something that *)
(* is wrong, nothing that is wrong goes through, and then each alias is    *)
(* what its line of definitions makes it, whichever was resolved first.    *)
AliasesFollow(in, found) ==
  IF found.error # None
  THEN found.error \in AliasErrors /\ AliasDefect(in, found.error)
  ELSE /\ \A code \in AliasErrors : ~AliasDefect(in, code)
       /\ DOMAIN found.aliases = DOMAIN in.defs
       /\ \A n \in DOMAIN in.defs : AliasIsFaithful(in, n, found.aliases[n])
=============================================================================
