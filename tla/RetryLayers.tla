---------------------------- MODULE RetryLayers ----------------------------
(* The retry policy of a call, merged from the layers that may say         *)
(* something about it (config/retry.ts).                                   *)
(*                                                                         *)
(* A layer is silent ("absent"), switches retry off ("off", the value      *)
(* false) or tunes some fields of the policy ("tuned").  maxAttempts is a  *)
(* number; the value of any other field is the name of who wrote it.       *)
(* backoff, maxDelayMs and jitter behave as delayMs does, but that no flag *)
(* gives jitter.                                                           *)
EXTENDS Naturals, Sequences, TLC

None == "none"

RetryFields == {"maxAttempts", "delayMs", "disableDelay"}

Silent == [kind |-> "absent", fields |-> <<>>]
Off == [kind |-> "off", fields |-> <<>>]
Tuned(fields) == [kind |-> "tuned", fields |-> fields]

BuiltInPolicy ==
  [maxAttempts |-> 1, delayMs |-> "builtIn", disableDelay |-> "builtIn"]
RecommendedPolicy == [BuiltInPolicy EXCEPT !.maxAttempts = 3]

(* The policy that no layer has touched.  from says for each field which   *)
(* layer set it, and which owner within the layer.                         *)
Untouched ==
  [ on |-> FALSE, policy |-> BuiltInPolicy, source |-> "builtIn",
    disabledBy |-> "omitted",
    from |-> [f \in RetryFields |-> [layer |-> "builtIn", owner |-> None]] ]

DisabledBy(layer) == IF layer \in {"agent", "cli"} THEN layer ELSE "omitted"

-----------------------------------------------------------------------------
(* applyObjectLayer.  A layer that tunes a policy that is off switches it  *)
(* on: what it does not give is taken from the recommended policy, and is  *)
(* the layer's.  The policy is on when more than one attempt is left.      *)
ApplyTuned(p, layer, fields, owner) ==
  LET base == IF p.on THEN p.policy ELSE RecommendedPolicy
      policy == [f \in RetryFields |->
                   IF f \in DOMAIN fields THEN fields[f] ELSE base[f]]
      on == policy.maxAttempts > 1
  IN [ on |-> on, policy |-> policy, source |-> layer,
       disabledBy |-> IF on THEN None ELSE DisabledBy(layer),
       from |-> [f \in RetryFields |->
                   IF f \in DOMAIN fields \/ ~p.on
                   THEN [layer |-> layer, owner |-> owner[f]] ELSE p.from[f]] ]

(* applyDisableLayer                                                       *)
ApplyOff(layer, owner) ==
  [ on |-> FALSE, policy |-> BuiltInPolicy, source |-> layer,
    disabledBy |-> DisabledBy(layer),
    from |-> [f \in RetryFields |-> [layer |-> layer, owner |-> owner[f]]] ]

Apply(p, layer, retry, owner) ==
  CASE retry.kind = "absent" -> p
    [] retry.kind = "off" -> ApplyOff(layer, owner)
    [] retry.kind = "tuned" -> ApplyTuned(p, layer, retry.fields, owner)

(* The flags: --no-retry, and the fields that flags give.  disableDelay is *)
(* kept beside noRetry, which a profile can ask for.                       *)
HasCliRetry(cli) == cli.noRetry \/ DOMAIN cli.fields # {}

NoOwner == [f \in RetryFields |-> None]

ApplyCli(p, cli) ==
  LET off == ApplyOff("cli", NoOwner)
  IN CASE cli.noRetry /\ "disableDelay" \in DOMAIN cli.fields ->
            [off EXCEPT !.policy.disableDelay = cli.fields.disableDelay]
       [] cli.noRetry /\ "disableDelay" \notin DOMAIN cli.fields -> off
       [] ~cli.noRetry /\ DOMAIN cli.fields # {} ->
            ApplyTuned(p, "cli", cli.fields, NoOwner)
       [] OTHER -> p

(* resolveLayeredRetryPolicy: the layers of lower rank first.              *)
Layered(in) ==
  LET global == Apply(Untouched, "globalConfig", in.global, NoOwner)
      cli == ApplyCli(global, in.cli)
      alias == Apply(cli, "providerAlias", in.alias, in.aliasOwner)
  IN Apply(alias, "agent", in.agent, NoOwner)

-----------------------------------------------------------------------------
(* resolveGlobalRetryPolicy: what config.resolved.json says of retry, from *)
(* the config file and the flags.  Here false in the file is final, and a  *)
(* flag tunes what the file says even when that is a single attempt.       *)
GlobalPolicy(retry, cli) ==
  LET base == IF retry.kind = "tuned"
              THEN [f \in RetryFields |-> IF f \in DOMAIN retry.fields
                                          THEN retry.fields[f]
                                          ELSE RecommendedPolicy[f]]
              ELSE BuiltInPolicy
      under == IF retry.kind = "tuned" THEN base ELSE RecommendedPolicy
      tuned == [f \in RetryFields |->
                  IF f \in DOMAIN cli.fields THEN cli.fields[f] ELSE under[f]]
      Policy(policy) == [on |-> policy.maxAttempts > 1, policy |-> policy]
  IN CASE retry.kind = "off" -> Policy(BuiltInPolicy)
       [] retry.kind # "off" /\ cli.noRetry ->
            Policy([base EXCEPT !.maxAttempts = 1,
                     !.disableDelay = IF "disableDelay" \in DOMAIN cli.fields
                                      THEN cli.fields.disableDelay ELSE @])
       [] retry.kind # "off" /\ ~cli.noRetry /\ DOMAIN cli.fields # {} ->
            Policy(tuned)
       [] OTHER -> Policy(base)

-----------------------------------------------------------------------------
(* Each field of the policy is accounted for, whichever layers spoke.      *)
(*  - A policy is on exactly when it allows more than one attempt, and one *)
(*    that is off says which layer switched it off.                        *)
(*  - The highest layer that speaks has its way: false switches off, and   *)
(*    each field it gives is the one used.                                 *)
(*  - A field that no layer switched over keeps the value of the highest   *)
(*    layer that gives it: tuning the delay does not change the count.     *)
(*  - A field is never put down to a layer that is silent.                 *)
SpeaksOf(in) ==
  [ globalConfig |-> in.global,
    cli |-> IF in.cli.noRetry THEN Off
            ELSE IF DOMAIN in.cli.fields = {} THEN Silent
            ELSE Tuned(in.cli.fields),
    providerAlias |-> in.alias, agent |-> in.agent ]

Rank == [builtIn |-> 0, globalConfig |-> 1, cli |-> 2, providerAlias |-> 3,
         agent |-> 4]

PolicyIsExplained(in, p) ==
  LET says == SpeaksOf(in)
      speaking == {l \in DOMAIN says : says[l].kind # "absent"}
      Gives(l, f) == f \in DOMAIN says[l].fields
      Above(l) == {k \in speaking : Rank[k] > Rank[l]}
  IN /\ p.on <=> p.policy.maxAttempts > 1
     /\ p.on <=> p.disabledBy = None
     /\ \A f \in RetryFields : p.from[f].layer \in speaking \cup {"builtIn"}
     /\ speaking = {} => p.source = "builtIn" /\ ~p.on
     /\ \A l \in speaking :
          /\ Above(l) = {} =>
               /\ p.source = l
               /\ says[l].kind = "off" => ~p.on
          /\ \A f \in RetryFields :
               /\ Gives(l, f)
               /\ says[l].kind = "tuned"
               /\ "maxAttempts" \in DOMAIN says[l].fields
               /\ says[l].fields.maxAttempts > 1
               /\ \A k \in Above(l) : says[k].kind = "tuned" /\ ~Gives(k, f)
               /\ \A k \in Above(l) : ~Gives(k, "maxAttempts")
                  \/ says[k].fields.maxAttempts > 1
               => p.policy[f] = says[l].fields[f] /\ p.from[f].layer = l
=============================================================================
