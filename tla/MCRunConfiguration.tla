------------------------- MODULE MCRunConfiguration -------------------------
(* Scenarios of RunConfiguration for TLC, in families: each varies what    *)
(* interacts in one part of the merge and leaves the rest plain.           *)
EXTENDS RunConfiguration

MCAliasOrder == <<"a", "b", "c">>
MCBuiltIns == {"mock", "codex", "gemini"}

(* The provider "own" is added by the project; codex comes with a model of *)
(* null, as in DEFAULT_CONFIG.                                             *)
Bare == [says |-> <<>>, thinking |-> <<>>]
PlainFile ==
  [ ok |-> TRUE, aliases |-> <<>>, aliasMaxDepth |-> 8, profiles |-> <<>>,
    defaults |-> <<>>, retry |-> Silent, outDir |-> FALSE,
    providers |-> [mock |-> Bare, codex |-> [Bare EXCEPT !.says = [model |-> "null"]],
                   own |-> Bare] ]
PlainFlags ==
  [ run |-> <<>>, noRetry |-> FALSE, retry |-> <<>>, profile |-> None,
    profiles |-> FALSE, out |-> FALSE, resume |-> FALSE ]
NoResume ==
  [ asked |-> FALSE, file |-> PlainFile, flags |-> PlainFlags, byPath |-> FALSE,
    renamed |-> FALSE, record |-> "ok" ]
Plain ==
  [ file |-> PlainFile, external |-> [state |-> "ok", profiles |-> <<>>],
    flags |-> PlainFlags, call |-> [gives |-> <<>>, retry |-> Silent],
    resume |-> NoResume ]

Give(on, s, who) == IF on THEN s :> who ELSE <<>>
Alias(provider, extends) ==
  [ ok |-> TRUE, provider |-> provider, extends |-> extends, gives |-> {},
    retry |-> Silent ]

-----------------------------------------------------------------------------
(* Which alias extends which, with two names of providers: every graph.    *)
AliasGraphs ==
  LET Shapes == {Alias(p, e) : p \in {None, "codex", "mock"}, e \in {None, "a", "b", "c"}}
      Odd == {[a |-> Alias("nope", None)], [a |-> Alias(None, "d")],
              [mock |-> Alias("codex", None)],
              [a |-> [Alias("codex", None) EXCEPT !.ok = FALSE]]}
  IN {[Plain EXCEPT !.file.aliases = defs, !.file.aliasMaxDepth = deep,
                    !.call.gives = "provider" :> "a"] :
        defs \in UNION {[N -> Shapes] : N \in {{"a"}, {"a", "b"}, {"a", "b", "c"}}}
                 \cup Odd,
        deep \in {2}}
     \cup {[Plain EXCEPT !.file.aliases = defs, !.call.gives = "provider" :> "b"] :
             defs \in [{"a", "b", "c"} -> {Alias(p, e) : p \in {None, "codex"},
                                            e \in {None, "a", "b", "c"}}]}

(* What the aliases of a line of three say.                                *)
AliasLines ==
  LET Says(n, g, r) ==
        CASE r = "silent" -> [gives |-> g, retry |-> Silent]
          [] r = "off" -> [gives |-> g, retry |-> Off]
          [] r = "delay" -> [gives |-> g, retry |-> Tuned([delayMs |-> n])]
          [] r = "count" -> [gives |-> g, retry |-> Tuned([maxAttempts |-> 2])]
      Words3 == {Says(n, g, r) : n \in {"n"}, g \in {{}, {"model"}},
                                 r \in {"silent", "off", "delay", "count"}}
      Named(n, w) ==
        IF w.retry.kind = "tuned" /\ "delayMs" \in DOMAIN w.retry.fields
        THEN [w EXCEPT !.retry.fields.delayMs = n] ELSE w
      Def(n, w, p, e) == [Alias(p, e) EXCEPT !.gives = w.gives, !.retry = Named(n, w).retry]
  IN {[Plain EXCEPT !.call.gives = "provider" :> "a",
         !.file.aliases = [a |-> Def("a", u, None, "b"), b |-> Def("b", v, None, "c"),
                           c |-> Def("c", w, "codex", None)]] :
        u \in Words3, v \in Words3, w \in Words3}

-----------------------------------------------------------------------------
(* Which profile extends which.                                            *)
Profile(n, extends, model, retry) ==
  [ extends |-> extends, run |-> Give(model, "model", n), context |-> NoContext,
    retry |-> retry ]
Selecting(profiles) ==
  [Plain EXCEPT !.file.profiles = profiles, !.flags.profile = "p"]

ProfileGraphs ==
  LET Below == {<<>>, <<"p">>, <<"q">>, <<"r">>, <<"q", "r">>, <<"r", "q">>, <<"z">>}
  IN {Selecting([p |-> Profile("p", ps, g[1], NoRetryWord),
                 q |-> Profile("q", qs, g[2], NoRetryWord),
                 r |-> Profile("r", rs, g[3], NoRetryWord)]) :
        ps \in Below \ {<<"p">>}, qs \in Below, rs \in Below,
        g \in {<<FALSE, TRUE, TRUE>>, <<TRUE, TRUE, FALSE>>}}

(* What the profiles of a diamond say: p extends q and r, both extend s.   *)
RetryWord(kind, n) ==
  CASE kind = "absent" -> NoRetryWord
    [] kind = "off" -> [NoRetryWord EXCEPT !.kind = "off"]
    [] kind = "delay" -> [NoRetryWord EXCEPT !.kind = "object", !.fields = [delayMs |-> n]]
    [] kind = "once" -> [NoRetryWord EXCEPT !.kind = "object", !.fields = [maxAttempts |-> 1]]
    [] kind = "policy" -> [NoRetryWord EXCEPT !.kind = "object", !.wrapped = TRUE,
                                              !.policy = [maxAttempts |-> 2]]
    [] kind = "no" -> [NoRetryWord EXCEPT !.kind = "object", !.wrapped = TRUE,
                                          !.enabled = "no"]

Contexts(n) == {NoContext, [kind |-> "value", keys |-> <<>>],
                [kind |-> "object", keys |-> n :> n],
                [kind |-> "object", keys |-> [k |-> n]]}

Diamonds ==
  LET Diamond(p, q, r, s) ==
        Selecting([p |-> [p EXCEPT !.extends = <<"q", "r">>],
                   q |-> [q EXCEPT !.extends = <<"s">>],
                   r |-> [r EXCEPT !.extends = <<"s">>], s |-> s])
      Kinds == {"absent", "off", "delay", "policy", "no"}
      P(n, kind) == Profile(n, <<>>, kind # "absent", RetryWord(kind, n))
      C(n, c) == [Profile(n, <<>>, FALSE, NoRetryWord) EXCEPT !.context = c]
  IN {Diamond(P("p", k[1]), P("q", k[2]), P("r", k[3]), P("s", k[4])) :
        k \in [1..4 -> Kinds]}
     \cup {Diamond(C("p", p), C("q", q), C("r", r), C("s", s)) :
             p \in Contexts("p"), q \in Contexts("q"), r \in Contexts("r"),
             s \in Contexts("s")}

(* The same name in the file of profiles and in the configuration.         *)
ExternalProfiles ==
  LET P(n) == Profile(n, <<>>, TRUE, NoRetryWord)
      On(n) == Profile(n, <<"q">>, TRUE, NoRetryWord)
  IN {[Plain EXCEPT !.file.profiles = inline, !.flags.profile = name,
         !.flags.profiles = given, !.external = [state |-> state, profiles |-> outside]] :
        inline \in {<<>>, [p |-> P("p")], [p |-> On("p"), q |-> P("q")]},
        outside \in {<<>>, [p |-> P("p2")], [q |-> P("q2")], [p |-> On("p2")]},
        name \in {None, "p", "q"}, given \in BOOLEAN,
        state \in {"ok", "missing", "invalid"}}

-----------------------------------------------------------------------------
(* One setting, which each source gives or not; the call asks for an alias *)
(* or for a provider.                                                      *)
Precedence ==
  {[Plain EXCEPT
      !.call.gives = ("provider" :> to) @@ Give(g[1], s, "agent"),
      !.file.aliases = [a |-> [Alias(None, "b") EXCEPT
                                 !.gives = IF g[2] THEN {s} ELSE {}],
                        b |-> [Alias("codex", None) EXCEPT
                                 !.gives = IF g[3] THEN {s} ELSE {}]],
      !.flags.run = Give(g[4], s, "flag"),
      !.flags.profile = "p",
      !.file.profiles = [p |-> [Profile("p", <<>>, FALSE, NoRetryWord) EXCEPT
                                  !.run = Give(g[5], s, "p")]],
      !.file.providers.codex = [says |-> Give(g[6], s, "providers"),
                                thinking |-> Give(g[6] /\ s = "thinkingEffort", s, "old")],
      !.file.defaults = Give(g[7] /\ s # "thinkingEffort", s, "file")] :
    g \in [1..7 -> BOOLEAN], s \in AliasSettings, to \in {"a", "codex"}}

(* Who names the provider, of which one cannot be called, two know of no   *)
(* thinking effort and one of none so strong.                              *)
Providers ==
  {[Plain EXCEPT
      !.file.aliases = [a |-> Alias("codex", None)],
      !.call.gives = Give(g[1] # None, "provider", g[1])
                     @@ Give(effort # None, "thinkingEffort", effort),
      !.flags.run = Give(g[2] # None, "provider", g[2]),
      !.flags.profile = "p",
      !.file.profiles = [p |-> [Profile("p", <<>>, FALSE, NoRetryWord) EXCEPT
                                  !.run = Give(g[3] # None, "provider", g[3])
                                          @@ Give(effort = "off", "failFast", "p")]],
      !.file.defaults = Give(g[4] # None, "provider", g[4])
                        @@ Give(effort = None, "failFast", "file")] :
    g \in [1..4 -> {None, "a", "own", "gemini"}], effort \in {None, "off", "low"}}

-----------------------------------------------------------------------------
Retries ==
  LET Words5(n) == {Silent, Off, Tuned([delayMs |-> n]), Tuned([maxAttempts |-> 1]),
                    Tuned([maxAttempts |-> 3])}
      Options == {<<FALSE, <<>>>>, <<TRUE, <<>>>>, <<FALSE, [delayMs |-> "flag"]>>,
                  <<FALSE, [maxAttempts |-> 1]>>, <<FALSE, [disableDelay |-> "flag"]>>,
                  <<TRUE, [delayMs |-> "flag"]>>}
  IN {[Plain EXCEPT
         !.call = [gives |-> "provider" :> "a", retry |-> agent],
         !.file.aliases = [a |-> [Alias("codex", None) EXCEPT !.retry = alias]],
         !.file.retry = global,
         !.flags.noRetry = option[1], !.flags.retry = option[2],
         !.flags.profile = "p",
         !.file.profiles = [p |-> Profile("p", <<>>, FALSE, RetryWord(word, "p"))]] :
       agent \in Words5("agent") \ {Tuned([maxAttempts |-> 1])},
       alias \in Words5("a"), global \in Words5("file"), option \in Options,
       word \in {"absent", "off", "delay", "once", "policy", "no"}}

-----------------------------------------------------------------------------
(* A run, and its continuation after the project was edited or not.        *)
Continuations ==
  LET Inline == [p |-> [Profile("p", <<"q">>, TRUE, RetryWord("off", "p")) EXCEPT
                          !.run = [outDir |-> "p", concurrency |-> "p"]],
                 q |-> Profile("q", <<>>, TRUE, NoRetryWord)]
      Original == [PlainFile EXCEPT !.profiles = Inline, !.defaults = [failFast |-> "file"]]
      Later == {Original, [Original EXCEPT !.profiles = "q" :> Inline.q],
                [Original EXCEPT !.profiles.p.extends = <<"q", "p">>],
                [Original EXCEPT !.outDir = TRUE, !.defaults = [provider |-> "own"]],
                [Original EXCEPT !.defaults = [provider |-> "z"]],
                [Original EXCEPT !.ok = FALSE]}
      Given == {PlainFlags, [PlainFlags EXCEPT !.out = TRUE],
                [PlainFlags EXCEPT !.profile = "p"],
                [PlainFlags EXCEPT !.profile = "r", !.profiles = TRUE],
                [PlainFlags EXCEPT !.profile = "p", !.retry = [delayMs |-> "flag"]],
                [PlainFlags EXCEPT !.noRetry = TRUE, !.run = [model |-> "flag"]]}
      Now == {PlainFlags, [PlainFlags EXCEPT !.run = [model |-> "now"]],
              [PlainFlags EXCEPT !.profile = "q"], [PlainFlags EXCEPT !.profile = "p"],
              [PlainFlags EXCEPT !.noRetry = TRUE],
              [PlainFlags EXCEPT !.noRetry = TRUE, !.retry = [maxAttempts |-> 2]],
              [PlainFlags EXCEPT !.out = TRUE, !.retry = [maxAttempts |-> 2]]}
  IN {[Plain EXCEPT
         !.file = [Original EXCEPT !.outDir = placed], !.flags = given,
         !.external.profiles = "r" :> Profile("r", <<"q">>, TRUE, NoRetryWord),
         !.resume = [asked |-> TRUE,
                     file |-> IF later = Original THEN [Original EXCEPT !.outDir = placed]
                              ELSE later,
                     flags |-> now, byPath |-> path, renamed |-> odd[1], record |-> odd[2]]] :
       placed \in BOOLEAN, given \in Given, later \in Later, now \in Now,
       path \in BOOLEAN,
       odd \in {<<FALSE, "ok">>, <<TRUE, "ok">>, <<FALSE, "missing">>, <<FALSE, "badProfile">>}}

MCScenarios ==
  {AliasGraphs, AliasLines, ProfileGraphs, Diamonds, ExternalProfiles,
   Precedence, Providers, Retries, Continuations}
=============================================================================
