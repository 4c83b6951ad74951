------------------------- MODULE MCWorkflowLoading -------------------------
(* Scenarios of WorkflowLoading for TLC, in families: each varies what one *)
(* step of the loading looks at, and leaves the rest of a small sound      *)
(* project as it is: three workflows (1 to 3), an agent (4), a tool (5),   *)
(* and two more files (6 and 7).                                           *)
EXTENDS AgentIds

NoScript == [sites |-> {}, schemaOk |-> TRUE]
File(kind, name) ==
  [ kind |-> kind, name |-> name, meta |-> "literal", ok |-> TRUE, schema |-> FALSE,
    version |-> 1, imports |-> {}, script |-> NoScript ]
At(path, text) ==
  [real |-> path, kind |-> "file", runnable |-> TRUE, marked |-> TRUE, text |-> text]
Nothing == At(Outside, File("other", "none"))
Gone(path) == [Nothing EXCEPT !.real = path, !.kind = "missing"]
Calls(sites) == [NoScript EXCEPT !.sites = sites]

Arg(ref) == [shape |-> "object", bad |-> FALSE, ref |-> ref, args |-> "fits", extra |-> {}]
Site(path, on, method, ref) ==
  [path |-> path, on |-> on, method |-> method, arg |-> Arg(ref), line |-> 1]
Invoke(name) == Site(<<"main">>, "global", "workflow", name)

PlainDisk ==
  [ p \in 0..7 |->
      CASE p = 1 -> At(1, File("workflow", "root"))
        [] p = 2 -> At(2, File("workflow", "a"))
        [] p = 3 -> At(3, File("workflow", "b"))
        [] p = 4 -> At(4, File("agent", "x"))
        [] p = 5 -> At(5, File("tool", "t"))
        [] p \in {6, 7} -> Gone(p)
        [] OTHER -> Nothing ]

Glob(matches) ==
  [form |-> "glob", fault |-> "none", matches |-> matches, generic |-> FALSE,
   base |-> "directory"]
Literal(path) == [Glob({path}) EXCEPT !.form = "file"]
NoOld == [ok |-> TRUE, include |-> <<>>, exclude |-> <<>>]
Keys(default) ==
  [cli |-> <<>>, include |-> <<>>, exclude |-> <<>>, old |-> NoOld, default |-> <<default>>]
PlainKeys ==
  [workflow |-> Keys(Glob({1, 2, 3})), sharedAgents |-> Keys(Glob({4})),
   tools |-> Keys(Glob({5}))]

Plain ==
  [ keys |-> PlainKeys, disk |-> PlainDisk, edits |-> {}, strict |-> FALSE,
    configured |-> TRUE, linked |-> FALSE, byName |-> FALSE, target |-> "root",
    asFile |-> 1, maxAgents |-> 2, maxTools |-> 2, beside |-> {},
    providers |-> {"mock"}, dynamicIds |-> TRUE, calls |-> 0 ]

WithScript(path, sites) == [Plain EXCEPT !.disk[path].text.script = Calls(sites)]

-----------------------------------------------------------------------------
(* One call, at every place of up to three frames.                         *)
Frames == {"helper", "callback", "accessor", "argument", "task", "stage", "definition",
           "loop-part", "loop-value", "round", "ctx-round", "bare-round", "alias-round"}
Inner == {<<>>} \cup {<<f>> : f \in Frames} \cup {<<f, g>> : f, g \in Frames}
Places == {<<"main">> \o p : p \in Inner} \cup (Inner \ {<<>>})

(* The calls of loop() that open the rounds of a place.                    *)
LoopsAround(path) ==
  {[Site(SubSeq(path, 1, i - 1), "global", "loop", "dynamic") EXCEPT !.line = 2] :
     i \in {i \in DOMAIN path : path[i] \in Rounds}}
Placed(site) == WithScript(1, {site} \cup LoopsAround(site.path))

Placements ==
  {Placed(Site(p, on, "tool", "t")) : p \in Places, on \in {"global", "ctx", "round"}}
  \cup {Placed(Site(p, "global", m, "dynamic")) : p \in Places, m \in {"loop", "break"}}

(* One call in the main workflow, with every argument.                     *)
Arguments ==
  {WithScript(1, {[Site(<<"main">>, "global", m, ref) EXCEPT
                     !.arg.shape = shape, !.arg.bad = bad, !.arg.args = args,
                     !.arg.extra = IF m = "loop" THEN rounds
                                   ELSE IF m = "agent" THEN provider ELSE {}]}) :
     m \in {"tool", "workflow", "agent", "loop"},
     ref \in {"absent", "dynamic", "path", "a", "t", "x"}, shape \in {"other", "object"},
     bad \in BOOLEAN, args \in {"absent", "unsafe", "misfit", "fits"},
     rounds \in {{}, {2}, {5}}, provider \in {{}, {"mock"}, {"nope"}}}
  \cup {[WithScript(1, {[Site(<<"main">>, "global", "agent", "dynamic") EXCEPT
                           !.arg.args = "fits"]}) EXCEPT !.dynamicIds = FALSE]}
  \cup {[p EXCEPT !.disk[2].text.schema = TRUE, !.disk[5].text.schema = TRUE,
                  !.disk[4].text.schema = TRUE] :
          p \in {WithScript(1, {[Site(<<"main">>, "global", m, ref) EXCEPT
                                   !.arg.args = args]}) :
                   m \in {"tool", "workflow", "agent"}, ref \in {"a", "t", "x"},
                   args \in {"misfit", "fits"}}}
  \cup {WithScript(1, {Site(<<"main">>, "global", "loop", "l"),
                       [Site(<<"main">>, "global", "loop", k) EXCEPT !.line = 2]}) :
          k \in {"l", "k"}}
  \cup {WithScript(1, {Site(<<"main">>, "global", m, "dynamic")}) :
          m \in Banned \cup {"clock"}}
  \cup {[Plain EXCEPT !.disk[1].text.script.schemaOk = FALSE]}

(* Which workflow calls which, and which of them is broken.                *)
Graphs ==
  LET Edges == SUBSET {"root", "a", "b"}
      Scripted(r, a, b, how) ==
        [Plain EXCEPT !.disk[1].text.script = Calls({how[n] : n \in r}),
                      !.disk[2].text.script = Calls({Invoke(n) : n \in a}),
                      !.disk[3].text.script = Calls({Invoke(n) : n \in b})]
      Direct == [n \in {"root", "a", "b"} |-> Invoke(n)]
      InRound(f, on) ==
        [n \in {"root", "a", "b"} |-> Site(<<"main", f>>, on, "workflow", n)]
      Broken(p, path) ==
        [p EXCEPT !.disk[path].text.script.sites =
           @ \cup {[Site(<<"main">>, "global", "tool", "nope") EXCEPT !.line = 3]}]
      Unknown(p, path) ==
        [p EXCEPT !.disk[path].text.script.sites =
           @ \cup {[Site(<<"main">>, "global", "agent", "x") EXCEPT !.arg.extra = {"nope"}]}]
  IN {Scripted(r, a, b, Direct) : r, a, b \in Edges}
     \cup {Broken(Scripted(r, a, b, Direct), path) : r, a, b \in Edges, path \in {2, 3}}
     \cup {Unknown(Scripted(r, {"b"}, {}, Direct), path) : r \in Edges, path \in {1, 2, 3}}
     \cup {Scripted(r, a, {}, InRound("ctx-round", "ctx")) : r, a \in Edges}

(* Names that are shared, files that do not parse, links, and the way the  *)
(* root is asked for.                                                      *)
Targets ==
  LET Named(n2, n3) == [Plain EXCEPT !.disk[2].text.name = n2, !.disk[3].text.name = n3]
      Asked(p, by) ==
        CASE by = "path" -> p
          [] by = "name" -> [p EXCEPT !.byName = TRUE, !.asFile = 7]
          [] by = "wrong name" -> [p EXCEPT !.byName = TRUE, !.target = "c", !.asFile = 7]
          [] by = "file name" -> [p EXCEPT !.byName = TRUE, !.target = "c", !.asFile = 1]
          [] by = "missing path" -> [p EXCEPT !.asFile = 7]
          [] by = "outside path" -> [p EXCEPT !.disk[7] = Nothing, !.asFile = 7]
      Bys == {"path", "name", "wrong name", "file name", "missing path", "outside path"}
      Odd(p, meta, kind) == [p EXCEPT !.disk[2].text.meta = meta, !.disk[2].text.kind = kind]
      Legacy(p) == [p EXCEPT !.keys.workflow.old.include = <<Listed(<<Glob({1, 2, 3})>>)>>]
      Linked(p, path, to) ==
        [p EXCEPT !.disk[path] = At(to, Nothing.text), !.keys.workflow =
           [@ EXCEPT !.default = <<Glob({1, 2, 3, path})>>]]
      Rooted(p) == [p EXCEPT !.disk[1].text.script = Calls({Invoke("a")})]
      Bases == {Asked(Named(n2, n3), by) : n2, n3 \in {"root", "a", "b"}, by \in Bys}
  IN Bases \cup {Legacy(p) : p \in Bases}
     \cup {Odd(p, meta, kind) : p \in Bases \cup {Legacy(q) : q \in Bases},
             meta \in {"static", "none"}, kind \in {"workflow", "other"}}
     \cup {Linked(Rooted(p), path, to) : p \in Bases, path \in {6, 7}, to \in {0, 1, 2, 3}}
     \cup {[Rooted(p) EXCEPT !.disk[7] = At(2, Nothing.text), !.disk[2].marked = FALSE,
                             !.keys.workflow.default = <<Glob({1, 2, 3, 7})>>] : p \in Bases}
     \cup {[Rooted(p) EXCEPT !.linked = TRUE, !.keys.tools.default = ts] :
             p \in Bases, ts \in {<<>>, <<Glob({5})>>}}

(* What the keys of a resource say.                                        *)
PathConfigs ==
  LET Faults == {"none", "empty", "slash", "absolute", "absolute-outside", "outside"}
      Patterns ==
        {[Glob({1, 2, 3}) EXCEPT !.fault = f] : f \in Faults}
        \cup {[Glob({1, 2, 3}) EXCEPT !.form = f] : f \in {"directory", "suffix"}}
        \cup {[Glob({1, 2, 3}) EXCEPT !.base = b] : b \in {"missing", "file"}}
        \cup {Literal(1), Literal(7), [Glob({1, 2, 3}) EXCEPT !.generic = TRUE]}
      Lists == {<<>>} \cup {<<Listed(<<p>>)>> : p \in Patterns}
               \cup {<<[ok |-> FALSE, patterns |-> <<>>]>>}
      Excludes == {<<>>, <<Listed(<<Glob({2})>>)>>, <<Listed(<<Literal(6)>>)>>,
                   <<Listed(<<[Glob({1}) EXCEPT !.fault = "slash"]>>)>>}
      Keyed(k, strict, by) ==
        [Plain EXCEPT !.keys.workflow = k, !.strict = strict, !.byName = by,
                      !.disk[2].marked = FALSE]
      Workflow == Keys(Glob({1, 2, 3}))
  IN {Keyed([Workflow EXCEPT !.include = i, !.exclude = x], s, by) :
        i \in Lists, x \in Excludes, s \in BOOLEAN, by \in BOOLEAN}
     \cup {Keyed([Workflow EXCEPT !.old.include = i, !.old.exclude = x, !.include = n], s, FALSE) :
             i \in Lists, x \in Excludes, n \in {<<>>, <<Listed(<<Glob({1})>>)>>}, s \in BOOLEAN}
     \cup {Keyed([Workflow EXCEPT !.cli = <<p>>], s, FALSE) : p \in Patterns, s \in BOOLEAN}
     \cup {Keyed([Workflow EXCEPT !.old.ok = FALSE, !.include = n], s, FALSE) :
             n \in {<<>>, <<Listed(<<Glob({1})>>)>>}, s \in BOOLEAN}
     \cup {[Plain EXCEPT !.keys[r].old.include = i, !.strict = s, !.configured = c,
                         !.keys["workflow"].default = <<[Glob({1, 2, 3}) EXCEPT !.base = b]>>,
                         !.keys["tools"].default = <<[Glob({5}) EXCEPT !.base = b]>>,
                         !.keys["sharedAgents"].default = <<[Glob({4}) EXCEPT !.base = b]>>] :
             r \in {"tools", "sharedAgents"}, c \in BOOLEAN, s \in BOOLEAN,
             b \in {"directory", "missing"},
             i \in {<<>>, <<[ok |-> FALSE, patterns |-> <<>>]>>,
                    <<Listed(<<[Glob({5}) EXCEPT !.generic = TRUE]>>)>>}}
     \cup {[Plain EXCEPT !.disk[7] = Nothing, !.keys[r].default = <<Glob({n, 7})>>,
                         !.strict = s, !.keys[q].default = <<Glob({m, 7})>>] :
             r \in {"workflow", "sharedAgents"}, n \in {1, 4},
             q \in {"tools", "sharedAgents"}, m \in {5, 4}, s \in BOOLEAN}

(* A second agent and a second tool; what the tools import, and what is    *)
(* beside them.                                                            *)
Definitions ==
  LET With(texts, r, files) ==
        [Plain EXCEPT !.disk[6] = At(6, texts[1]), !.disk[7] = At(7, texts[2]),
                      !.keys[r].default = <<Glob(files)>>]
      Kinds == {"agent", "tool", "other"}
      Texts == {[File(k, n) EXCEPT !.ok = ok, !.meta = m] :
                  k \in Kinds, n \in {"x", "y", "t"}, ok \in BOOLEAN, m \in {"static", "none"}}
      Fresh == [agent |-> File("agent", "z"), tool |-> File("tool", "z")]
  IN {[With(<<t, Fresh.agent>>, "sharedAgents", fs) EXCEPT !.maxAgents = n] :
        t \in Texts, fs \in {{4, 6}, {4, 6, 7}}, n \in {1, 2, 3}}
     \cup {[With(<<t, Fresh.tool>>, "tools", fs) EXCEPT !.maxTools = n] :
             t \in Texts, fs \in {{5, 6}, {5, 6, 7}}, n \in {1, 2, 3}}
     \cup {[Plain EXCEPT !.disk[5].text.imports = i, !.disk[6] = At(r, File("other", "lib")),
                         !.disk[6].text.imports = j, !.disk[7] = At(7, File("other", "lib")),
                         !.beside = b, !.keys.tools.exclude = x] :
             i \in {{}, {6}}, j \in {{}, {7}, {0}, {5}}, r \in {6, 0}, b \in SUBSET {6, 7},
             x \in {<<>>, <<Listed(<<Glob({6})>>)>>, <<Listed(<<Literal(7)>>)>>}}
     \cup {[Plain EXCEPT !.disk[7] = At(5, Nothing.text), !.keys.tools.default = <<Glob(g)>>,
                         !.keys.tools.exclude = <<Listed(<<Literal(5)>>)>>] :
             g \in {{7}, {5, 7}}}

(* Files that are edited while they are loaded.  What lies outside has a   *)
(* text that no file of the project has.                                   *)
Edited ==
  LET Writes(p, text) == [path |-> p, real |-> p, text |-> text]
      Tool(n, v) == Writes(5, [File("tool", n) EXCEPT !.version = v])
      Import == Writes(5, [File("tool", "t") EXCEPT !.imports = {6}])
      Spoilt(p) == Writes(p, File("other", "none"))
      Renamed == Writes(3, File("workflow", "a"))
      Relinked(p) == [path |-> p, real |-> Outside, text |-> Nothing.text]
      Calling(p, n, names) ==
        Writes(p, [File("workflow", n) EXCEPT !.script = Calls({Invoke(m) : m \in names})])
      Agent == Writes(4, File("agent", "y"))
      Single == {Tool("u", 1), Tool("t", 2), Import, Spoilt(1), Spoilt(2), Spoilt(5),
                 Renamed, Calling(2, "a", {"root"}), Calling(1, "root", {"b"}), Agent}
                \cup {Relinked(p) : p \in {1, 2, 4, 5}}
      Uses(p) == [p EXCEPT !.disk[1].text.script =
                    Calls({Invoke("a"), [Site(<<"main">>, "global", "tool", "t") EXCEPT
                                           !.line = 2]})]
  IN {[Uses(Plain) EXCEPT !.edits = es, !.byName = by, !.asFile = IF by THEN 7 ELSE 1] :
        es \in {{e} : e \in Single} \cup {{Tool("u", 1), Tool("t", 2)}, {Renamed, Tool("t", 2)}},
        by \in BOOLEAN}
     \cup {[Uses(Plain) EXCEPT !.edits = {Relinked(e.path)},
                               !.disk[Outside].text = [e.text EXCEPT !.imports = {6}]] :
             e \in {Tool("t", 1), Writes(4, File("agent", "x")), Calling(1, "root", {}),
                    Calling(2, "a", {})}}
     \cup {[Uses(Plain) EXCEPT !.edits = {Relinked(7)}, !.keys.tools.default = <<Glob({7})>>,
                               !.disk[7] = At(5, Nothing.text),
                               !.disk[Outside].text = [e.text EXCEPT !.imports = {6}]] :
             e \in {Tool("t", 1), Tool("t", 9)}}

(* Workflows whose agents are called: two calls, of an agent of its own or *)
(* of a shared one, at the places of the root, or of a child and the root. *)
Running ==
  LET Agent(path, on, ref) == Site(path, on, "agent", ref)
      Anywhere(paths, ref) == {Agent(<<"main">> \o p, "global", ref) : p \in paths}
      InRound(paths, ref) == {Agent(<<"main", "round">> \o p, "round", ref) : p \in paths}
      Spots == {<<>>, <<"task">>, <<"round">>, <<"stage">>, <<"round", "stage">>}
      OneLoop == Site(<<"main">>, "global", "loop", "dynamic")
      Both(p, refs) == UNION {Anywhere(p, r) \cup InRound({<<>>, <<"stage">>}, r) : r \in refs}
      Ran(p) == [p EXCEPT !.calls = 2]
      Invoking(p) == [Invoke("a") EXCEPT !.path = <<"main">> \o p]
  IN {Ran(WithScript(1, {OneLoop} \cup Both(Spots, {"absent", "x"})))}
     \cup {Ran([WithScript(1, {OneLoop, Invoking(p)} \cup Both({<<"round">>}, {"absent"}))
                EXCEPT !.disk[2].text.script =
                         Calls({OneLoop} \cup Both({<<>>, <<"round">>}, {"absent"}))]) :
             p \in {<<>>, <<"round">>, <<"stage">>}}

MCScenarios ==
  {Placements, Arguments, Graphs, Targets, PathConfigs, Definitions, Edited, Running}
=============================================================================
