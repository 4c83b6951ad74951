----------------------------- MODULE Discovery -----------------------------
(* Which files of the project are taken for workflows, agents and tools,   *)
(* and when what was found wrong on the way stops the run                  *)
(* (discovery/collect-files.ts, precollect.ts, policy.ts, service.ts,      *)
(* duplicate-detector.ts, extract-workflow.ts).                            *)
(*                                                                         *)
(* disk says of each path [real, kind, runnable, marked, text]: the file   *)
(* it leads to (itself unless it is a link; 0 stands for a file outside    *)
(* the workspace), whether that is a file, a directory or missing, whether *)
(* the name has an extension that can be loaded and the marker of the      *)
(* resource, and what is written there.  Paths are ordered as their names. *)
EXTENDS DiscoveryConfig, FiniteSetsExt

Outside == 0
Inside(disk, p) == disk[p].real # Outside
Written(disk, p) == disk[disk[p].real].text

-----------------------------------------------------------------------------
(* What one include expands to.  A literal path is tested itself, a glob   *)
(* at the directory it starts in; links to files are added after the files *)
(* that the glob library returned.                                         *)
BaseState(p, disk) ==
  IF p.form = "glob" THEN p.base ELSE disk[CHOOSE path \in p.matches : TRUE].kind

Expanded(p, disk) ==
  CASE p.form = "file" /\ BaseState(p, disk) = "file" -> SetToSeq(p.matches)
    [] p.form = "glob" /\ p.base = "directory" ->
         LET hits == {path \in p.matches : disk[path].kind = "file"}
             links == {path \in hits : disk[path].real # path}
         IN SetToSortSeq(hits \ links, <) \o SetToSortSeq(links, <)
    [] OTHER -> <<>>

(* The excludes are held against the path that matched, not against the    *)
(* file that a link leads to.                                              *)
Excluded(discovered, path) ==
  \E x \in ToSet(discovered.exclude) : path \in x.matches

BaseNote(resource, discovered, p, disk, strict, configured) ==
  LET Note(code) == {[ resource |-> resource, code |-> code,
                       level |-> IF strict THEN "error" ELSE "warning" ]}
  IN CASE BaseState(p, disk) = "missing" /\ ~(discovered.source = "default" /\ configured) ->
            Note("LIST_DIRECTORY_NOT_FOUND")
       [] BaseState(p, disk) # "missing"
          /\ BaseState(p, disk) # (IF p.form = "glob" THEN "directory" ELSE "file") ->
            Note("LIST_FILE_UNREADABLE")
       [] OTHER -> {}

(* The filters, up to the one for links that leave the workspace.          *)
Wanted(discovered, hit, disk) ==
  /\ disk[hit.path].runnable
  /\ MarkerRequired(discovered, hit.by) => disk[hit.path].marked
  /\ ~Excluded(discovered, hit.path)

Escapes(discovered, hits, disk) ==
  {hit \in ToSet(hits) : Wanted(discovered, hit, disk) /\ ~Inside(disk, hit.path)}

(* collectCompiledResourceCandidateFiles.  The first path that leads to a  *)
(* file is the one under which the file is known.                          *)
FirstOfEachFile(discovered, hits, disk) ==
  LET Taken(i) == /\ Wanted(discovered, hits[i], disk) /\ Inside(disk, hits[i].path)
                  /\ disk[hits[i].path].kind = "file"
      Real(i) == disk[hits[i].path].real
  IN {i \in DOMAIN hits :
        Taken(i) /\ \A j \in 1..(i - 1) : ~(Taken(j) /\ Real(j) = Real(i))}

Collected(resource, discovered, disk, strict, configured) ==
  LET Hits(p) == [i \in DOMAIN Expanded(p, disk) |-> [path |-> Expanded(p, disk)[i], by |-> p]]
      hits == FlattenSeq([i \in DOMAIN discovered.include |-> Hits(discovered.include[i])])
      first == FirstOfEachFile(discovered, hits, disk)
      escapes == Escapes(discovered, hits, disk)
      Noted(p) == BaseNote(resource, discovered, p, disk, strict, configured)
      includes == ToSet(discovered.include)
      idle == /\ discovered.source # "default" /\ first = {}
              /\ \E p \in includes : /\ BaseState(p, disk) = (IF p.form = "glob"
                                                              THEN "directory" ELSE "file")
                                     /\ ~\E hit \in escapes : hit.by = p
      unused == /\ discovered.excludeSource # "default"
                /\ \E x \in ToSet(discovered.exclude) :
                     ~\E hit \in ToSet(hits) :
                        /\ hit.path \in x.matches /\ disk[hit.path].runnable
                        /\ MarkerRequired(discovered, hit.by) => disk[hit.path].marked
  IN [ files |-> {[ path |-> hits[i].path, real |-> disk[hits[i].path].real,
                    source |-> discovered.source ] : i \in first},
       listed |-> UNION {Noted(p) : p \in includes},
       said |-> (IF escapes = {} THEN {} ELSE {Diagnostic(resource, "error", "SYMLINK_ESCAPE")})
                \cup (IF idle THEN {Diagnostic(resource, "warning", "INCLUDE_MATCHED_NOTHING")}
                      ELSE {})
                \cup (IF unused THEN {Diagnostic(resource, "warning", "EXCLUDE_MATCHED_NOTHING")}
                      ELSE {}) ]

(* precollectAllResourcesForLoad.                                          *)
Precollected(discovery, disk, strict, configured) ==
  [resource \in Resources |->
     Collected(resource, discovery[resource], disk, strict, configured)]

-----------------------------------------------------------------------------
(* applyDiscoveryPolicy over a result [types, found, listed, said]: the    *)
(* resources asked for and those that were found, the diagnostics of the   *)
(* listing, and all that the configuration and the collection said.        *)
AllPathsFailed(result) ==
  /\ result.types # {}
  /\ \A resource \in result.types :
       /\ \E d \in result.listed : d.resource = resource /\ d.code = "LIST_DIRECTORY_NOT_FOUND"
       /\ ~\E r \in result.found : r.resource = resource

Errors(diagnostics) == {d \in diagnostics : d.level = "error"}
Fatal(result, strict) == {d \in result.said : strict /\ FatalInStrict(d)}

DiscoveryFailed(result, strict) ==
  \/ Errors(result.listed) # {} \/ Errors(result.said) # {}
  \/ Fatal(result, strict) # {} \/ AllPathsFailed(result)

(* shouldFailBeforeLoad of a run or a validation.                          *)
BlocksLoading(result, strict) ==
  \/ Fatal(result, strict) # {}
  \/ strict /\ DiscoveryFailed(result, strict)
  \/ \E d \in Errors(result.said) : ~FatalInStrict(d) \/ strict
  \/ Errors(result.listed) # {}
  \/ AllPathsFailed(result)

Passed == "passed"

(* checkDiscoveryPolicy.                                                   *)
PolicyVerdict(discovery, collected, strict) ==
  LET said == ConfigSaid(discovery) \cup UNION {collected[r].said : r \in Resources}
      result == [ types |-> Resources, said |-> said,
                  found |-> UNION {{[resource |-> r, path |-> f.path] : f \in collected[r].files} :
                                     r \in Resources},
                  listed |-> UNION {collected[r].listed : r \in Resources} ]
      escapes == {d \in said : d.code = "SYMLINK_ESCAPE"}
  IN CASE ~BlocksLoading(result, strict) -> Passed
       [] BlocksLoading(result, strict) /\ escapes = {} -> "WORKFLOW_DISCOVERY_FAILED"
       [] OTHER -> IF \E d \in escapes :
                        /\ d.resource = "sharedAgents"
                        /\ \A e \in escapes : e.resource # "workflow"
                   THEN "SHARED_AGENT_SECURITY_POLICY_VIOLATION"
                   ELSE "SECURITY_POLICY_VIOLATION"

-----------------------------------------------------------------------------
(* DiscoveryService.discover for the workflows, as the resolution of a     *)
(* name calls it (never strict): the metadata of each candidate, read as   *)
(* static values without running the file.  Two workflows of one name are  *)
(* both kept, with a warning.                                              *)
Extracted(text) == text.kind = "workflow" /\ text.meta \in {"literal", "static"}

FoundWorkflows(discovery, disk, configured) ==
  LET collected == Collected("workflow", discovery["workflow"], disk, FALSE, configured)
      valid == {f \in collected.files : Extracted(Written(disk, f.path))}
  IN [ types |-> {"workflow"}, listed |-> collected.listed,
       said |-> ConfigSaid(discovery) \cup collected.said,
       found |-> {[ resource |-> "workflow", path |-> f.path,
                    name |-> Written(disk, f.path).name ] : f \in valid} ]

Namesakes(result, name) == {r \in result.found : r.name = name}

(* The candidates that a run by name is narrowed to: the match and every   *)
(* workflow whose name nobody shares.                                      *)
UniqueNames(result) ==
  {r.path : r \in {r \in result.found : Cardinality(Namesakes(result, r.name)) = 1}}
=============================================================================
