---------------------------- MODULE MCCallCache ----------------------------
(* Bounded instances of CallCache for TLC.                                 *)
EXTENDS CallCache

Agent(fp) == [kind |-> "agent", fp |-> fp]
Marker(fp) == [kind |-> "marker", fp |-> fp]
Parallel == [kind |-> "parallel", fp |-> "none"]
PlainTool == [kind |-> "plain", fp |-> "none"]

(* A workflow, the same one with its first prompt edited, with a tool that *)
(* is not cacheable, with parallel(), and with a loop marker of two loops. *)
Workflows ==
  { <<Agent("a"), Agent("b")>>,
    <<Agent("x"), Agent("b")>>,
    <<Agent("a"), PlainTool, Agent("b")>>,
    <<Agent("a"), Parallel, Agent("b")>>,
    <<Marker("m"), Agent("b")>>,
    <<Marker("n"), Agent("b")>> }
=============================================================================
