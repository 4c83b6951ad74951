------------------------ MODULE MCRetryOrchestrator ------------------------
(* Bounded instances of RetryOrchestrator for TLC.                         *)
EXTENDS RetryOrchestrator

Result(status, code, nonzero) ==
  [status |-> status, code |-> code, name |-> "none", nonzeroExit |-> nonzero]

(* One result for each way the classification decides and the loop goes    *)
(* on: by code, by name, by status, by exit code and not at all.           *)
ResultKinds ==
  { Result("succeeded", "none", FALSE),
    [Result("failed", "INTERNAL_ERROR", FALSE) EXCEPT !.name = "ParseError"],
    Result("failed", "OTHER", TRUE),
    Result("failed", "OTHER", FALSE),
    Result("timed_out", "PROCESS_TIMEOUT", FALSE) }
=============================================================================
