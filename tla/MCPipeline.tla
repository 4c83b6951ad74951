----------------------------- MODULE MCPipeline -----------------------------
(* Values of the constants of Pipeline for TLC: the first stage is limited *)
(* by its own setting, below the option, and the second by the option.     *)
EXTENDS Pipeline

OwnLimits == <<1, 0>>
OptionLimits == <<2, 1>>
=============================================================================
