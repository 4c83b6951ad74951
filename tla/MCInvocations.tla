--------------------------- MODULE MCInvocations ---------------------------
(* Values of the constants of Invocations for TLC: the second child asks   *)
(* for a stricter limit than the first.                                    *)
EXTENDS Invocations

Bounds == [i \in Invs \ {0} |-> IF i = 1 THEN 2 ELSE 1]
=============================================================================
