--------------------------- MODULE MCLifecycleJob ---------------------------
(* A small experiment: an adaptation cell with two nested calls and one    *)
(* retry, a validation panel of two cells on the pool, the gate, and a     *)
(* final panel.                                                            *)
EXTENDS LifecycleJob, TLC

CONSTANTS r1, r2, adapt, v1, v2, f1

RunnersInterchangeable == Permutations(Runners)

MCPanels   == << <<adapt>>, <<v1, v2>>, <<f1>> >>
MCRetries  == << 1, 0, 0 >>
MCChildren == [c \in Cells |-> IF c = adapt THEN <<"evaluation", "learning">> ELSE << >>]
=============================================================================
