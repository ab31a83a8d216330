----------------------------- MODULE MCToolBroker -----------------------------
(* Small instances of the tool broker.                                     *)
EXTENDS ToolBroker, TLC

CONSTANTS c1, c2, c3, k1, k2, w1, w2, w3, rd

CallsInterchangeable == Permutations(Calls)

\* w1 and w2 are writes through one tool with different arguments, w3 is a
\* write through another tool and rd is a read.
ToolOfPayload ==
  [p \in Payloads |-> IF p \in {w1, w2} THEN "update" ELSE IF p = w3 THEN "delete" ELSE "read"]
=============================================================================
