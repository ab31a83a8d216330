--------------------------- MODULE MCRunCreation ---------------------------
(* Small instances of run creation under one key, by API clients or by     *)
(* executors of an evaluation cell.                                        *)
EXTENDS CellExecution, TLC

CONSTANTS r1, r2, r3, r4, p1, p2

Interchangeable == Permutations(Requests) \cup Permutations(Payloads)
=============================================================================
