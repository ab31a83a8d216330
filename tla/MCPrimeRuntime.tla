---------------------------- MODULE MCPrimeRuntime ----------------------------
(* Two cells, hence up to two kernels of which one may be abandoned with   *)
(* its reader at work; a queue of one event; a budget of one child and of  *)
(* one token, which two callers can exceed together; two sizes of which    *)
(* only one artifact fits.                                                 *)
EXTENDS PrimeRuntime

MCCallTokens == {1}
MCSizes == {1, 2}
=============================================================================
