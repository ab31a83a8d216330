---------------------------- MODULE MCDiagnostics ----------------------------
(* Two processes that launch the same diagnostic, one of which cancels it, *)
(* and a third that was started with another frozen protocol.              *)
EXTENDS Diagnostics

CONSTANTS p1, p2, p3, l1, l2, l3, k1

MCHome == [x \in Launches \cup Cancels |->
             CASE x \in {l1, k1} -> p1 [] x = l2 -> p2 [] x = l3 -> p3]
=============================================================================
