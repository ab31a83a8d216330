------------------------------ MODULE MCLearning ------------------------------
(* Two requests with a run in common; one of them is for another run too,  *)
(* of which one of two results was saved by a process that died, and has   *)
(* that run as its primary.                                                *)
EXTENDS Learning

CONSTANTS q1, q2, r1, r2, e1, e2, e3, d1

MCEventsOf == [r \in Runs |-> IF r = r1 THEN <<e1>> ELSE <<e2, e3>>]
MCDeclared == [q \in Requests |-> IF q = q1 THEN [runs |-> {r1}, primary |-> r1]
                                        ELSE [runs |-> {r1, r2}, primary |-> r2]]
MCUsages == {1, 2}
=============================================================================
