--------------------------- MODULE MCEvaluationJob ---------------------------
(* On one benchmark its smoke, two drivers of its panel under one owner id *)
(* and one of another owner; on another benchmark with the same base and   *)
(* a finished smoke, one driver.                                           *)
EXTENDS EvaluationJob

CONSTANTS s1, d1, d2, d3, d4, b1, b2, o1, o2, f1, f2, t1, t2, u1

MCBench == [d \in Drivers |-> IF d = d4 THEN b2 ELSE b1]
MCOwner == [d \in Drivers |-> IF d = d3 THEN o2 ELSE o1]
MCInputs == [d \in Drivers |-> f1]
MCPanels == << <<t1>>, <<t2>> >>
MCSmokePanel == <<u1>>
MCOutcomes == [d \in Drivers |->
  CASE d = d1 -> {"complete", "failed", "uncertain"}
    [] d \in {s1, d2} -> {"complete", "failed"}
    [] OTHER -> {"complete"}]
=============================================================================
