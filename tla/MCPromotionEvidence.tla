------------------------- MODULE MCPromotionEvidence -------------------------
(* Two known environments, one of them with two tasks, and a sealed one.   *)
(* Scenes: one validation over every pattern of passes and one odd run, or *)
(* over every pattern of costs; one final; two validations, and a          *)
(* validation with a final, on a server that is restarted twice.           *)
EXTENDS PromotionEvidence

CONSTANTS v1, v2, f1, c1, c2, g, p1, p2, k1, k2, fin, sup, lab, t1, t2

MCTasksOf == [e \in {fin, sup, lab} |-> IF e = fin THEN {t1, t2} ELSE {t1}]

Good == [passed |-> TRUE, reliable |-> TRUE, violations |-> 0, safe |-> TRUE, cost |-> 10, latency |-> 10,
         home |-> TRUE, reset |-> TRUE, complete |-> TRUE, real |-> TRUE, traced |-> TRUE, backed |-> TRUE,
         failure |-> NoValue, version |-> 1]
Wrong == [Good EXCEPT !.passed = FALSE, !.reliable = FALSE]
(* Costs: 13 + 10 + 10 is exactly the ratio, two of 13 exceed it.          *)
MCObserved ==
  [good |-> Good, wrong |-> Wrong, flaky |-> [Good EXCEPT !.reliable = FALSE],
   dear |-> [Good EXCEPT !.cost = 13], huge |-> [Good EXCEPT !.cost = 60],
   free |-> [Good EXCEPT !.cost = 0], unpaid |-> [Wrong EXCEPT !.cost = 0],
   slow |-> [Good EXCEPT !.latency = 11], endless |-> [Good EXCEPT !.latency = 16], stalled |-> [Wrong EXCEPT !.latency = 16],
   unsafe |-> [Good EXCEPT !.violations = 1, !.safe = FALSE],
   simulated |-> [Good EXCEPT !.real = FALSE, !.backed = FALSE],
   untraced |-> [Good EXCEPT !.traced = FALSE], unbacked |-> [Good EXCEPT !.backed = FALSE],
   dirty |-> [Good EXCEPT !.reset = FALSE], broken |-> [Good EXCEPT !.failure = "provider"],
   partial |-> [Good EXCEPT !.complete = FALSE], leaked |-> [Good EXCEPT !.home = FALSE],
   other |-> [Good EXCEPT !.version = 2]]
Odd == DOMAIN MCObserved \ {"good", "wrong"}

Row(c, k) == [cell |-> c, kind |-> k, copy |-> 1]
RowsOf(f) == {Row(c, f[c]) : c \in DOMAIN f}
(* One cell is odd, missing or measured twice.                             *)
Spoilt(f, cells) ==
  {RowsOf(f)} \cup {RowsOf([f EXCEPT ![c] = k]) : c \in cells, k \in Odd}
  \cup {RowsOf(f) \ {Row(c, f[c])} : c \in cells}
  \cup {RowsOf(f) \cup {[Row(c, f[c]) EXCEPT !.copy = 2]} : c \in cells}

MCValidation == Panel("validation")
Passes1 == UNION {Spoilt(f, MCValidation) : f \in [MCValidation -> {"good", "wrong"}]}
Costs1 == {RowsOf([c \in MCValidation |-> IF c[4] = "B0" THEN b ELSE l[<<c[1], c[2]>>]]) :
             b \in {"wrong", "unpaid"},
             l \in [{<<fin, t1>>, <<fin, t2>>, <<sup, t1>>} -> {"good", "dear", "huge", "free", "slow", "endless"}]}

(* A final whose arms B0 and L are uniform in each environment.            *)
FinalPanel(p) == [c \in Panel("final") |-> IF c[4] = "A" THEN "good" ELSE p[<<c[1], c[4]>>]]
Finals == UNION {Spoilt(FinalPanel(p), {c \in Panel("final") : c[1] = lab}) :
                   p \in [{fin, sup, lab} \X {"B0", "L"} -> {"good", "wrong"}]}

Uniform(phase, b, l) == RowsOf([c \in Panel(phase) |-> IF c[4] = "L" THEN l ELSE b])
Few == {Uniform("validation", "wrong", "good"), Uniform("validation", "good", "wrong"),
        Uniform("validation", "wrong", "simulated"), Uniform("validation", "wrong", "unbacked")}

MCScenes ==
  <<[restarts |-> 0, launches |-> 1, panels |-> [j \in {v1} |-> Passes1]],
    [restarts |-> 0, launches |-> 1, panels |-> [j \in {v1} |-> Costs1]],
    [restarts |-> 0, launches |-> 1, panels |-> [j \in {f1} |-> Finals]],
    [restarts |-> 2, launches |-> 2, panels |-> [j \in {v1, v2} |-> IF j = v1 THEN Few ELSE {Uniform("validation", "wrong", "good")}]],
    [restarts |-> 2, launches |-> 2, panels |-> [j \in {v1, f1} |-> IF j = v1 THEN {Uniform("validation", "wrong", "good")}
                                                     ELSE {Uniform("final", "wrong", "good")}]]>>

MCPhase == [j \in {v1, v2, f1} |-> IF j = f1 THEN "final" ELSE "validation"]
MCCandidate == [j \in {v1, v2, f1} |-> IF j = v2 THEN c2 ELSE c1]
MCReleases == <<p1, p1, p2>>
MCConfig == [p \in {p1, p2} |->
  FromFrozenInputs([gain |-> IF p = p1 THEN <<1, 3>> ELSE <<2, 3>>], [cost |-> 20, time |-> 15])]
MCProbes == {[k \in {k1, k2} |-> "passed"], [k \in {k1, k2} |-> IF k = k1 THEN "raised" ELSE "passed"]}
=============================================================================
