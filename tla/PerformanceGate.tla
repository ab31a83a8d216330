--------------------------- MODULE PerformanceGate ---------------------------
(***************************************************************************)
(* evaluate_performance_gate (performance_gate.py): the decision that the  *)
(* promotion and the final report share.  A rate is a pair <<n, d>> of a   *)
(* numerator and a positive denominator; a missing value is NoValue.  A    *)
(* summary is [count, passed, reliable, cost, p95, violations] with the    *)
(* sums of its rows, so that a mean over no rows is 0, as in the code.     *)
(***************************************************************************)
EXTENDS Integers, FiniteSets, TLC

CONSTANT NoValue

When(holds, reason) == IF holds THEN {reason} ELSE {}

Below(a, b) == a[1] * b[2] < b[1] * a[2]
Mean(sum, n) == <<sum, IF n = 0 THEN 1 ELSE n>>
Metric(s, m) == Mean(s[m], s.count)

Ratios == {"gain", "ci", "costRatio", "latencyRatio"}
Ceilings == {"maxCost", "maxLatency"}

Defaults == [gain |-> <<5, 100>>, ci |-> <<0, 1>>, costRatio |-> <<11, 10>>,
             latencyRatio |-> <<11, 10>>, perEnvironment |-> TRUE]

(* A ceiling the protocol does not set is the budget of a run.             *)
FromFrozenInputs(thresholds, budget) ==
  thresholds @@ [maxCost |-> budget.cost, maxLatency |-> budget.time] @@ Defaults

(* The signs; a ratio of 0 is no ratio, a CI bound may be negative.        *)
Valid(c, f) ==
  /\ c[f] # NoValue
  /\ f \in Ceilings => c[f] >= 0
  /\ f = "gain" => c[f][1] >= 0
  /\ f \in {"costRatio", "latencyRatio"} => c[f][1] > 0

ConfigReasons(c) == {<<"config", f>> : f \in {g \in Ratios \cup Ceilings : ~Valid(c, g)}}

SummaryReasons(g) == When(g.base.count = 0, <<"empty", "B0">>) \cup When(g.cand.count = 0, <<"empty", "L">>)

SafetyReasons(g) ==
  LET cases == g.safety.cases IN
    When(~g.safety.passed, <<"safety">>)
    \cup When(g.safety.violations > 0, <<"violations">>)
    \cup When(DOMAIN cases # g.safety.required \/ g.safety.required = {}, <<"coverage">>)
    \cup When(\E k \in DOMAIN cases : ~cases[k], <<"case">>)

(* The gain may equal its threshold, the interval may not.                 *)
GainReasons(g) ==
  LET b == Metric(g.base, "passed")
      l == Metric(g.cand, "passed")
      gain == <<l[1] * b[2] - b[1] * l[2], l[2] * b[2]>>
  IN When(Valid(g.config, "gain") /\ Below(gain, g.config.gain), <<"gain">>)
     \cup When(g.ci = NoValue, <<"no interval">>)
     \cup When(g.ci # NoValue /\ Valid(g.config, "ci") /\ ~Below(g.config.ci, g.ci), <<"interval">>)

(* Mutant: the regressions of one environment are averaged away.           *)
EnvironmentReasons_Pooled(g) == When(DOMAIN g.cells # g.envs, <<"environments">>)

EnvironmentReasons(g) ==
  LET regressed(e, m) == Below(Metric(g.cells[e]["L"], m), Metric(g.cells[e]["B0"], m))
      cellReasons(e) ==
        IF g.cells[e]["B0"].count = 0 \/ g.cells[e]["L"].count = 0 THEN {<<"incomplete", e>>}
        ELSE {<<"regression", e, m>> : m \in {n \in {"passed", "reliable"} : regressed(e, n)}}
  IN When(DOMAIN g.cells # g.envs, <<"environments">>)
     \cup IF g.config.perEnvironment
          THEN When(g.envs = {}, <<"no environments">>)
               \cup {<<"missing", e>> : e \in g.envs \ DOMAIN g.cells}
               \cup UNION {cellReasons(e) : e \in g.envs \cap DOMAIN g.cells}
          ELSE {}

(* The ceiling of a metric and its ratio to the baseline.  Against a       *)
(* baseline of 0 only the ceiling counts.                                  *)
Bounded(l, b, config, ceiling, ratio) ==
  When(Valid(config, ceiling) /\ Below(<<config[ceiling], 1>>, l), <<"over", ceiling>>)
  \cup When(/\ b[1] # 0 /\ Valid(config, ratio)
            /\ l[1] * b[2] * config[ratio][2] > config[ratio][1] * b[1] * l[2],
            <<"over", ratio>>)

CostReasons(g) ==
  Bounded(Metric(g.cand, "cost"), Metric(g.base, "cost"), g.config, "maxCost", "costRatio")

LatencyReasons(g) ==
  Bounded(<<g.cand.p95, 1>>, <<g.base.p95, 1>>, g.config, "maxLatency", "latencyRatio")

(* g holds the summaries base and cand, the cells by environment, the      *)
(* lower bound ci of the gain's interval, safety, the frozen config, the   *)
(* environments it requires and the failures found before.                 *)
Reasons(g) ==
  g.integrity
  \cup ConfigReasons(g.config)
  \cup When(g.comparison # g.expected, <<"comparison">>)
  \cup SummaryReasons(g)
  \cup SafetyReasons(g)
  \cup GainReasons(g)
  \cup EnvironmentReasons(g)
  \cup CostReasons(g)
  \cup LatencyReasons(g)

Passes(g) == Reasons(g) = {}
=============================================================================
