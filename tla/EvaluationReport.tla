-------------------------- MODULE EvaluationReport --------------------------
(***************************************************************************)
(* EvaluationRunner._report and the verdicts of EvaluationReport           *)
(* (evaluation.py): from the observations of a panel to the report, its    *)
(* attested payload, its eligibility and its final gate.  A row is one     *)
(* RunObservation: its cell <<environment, task, seed, arm>>, its kind,    *)
(* which stands for everything measured, and a copy number that tells rows *)
(* of one cell apart.  The protocol hash stands for all that is hashed     *)
(* with it: fixtures, partitions, evaluators, seeds.                       *)
(***************************************************************************)
EXTENDS PerformanceGate, FiniteSetsExt, Sequences

CONSTANTS
  Known, Sealed,  \* environments of validation; the one that only final adds
  TasksOf,        \* environment -> tasks of a panel
  Seeds,
  Observed,       \* kind -> what such a run observed
  SafetyCases     \* the protocol's safety cases

(* RunObservation: no measure is negative, and a run without a violation   *)
(* is a safe one.                                                          *)
ASSUME ObservedAssumption ==
  \A k \in DOMAIN Observed :
    /\ Observed[k].cost \in Nat /\ Observed[k].latency \in Nat /\ Observed[k].violations \in Nat
    /\ Observed[k].safe = (Observed[k].violations = 0)

(* What a driver hands over: each row is of one measured kind, and copy    *)
(* tells the rows of a cell apart.                                         *)
IsPanel(rows) ==
  /\ IsFiniteSet(rows)
  /\ \A r \in rows : DOMAIN r = {"cell", "kind", "copy"} /\ r.kind \in DOMAIN Observed
  /\ \A r, s \in rows : r.cell = s.cell /\ r.copy = s.copy => r = s

Envs(phase) == IF phase = "validation" THEN Known ELSE Known \cup {Sealed}
Arms(phase) == IF phase = "validation" THEN {"B0", "L"} ELSE {"B0", "L", "A"}

Panel(phase) == UNION {{e} \X TasksOf[e] \X Seeds \X Arms(phase) : e \in Envs(phase)}

All(rows, f) == \A r \in rows : Observed[r.kind][f]
Where(rows, f) == {r \in rows : Observed[r.kind][f]}
Total(rows, f) == MapThenSumSet(LAMBDA r : Observed[r.kind][f], rows)

(* The latency that 95 of 100 rows do not exceed.                          *)
P95(rows) ==
  LET covered(v) == Cardinality({r \in rows : Observed[r.kind].latency <= v})
      enough == {v \in {Observed[r.kind].latency : r \in rows} : 20 * covered(v) >= 19 * Cardinality(rows)}
  IN IF rows = {} THEN 0 ELSE Min(enough)

(* Mutant: only the latency of the runs that passed.                       *)
Summary_PassedLatency(rows) ==
  [count |-> Cardinality(rows), passed |-> Cardinality(Where(rows, "passed")),
   reliable |-> Cardinality(Where(rows, "reliable")), cost |-> Total(rows, "cost"),
   p95 |-> P95(Where(rows, "passed")), violations |-> Total(rows, "violations")]

Summary(rows) ==
  [count |-> Cardinality(rows), passed |-> Cardinality(Where(rows, "passed")),
   reliable |-> Cardinality(Where(rows, "reliable")), cost |-> Total(rows, "cost"),
   p95 |-> P95(rows), violations |-> Total(rows, "violations")]

Cells(rows) == {r.cell : r \in rows}
Missing(phase, rows) == Panel(phase) \ Cells(rows)
Twice(rows) == Cardinality(Cells(rows)) # Cardinality(rows)
Leak(phase, rows) == \E r \in rows : ~Observed[r.kind].home \/ r.cell[1] \notin Envs(phase)

(* The arms of one task and seed ran the same planner, model and budget.   *)
Incompatible(phase, rows) ==
  \E c \in Panel(phase) :
    LET pair == {r \in rows : SubSeq(r.cell, 1, 3) = SubSeq(c, 1, 3)} IN
      /\ Cardinality(pair) = Cardinality(Arms(phase))
      /\ Cardinality({Observed[r.kind].version : r \in pair}) > 1

Failures(phase, rows) ==
  ({Observed[r.kind].failure : r \in rows} \ {NoValue})
  \cup When(Twice(rows) \/ ~(Cells(rows) \subseteq Panel(phase)), "unexpected")
  \cup When(Incompatible(phase, rows), "incompatible")

(* Mutant: resets are not counted.                                         *)
Sound_AnyReset(phase, rows) ==
  /\ Missing(phase, rows) = {} /\ ~Leak(phase, rows) /\ Failures(phase, rows) = {}

Sound(phase, rows) ==
  /\ Missing(phase, rows) = {} /\ ~Leak(phase, rows)
  /\ All(rows, "reset") /\ Failures(phase, rows) = {}

Validity(phase, rows, audit) ==
  CASE Sound(phase, rows) /\ All(rows, "complete") /\ audit -> "valid"
    [] Missing(phase, rows) # {} -> "incomplete"
    [] OTHER -> "invalid"

(* clustered_paired_bootstrap: within an environment tasks are drawn with  *)
(* replacement, each with all its seeds.  The 2.5 % quantile of ten        *)
(* thousand draws is one of the gains so attainable, and not above the     *)
(* measured one.                                                           *)
TaskGain(rows, e, t) ==
  LET of(a) == Cardinality(Where({r \in rows : r.cell[1] = e /\ r.cell[2] = t /\ r.cell[4] = a}, "passed"))
  IN of("L") - of("B0")
Gain(rows, e, pick) == MapThenSumSet(LAMBDA t : TaskGain(rows, e, pick[t]), TasksOf[e])
Attainable(phase, rows) ==
  FoldSet(LAMBDA e, sums : {s + Gain(rows, e, p) : s \in sums, p \in [TasksOf[e] -> TasksOf[e]]},
          {0}, Envs(phase))
Lowers(phase, rows) ==
  LET point == MapThenSumSet(LAMBDA e : Gain(rows, e, [t \in TasksOf[e] |-> t]), Envs(phase))
      pairs == MapThenSumSet(LAMBDA e : Cardinality(TasksOf[e]) * Cardinality(Seeds), Envs(phase))
  IN IF Sound(phase, rows) THEN {<<s, pairs>> : s \in {x \in Attainable(phase, rows) : x <= point}} ELSE {NoValue}

(* run_safety_probe_result: a probe that raises or returns no evidence has *)
(* not passed.  Every case of the protocols has a probe.                   *)
ProbeOutcomes == {"passed", "failed", "raised", "no evidence"}
CaseResults(probes) == [k \in SafetyCases |-> probes[k] = "passed"]

(* _trusted_observation and the evidence store, on every row.              *)
Provenance(rows) == rows # {} /\ All(rows, "real") /\ All(rows, "traced") /\ All(rows, "backed")

(* audit_ablation: neither the texts nor the artifacts of arm A are        *)
(* learned ones.                                                           *)
AuditAblation(input) == ~input.marked /\ ~input.learned

(* The frozen inputs `of` a job: phase, candidate, base, protocol, config. *)
Assemble(of, rows, lower, probes, audit) ==
  LET arm(a) == {r \in rows : r.cell[4] = a}
      cells == [e \in Envs(of.phase) |->
                 [a \in Arms(of.phase) |-> Summary({r \in arm(a) : r.cell[1] = e})]]
      cases == CaseResults(probes)
  IN [comparison |-> of.phase, candidate |-> of.candidate, base |-> of.base,
      protocol |-> of.protocol, config |-> of.config, envs |-> Envs(of.phase),
      validity |-> Validity(of.phase, rows, audit),
      arms |-> [a \in Arms(of.phase) |-> Summary(arm(a))], cells |-> cells,
      ci |-> lower, cases |-> cases,
      safetyPassed |-> All(rows, "safe") /\ \A k \in SafetyCases : cases[k],
      missing |-> Cardinality(Missing(of.phase, rows)), leak |-> Leak(of.phase, rows),
      resets |-> Cardinality({r \in rows : ~Observed[r.kind].reset}),
      failures |-> Failures(of.phase, rows),
      metricCellsComplete |-> \A e \in Envs(of.phase), a \in Arms(of.phase) : cells[e][a].count > 0,
      provenanceComplete |-> Provenance(rows)]

(* The last act of _report, after the attestation: a full panel with a     *)
(* simulated row is invalid.                                               *)
Published(report, rows) ==
  IF report.missing = 0 /\ ~All(rows, "real") THEN [report EXCEPT !.validity = "invalid"] ELSE report

(* Mutant: the evidence behind the rows is not asked for.                  *)
Defects_AnyProvenance(r) ==
  When(r.validity # "valid", <<"validity">>) \cup When(r.missing > 0, <<"missing">>)
  \cup When(r.leak, <<"leak">>) \cup When(r.resets > 0, <<"resets">>)
  \cup {<<"failure", f>> : f \in r.failures} \cup When(~r.metricCellsComplete, <<"cells">>)

Defects(r) ==
  When(r.validity # "valid", <<"validity">>) \cup When(r.missing > 0, <<"missing">>)
  \cup When(r.leak, <<"leak">>) \cup When(r.resets > 0, <<"resets">>)
  \cup {<<"failure", f>> : f \in r.failures}
  \cup When(~r.metricCellsComplete, <<"cells">>) \cup When(~r.provenanceComplete, <<"provenance">>)

GateInput(r, expected, integrity, safetyPassed, violations) ==
  [comparison |-> r.comparison, expected |-> expected, base |-> r.arms["B0"], cand |-> r.arms["L"],
   ci |-> r.ci, cells |-> r.cells, envs |-> r.envs, integrity |-> integrity, config |-> r.config,
   safety |-> [passed |-> safetyPassed, violations |-> violations, cases |-> r.cases, required |-> SafetyCases]]

(* final_gate_result: all arms count for safety, and arm A must be there.  *)
FinalReasons(r) ==
  LET ablation == IF r.comparison # "final" THEN {}
                  ELSE {<<"ablation", e>> : e \in {x \in r.envs : r.cells[x]["A"].count = 0}}
      violations == MapThenSumSet(LAMBDA a : r.arms[a].violations, Arms(r.comparison))
  IN Reasons(GateInput(r, "final", Defects(r) \cup ablation, r.safetyPassed, violations))

(* promotion_eligible.  Its look at the rows sees none: EvaluationJob.run  *)
(* replaces the report by a copy without them.                             *)
Eligible(r) == r.comparison = "validation" /\ Defects(r) = {} /\ r.safetyPassed
=============================================================================
