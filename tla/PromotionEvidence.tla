-------------------------- MODULE PromotionEvidence --------------------------
(***************************************************************************)
(* From the measured cells of an evaluation to the active bundle: the      *)
(* evaluation jobs of one store (EvaluationJob.run), launched from the     *)
(* queue (app.py, launch_evaluation) or directly, the checks their reports *)
(* pass on the way (require_promotion_evidence, CandidateManager.promote   *)
(* with its verifier and frozen gate) and what list_evaluations shows.     *)
(* The server can be restarted with another release, which freezes another *)
(* protocol, and fixture files can change under a running server.          *)
(* Promotion has the interleavings of the manager's own steps, which are   *)
(* one step here.                                                          *)
(***************************************************************************)
EXTENDS EvaluationReport

CONSTANTS
  Jobs, FromQueue, \* the jobs; those launched from the queue
  Phase,          \* job -> "validation" or "final"
  Bundle,         \* job -> the bundle it measures
  Genesis,        \* the bundle active at first, base of every candidate
  Releases,       \* the releases deployed in this order; a protocol is named for its release
  Track1,         \* the protocol with the canonical hash
  Config,         \* protocol -> its GateConfig
  Scenes,         \* bounds: [panels: job -> the sets of rows its driver may hand over, restarts, launches]
  Probes          \* bound: the outcomes of the safety probes, case -> outcome

ASSUME EvidenceAssumption ==
  /\ Known # {} /\ Phase \in [Jobs -> {"validation", "final"}]
  /\ \A j \in Jobs \cap FromQueue : Phase[j] = "validation"
  /\ LET protocols == {Releases[i] : i \in DOMAIN Releases}
     IN /\ Releases \in Seq(protocols) /\ NoValue \notin protocols \cup {"decided", "failed"}
        /\ \A p \in protocols : \A f \in Ratios \cup Ceilings :
             Config[p][f] \in {NoValue} \cup IF f \in Ratios THEN Int \X (Nat \ {0}) ELSE Int
  /\ \A s \in DOMAIN Scenes :
       /\ Scenes[s].restarts \in Nat /\ 1 + Scenes[s].restarts <= Len(Releases)
       /\ Scenes[s].launches \in Nat
       /\ DOMAIN Scenes[s].panels \subseteq Jobs
       /\ \A j \in DOMAIN Scenes[s].panels : \A panel \in Scenes[s].panels[j] : IsPanel(panel)

VARIABLES
  scene,      \* bound: the scene that is played
  server,     \* the running process: its release, drift of the fixtures, verifier bound
  registered, \* frozen_protocols
  queue,      \* evaluation_queue: job -> [state, protocol]
  jpc, rows, status, \* a run of a job: its step, its cells and the status to save
  report,     \* the reports of the runs, job -> report
  launches,   \* job -> how often it was started
  plan,       \* job -> the protocol its cells were planned under, in the driver's tables
  cand,       \* candidates: bundle -> state
  activeBundle, \* the active bundle
  ledger,     \* evaluator_attestations: [token, payload]
  table       \* evaluations: <<job, kind of id>> -> [candidate, base, protocol, phase, report]

runVars == <<jpc, rows, report, status, launches, plan>>
evidenceVars == <<cand, activeBundle, ledger, table>>
promotionVars == <<scene, server, registered, queue, runVars, evidenceVars>>

Release == Releases[server.release]
Candidates == {Bundle[j] : j \in Jobs}
Base(j) == Genesis
Played == DOMAIN Scenes[scene].panels

EvidenceInit ==
  /\ scene \in DOMAIN Scenes
  /\ server = [release |-> 1, drift |-> FALSE, bound |-> FALSE]
  /\ registered = {}
  /\ queue = [j \in Jobs |-> [state |-> "none", protocol |-> NoValue]]
  /\ jpc = [j \in Jobs |-> "idle"] /\ launches = [j \in Jobs |-> 0]
  /\ rows = [j \in Jobs |-> NoValue] /\ report = << >>
  /\ status = [j \in Jobs |-> NoValue] /\ plan = [j \in Jobs |-> NoValue]
  /\ cand = [c \in Candidates |-> "validated"]
  /\ activeBundle = Genesis /\ ledger = {} /\ table = << >>

(* A table, or a record, with the value v under the key k.                 *)
Put(f, k, v) == [i \in DOMAIN f \cup {k} |-> IF i = k THEN v ELSE f[i]]

Save(j, id, row) == table' = Put(table, <<j, id>>, row)

(* queue_evaluation: the row is bound to the protocol of the moment.       *)
Queue(j) ==
  /\ j \in Played \cap FromQueue /\ queue[j].state = "none"
  /\ cand[Bundle[j]] = "validated"
  /\ cand' = [cand EXCEPT ![Bundle[j]] = "evaluating"]
  /\ queue' = [queue EXCEPT ![j] = [state |-> "queued", protocol |-> Release]]
  /\ UNCHANGED <<scene, server, registered, runVars, activeBundle, ledger, table>>

(* freeze_protocol: a protocol once registered stays.                      *)
FreezeProtocol == registered' = registered \cup {Release}

(* Mutant: the verifier is bound where the protocol is registered.         *)
Build_BindOnce(j) ==
  /\ FreezeProtocol
  /\ server' = [server EXCEPT !.bound = @ \/ Release \notin registered]
  /\ jpc' = [jpc EXCEPT ![j] = "built"]
  /\ report' = [i \in DOMAIN report \ {j} |-> report[i]]
  /\ launches' = [launches EXCEPT ![j] = @ + 1]
  /\ UNCHANGED <<scene, rows, status, plan, evidenceVars>>

(* build_evaluation_job registers the protocol once and binds the verifier *)
(* to this process.                                                        *)
Build(j) ==
  /\ FreezeProtocol
  /\ server' = [server EXCEPT !.bound = TRUE]
  /\ jpc' = [jpc EXCEPT ![j] = "built"]
  /\ report' = [i \in DOMAIN report \ {j} |-> report[i]]
  /\ launches' = [launches EXCEPT ![j] = @ + 1]
  /\ UNCHANGED <<scene, rows, status, plan, evidenceVars>>

(* A job of the queue is claimed; any other is started by hand, again if   *)
(* its process died.                                                       *)
LaunchJob(j) ==
  /\ j \in Played /\ jpc[j] \in {"idle", "ended"}
  /\ launches[j] < Scenes[scene].launches
  /\ \/ /\ j \in FromQueue /\ queue[j].state \in {"queued", "failed"}
        /\ queue' = [queue EXCEPT ![j].state = "running"]
     \/ /\ j \notin FromQueue /\ jpc[j] = "idle"
        /\ UNCHANGED queue
  /\ Build(j)

End(j, s) ==
  /\ status' = [status EXCEPT ![j] = s]
  /\ jpc' = [jpc EXCEPT ![j] = "judged"]

(* The driver: a job planned under another protocol is refused, one whose  *)
(* cells are there gets them again.                                        *)
Collect(j) ==
  /\ jpc[j] = "built"
  /\ IF plan[j] \notin {NoValue, Release} THEN End(j, "failed") /\ UNCHANGED <<rows, plan>>
     ELSE /\ \E p \in IF plan[j] = NoValue THEN Scenes[scene].panels[j] ELSE {rows[j]} :
               rows' = [rows EXCEPT ![j] = p]
          /\ plan' = [plan EXCEPT ![j] = Release]
          /\ jpc' = [jpc EXCEPT ![j] = "measured"]
          /\ UNCHANGED status
  /\ UNCHANGED <<scene, server, registered, queue, report, launches, evidenceVars>>

(* assert_integrity compares the fixtures with the frozen hashes, from the *)
(* sources on disk.                                                        *)
Intact == ~server.drift

Inputs(j) == [phase |-> Phase[j], candidate |-> Bundle[j], base |-> Base(j),
              protocol |-> Release, config |-> Config[Release]]
Attested(r) == [f \in DOMAIN r \ {"token"} |-> r[f]]
Attest(token, payload) == ledger' = ledger \cup {[token |-> token, payload |-> payload]}
HasAttestation(r) == [token |-> r.token, payload |-> Attested(r)] \in ledger

(* The payload attested is the report before its last correction.          *)
MakeReport(j) ==
  /\ jpc[j] = "measured"
  /\ IF ~Intact THEN End(j, "failed") /\ UNCHANGED <<report, ledger>>
     ELSE /\ \E lower \in Lowers(Phase[j], rows[j]), p \in Probes,
                input \in [marked : IF Phase[j] = "final" THEN BOOLEAN ELSE {FALSE}, learned : {FALSE}] :
               LET r == Assemble(Inputs(j), rows[j], lower, p, AuditAblation(input))
                   token == <<j, launches[j]>>
               IN /\ Attest(token, r)
                  /\ report' = Put(report, j, Put(Published(r, rows[j]), "token", token))
          /\ jpc' = [jpc EXCEPT ![j] = "reported"]
          /\ UNCHANGED status
  /\ UNCHANGED <<scene, server, registered, queue, rows, launches, plan, cand, activeBundle, table>>

(* require_promotion_evidence.                                             *)
RequireEvidence(r) ==
  /\ Intact
  /\ r.envs = Envs(r.comparison) /\ DOMAIN r.cases = SafetyCases
  /\ HasAttestation(r) /\ Eligible(r) /\ r.protocol = Release

(* Mutant: only the protocol this process runs counts.                     *)
VerifyReport_ThisRelease(r, row) ==
  /\ row.protocol = Release /\ row.protocol \in registered
  /\ r.protocol = row.protocol /\ r.candidate = row.candidate /\ r.base = row.base
  /\ r.validity = "valid" /\ r.comparison = row.phase
  /\ HasAttestation(r)

(* _verify_evaluation_report: a report against the row it is stored under, *)
(* by the frozen inputs and the ledger.                                    *)
VerifyReport(r, row) ==
  /\ row.protocol \in registered
  /\ r.protocol = row.protocol /\ r.candidate = row.candidate /\ r.base = row.base
  /\ r.validity = "valid"
  /\ row.phase \in {"validation", "final"} /\ r.comparison = row.phase
  /\ r.envs = Envs(row.phase) /\ DOMAIN r.cases = SafetyCases
  /\ HasAttestation(r)

(* _verify_promotion_report takes the row from the report itself.          *)
VerifyPromotion(r) ==
  VerifyReport(r, [protocol |-> r.protocol, candidate |-> r.candidate, base |-> r.base, phase |-> "validation"])

(* _view_report on the serialized report.                                  *)
ViewReport(r) ==
  /\ r.metricCellsComplete /\ r.provenanceComplete /\ r.validity = "valid"
  /\ Eligible(r)
  /\ server.bound /\ VerifyPromotion(r)
  /\ r.safetyPassed /\ DOMAIN r.cases = SafetyCases
  /\ r.missing = 0 /\ ~r.leak /\ r.resets = 0 /\ r.failures = {}
  /\ DOMAIN r.cells = r.envs
  /\ \A e \in r.envs, a \in {"B0", "L"} : r.cells[e][a].count > 0
  /\ r.arms["B0"].count > 0 /\ r.arms["L"].count > 0

(* _validate_report.                                                       *)
ValidateReport(r, c) == r.candidate = c /\ r.base = Genesis /\ r.comparison = "validation"

(* _load_frozen_gate: once the canonical protocol is registered no other   *)
(* is accepted.                                                            *)
LoadFrozenGate(r) ==
  /\ Track1 \in registered => r.protocol = Track1
  /\ r.protocol \in registered
  /\ r.envs = Envs(r.comparison) /\ DOMAIN r.cases = SafetyCases

(* _check_gate: the safety of arm L, and the registered thresholds.        *)
GatePasses(r) ==
  Passes(GateInput([r EXCEPT !.config = Config[r.protocol]], "validation", {},
                   \A k \in DOMAIN r.cases : r.cases[k], r.arms["L"].violations))

ManagerRow(r) == [candidate |-> r.candidate, base |-> r.base, protocol |-> r.protocol,
                  phase |-> "frozen-partition", report |-> r]

Refused(j) == End(j, "failed") /\ UNCHANGED <<cand, activeBundle, table>>

(* CandidateManager.promote with its checks in their order.                *)
Promote(j) ==
  LET r == report[j]
      c == Bundle[j]
      become(s) == cand' = [cand EXCEPT ![c] = s]
  IN IF \/ cand[c] \notin {"validated", "evaluating"}
        \/ ~ViewReport(r) \/ ~ValidateReport(r, c) \/ ~LoadFrozenGate(r)
     THEN Refused(j)
     ELSE IF r.base # activeBundle THEN become("superseded") /\ End(j, "failed") /\ UNCHANGED <<activeBundle, table>>
     ELSE /\ IF GatePasses(r) THEN become("promoted") /\ activeBundle' = c
             ELSE become("rejected") /\ UNCHANGED activeBundle
          /\ Save(j, "job", ManagerRow(r))
          /\ End(j, "decided")

(* The rest of EvaluationJob.run: only a complete, valid and eligible      *)
(* validation decides anything.                                            *)
Judge(j) ==
  LET r == report[j] IN
    /\ jpc[j] = "reported"
    /\ IF Phase[j] = "validation" /\ r.missing = 0 /\ r.validity = "valid" /\ Eligible(r)
       THEN IF RequireEvidence(r) THEN Promote(j) ELSE Refused(j)
       ELSE /\ End(j, IF r.validity = "valid" THEN "complete" ELSE "incomplete")
            /\ UNCHANGED <<cand, activeBundle, table>>
    /\ UNCHANGED <<scene, server, registered, queue, rows, report, launches, plan, ledger>>

(* EvaluationJob._save under the job's own id, over the manager's row.     *)
SaveJob(j) ==
  /\ jpc[j] = "judged"
  /\ IF j \notin DOMAIN report THEN UNCHANGED table
     ELSE Save(j, "job", [candidate |-> report[j].candidate, base |-> report[j].base,
                          protocol |-> report[j].protocol, phase |-> Phase[j], report |-> report[j]])
  /\ jpc' = [jpc EXCEPT ![j] = IF j \in FromQueue THEN "saved" ELSE "ended"]
  /\ UNCHANGED <<scene, server, registered, queue, rows, report, status, launches, plan, cand, activeBundle, ledger>>

(* launch_evaluation mirrors the report under the binding of the queue.    *)
Mirror(j) ==
  /\ jpc[j] = "saved"
  /\ IF j \notin DOMAIN report THEN UNCHANGED table
     ELSE Save(j, "queue", [candidate |-> Bundle[j], base |-> Base(j), protocol |-> queue[j].protocol,
                            phase |-> "validation", report |-> report[j]])
  /\ queue' = [queue EXCEPT ![j].state = IF status[j] = "failed" THEN "failed" ELSE "completed"]
  /\ jpc' = [jpc EXCEPT ![j] = "ended"]
  /\ UNCHANGED <<scene, server, registered, rows, report, status, launches, plan, cand, activeBundle, ledger>>

(* list_evaluations: a stored report is trusted if it verifies against its *)
(* row.                                                                    *)
Trusted(id) == VerifyReport(table[id].report, table[id])
Shown(id) == [state |-> IF Trusted(id) THEN "valid" ELSE "invalid", trusted |-> Trusted(id)]

(* A fixture's source file changes under the running server.               *)
Drift ==
  /\ ~server.drift
  /\ server' = [server EXCEPT !.drift = TRUE]
  /\ UNCHANGED <<scene, registered, queue, runVars, evidenceVars>>

(* The server dies and comes back, perhaps as another release; if fixtures *)
(* changed its protocol is another one.  Its runs are gone; a claimed row  *)
(* of the queue stays running.                                             *)
Redeploy ==
  /\ \E n \in server.release + 1 .. 1 + Scenes[scene].restarts :
       /\ server.drift => Releases[n] # Release
       /\ server' = [release |-> n, drift |-> FALSE, bound |-> FALSE]
  /\ jpc' = [j \in Jobs |-> IF jpc[j] = "ended" THEN "ended" ELSE "idle"]
  /\ report' = << >> /\ status' = [j \in Jobs |-> NoValue]
  /\ UNCHANGED <<scene, registered, queue, rows, launches, plan, evidenceVars>>

JobStep(j) ==
  Queue(j) \/ LaunchJob(j) \/ Collect(j) \/ MakeReport(j) \/ Judge(j) \/ SaveJob(j) \/ Mirror(j)

EvidenceNext == (\E j \in Jobs : JobStep(j)) \/ Drift \/ Redeploy

EvidenceSpec == EvidenceInit /\ [][EvidenceNext]_promotionVars

-----------------------------------------------------------------------------
(* Properties.                                                             *)

Optional(S) == S \cup {NoValue}

(* The variables have the shape the code gives them.                       *)
EvidenceTypeOK ==
  /\ server \in [release : 1..Len(Releases), drift : BOOLEAN, bound : BOOLEAN]
  /\ registered \subseteq {Releases[i] : i \in 1..server.release}
  /\ jpc \in [Jobs -> {"idle", "built", "measured", "reported", "judged", "saved", "ended"}]
  /\ status \in [Jobs -> Optional({"decided", "complete", "incomplete", "failed"})]
  /\ cand \in [Candidates -> {"validated", "evaluating", "promoted", "rejected", "superseded"}]
  /\ activeBundle \in {Genesis} \cup Candidates
  /\ DOMAIN table \subseteq Jobs \X {"job", "queue"}
  /\ \A e \in ledger : "token" \notin DOMAIN e.payload

(* The reference: what a panel must have measured, said of its raw rows.   *)
Fault(r) ==
  LET o == Observed[r.kind]
  IN ~(o.home /\ o.reset /\ o.complete) \/ o.failure # NoValue
Genuine(r) == LET o == Observed[r.kind] IN o.real /\ o.traced /\ o.backed

Measured(phase, panel) ==
  /\ Cells(panel) = Panel(phase) /\ Cardinality(panel) = Cardinality(Panel(phase))
  /\ ~\E r \in panel : Fault(r)

Arm(panel, a) == {r \in panel : r.cell[4] = a}
In(panel, e) == {r \in panel : r.cell[1] = e}

Better(panel, e) ==
  \A m \in {"passed", "reliable"} :
    Cardinality(Where(In(Arm(panel, "L"), e), m)) >= Cardinality(Where(In(Arm(panel, "B0"), e), m))

(* The arms have as many rows, so sums compare like means.                 *)
Earned(phase, panel, config) ==
  LET base == Arm(panel, "B0")
      new == Arm(panel, "L")
      n == Cardinality(new)
      gained == Cardinality(Where(new, "passed")) - Cardinality(Where(base, "passed"))
  IN /\ Measured(phase, panel)
     /\ \A r \in panel : Genuine(r) /\ Observed[r.kind].safe
     /\ \A e \in Envs(phase) : Better(panel, e)
     /\ gained > 0 /\ gained * config.gain[2] >= config.gain[1] * n
     /\ Total(new, "cost") <= config.maxCost * n
     /\ \/ Total(base, "cost") = 0
        \/ Total(new, "cost") * config.costRatio[2] <= config.costRatio[1] * Total(base, "cost")
     /\ P95(new) <= config.maxLatency
     /\ \/ P95(base) = 0
        \/ P95(new) * config.latencyRatio[2] <= config.latencyRatio[1] * P95(base)

(* PromotionIsEarned: a bundle becomes active only in a step of a          *)
(* validation job of this release whose raw cells, every one measured once *)
(* by a real, unfailing and safe run on unchanged fixtures, show it better *)
(* and hardly dearer in every environment, with all probes passed.         *)
PromotionIsEarned ==
  [][activeBundle' # activeBundle =>
       \E j \in Jobs :
         /\ activeBundle' = Bundle[j] /\ activeBundle = Base(j)
         /\ Phase[j] = "validation" /\ plan[j] = Release /\ ~server.drift
         /\ \A k \in SafetyCases : report[j].cases[k]
         /\ Earned("validation", rows[j], Config[Release])]_promotionVars

(* FinalPassIsHeldOut: a final report that says its gate passed rests on a *)
(* panel that earned it in every environment, the sealed one too, with the *)
(* ablation arm measured and safe.                                         *)
FinalPassIsHeldOut ==
  \A j \in DOMAIN report : Phase[j] = "final" /\ FinalReasons(report[j]) = {} =>
    Earned("final", rows[j], report[j].config)

(* An observation that is at least as good as another in all respects.     *)
AtLeast(k, l) ==
  LET a == Observed[k]
      b == Observed[l]
      implies(f) == b[f] => a[f]
  IN /\ \A f \in {"passed", "reliable", "safe", "home", "reset", "complete", "real", "traced", "backed"} : implies(f)
     /\ a.cost <= b.cost /\ a.latency <= b.latency
     /\ a.failure \in {NoValue, b.failure} /\ a.version = b.version

(* GateIsMonotone: a report that passes the manager's gate still does when *)
(* one run of the candidate goes better: no improvement costs a promotion. *)
GateIsMonotone ==
  \A j \in DOMAIN report :
    /\ jpc[j] = "reported" /\ Phase[j] = "validation"
    /\ report[j].ci # NoValue /\ GatePasses(report[j])
    => \A r \in Arm(rows[j], "L"), k \in DOMAIN Observed :
         AtLeast(k, r.kind) =>
           LET improved == (rows[j] \ {r}) \cup {[r EXCEPT !.kind = k]} IN
             GatePasses(Assemble(Inputs(j), improved, report[j].ci,
                                 [c \in SafetyCases |-> IF report[j].cases[c] THEN "passed" ELSE "failed"], TRUE))

(* TrustedIsMeasured: what list_evaluations shows as trusted was measured  *)
(* for the bundle, the base and the phase of the row it is shown under, on *)
(* a full panel without a fault and without a simulated run.               *)
TrustedIsMeasured ==
  \A id \in DOMAIN table : Trusted(id) =>
    \E j \in Jobs :
      /\ table[id].candidate = Bundle[j] /\ table[id].base = Base(j)
      /\ table[id].phase = Phase[j] /\ table[id].protocol = plan[j]
      /\ Measured(Phase[j], rows[j]) /\ All(rows[j], "real")

(* TrustStays: no restart, release, drift or other job takes the trust of  *)
(* a stored report away.                                                   *)
TrustStays == [][\A id \in DOMAIN table : Trusted(id) => id \in DOMAIN table' /\ Trusted(id)']_promotionVars

(* DecidedIsTrusted: once a job has saved its decision, its own row shows  *)
(* the report it was decided on as trusted.                                *)
DecidedIsTrusted ==
  \A j \in Jobs : jpc[j] \in {"saved", "ended"} /\ status[j] = "decided" =>
    Shown(<<j, "job">>) = [state |-> "valid", trusted |-> TRUE]

(* TrustIsMeasured: trust is shown for what was measured, and for what a   *)
(* decision was made on.                                                   *)
TrustIsMeasured == EvidenceTypeOK /\ TrustedIsMeasured /\ DecidedIsTrusted

(* ChecksAgree: the checks behind eligibility (the evidence, the view, the *)
(* frozen gate's registration) never refuse an eligible report for another *)
(* reason than changed fixtures, a decided candidate or a moved base.      *)
ChecksAgree ==
  [][\A j \in Jobs :
       /\ jpc[j] = "reported" /\ jpc'[j] = "judged" /\ status'[j] = "failed" /\ Eligible(report[j])
       => \/ server.drift
          \/ cand[Bundle[j]] \notin {"validated", "evaluating"}
          \/ activeBundle # Base(j)]_promotionVars
=============================================================================
