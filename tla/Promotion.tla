----------------------------- MODULE Promotion -----------------------------
(***************************************************************************)
(* Candidates, their evaluations and the active bundle: candidate.py over  *)
(* the tables candidates, skill_bundles, active_history and promotions     *)
(* (store.py), with its callers, the evaluation queue of the runtime       *)
(* (app.py) and the validation gate of the experiment lifecycle            *)
(* (evaluation_job.py).                                                    *)
(*                                                                         *)
(* Every store method is a transaction of its own.  The manager reads a    *)
(* candidate, decides, and writes its state back; only the compare-and-    *)
(* swap of the active bundle looks again at what it decided on, and it     *)
(* looks at the active bundle alone.  Each action below is one             *)
(* transaction with the code up to the next one.                           *)
(*                                                                         *)
(* A submitted bundle always has a fresh id and so a hash of its own: a    *)
(* candidate stands for its bundle too.                                    *)
(***************************************************************************)
EXTENDS Naturals, Sequences, FiniteSets

CONSTANTS
  Candidates,
  Evaluations, \* entries of the evaluation queue
  Gates,       \* validation gates of experiment lifecycles
  Rollbacks,   \* rollback requests
  MaxCrashes,  \* bound on process crashes
  Genesis, None

ASSUME PromotionAssumption ==
  /\ Genesis \notin Candidates
  /\ None \notin Candidates \cup {Genesis}
  /\ MaxCrashes \in Nat
  /\ Evaluations \cap Gates = {}
  /\ (Evaluations \cup Gates) \cap Rollbacks = {}

Bundles  == Candidates \cup {Genesis}
Jobs     == Evaluations \cup Gates
Workers  == Jobs \cup Rollbacks

\* "draft" never reaches the table: submit_candidate stores "validated".
States == {"absent", "validated", "evaluating", "promoted", "rejected",
           "quarantined", "superseded", "rolled_back"}

Places == {"idle", "starting", "started", "queued", "evaluating", "gate",
           "quarantining", "promote", "readactive", "superseding", "cas",
           "record", "sync", "failing", "finishing", "rollcas", "done", "dead"}

Verdicts == {"promoted", "rejected", "quarantined"}

\* A rollback is stored as a promotion of a bundle over itself.
Decision == [decision: Verdicts, bundle: Bundles, base: Bundles, prior: Bundles]

VARIABLES
  seed,      \* initialisation of the store: "none", "bundle" or "done"
  active,    \* the row of skill_bundles with is_active = 1
  stored,    \* the bundles of skill_bundles
  lineage,   \* the bundles of active_history
  decisions, \* table promotions, in order of insertion
  state,     \* the state column of each candidate
  base,      \* the base bundle it was built on
  sub,       \* where its submission stands
  queue,     \* the state of each row of evaluation_queue
  pc,        \* where each worker is
  who,       \* the candidate it works on
  prior,     \* the active bundle it read
  want,      \* the decision it came to
  crashes

tables == <<active, stored, lineage, decisions, state, queue>>
local  == <<who, prior, want>>
vars == <<seed, active, stored, lineage, decisions, state, base, sub, queue,
          pc, who, prior, want, crashes>>

Init ==
  /\ seed = "none"
  /\ active = None
  /\ stored = {}
  /\ lineage = {}
  /\ decisions = <<>>
  /\ state = [c \in Candidates |-> "absent"]
  /\ base = [c \in Candidates |-> None]
  /\ sub = [c \in Candidates |-> "idle"]
  /\ queue = [e \in Evaluations |-> "none"]
  /\ pc = [w \in Workers |-> "idle"]
  /\ who = [w \in Workers |-> None]
  /\ prior = [w \in Workers |-> None]
  /\ want = [w \in Workers |-> None]
  /\ crashes = 0

Goto(w, p) == pc' = [pc EXCEPT ![w] = p]

-----------------------------------------------------------------------------
(***************************************************************************)
(* Seeding the store, before the first request.                            *)
(***************************************************************************)
SeedBundle ==
  /\ seed = "none"
  /\ seed' = "bundle"
  /\ active' = Genesis
  /\ stored' = stored \cup {Genesis}
  /\ UNCHANGED <<lineage, decisions, state, base, sub, queue, pc, local, crashes>>

SeedHistory ==
  /\ seed = "bundle"
  /\ seed' = "done"
  /\ lineage' = lineage \cup {Genesis}
  /\ UNCHANGED <<active, stored, decisions, state, base, sub, queue, pc, local, crashes>>

-----------------------------------------------------------------------------
(***************************************************************************)
(* Submission: validate against the active bundle, store the candidate,    *)
(* then store its bundle.                                                  *)
(***************************************************************************)

(* A proposal is built on the active bundle; evidence, size, pattern and   *)
(* provenance checks read nothing modelled here and refuse before this.    *)
Validate(c) ==
  /\ seed = "done"
  /\ sub[c] = "idle"
  /\ active # None
  /\ base' = [base EXCEPT ![c] = active]
  /\ sub' = [sub EXCEPT ![c] = "validated"]
  /\ UNCHANGED <<seed, tables, pc, local, crashes>>

StoreCandidate(c) ==
  /\ sub[c] = "validated"
  /\ sub' = [sub EXCEPT ![c] = "stored"]
  /\ state' = [state EXCEPT ![c] = "validated"]
  /\ UNCHANGED <<seed, active, stored, lineage, decisions, base, queue, pc, local, crashes>>

StoreBundle(c) ==
  /\ sub[c] = "stored"
  /\ sub' = [sub EXCEPT ![c] = "done"]
  /\ stored' = stored \cup {c}
  /\ UNCHANGED <<seed, active, lineage, decisions, state, base, queue, pc, local, crashes>>

Submit(c) == Validate(c) \/ StoreCandidate(c) \/ StoreBundle(c)

-----------------------------------------------------------------------------
(***************************************************************************)
(* The evaluation queue.                                                   *)
(***************************************************************************)

(* A step of a worker that writes no table.                                *)
Step(w, p) ==
  /\ Goto(w, p)
  /\ UNCHANGED <<seed, tables, base, sub, local, crashes>>

(* Write the state of the worker's candidate, whatever it is by now.       *)
SyncCandidate(w, s) == state' = [state EXCEPT ![who[w]] = s]

StepSync(w, s, p) ==
  /\ SyncCandidate(w, s)
  /\ Goto(w, p)
  /\ UNCHANGED <<seed, active, stored, lineage, decisions, base, sub, queue,
                 local, crashes>>

(* queue_evaluation: start_evaluation reads a validated candidate.         *)
Queue(e, c) ==
  /\ pc[e] = "idle"
  /\ state[c] = "validated"
  /\ who' = [who EXCEPT ![e] = c]
  /\ Goto(e, "starting")
  /\ UNCHANGED <<seed, tables, base, sub, prior, want, crashes>>

StartEvaluation(e) == pc[e] = "starting" /\ StepSync(e, "evaluating", "started")

SetQueue(e, s, p) ==
  /\ queue' = [queue EXCEPT ![e] = s]
  /\ Goto(e, p)
  /\ UNCHANGED <<seed, active, stored, lineage, decisions, state, base, sub,
                 local, crashes>>

SaveQueue(e) == pc[e] = "started" /\ SetQueue(e, "queued", "queued")

(* launch_evaluation claims a queued or failed row.                        *)
LaunchEvaluation(e) ==
  /\ pc[e] = "queued"
  /\ queue[e] \in {"queued", "failed"}
  /\ SetQueue(e, "running", "evaluating")

(* No protocol is bound, the candidate's bundle is not stored, or the job   *)
(* does not pass its preflight: the row has been claimed and nothing        *)
(* releases it.                                                            *)
LaunchRaises(e) == pc[e] = "evaluating" /\ Step(e, "done")

Launched(e) == pc[e] = "evaluating" /\ who[e] \in stored

(* The measured report is valid but does not pass, or is incomplete: the   *)
(* job is over and the candidate is left as it is.                         *)
ReportNotEligible(e) == Launched(e) /\ SetQueue(e, "completed", "done")

ReportEligible(e) == Launched(e) /\ Step(e, "promote")

EvaluationRaises(e) == Launched(e) /\ Step(e, "failing")

-----------------------------------------------------------------------------
(***************************************************************************)
(* The validation gate of a lifecycle.                                     *)
(***************************************************************************)
Gate(g, c) ==
  /\ pc[g] = "idle"
  /\ sub[c] = "done"
  /\ who' = [who EXCEPT ![g] = c]
  /\ Goto(g, "gate")
  /\ UNCHANGED <<seed, tables, base, sub, prior, want, crashes>>

(* quarantine() writes the state without a look at the one it read.        *)
GateFails(g) == pc[g] = "gate" /\ Step(g, "quarantining")
Quarantine(g) == pc[g] = "quarantining" /\ StepSync(g, "quarantined", "done")

(* A candidate that reads promoted is checked against the decisions and    *)
(* left alone.                                                             *)
GatePasses(g) ==
  /\ pc[g] = "gate"
  /\ Step(g, IF state[who[g]] = "promoted" THEN "done" ELSE "promote")

-----------------------------------------------------------------------------
(***************************************************************************)
(* CandidateManager.promote.                                               *)
(***************************************************************************)

Open(c) == state[c] \in {"evaluating", "validated"}

(* A candidate in another state is refused, and so is a report the frozen  *)
(* gate does not cover.                                                    *)
PromoteRead(w) ==
  /\ pc[w] = "promote"
  /\ \/ Open(who[w]) /\ Step(w, "readactive")
     \/ Step(w, "failing")

(* Mutant: the report's base is not compared with the active bundle.       *)
BaseHolds_Unchecked(w) == TRUE

BaseHolds(w) == base[who[w]] = active

(* The active bundle is read once and compared with the report's base;     *)
(* the gate then decides.                                                  *)
AfterGate(w, v) ==
  IF ~BaseHolds(w) THEN "superseding"
  ELSE IF v # "promoted" THEN "record"
  ELSE IF who[w] \in stored THEN "cas" ELSE "failing"

ReadActive(w, v) ==
  /\ pc[w] = "readactive"
  /\ prior' = [prior EXCEPT ![w] = active]
  /\ want' = [want EXCEPT ![w] = v]
  /\ Goto(w, AfterGate(w, v))
  /\ UNCHANGED <<seed, tables, base, sub, who, crashes>>

Supersede(w) == pc[w] = "superseding" /\ StepSync(w, "superseded", "failing")

Decided(d, b, from, p) ==
  Append(decisions, [decision |-> d, bundle |-> b, base |-> from, prior |-> p])

(* Mutant: the active bundle is swapped without a second look at it.       *)
Unmoved_Assumed(w) == TRUE

(* The compare of the compare-and-swap.                                    *)
Unmoved(w) == active = prior[w]

(* cas_active_bundle: pointer, candidate, decision and lineage at once.    *)
Activate(b, from, p) ==
  /\ active' = b
  /\ lineage' = lineage \cup {b}
  /\ decisions' = Decided("promoted", b, from, p)

Swap(w) ==
  /\ pc[w] = "cas"
  /\ Unmoved(w)
  /\ Activate(who[w], base[who[w]], prior[w])
  /\ SyncCandidate(w, "promoted")
  /\ Goto(w, "finishing")
  /\ UNCHANGED <<seed, stored, base, sub, queue, local, crashes>>

SwapFails(w) == pc[w] = "cas" /\ ~Unmoved(w) /\ Step(w, "superseding")

(* A rejection: the decision, then the state.                              *)
RecordDecision(w) ==
  /\ pc[w] = "record"
  /\ decisions' = Decided(want[w], who[w], base[who[w]], prior[w])
  /\ Goto(w, "sync")
  /\ UNCHANGED <<seed, active, stored, lineage, state, base, sub, queue, local, crashes>>

SyncDecision(w) == pc[w] = "sync" /\ StepSync(w, want[w], "finishing")

Promote(w) ==
  \/ PromoteRead(w) \/ \E v \in Verdicts : ReadActive(w, v)
  \/ Supersede(w) \/ Swap(w) \/ SwapFails(w)
  \/ RecordDecision(w) \/ SyncDecision(w)

(* promote returned or raised: the queue row is completed, or failed and   *)
(* open for another launch; a gate has no row.                             *)
Finish(w) ==
  /\ pc[w] = "finishing"
  /\ \/ w \in Evaluations /\ SetQueue(w, "completed", "done")
     \/ w \in Gates /\ Step(w, "done")

Fail(w) ==
  /\ pc[w] = "failing"
  /\ \/ w \in Evaluations /\ SetQueue(w, "failed", "queued")
     \/ w \in Gates /\ Step(w, "done")

-----------------------------------------------------------------------------
(***************************************************************************)
(* Rollback of a candidate: back to the bundle it was built on.            *)
(***************************************************************************)

Target(c) == base[c]

RollbackRead(r, c) ==
  /\ pc[r] = "idle"
  /\ state[c] # "absent"
  /\ Target(c) \in lineage \cap stored
  /\ Target(c) # active
  /\ who' = [who EXCEPT ![r] = c]
  /\ prior' = [prior EXCEPT ![r] = active]
  /\ Goto(r, "rollcas")
  /\ UNCHANGED <<seed, tables, base, sub, want, crashes>>

(* The candidate id given to the swap is "rollback:<hash>": it names no    *)
(* row, so no candidate changes state.                                     *)
RollbackSwap(r) ==
  /\ pc[r] = "rollcas"
  /\ Unmoved(r)
  /\ Activate(Target(who[r]), Target(who[r]), prior[r])
  /\ Goto(r, "done")
  /\ UNCHANGED <<seed, stored, state, base, sub, queue, local, crashes>>

RollbackFails(r) == pc[r] = "rollcas" /\ ~Unmoved(r) /\ Step(r, "done")

-----------------------------------------------------------------------------
(* The process dies.  A row of the queue that is queued or failed can be   *)
(* launched again; one that is running cannot.  A store with an active     *)
(* bundle is not seeded again.                                             *)
Crash ==
  /\ crashes < MaxCrashes
  /\ crashes' = crashes + 1
  /\ seed' = IF active # None THEN "done" ELSE "none"
  /\ sub' = [c \in Candidates |-> IF sub[c] \in {"idle", "done"} THEN sub[c] ELSE "dead"]
  /\ pc' = [w \in Workers |-> IF pc[w] \in {"idle", "queued", "done"} THEN pc[w] ELSE "dead"]
  /\ UNCHANGED <<tables, base, local>>

Next ==
  \/ SeedBundle \/ SeedHistory
  \/ \E c \in Candidates :
       \/ Submit(c)
       \/ \E e \in Evaluations : Queue(e, c)
       \/ \E g \in Gates : Gate(g, c)
       \/ \E r \in Rollbacks : RollbackRead(r, c)
  \/ \E e \in Evaluations :
       \/ StartEvaluation(e) \/ SaveQueue(e) \/ LaunchEvaluation(e)
       \/ LaunchRaises(e) \/ ReportNotEligible(e) \/ ReportEligible(e)
       \/ EvaluationRaises(e)
  \/ \E g \in Gates : GateFails(g) \/ Quarantine(g) \/ GatePasses(g)
  \/ \E w \in Jobs : Promote(w) \/ Finish(w) \/ Fail(w)
  \/ \E r \in Rollbacks : RollbackSwap(r) \/ RollbackFails(r)
  \/ Crash

Spec == Init /\ [][Next]_vars

-----------------------------------------------------------------------------
(***************************************************************************)
(* Properties.                                                             *)
(***************************************************************************)

(* Every variable keeps to its type.                                       *)
TypeOK ==
  /\ seed \in {"none", "bundle", "done"}
  /\ active \in Bundles \cup {None}
  /\ stored \subseteq Bundles
  /\ lineage \subseteq Bundles
  /\ decisions \in Seq(Decision)
  /\ state \in [Candidates -> States]
  /\ base \in [Candidates -> Bundles \cup {None}]
  /\ sub \in [Candidates -> {"idle", "validated", "stored", "done", "dead"}]
  /\ queue \in [Evaluations -> {"none", "queued", "running", "completed", "failed"}]
  /\ pc \in [Workers -> Places]
  /\ who \in [Workers -> Candidates \cup {None}]
  /\ prior \in [Workers -> Bundles \cup {None}]
  /\ want \in [Workers -> Verdicts \cup {None}]
  /\ crashes \in 0..MaxCrashes

(* The decisions that moved the pointer, and the rollbacks among them.     *)
Moves(i) == decisions[i].decision = "promoted"
RollsBack(i) == Moves(i) /\ decisions[i].base = decisions[i].bundle

(* The decision before the n-th that moved the pointer last moved it to b.  *)
MovedTo(n, b) ==
  \/ b = Genesis /\ \A i \in 1..(n - 1) : ~Moves(i)
  \/ \E i \in 1..(n - 1) :
       /\ Moves(i)
       /\ decisions[i].bundle = b
       /\ \A k \in (i + 1)..(n - 1) : ~Moves(k)

(* The decision table is a complete audit of the pointer: a decision that  *)
(* moved it starts where the one before it ended, the first at the genesis *)
(* bundle, and the last ends at the active bundle.                         *)
AuditChain ==
  /\ \A n \in 1..Len(decisions) : Moves(n) => MovedTo(n, decisions[n].prior)
  /\ active # None => MovedTo(Len(decisions) + 1, active)

(* A candidate that reads promoted or rejected has that decision on record: *)
(* no crash and no race of two evaluations leaves the state without it.    *)
StateIsDecided ==
  \A c \in Candidates :
    state[c] \in {"promoted", "rejected"} =>
      \E i \in 1..Len(decisions) :
        decisions[i].bundle = c /\ decisions[i].decision = state[c] /\ ~RollsBack(i)

(* A candidate is superseded only when the pointer has left the bundle it  *)
(* was built on.                                                           *)
SupersededWasOvertaken ==
  \A c \in Candidates : state[c] = "superseded" =>
    \E i \in 1..Len(decisions) : Moves(i) /\ decisions[i].prior = base[c]

(* The decision table accounts for the pointer and for the state of every  *)
(* candidate that has a verdict.                                           *)
DecisionsAreAudited ==
  TypeOK /\ AuditChain /\ StateIsDecided /\ SupersededWasOvertaken

(* Submissions, evaluations, gates, rollbacks and crashes together move    *)
(* the pointer as the abstract specification allows.                       *)
Pointer == INSTANCE ActivePointer
ActivePointerSpec == Pointer!Spec

-----------------------------------------------------------------------------
(***************************************************************************)
(* What documents say and the code does not do.                            *)
(***************************************************************************)

(* README.md:8 rejected and quarantined candidates remain inactive.        *)
RejectedIsInactive ==
  \A c \in Candidates : state[c] \in {"rejected", "quarantined"} => active # c
=============================================================================
