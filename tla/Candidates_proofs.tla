-------------------------- MODULE Candidates_proofs --------------------------
(***************************************************************************)
(* What happens to a candidate of the store.  First its promotion, for any *)
(* number of candidates, evaluations, gates, rollbacks and crashes; then   *)
(* its development diagnostic, for any number of processes, launches,      *)
(* cancels, cells and places in the pool, and for any crashes.  They are   *)
(* two specifications without a variable in common.                        *)
(***************************************************************************)
EXTENDS Promotion, Diagnostics, FiniteSetTheorems, TLAPS

(* Nothing happens before the store is seeded, and from then on there is   *)
(* an active bundle.                                                       *)
Seeded ==
  /\ seed # "done" => /\ \A c \in Candidates : sub[c] = "idle"
                      /\ \A w \in Workers : pc[w] = "idle"
                      /\ decisions = <<>>
  /\ seed = "none" <=> active = None
  /\ seed = "bundle" => active = Genesis

(* A candidate that was submitted has a base, other than itself; one that  *)
(* was not has no row, has never been active and is nobody's base.         *)
Built ==
  /\ \A c \in Candidates : sub[c] = "idle" => base[c] = None /\ state[c] = "absent"
  /\ \A c \in Candidates : sub[c] # "idle" => base[c] \in Bundles \ {c}
  /\ \A c \in lineage \cup {active} : c \in Candidates => sub[c] # "idle"
  /\ \A c \in Candidates : base[c] \in Candidates => sub[base[c]] # "idle"

Writing == {"record", "sync"}
Deciding == Writing \cup {"cas", "superseding"}

(* A worker under way has a submitted candidate, one that decides has read *)
(* an active bundle, and one that writes a decision has come to it.        *)
Formed ==
  \A w \in Workers :
    /\ pc[w] # "idle" => who[w] \in Candidates /\ sub[who[w]] # "idle"
    /\ pc[w] \in Deciding \cup {"rollcas"} => prior[w] \in Bundles
    /\ pc[w] \in Writing => want[w] \in {"rejected", "quarantined"}

ShapeInv == TypeOK /\ Seeded /\ Built /\ Formed

USE PromotionAssumption
USE DEF Bundles, Jobs, Workers, States, Places, Verdicts, Decision, Writing, Deciding

LEMMA InitShape == Init => ShapeInv
BY DEF Init, ShapeInv, TypeOK, Seeded, Built, Formed

(* A step of a worker that only moves it on.                               *)
LEMMA StepShape ==
  ASSUME ShapeInv, NEW w \in Workers, NEW p \in Places, pc[w] # "idle", Step(w, p),
         p \in Deciding \cup {"rollcas"} => pc[w] \in Deciding \cup {"rollcas"},
         p \in Writing => pc[w] \in Writing
  PROVE  ShapeInv'
<1> USE DEF ShapeInv, TypeOK, Seeded, Built, Formed, Step, Goto, tables, local
<1>1. TypeOK'
  OBVIOUS
<1>2. Seeded' /\ Built' /\ Formed'
  OBVIOUS
<1> QED BY <1>1, <1>2

LEMMA SyncShape ==
  ASSUME ShapeInv, NEW w \in Workers, NEW s \in States, NEW p \in Places, pc[w] # "idle",
         StepSync(w, s, p), p \notin Deciding \cup {"rollcas"}
  PROVE  ShapeInv'
<1> USE DEF ShapeInv, TypeOK, Seeded, Built, Formed, StepSync, SyncCandidate, Goto, local
<1>1. TypeOK'
  OBVIOUS
<1>2. Seeded' /\ Built' /\ Formed'
  OBVIOUS
<1> QED BY <1>1, <1>2

LEMMA QueueShape ==
  ASSUME ShapeInv, NEW e \in Evaluations, NEW p \in {"queued", "evaluating", "done"},
         NEW s \in {"queued", "running", "completed", "failed"},
         pc[e] # "idle", SetQueue(e, s, p)
  PROVE  ShapeInv'
<1> USE DEF ShapeInv, TypeOK, Seeded, Built, Formed, SetQueue, Goto, local
<1>1. TypeOK'
  OBVIOUS
<1>2. Seeded' /\ Built' /\ Formed'
  OBVIOUS
<1> QED BY <1>1, <1>2

(* The swap of the active bundle, by a promotion or a rollback.            *)
LEMMA ActivateShape ==
  ASSUME ShapeInv, NEW w \in Workers, NEW b \in Bundles, NEW from \in Bundles,
         NEW p \in {"finishing", "done"}, pc[w] # "idle",
         pc[w] \in {"cas", "rollcas"}, b \in Candidates => sub[b] # "idle",
         Activate(b, from, prior[w]), Goto(w, p),
         state' = state \/ SyncCandidate(w, "promoted"),
         UNCHANGED <<seed, stored, base, sub, queue, local, crashes>>
  PROVE  ShapeInv'
<1> USE DEF ShapeInv, TypeOK, Seeded, Built, Formed, Activate, Decided, SyncCandidate,
            Goto, local
<1>1. TypeOK'
  <2>1. prior[w] \in Bundles
    OBVIOUS
  <2>2. decisions' \in Seq(Decision)
    BY <2>1
  <2>3. state' \in [Candidates -> States]
    BY SMTT(30)
  <2> QED BY <2>2, <2>3
<1>2. Seeded' /\ Built' /\ Formed'
  OBVIOUS
<1> QED BY <1>1, <1>2

(* The other actions, each with what it writes.                            *)
LEMMA SeedingShape ==
  ASSUME ShapeInv, SeedBundle \/ SeedHistory
  PROVE  ShapeInv'
BY DEF ShapeInv, TypeOK, Seeded, Built, Formed, SeedBundle, SeedHistory, local

LEMMA SubmitShape ==
  ASSUME ShapeInv, NEW c \in Candidates, Submit(c)
  PROVE  ShapeInv'
<1> USE DEF ShapeInv, TypeOK, Seeded, Built, Formed, tables, local
<1>1. CASE Validate(c)
  <2> USE <1>1 DEF Validate
  <2>1. active # c
    OBVIOUS
  <2>2. TypeOK' /\ Seeded' /\ Built'
    BY <2>1
  <2>3. Formed'
    OBVIOUS
  <2> QED BY <2>2, <2>3
<1>2. CASE StoreCandidate(c)
  BY <1>2 DEF StoreCandidate
<1>3. CASE StoreBundle(c)
  BY <1>3 DEF StoreBundle
<1> QED BY <1>1, <1>2, <1>3 DEF Submit

LEMMA ArriveShape ==
  ASSUME ShapeInv, NEW c \in Candidates,
         \/ \E e \in Evaluations : Queue(e, c)
         \/ \E g \in Gates : Gate(g, c)
         \/ \E r \in Rollbacks : RollbackRead(r, c)
  PROVE  ShapeInv'
<1> USE DEF ShapeInv, TypeOK, Seeded, Built, Formed, tables, local, Goto
<1>1. ASSUME NEW e \in Evaluations, Queue(e, c)
      PROVE  ShapeInv'
  BY <1>1 DEF Queue
<1>2. ASSUME NEW g \in Gates, Gate(g, c)
      PROVE  ShapeInv'
  BY <1>2 DEF Gate
<1>3. ASSUME NEW r \in Rollbacks, RollbackRead(r, c)
      PROVE  ShapeInv'
  BY <1>3 DEF RollbackRead, Target
<1> QED BY <1>1, <1>2, <1>3

LEMMA EvaluationShape ==
  ASSUME ShapeInv, NEW e \in Evaluations,
         \/ StartEvaluation(e) \/ SaveQueue(e) \/ LaunchEvaluation(e)
         \/ LaunchRaises(e) \/ ReportNotEligible(e) \/ ReportEligible(e)
         \/ EvaluationRaises(e)
  PROVE  ShapeInv'
<1>1. CASE StartEvaluation(e)
  BY <1>1, SyncShape DEF StartEvaluation
<1>2. CASE SaveQueue(e)
  BY <1>2, QueueShape DEF SaveQueue
<1>3. CASE LaunchEvaluation(e)
  BY <1>3, QueueShape DEF LaunchEvaluation
<1>4. CASE LaunchRaises(e)
  BY <1>4, StepShape DEF LaunchRaises
<1>5. CASE ReportNotEligible(e)
  BY <1>5, QueueShape DEF ReportNotEligible, Launched
<1>6. CASE ReportEligible(e)
  BY <1>6, StepShape DEF ReportEligible, Launched
<1>7. CASE EvaluationRaises(e)
  BY <1>7, StepShape DEF EvaluationRaises, Launched
<1> QED BY <1>1, <1>2, <1>3, <1>4, <1>5, <1>6, <1>7

LEMMA GateShape ==
  ASSUME ShapeInv, NEW g \in Gates, GateFails(g) \/ Quarantine(g) \/ GatePasses(g)
  PROVE  ShapeInv'
<1>1. CASE GateFails(g)
  BY <1>1, StepShape DEF GateFails
<1>2. CASE Quarantine(g)
  BY <1>2, SyncShape DEF Quarantine
<1>3. CASE GatePasses(g)
  BY <1>3, StepShape DEF GatePasses
<1> QED BY <1>1, <1>2, <1>3

LEMMA PromoteShape ==
  ASSUME ShapeInv, NEW w \in Jobs, Promote(w)
  PROVE  ShapeInv'
<1> USE DEF ShapeInv, Formed
<1>1. CASE PromoteRead(w)
  BY <1>1, StepShape DEF PromoteRead
<1>2. ASSUME NEW v \in Verdicts, ReadActive(w, v)
      PROVE  ShapeInv'
  <2> USE <1>2 DEF TypeOK, Seeded, Built, ReadActive, AfterGate, Goto, tables
  <2>1. AfterGate(w, v) \in Places \ {"idle", "sync", "rollcas"}
    OBVIOUS
  <2>2. AfterGate(w, v) = "record" => v # "promoted"
    OBVIOUS
  <2>3. active \in Bundles
    OBVIOUS
  <2>4. TypeOK' /\ Seeded' /\ Built'
    BY <2>1, <2>3
  <2>5. Formed'
    BY <2>1, <2>2, <2>3
  <2> QED BY <2>4, <2>5
<1>3. CASE Supersede(w)
  BY <1>3, SyncShape DEF Supersede
<1>4. CASE Swap(w)
  BY <1>4, ActivateShape DEF Swap, TypeOK, Built
<1>5. CASE SwapFails(w)
  BY <1>5, StepShape DEF SwapFails
<1>6. CASE RecordDecision(w)
  <2> USE <1>6 DEF TypeOK, Seeded, Built, RecordDecision, Decided, Goto, local
  <2>1. TypeOK'
    OBVIOUS
  <2>2. Seeded' /\ Built' /\ Formed'
    OBVIOUS
  <2> QED BY <2>1, <2>2
<1>7. CASE SyncDecision(w)
  BY <1>7, SyncShape DEF SyncDecision
<1> QED BY <1>1, <1>2, <1>3, <1>4, <1>5, <1>6, <1>7 DEF Promote

LEMMA FinishShape ==
  ASSUME ShapeInv, NEW w \in Jobs, Finish(w) \/ Fail(w)
  PROVE  ShapeInv'
<1>1. CASE Finish(w)
  BY <1>1, QueueShape, StepShape DEF Finish
<1>2. CASE Fail(w)
  BY <1>2, QueueShape, StepShape DEF Fail
<1> QED BY <1>1, <1>2

LEMMA RollbackShape ==
  ASSUME ShapeInv, NEW r \in Rollbacks, RollbackSwap(r) \/ RollbackFails(r)
  PROVE  ShapeInv'
<1>1. CASE RollbackSwap(r)
  <2> USE DEF RollbackSwap, Target, ShapeInv, TypeOK, Built, Formed
  <2>1. /\ who[r] \in Candidates
        /\ base[who[r]] \in Bundles
        /\ base[who[r]] \in Candidates => sub[base[who[r]]] # "idle"
    BY <1>1
  <2> QED BY <1>1, <2>1, ActivateShape
<1>2. CASE RollbackFails(r)
  BY <1>2, StepShape DEF RollbackFails
<1> QED BY <1>1, <1>2

LEMMA CrashShape == ShapeInv /\ Crash => ShapeInv'
<1> SUFFICES ASSUME ShapeInv, Crash PROVE ShapeInv'
  OBVIOUS
<1> USE DEF ShapeInv, TypeOK, Seeded, Built, Formed, Crash, tables, local
<1>1. TypeOK'
  OBVIOUS
<1>2. Seeded' /\ Built' /\ Formed'
  OBVIOUS
<1> QED BY <1>1, <1>2

LEMMA NextShape == ShapeInv /\ [Next]_vars => ShapeInv'
<1> SUFFICES ASSUME ShapeInv, [Next]_vars PROVE ShapeInv'
  OBVIOUS
<1>1. CASE UNCHANGED vars
  BY <1>1 DEF ShapeInv, TypeOK, Seeded, Built, Formed, vars
<1>2. CASE Next
  BY <1>2, SeedingShape, SubmitShape, ArriveShape, EvaluationShape, GateShape,
     PromoteShape, FinishShape, RollbackShape, CrashShape
  DEF Next
<1> QED BY <1>1, <1>2

(* Every variable keeps to its type.                                       *)
THEOREM TypeCorrect == Spec => []TypeOK
<1>1. Spec => []ShapeInv
  BY InitShape, NextShape, PTL DEF Spec
<1>2. ShapeInv => TypeOK
  BY DEF ShapeInv
<1> QED BY <1>1, <1>2, PTL

-----------------------------------------------------------------------------
(***************************************************************************)
(* The audit of the pointer.                                               *)
(***************************************************************************)

(* A decision v on c is on record; the pointer has once left b.            *)
Recorded(c, v) ==
  \E i \in 1..Len(decisions) :
    decisions[i].bundle = c /\ decisions[i].decision = v /\ ~RollsBack(i)

Left(b) == \E i \in 1..Len(decisions) : Moves(i) /\ decisions[i].prior = b

(* What a step may do to the pointer and to the decisions: nothing, seed   *)
(* the pointer, move it with a decision that starts at it, or record a     *)
(* decision that does not move it.                                         *)
Appended(d) == d \in Decision /\ decisions' = Append(decisions, d)

DecisionStep ==
  \/ UNCHANGED <<active, decisions>>
  \/ active = None /\ active' = Genesis /\ decisions = <<>> /\ UNCHANGED decisions
  \/ \E d \in Decision :
       /\ Appended(d)
       /\ IF d.decision = "promoted" THEN d.prior = active /\ active' = d.bundle
                                     ELSE UNCHANGED active

(* What a step may do to the base of a candidate: set it once, to the      *)
(* active bundle.                                                          *)
BaseStep ==
  \A c \in Candidates :
    /\ sub[c] # "idle" => sub'[c] # "idle" /\ base'[c] = base[c]
    /\ sub[c] = "idle" /\ sub'[c] # "idle" => base'[c] = active /\ active' = active

LEMMA DecisionStepHolds == ShapeInv /\ [Next]_vars => DecisionStep /\ BaseStep
<1> SUFFICES ASSUME ShapeInv, [Next]_vars PROVE DecisionStep /\ BaseStep
  OBVIOUS
<1> USE DEF DecisionStep, BaseStep, Appended, tables, local
<1>1. CASE UNCHANGED vars
  BY <1>1 DEF vars
<1>2. CASE SeedBundle \/ SeedHistory \/ Crash
  BY <1>2 DEF SeedBundle, SeedHistory, Crash, ShapeInv, Seeded, TypeOK
<1>3. ASSUME NEW c \in Candidates, Submit(c)
      PROVE  DecisionStep /\ BaseStep
  BY <1>3 DEF Submit, Validate, StoreCandidate, StoreBundle, ShapeInv, TypeOK
<1>4. ASSUME NEW c \in Candidates,
             \/ \E e \in Evaluations : Queue(e, c)
             \/ \E g \in Gates : Gate(g, c)
             \/ \E r \in Rollbacks : RollbackRead(r, c)
      PROVE  DecisionStep /\ BaseStep
  BY <1>4 DEF Queue, Gate, RollbackRead
<1>5. ASSUME NEW e \in Evaluations,
             \/ StartEvaluation(e) \/ SaveQueue(e) \/ LaunchEvaluation(e)
             \/ LaunchRaises(e) \/ ReportNotEligible(e) \/ ReportEligible(e)
             \/ EvaluationRaises(e)
      PROVE  DecisionStep /\ BaseStep
  BY <1>5 DEF StartEvaluation, SaveQueue, LaunchEvaluation, LaunchRaises,
              ReportNotEligible, ReportEligible, EvaluationRaises, StepSync, SetQueue, Step
<1>6. ASSUME NEW g \in Gates, GateFails(g) \/ Quarantine(g) \/ GatePasses(g)
      PROVE  DecisionStep /\ BaseStep
  BY <1>6 DEF GateFails, Quarantine, GatePasses, StepSync, Step
<1>7. ASSUME NEW w \in Jobs, Promote(w)
      PROVE  DecisionStep /\ BaseStep
  <2> USE DEF ShapeInv, TypeOK, Built, Formed
  <2>1. CASE \/ PromoteRead(w) \/ \E v \in Verdicts : ReadActive(w, v)
             \/ Supersede(w) \/ SwapFails(w) \/ SyncDecision(w)
    BY <2>1 DEF PromoteRead, ReadActive, Supersede, SwapFails, SyncDecision, StepSync, Step
  <2>2. CASE Swap(w)
    <3> DEFINE d == [decision |-> "promoted", bundle |-> who[w], base |-> base[who[w]],
                     prior |-> prior[w]]
    <3>1. d \in Decision /\ Appended(d)
      BY <2>2 DEF Swap, Activate, Decided
    <3> QED BY <2>2, <3>1 DEF Swap, Activate, Unmoved
  <2>3. CASE RecordDecision(w)
    <3> DEFINE d == [decision |-> want[w], bundle |-> who[w], base |-> base[who[w]],
                     prior |-> prior[w]]
    <3>1. d \in Decision /\ Appended(d) /\ d.decision # "promoted"
      BY <2>3 DEF RecordDecision, Decided
    <3> QED BY <2>3, <3>1 DEF RecordDecision
  <2> QED BY <1>7, <2>1, <2>2, <2>3 DEF Promote
<1>8. ASSUME NEW w \in Jobs, Finish(w) \/ Fail(w)
      PROVE  DecisionStep /\ BaseStep
  BY <1>8 DEF Finish, Fail, SetQueue, Step
<1>9. ASSUME NEW r \in Rollbacks, RollbackSwap(r) \/ RollbackFails(r)
      PROVE  DecisionStep /\ BaseStep
  <2>1. CASE RollbackSwap(r)
    <3> DEFINE t == Target(who[r])
               d == [decision |-> "promoted", bundle |-> t, base |-> t, prior |-> prior[r]]
    <3>1. d \in Decision /\ Appended(d)
      BY <2>1 DEF RollbackSwap, Activate, Decided, Target, ShapeInv, TypeOK, Built, Formed
    <3> QED BY <2>1, <3>1 DEF RollbackSwap, Activate, Unmoved
  <2>2. CASE RollbackFails(r)
    BY <2>2 DEF RollbackFails, Step
  <2> QED BY <1>9, <2>1, <2>2
<1> QED BY <1>1, <1>2, <1>3, <1>4, <1>5, <1>6, <1>7, <1>8, <1>9 DEF Next

(* Decisions are never rewritten.                                          *)
LEMMA DecisionsKept ==
  ASSUME TypeOK, NEW d, Appended(d)
  PROVE  /\ Len(decisions') = Len(decisions) + 1
         /\ Len(decisions) \in Nat
         /\ decisions'[Len(decisions) + 1] = d
         /\ \A i \in 1..Len(decisions) : decisions'[i] = decisions[i]
BY DEF TypeOK, Appended

LEMMA RecordsKept ==
  ASSUME TypeOK, DecisionStep
  PROVE  /\ \A b : Left(b) => Left(b)'
         /\ \A c, v : Recorded(c, v) => Recorded(c, v)'
<1>1. CASE UNCHANGED decisions
  BY <1>1 DEF Left, Recorded, Moves, RollsBack
<1>2. CASE \E d \in Decision : Appended(d)
  BY <1>2, DecisionsKept DEF Left, Recorded, Moves, RollsBack
<1> QED BY <1>1, <1>2 DEF DecisionStep

LEMMA ChainStep ==
  ASSUME TypeOK, AuditChain, DecisionStep
  PROVE  AuditChain'
<1> USE DEF AuditChain, MovedTo, Moves
<1>1. CASE UNCHANGED <<active, decisions>>
  BY <1>1
<1>2. CASE active' = Genesis /\ decisions = <<>> /\ UNCHANGED decisions
  BY <1>2
<1>3. ASSUME NEW d \in Decision, Appended(d),
             IF d.decision = "promoted" THEN d.prior = active /\ active' = d.bundle
                                        ELSE UNCHANGED active
      PROVE  AuditChain'
  <2> PICK n \in Nat : n = Len(decisions)
    BY DEF TypeOK
  <2> PICK old : old = active
    OBVIOUS
  <2>1. /\ Len(decisions') = n + 1 /\ n \in Nat
        /\ decisions'[n + 1] = d
        /\ \A i \in 1..n : decisions'[i] = decisions[i]
    BY <1>3, DecisionsKept
  <2>2. \A m \in 1..(n + 1) : \A b : MovedTo(m, b) => MovedTo(m, b)'
    BY <2>1
  <2>3. MovedTo(n + 1, old) => MovedTo(n + 1, old)'
    BY <2>1
  <2>4. ASSUME NEW m \in 1..Len(decisions'), Moves(m)'
        PROVE  MovedTo(m, decisions[m].prior)'
    <3>1. CASE m \in 1..n
      BY <2>1, <2>2, <2>4, <3>1
    <3>2. CASE m = n + 1
      <4>1. d.prior = old /\ old # None
        BY <1>3, <2>1, <2>4, <3>2 DEF TypeOK
      <4>2. MovedTo(n + 1, old)
        BY <4>1
      <4>3. MovedTo(n + 1, old)'
        BY <2>3, <4>2
      <4> QED BY <2>1, <3>2, <4>1, <4>3
    <3> QED BY <2>1, <2>4, <3>1, <3>2
  <2>5. ASSUME active' # None
        PROVE  MovedTo(Len(decisions) + 1, active)'
    <3>1. CASE d.decision = "promoted"
      <4>1. Moves(n + 1)' /\ active' = d.bundle
        BY <1>3, <2>1, <3>1
      <4> QED BY <2>1, <4>1
    <3>2. CASE d.decision # "promoted"
      <4>1. ~Moves(n + 1)' /\ active' = old
        BY <1>3, <2>1, <3>2
      <4>2. MovedTo(n + 1, old)
        BY <2>5, <4>1
      <4>3. MovedTo(n + 1, old)'
        BY <2>3, <4>2
      <4>4. MovedTo(n + 2, old)'
        BY <2>1, <4>1, <4>3
      <4> QED BY <2>1, <4>1, <4>4
    <3> QED BY <3>1, <3>2
  <2> QED BY <2>4, <2>5
<1> QED BY <1>1, <1>2, <1>3 DEF DecisionStep

(* A candidate whose base is no longer active was built before the pointer *)
(* left that base.                                                         *)
BasesLeft ==
  \A c \in Candidates : sub[c] # "idle" /\ base[c] # active => Left(base[c])

(* What a worker is about to write has its reason on record.               *)
Pending(w) ==
  /\ pc[w] = "cas" => base[who[w]] = prior[w]
  /\ pc[w] = "sync" => Recorded(who[w], want[w])
  /\ pc[w] = "superseding" => Left(base[who[w]])

StateReasons ==
  \A c \in Candidates :
    /\ state[c] \in {"promoted", "rejected"} => Recorded(c, state[c])
    /\ state[c] = "superseded" => Left(base[c])

AuditInv ==
  /\ AuditChain
  /\ BasesLeft
  /\ \A w \in Workers : Pending(w)
  /\ StateReasons

LEMMA InitAudit == Init => AuditInv
BY DEF Init, AuditInv, AuditChain, BasesLeft, Pending, StateReasons, MovedTo

LEMMA BasesLeftStep ==
  ASSUME ShapeInv, BasesLeft, DecisionStep, BaseStep
  PROVE  BasesLeft'
<1> SUFFICES ASSUME NEW c \in Candidates, sub'[c] # "idle", base'[c] # active'
             PROVE  Left(base[c])'
  BY DEF BasesLeft
<1>1. sub[c] # "idle" /\ base'[c] = base[c] /\ base[c] # None
  BY DEF BaseStep, ShapeInv, Built
<1>2. CASE base[c] # active
  BY <1>1, <1>2, RecordsKept DEF BasesLeft, ShapeInv
<1>3. CASE base[c] = active
  <2>1. PICK d \in Decision : Appended(d) /\ d.decision = "promoted" /\ d.prior = active
    BY <1>1, <1>3 DEF DecisionStep
  <2> QED BY <1>1, <1>3, <2>1, DecisionsKept DEF Left, Moves, ShapeInv
<1> QED BY <1>2, <1>3

(* A step that moves no worker to a place with something pending, and no   *)
(* candidate to a state that needs a reason.                               *)
LEMMA QuietAudit ==
  ASSUME ShapeInv, AuditInv, DecisionStep, BaseStep,
         \A w \in Workers : pc'[w] \in {"cas", "sync", "superseding"} =>
           /\ pc'[w] = pc[w] /\ who'[w] = who[w]
           /\ prior'[w] = prior[w] /\ want'[w] = want[w],
         \A c \in Candidates : state'[c] \in {"promoted", "rejected", "superseded"} =>
           state'[c] = state[c]
  PROVE  AuditInv'
<1>1. AuditChain' /\ BasesLeft'
  BY ChainStep, BasesLeftStep DEF AuditInv, ShapeInv
<1>2. ASSUME NEW w \in Workers PROVE Pending(w)'
  <2>1. pc'[w] \in {"cas", "sync", "superseding"} => base'[who[w]] = base[who[w]]
    BY DEF BaseStep, ShapeInv, Formed
  <2>2. Pending(w)
    BY DEF AuditInv
  <2> QED BY <2>1, <2>2, RecordsKept DEF Pending, ShapeInv
<1>3. ASSUME NEW c \in Candidates,
             state'[c] \in {"promoted", "rejected", "superseded"}
      PROVE  base'[c] = base[c]
  BY <1>3 DEF BaseStep, ShapeInv, Built
<1>4. StateReasons'
  BY <1>3, RecordsKept DEF AuditInv, StateReasons, ShapeInv
<1> QED BY <1>1, <1>2, <1>4 DEF AuditInv

(* A step of one worker that gives its candidate a state with a reason.    *)
LEMMA WorkerAudit ==
  ASSUME ShapeInv, AuditInv, DecisionStep, BaseStep, NEW w \in Workers,
         NEW s \in States, who[w] \in Candidates, sub[who[w]] # "idle",
         state' = state \/ state' = [state EXCEPT ![who[w]] = s],
         who' = who,
         \A x \in Workers \ {w} :
           pc'[x] = pc[x] /\ prior'[x] = prior[x] /\ want'[x] = want[x],
         state' # state /\ s \in {"promoted", "rejected"} => Recorded(who[w], s)',
         state' # state /\ s = "superseded" => Left(base[who[w]]),
         Pending(w)'
  PROVE  AuditInv'
<1>1. AuditChain' /\ BasesLeft'
  BY ChainStep, BasesLeftStep DEF AuditInv, ShapeInv
<1>2. ASSUME NEW x \in Workers PROVE Pending(x)'
  <2>1. CASE x = w
    BY <2>1
  <2>2. CASE x # w
    <3>1. pc[x] \in {"cas", "sync", "superseding"} => base'[who[x]] = base[who[x]]
      BY DEF BaseStep, ShapeInv, Formed
    <3>2. Pending(x)
      BY DEF AuditInv
    <3> QED BY <2>2, <3>1, <3>2, RecordsKept DEF Pending, ShapeInv
  <2> QED BY <2>1, <2>2
<1>3. ASSUME NEW c \in Candidates
      PROVE  /\ state'[c] \in {"promoted", "rejected"} => Recorded(c, state[c])'
             /\ state'[c] = "superseded" => Left(base[c])'
  <2>1. sub[c] # "idle" => base'[c] = base[c]
    BY DEF BaseStep
  <2>2. CASE state'[c] = state[c]
    BY <2>1, <2>2, RecordsKept DEF AuditInv, StateReasons, ShapeInv, Built
  <2>3. CASE state'[c] # state[c]
    <3>1. c = who[w] /\ state'[c] = s /\ state' # state
      BY <2>3 DEF ShapeInv, TypeOK
    <3>2. s = "superseded" => Left(base[c])'
      BY <2>1, <3>1, RecordsKept DEF ShapeInv
    <3>3. s \in {"promoted", "rejected"} => Recorded(c, state[c])'
      BY <3>1
    <3> QED BY <3>1, <3>2, <3>3
  <2> QED BY <2>2, <2>3
<1> QED BY <1>1, <1>2, <1>3 DEF AuditInv, StateReasons

LEMMA PromoteAudit ==
  ASSUME ShapeInv, AuditInv, DecisionStep, BaseStep, ShapeInv', NEW w \in Jobs, Promote(w)
  PROVE  AuditInv'
<1>1. /\ who[w] \in Candidates /\ sub[who[w]] # "idle"
      /\ base'[who[w]] = base[who[w]] /\ base[who[w]] \in Bundles \ {who[w]}
      /\ Pending(w)
  <2>1. pc[w] # "idle"
    BY DEF Promote, PromoteRead, ReadActive, Supersede, Swap, SwapFails,
           RecordDecision, SyncDecision
  <2> QED BY <2>1 DEF ShapeInv, Formed, Built, BaseStep, AuditInv
<1>2. CASE PromoteRead(w)
  BY <1>2, QuietAudit DEF PromoteRead, Step, Goto, local, tables, ShapeInv, TypeOK
<1>3. ASSUME NEW v \in Verdicts, ReadActive(w, v)
      PROVE  AuditInv'
  <2> USE <1>1, <1>3 DEF ReadActive, AfterGate, Goto, tables, ShapeInv, TypeOK
  <2>1. pc'[w] = "cas" => base[who[w]] = active
    BY DEF BaseHolds
  <2>2. pc'[w] # "sync"
    OBVIOUS
  <2>3. pc'[w] = "superseding" => Left(base[who[w]])
    BY DEF BaseHolds, AuditInv, BasesLeft
  <2>4. Pending(w)'
    BY <2>1, <2>2, <2>3, RecordsKept DEF Pending
  <2> QED BY <2>4, WorkerAudit
<1>4. CASE Supersede(w)
  BY <1>1, <1>4, WorkerAudit
  DEF Supersede, StepSync, SyncCandidate, Goto, local, Pending, ShapeInv, TypeOK
<1>5. CASE Swap(w)
  <2> USE <1>1, <1>5 DEF Swap, Activate, Decided, SyncCandidate, Goto, local, ShapeInv, TypeOK
  <2> DEFINE d == [decision |-> "promoted", bundle |-> who[w], base |-> base[who[w]],
                   prior |-> prior[w]]
  <2>1. Appended(d)
    BY DEF Appended, Formed
  <2>2. Recorded(who[w], "promoted")'
    BY <2>1, DecisionsKept, SMTT(30) DEF Recorded, Moves, RollsBack
  <2>3. Pending(w)'
    BY DEF Pending
  <2> QED BY <2>2, <2>3, WorkerAudit
<1>6. CASE SwapFails(w)
  <2> USE <1>1, <1>6 DEF SwapFails, Step, Goto, local, tables, ShapeInv, TypeOK
  <2>1. Left(base[who[w]])
    BY DEF Unmoved, Pending, AuditInv, BasesLeft
  <2>2. Pending(w)'
    BY <2>1, RecordsKept DEF Pending
  <2> QED BY <2>2, WorkerAudit
<1>7. CASE RecordDecision(w)
  <2> USE <1>1, <1>7 DEF RecordDecision, Decided, Goto, local, ShapeInv, TypeOK
  <2> DEFINE d == [decision |-> want[w], bundle |-> who[w], base |-> base[who[w]],
                   prior |-> prior[w]]
  <2>1. Appended(d)
    BY DEF Appended, Formed
  <2>2. Recorded(who[w], want[w])'
    BY <2>1, DecisionsKept DEF Recorded, Moves, RollsBack
  <2>3. Pending(w)'
    BY <2>2 DEF Pending
  <2> QED BY <2>3, WorkerAudit
<1>8. CASE SyncDecision(w)
  <2> USE <1>1, <1>8 DEF SyncDecision, StepSync, SyncCandidate, Goto, local, ShapeInv, TypeOK
  <2> PICK s \in States \ {"superseded"} : s = want[w]
    BY DEF Formed
  <2> PICK c \in Candidates : c = who[w]
    OBVIOUS
  <2>1. Recorded(c, s)'
    BY RecordsKept DEF Pending
  <2>2. Recorded(who[w], s)'
    BY <2>1
  <2>3. Pending(w)'
    BY DEF Pending
  <2>4. /\ state' = [state EXCEPT ![who[w]] = s] /\ who' = who
        /\ \A x \in Workers \ {w} :
             pc'[x] = pc[x] /\ prior'[x] = prior[x] /\ want'[x] = want[x]
    OBVIOUS
  <2>5. s \in States /\ s # "superseded"
    OBVIOUS
  <2> HIDE DEF SyncDecision, StepSync, SyncCandidate, Goto, local, ShapeInv, TypeOK, States
  <2> QED BY <2>2, <2>3, <2>4, <2>5, WorkerAudit
<1> QED BY <1>2, <1>3, <1>4, <1>5, <1>6, <1>7, <1>8 DEF Promote

LEMMA NextAudit == ShapeInv /\ AuditInv /\ [Next]_vars => AuditInv'
<1> SUFFICES ASSUME ShapeInv, AuditInv, [Next]_vars PROVE AuditInv'
  OBVIOUS
<1>1. DecisionStep /\ BaseStep /\ ShapeInv'
  BY DecisionStepHolds, NextShape
<1> USE <1>1, QuietAudit DEF tables, local, Goto, ShapeInv, TypeOK
<1>2. CASE UNCHANGED vars
  BY <1>2 DEF vars
<1>3. CASE SeedBundle \/ SeedHistory \/ Crash
  BY <1>3 DEF SeedBundle, SeedHistory, Crash
<1>4. ASSUME NEW c \in Candidates, Submit(c)
      PROVE  AuditInv'
  BY <1>4 DEF Submit, Validate, StoreCandidate, StoreBundle
<1>5. ASSUME NEW c \in Candidates,
             \/ \E e \in Evaluations : Queue(e, c)
             \/ \E g \in Gates : Gate(g, c)
             \/ \E r \in Rollbacks : RollbackRead(r, c)
      PROVE  AuditInv'
  BY <1>5 DEF Queue, Gate, RollbackRead
<1>6. ASSUME NEW e \in Evaluations,
             \/ StartEvaluation(e) \/ SaveQueue(e) \/ LaunchEvaluation(e)
             \/ LaunchRaises(e) \/ ReportNotEligible(e) \/ ReportEligible(e)
             \/ EvaluationRaises(e)
      PROVE  AuditInv'
  BY <1>6 DEF StartEvaluation, SaveQueue, LaunchEvaluation, LaunchRaises,
     ReportNotEligible, ReportEligible, EvaluationRaises, StepSync, SyncCandidate, SetQueue, Step
<1>7. ASSUME NEW g \in Gates, GateFails(g) \/ Quarantine(g) \/ GatePasses(g)
      PROVE  AuditInv'
  BY <1>7 DEF GateFails, Quarantine, GatePasses, StepSync, SyncCandidate, Step
<1>8. ASSUME NEW w \in Jobs, Finish(w) \/ Fail(w)
      PROVE  AuditInv'
  BY <1>8 DEF Finish, Fail, SetQueue, Step
<1>9. ASSUME NEW r \in Rollbacks, RollbackSwap(r) \/ RollbackFails(r)
      PROVE  AuditInv'
  BY <1>9 DEF RollbackSwap, RollbackFails, Activate, Step
<1> QED BY <1>2, <1>3, <1>4, <1>5, <1>6, <1>7, <1>8, <1>9, PromoteAudit DEF Next

LEMMA InvHolds == Spec => [](ShapeInv /\ AuditInv)
BY InitShape, InitAudit, NextShape, NextAudit, PTL DEF Spec

(* The decision table is a complete audit of the pointer.                  *)
THEOREM AuditCorrect == Spec => []AuditChain
<1>1. ShapeInv /\ AuditInv => AuditChain
  BY DEF AuditInv
<1> QED BY <1>1, InvHolds, PTL

(* A candidate that reads promoted or rejected has that decision on record. *)
THEOREM StateIsDecidedCorrect == Spec => []StateIsDecided
<1>1. ShapeInv /\ AuditInv => StateIsDecided
  BY DEF AuditInv, StateReasons, StateIsDecided, Recorded
<1> QED BY <1>1, InvHolds, PTL

(* A candidate is superseded only when the pointer has left its base.      *)
THEOREM SupersededCorrect == Spec => []SupersededWasOvertaken
<1>1. ShapeInv /\ AuditInv => SupersededWasOvertaken
  BY DEF AuditInv, StateReasons, SupersededWasOvertaken, Left
<1> QED BY <1>1, InvHolds, PTL

(* The decision table accounts for the pointer and for every verdict.      *)
THEOREM DecisionsAreAuditedCorrect == Spec => []DecisionsAreAudited
<1>1. TypeOK /\ AuditChain /\ StateIsDecided /\ SupersededWasOvertaken
        => DecisionsAreAudited
  BY DEF DecisionsAreAudited
<1> QED BY <1>1, TypeCorrect, AuditCorrect, StateIsDecidedCorrect, SupersededCorrect, PTL

-----------------------------------------------------------------------------
(***************************************************************************)
(* The refinement of ActivePointer.                                        *)
(***************************************************************************)

(* A rollback under way restores a bundle of the lineage.                  *)
TargetsApproved ==
  \A r \in Workers : pc[r] = "rollcas" => Target(who[r]) \in lineage

PointerInv == ShapeInv /\ AuditInv /\ TargetsApproved

LEMMA PointerStep ==
  PointerInv /\ [Next]_vars => TargetsApproved' /\ [Pointer!Next]_(Pointer!vars)
<1> SUFFICES ASSUME PointerInv, [Next]_vars
             PROVE  TargetsApproved' /\ [Pointer!Next]_(Pointer!vars)
  OBVIOUS
<1> USE DEF PointerInv, TargetsApproved, Target, Pointer!vars, tables, local, Goto, ShapeInv, TypeOK
<1>1. CASE UNCHANGED vars
  BY <1>1 DEF vars
<1>2. CASE SeedBundle
  BY <1>2 DEF SeedBundle, Seeded, Pointer!Next, Pointer!Seed
<1>3. CASE SeedHistory
  BY <1>3 DEF SeedHistory, Seeded, Pointer!Next, Pointer!RecordSeed
<1>4. CASE Crash
  BY <1>4 DEF Crash
<1>5. ASSUME NEW c \in Candidates, Validate(c)
      PROVE  TargetsApproved' /\ [Pointer!Next]_(Pointer!vars)
  <2>1. \A w \in Workers : pc[w] = "rollcas" => who[w] # c
    BY <1>5 DEF Validate, Formed
  <2>2. TargetsApproved'
    BY <1>5, <2>1 DEF Validate
  <2>3. Pointer!Build(c)
    BY <1>5 DEF Validate, Built, Pointer!Build
  <2> QED BY <2>2, <2>3 DEF Pointer!Next
<1>6. ASSUME NEW c \in Candidates,
             \/ StoreCandidate(c) \/ StoreBundle(c)
             \/ \E e \in Evaluations : Queue(e, c)
             \/ \E g \in Gates : Gate(g, c)
             \/ \E r \in Rollbacks : RollbackRead(r, c)
      PROVE  TargetsApproved' /\ [Pointer!Next]_(Pointer!vars)
  BY <1>6 DEF StoreCandidate, StoreBundle, Queue, Gate, RollbackRead
<1>7. ASSUME NEW e \in Evaluations,
             \/ StartEvaluation(e) \/ SaveQueue(e) \/ LaunchEvaluation(e)
             \/ LaunchRaises(e) \/ ReportNotEligible(e) \/ ReportEligible(e)
             \/ EvaluationRaises(e)
      PROVE  TargetsApproved' /\ [Pointer!Next]_(Pointer!vars)
  BY <1>7 DEF StartEvaluation, SaveQueue, LaunchEvaluation, LaunchRaises,
              ReportNotEligible, ReportEligible, EvaluationRaises, StepSync, SetQueue, Step
<1>8. ASSUME NEW g \in Gates, GateFails(g) \/ Quarantine(g) \/ GatePasses(g)
      PROVE  TargetsApproved' /\ [Pointer!Next]_(Pointer!vars)
  BY <1>8 DEF GateFails, Quarantine, GatePasses, StepSync, Step
<1>9. ASSUME NEW w \in Jobs, Promote(w) \/ Finish(w) \/ Fail(w)
      PROVE  TargetsApproved' /\ [Pointer!Next]_(Pointer!vars)
  <2>1. CASE Swap(w)
    <3>1. Pointer!Promote(who[w])
      BY <2>1 DEF Swap, Activate, Unmoved, AuditInv, Pending, Pointer!Promote
    <3>2. who[w] \in Candidates
      BY <2>1 DEF Swap, Formed
    <3>3. TargetsApproved'
      BY <2>1 DEF Swap, Activate
    <3> QED BY <3>1, <3>2, <3>3 DEF Pointer!Next
  <2>2. CASE ~Swap(w)
    BY <1>9, <2>2 DEF Promote, PromoteRead, ReadActive, AfterGate, Supersede, SwapFails,
       RecordDecision, SyncDecision, StepSync, Step, Finish, Fail, SetQueue
  <2> QED BY <2>1, <2>2
<1>10. ASSUME NEW r \in Rollbacks, RollbackSwap(r) \/ RollbackFails(r)
       PROVE  TargetsApproved' /\ [Pointer!Next]_(Pointer!vars)
  <2>1. CASE RollbackSwap(r)
    <3>1. Pointer!Restore(Target(who[r]))
      BY <2>1 DEF RollbackSwap, Activate, Pointer!Restore
    <3>2. Target(who[r]) \in Pointer!Bundles
      BY <2>1 DEF RollbackSwap, Formed, Built, Pointer!Bundles
    <3>3. TargetsApproved'
      BY <2>1 DEF RollbackSwap, Activate
    <3> QED BY <3>1, <3>2, <3>3 DEF Pointer!Next
  <2>2. CASE RollbackFails(r)
    BY <2>2 DEF RollbackFails, Step
  <2> QED BY <1>10, <2>1, <2>2
<1> QED BY <1>1, <1>2, <1>3, <1>4, <1>5, <1>6, <1>7, <1>8, <1>9, <1>10 DEF Next, Submit

(* Submissions, evaluations, gates, rollbacks and crashes together move    *)
(* the pointer as the abstract specification allows.                       *)
THEOREM ActivePointerCorrect == Spec => ActivePointerSpec
<1>1. Init => Pointer!Init
  BY DEF Init, Pointer!Init
<1>2. Init => PointerInv
  BY InitShape, InitAudit DEF Init, PointerInv, TargetsApproved
<1>3. PointerInv /\ [Next]_vars => PointerInv' /\ [Pointer!Next]_(Pointer!vars)
  BY NextShape, NextAudit, PointerStep DEF PointerInv
<1> QED BY <1>1, <1>2, <1>3, PTL DEF Spec, ActivePointerSpec, Pointer!Spec

-----------------------------------------------------------------------------
(***************************************************************************)
(* The development diagnostic.                                             *)
(***************************************************************************)

(* The run that is between its acquire and its release has the lock.       *)
Owning == {"read", "start", "pool", "end"}

LockHeld == \A l \in Launches : lpc[l] \in Owning <=> lock = l

(* Threads are those of a run in its pool, whose diagnostic is running.    *)
ThreadsPooled ==
  \A l \in Launches :
    /\ \A c \in Cells : thread[l][c] \notin {"none", "gone"} => lpc[l] = "pool"
    /\ lpc[l] = "pool" => diag.state = "running"

(* From its claim to the storing of its result a cell's row says running.  *)
ClaimsStand ==
  \A l \in Launches, c \in Cells :
    thread[l][c] \in {"recheck", "execute"} \cup Ended => cell[c] = "running"

(* The cells come with the diagnostic.                                     *)
CellsExist == diag.state = "none" => \A c \in Cells : cell[c] = "none"

DiagnosticInv == DiagnosticTypeOK /\ LockHeld /\ ThreadsPooled /\ ClaimsStand /\ CellsExist

HIDE PromotionAssumption
HIDE DEF Bundles, Jobs, Workers, States, Places, Verdicts, Decision, Writing, Deciding
USE DiagnosticsAssumption
USE DEF Ended, OnPool, Owning, rows, process, LaunchGoto, Release, ThreadGoto, CancelGoto

LEMMA InitDiagnosticInv == DiagnosticInit => DiagnosticInv
BY DEF DiagnosticInit, DiagnosticInv, DiagnosticTypeOK, LockHeld, ThreadsPooled, ClaimsStand, CellsExist

(* The threads of two runs do not meet: their runs would both have the     *)
(* lock.                                                                   *)
LEMMA OneRun ==
  ASSUME DiagnosticInv, NEW l \in Launches, NEW m \in Launches,
         lpc[l] \in Owning, lpc[m] \in Owning
  PROVE  l = m
BY DEF DiagnosticInv, LockHeld

LEMMA LookupStep == ASSUME DiagnosticInv, NEW l \in Launches, Lookup(l) PROVE DiagnosticInv'
<1> USE DEF DiagnosticInv, Lookup
<1>1. DiagnosticTypeOK'
  BY DEF DiagnosticTypeOK
<1>2. LockHeld'
  BY DEF DiagnosticTypeOK, LockHeld
<1>3. ThreadsPooled'
  BY DEF DiagnosticTypeOK, LockHeld, ThreadsPooled
<1>4. ClaimsStand'
  BY DEF DiagnosticTypeOK, LockHeld, ThreadsPooled, ClaimsStand
<1>5. CellsExist'
  BY DEF CellsExist
<1>. QED  BY <1>1, <1>2, <1>3, <1>4, <1>5

LEMMA InsertStep == ASSUME DiagnosticInv, NEW l \in Launches, Insert(l) PROVE DiagnosticInv'
<1> USE DEF DiagnosticInv, Insert
<1>1. DiagnosticTypeOK'
  BY DEF DiagnosticTypeOK
<1>2. LockHeld'
  BY DEF DiagnosticTypeOK, LockHeld
<1>3. ThreadsPooled'
  BY DEF DiagnosticTypeOK, LockHeld, ThreadsPooled
<1>4. ClaimsStand'
  BY DEF DiagnosticTypeOK, LockHeld, ThreadsPooled, ClaimsStand
<1>5. CellsExist'
  BY DEF DiagnosticTypeOK, CellsExist
<1>. QED  BY <1>1, <1>2, <1>3, <1>4, <1>5

LEMMA AcquireStep == ASSUME DiagnosticInv, NEW l \in Launches, Acquire(l) PROVE DiagnosticInv'
<1> USE DEF DiagnosticInv, Acquire
<1>1. DiagnosticTypeOK'
  BY DEF DiagnosticTypeOK
<1>2. LockHeld'
  BY DEF DiagnosticTypeOK, LockHeld
<1>3. ThreadsPooled'
  BY DEF DiagnosticTypeOK, LockHeld, ThreadsPooled
<1>4. ClaimsStand'
  BY DEF DiagnosticTypeOK, LockHeld, ThreadsPooled, ClaimsStand
<1>5. CellsExist'
  BY DEF CellsExist
<1>. QED  BY <1>1, <1>2, <1>3, <1>4, <1>5

LEMMA ReadStep == ASSUME DiagnosticInv, NEW l \in Launches, Read(l) PROVE DiagnosticInv'
<1> USE DEF DiagnosticInv, Read
<1>1. DiagnosticTypeOK'
  BY DEF DiagnosticTypeOK
<1>2. LockHeld'
  BY DEF DiagnosticTypeOK, LockHeld
<1>3. ThreadsPooled'
  BY DEF DiagnosticTypeOK, LockHeld, ThreadsPooled
<1>4. ClaimsStand'
  BY DEF DiagnosticTypeOK, LockHeld, ThreadsPooled, ClaimsStand
<1>5. CellsExist'
  BY DEF CellsExist
<1>. QED  BY <1>1, <1>2, <1>3, <1>4, <1>5

LEMMA VerifyEndedStep == ASSUME DiagnosticInv, NEW l \in Launches, VerifyEnded(l) PROVE DiagnosticInv'
<1> USE DEF DiagnosticInv, VerifyEnded, Rotten
<1>1. DiagnosticTypeOK'
  BY DEF DiagnosticTypeOK
<1>2. LockHeld'
  BY DEF DiagnosticTypeOK, LockHeld
<1>3. ThreadsPooled'
  BY DEF DiagnosticTypeOK, LockHeld, ThreadsPooled
<1>4. ClaimsStand'
  BY DEF DiagnosticTypeOK, LockHeld, ThreadsPooled, ClaimsStand
<1>5. CellsExist'
  BY DEF CellsExist
<1>. QED  BY <1>1, <1>2, <1>3, <1>4, <1>5

LEMMA FailStartStep == ASSUME DiagnosticInv, NEW l \in Launches, FailStart(l) PROVE DiagnosticInv'
<1> USE DEF DiagnosticInv, FailStart, Rotten
<1>1. DiagnosticTypeOK'
  BY DEF DiagnosticTypeOK
<1>2. LockHeld'
  BY DEF DiagnosticTypeOK, LockHeld
<1>3. ThreadsPooled'
  BY DEF DiagnosticTypeOK, LockHeld, ThreadsPooled
<1>4. ClaimsStand'
  BY DEF DiagnosticTypeOK, LockHeld, ThreadsPooled, ClaimsStand
<1>5. CellsExist'
  BY DEF CellsExist
<1>. QED  BY <1>1, <1>2, <1>3, <1>4, <1>5

LEMMA StartRunStep == ASSUME DiagnosticInv, NEW l \in Launches, StartRun(l) PROVE DiagnosticInv'
<1> USE DEF DiagnosticInv, StartRun, Rotten
<1>1. DiagnosticTypeOK'
  BY DEF DiagnosticTypeOK
<1>2. LockHeld'
  BY DEF DiagnosticTypeOK, LockHeld
<1>3. ThreadsPooled'
  BY DEF DiagnosticTypeOK, LockHeld, ThreadsPooled
<1>4. ClaimsStand'
  BY DEF DiagnosticTypeOK, LockHeld, ThreadsPooled, ClaimsStand
<1>5. CellsExist'
  BY DEF CellsExist
<1>. QED  BY <1>1, <1>2, <1>3, <1>4, <1>5

LEMMA EndReadStep == ASSUME DiagnosticInv, NEW l \in Launches, EndRead(l) PROVE DiagnosticInv'
<1> USE DEF DiagnosticInv, EndRead
<1>1. DiagnosticTypeOK'
  BY DEF DiagnosticTypeOK
<1>2. LockHeld'
  BY DEF DiagnosticTypeOK, LockHeld
<1>3. ThreadsPooled'
  BY DEF DiagnosticTypeOK, LockHeld, ThreadsPooled
<1>4. ClaimsStand'
  BY DEF DiagnosticTypeOK, LockHeld, ThreadsPooled, ClaimsStand
<1>5. CellsExist'
  BY DEF CellsExist
<1>. QED  BY <1>1, <1>2, <1>3, <1>4, <1>5

LEMMA EndWriteStep == ASSUME DiagnosticInv, NEW l \in Launches, EndWrite(l) PROVE DiagnosticInv'
<1> USE DEF DiagnosticInv, EndWrite, Verdict, PendingCells
<1>1. DiagnosticTypeOK'
  BY DEF DiagnosticTypeOK
<1>2. LockHeld'
  BY DEF DiagnosticTypeOK, LockHeld
<1>3. ThreadsPooled'
  BY DEF DiagnosticTypeOK, LockHeld, ThreadsPooled
<1>4. ClaimsStand'
  BY DEF DiagnosticTypeOK, LockHeld, ThreadsPooled, ClaimsStand
<1>5. CellsExist'
  BY DEF CellsExist
<1>. QED  BY <1>1, <1>2, <1>3, <1>4, <1>5

LEMMA TakeCellStep ==
  ASSUME DiagnosticInv, NEW l \in Launches, NEW c \in Cells, TakeCell(l, c)
  PROVE  DiagnosticInv'
<1> USE DEF DiagnosticInv, TakeCell
<1>1. DiagnosticTypeOK'
  BY DEF DiagnosticTypeOK
<1>2. LockHeld'
  BY DEF DiagnosticTypeOK, LockHeld
<1>3. ThreadsPooled'
  BY DEF DiagnosticTypeOK, LockHeld, ThreadsPooled
<1>4. ClaimsStand'
  BY DEF DiagnosticTypeOK, LockHeld, ThreadsPooled, ClaimsStand
<1>5. CellsExist'
  BY DEF CellsExist
<1>. QED  BY <1>1, <1>2, <1>3, <1>4, <1>5

LEMMA LookStep ==
  ASSUME DiagnosticInv, NEW l \in Launches, NEW c \in Cells, Look(l, c)
  PROVE  DiagnosticInv'
<1> USE DEF DiagnosticInv, Look
<1>1. DiagnosticTypeOK'
  BY DEF DiagnosticTypeOK
<1>2. LockHeld'
  BY DEF DiagnosticTypeOK, LockHeld
<1>3. ThreadsPooled'
  BY DEF DiagnosticTypeOK, LockHeld, ThreadsPooled
<1>4. ClaimsStand'
  BY DEF DiagnosticTypeOK, LockHeld, ThreadsPooled, ClaimsStand
<1>5. CellsExist'
  BY DEF CellsExist
<1>. QED  BY <1>1, <1>2, <1>3, <1>4, <1>5

LEMMA CellMoves ==
  ASSUME cell \in [Cells -> Ended \cup {"none", "queued", "running"}], NEW c \in Cells,
         cell' = cell \/ cell' = [cell EXCEPT ![c] = "running"]
  PROVE  cell' \in [Cells -> Ended \cup {"none", "queued", "running"}]
OBVIOUS

LEMMA ClaimCellStep ==
  ASSUME DiagnosticInv, NEW l \in Launches, NEW c \in Cells, ClaimCell(l, c)
  PROVE  DiagnosticInv'
<1> USE DEF DiagnosticInv, ClaimCell
<1>1. DiagnosticTypeOK'
  <2>1. cell' \in [Cells -> Ended \cup {"none", "queued", "running"}]
    <3>1. cell' = cell \/ cell' = [cell EXCEPT ![c] = "running"]
      BY Zenon
    <3>2. cell \in [Cells -> Ended \cup {"none", "queued", "running"}]
      BY DEF DiagnosticTypeOK
    <3>. QED  BY <3>1, <3>2, CellMoves, Zenon
  <2>2. thread' \in [Launches -> [Cells -> OnPool \cup {"none", "wait", "gone"}]]
    <3>1. PICK s \in {"recheck", "gone"} : thread' = [thread EXCEPT ![l][c] = s]
      BY Zenon
    <3>. QED  BY <3>1 DEF DiagnosticTypeOK
  <2>. QED  BY <2>1, <2>2 DEF DiagnosticTypeOK
<1>2. LockHeld'
  BY DEF DiagnosticTypeOK, LockHeld
<1>3. ThreadsPooled'
  BY SMTT(30) DEF DiagnosticTypeOK, LockHeld, ThreadsPooled
<1>4. ClaimsStand'
  BY SMTT(30) DEF DiagnosticTypeOK, LockHeld, ThreadsPooled, ClaimsStand
<1>5. CellsExist'
  BY DEF CellsExist
<1>. QED  BY <1>1, <1>2, <1>3, <1>4, <1>5

LEMMA RecheckStep ==
  ASSUME DiagnosticInv, NEW l \in Launches, NEW c \in Cells, Recheck(l, c)
  PROVE  DiagnosticInv'
<1> USE DEF DiagnosticInv, Recheck
<1>1. DiagnosticTypeOK'
  BY DEF DiagnosticTypeOK
<1>2. LockHeld'
  BY DEF DiagnosticTypeOK, LockHeld
<1>3. ThreadsPooled'
  BY DEF DiagnosticTypeOK, LockHeld, ThreadsPooled
<1>4. ClaimsStand'
  BY DEF DiagnosticTypeOK, LockHeld, ThreadsPooled, ClaimsStand
<1>5. CellsExist'
  BY DEF CellsExist
<1>. QED  BY <1>1, <1>2, <1>3, <1>4, <1>5

LEMMA ExecuteStep ==
  ASSUME DiagnosticInv, NEW l \in Launches, NEW c \in Cells, Execute(l, c)
  PROVE  DiagnosticInv'
<1> USE DEF DiagnosticInv, Execute, Outcomes
<1>1. DiagnosticTypeOK'
  BY DEF DiagnosticTypeOK
<1>2. LockHeld'
  BY DEF DiagnosticTypeOK, LockHeld
<1>3. ThreadsPooled'
  BY DEF DiagnosticTypeOK, LockHeld, ThreadsPooled
<1>4. ClaimsStand'
  BY DEF DiagnosticTypeOK, LockHeld, ThreadsPooled, ClaimsStand
<1>5. CellsExist'
  BY DEF CellsExist
<1>. QED  BY <1>1, <1>2, <1>3, <1>4, <1>5

LEMMA FinishStep ==
  ASSUME DiagnosticInv, NEW l \in Launches, NEW c \in Cells, FinishCell(l, c)
  PROVE  DiagnosticInv'
<1> USE DEF DiagnosticInv, FinishCell
<1>1. DiagnosticTypeOK'
  BY DEF DiagnosticTypeOK
<1>2. LockHeld'
  BY DEF DiagnosticTypeOK, LockHeld
<1>3. ThreadsPooled'
  BY DEF DiagnosticTypeOK, LockHeld, ThreadsPooled
<1>4. ClaimsStand'
  BY DEF DiagnosticTypeOK, LockHeld, ThreadsPooled, ClaimsStand
<1>5. CellsExist'
  BY DEF ClaimsStand, CellsExist
<1>. QED  BY <1>1, <1>2, <1>3, <1>4, <1>5

LEMMA SetEventStep == ASSUME DiagnosticInv, NEW k \in Cancels, SetEvent(k) PROVE DiagnosticInv'
<1> USE DEF DiagnosticInv, SetEvent
<1>1. DiagnosticTypeOK'
  BY DEF DiagnosticTypeOK
<1>2. LockHeld'
  BY DEF DiagnosticTypeOK, LockHeld
<1>3. ThreadsPooled'
  BY DEF DiagnosticTypeOK, LockHeld, ThreadsPooled
<1>4. ClaimsStand'
  BY DEF DiagnosticTypeOK, LockHeld, ThreadsPooled, ClaimsStand
<1>5. CellsExist'
  BY DEF CellsExist
<1>. QED  BY <1>1, <1>2, <1>3, <1>4, <1>5

LEMMA CancelReadStep == ASSUME DiagnosticInv, NEW k \in Cancels, CancelRead(k) PROVE DiagnosticInv'
<1> USE DEF DiagnosticInv, CancelRead
<1>1. DiagnosticTypeOK'
  BY DEF DiagnosticTypeOK
<1>2. LockHeld'
  BY DEF DiagnosticTypeOK, LockHeld
<1>3. ThreadsPooled'
  BY DEF DiagnosticTypeOK, LockHeld, ThreadsPooled
<1>4. ClaimsStand'
  BY DEF DiagnosticTypeOK, LockHeld, ThreadsPooled, ClaimsStand
<1>5. CellsExist'
  BY DEF CellsExist
<1>. QED  BY <1>1, <1>2, <1>3, <1>4, <1>5

LEMMA CancelWriteStep == ASSUME DiagnosticInv, NEW k \in Cancels, CancelWrite(k) PROVE DiagnosticInv'
<1> USE DEF DiagnosticInv, CancelWrite
<1>1. DiagnosticTypeOK'
  BY DEF DiagnosticTypeOK
<1>2. LockHeld'
  BY DEF DiagnosticTypeOK, LockHeld
<1>3. ThreadsPooled'
  BY DEF DiagnosticTypeOK, LockHeld, ThreadsPooled
<1>4. ClaimsStand'
  BY DEF DiagnosticTypeOK, LockHeld, ThreadsPooled, ClaimsStand
<1>5. CellsExist'
  BY DEF CellsExist
<1>. QED  BY <1>1, <1>2, <1>3, <1>4, <1>5

LEMMA RotStep == ASSUME DiagnosticInv, NEW c \in Cells, Rot(c) PROVE DiagnosticInv'
<1> USE DEF DiagnosticInv, Rot
<1>1. DiagnosticTypeOK'
  BY DEF DiagnosticTypeOK
<1>2. LockHeld'
  BY DEF DiagnosticTypeOK, LockHeld
<1>3. ThreadsPooled'
  BY DEF DiagnosticTypeOK, LockHeld, ThreadsPooled
<1>4. ClaimsStand'
  BY DEF DiagnosticTypeOK, LockHeld, ThreadsPooled, ClaimsStand
<1>5. CellsExist'
  BY DEF CellsExist
<1>. QED  BY <1>1, <1>2, <1>3, <1>4, <1>5

LEMMA CrashStep == ASSUME DiagnosticInv, NEW m \in Managers, CrashManager(m) PROVE DiagnosticInv'
<1> USE DEF DiagnosticInv, CrashManager
<1>1. DiagnosticTypeOK'
  BY DEF DiagnosticTypeOK
<1>2. LockHeld'
  BY DEF DiagnosticTypeOK, LockHeld
<1>3. ThreadsPooled'
  BY DEF DiagnosticTypeOK, LockHeld, ThreadsPooled
<1>4. ClaimsStand'
  BY DEF DiagnosticTypeOK, LockHeld, ThreadsPooled, ClaimsStand
<1>5. CellsExist'
  BY DEF CellsExist
<1>. QED  BY <1>1, <1>2, <1>3, <1>4, <1>5

LEMMA RestartStep == ASSUME DiagnosticInv, NEW m \in Managers, Restart(m) PROVE DiagnosticInv'
<1> USE DEF DiagnosticInv, Restart
<1>1. DiagnosticTypeOK'
  BY DEF DiagnosticTypeOK
<1>2. LockHeld'
  BY DEF DiagnosticTypeOK, LockHeld
<1>3. ThreadsPooled'
  BY DEF DiagnosticTypeOK, LockHeld, ThreadsPooled
<1>4. ClaimsStand'
  BY DEF DiagnosticTypeOK, LockHeld, ThreadsPooled, ClaimsStand
<1>5. CellsExist'
  BY DEF CellsExist
<1>. QED  BY <1>1, <1>2, <1>3, <1>4, <1>5

LEMMA ReaderLocksStep == ASSUME DiagnosticInv, ReaderLocks PROVE DiagnosticInv'
<1> USE DEF DiagnosticInv, ReaderLocks
<1>1. DiagnosticTypeOK'
  BY DEF DiagnosticTypeOK
<1>2. LockHeld'
  BY DEF DiagnosticTypeOK, LockHeld
<1>3. ThreadsPooled'
  BY DEF DiagnosticTypeOK, LockHeld, ThreadsPooled
<1>4. ClaimsStand'
  BY DEF DiagnosticTypeOK, LockHeld, ThreadsPooled, ClaimsStand
<1>5. CellsExist'
  BY DEF CellsExist
<1>. QED  BY <1>1, <1>2, <1>3, <1>4, <1>5

LEMMA ReaderUnlocksStep == ASSUME DiagnosticInv, ReaderUnlocks PROVE DiagnosticInv'
<1> USE DEF DiagnosticInv, ReaderUnlocks
<1>1. DiagnosticTypeOK'
  BY DEF DiagnosticTypeOK
<1>2. LockHeld'
  BY DEF DiagnosticTypeOK, LockHeld
<1>3. ThreadsPooled'
  BY DEF DiagnosticTypeOK, LockHeld, ThreadsPooled
<1>4. ClaimsStand'
  BY DEF DiagnosticTypeOK, LockHeld, ThreadsPooled, ClaimsStand
<1>5. CellsExist'
  BY DEF CellsExist
<1>. QED  BY <1>1, <1>2, <1>3, <1>4, <1>5

LEMMA NextDiagnosticInv == DiagnosticInv /\ [DiagnosticNext]_diagnosticVars => DiagnosticInv'
<1> SUFFICES ASSUME DiagnosticInv, [DiagnosticNext]_diagnosticVars PROVE DiagnosticInv'
  OBVIOUS
<1>1. CASE UNCHANGED diagnosticVars
  BY <1>1 DEF diagnosticVars, DiagnosticInv, DiagnosticTypeOK, LockHeld, ThreadsPooled, ClaimsStand, CellsExist
<1>2. ASSUME NEW l \in Launches, Lookup(l) \/ Insert(l) \/ RunStep(l) PROVE DiagnosticInv'
  BY <1>2, LookupStep, InsertStep, AcquireStep, ReadStep, VerifyEndedStep, FailStartStep,
     StartRunStep, EndReadStep, EndWriteStep
  DEF RunStep
<1>3. ASSUME NEW l \in Launches, NEW c \in Cells, CellStep(l, c) PROVE DiagnosticInv'
  BY <1>3, TakeCellStep, LookStep, ClaimCellStep, RecheckStep, ExecuteStep, FinishStep
  DEF CellStep
<1>4. ASSUME NEW k \in Cancels, SetEvent(k) \/ CancelRead(k) \/ CancelWrite(k) PROVE DiagnosticInv'
  BY <1>4, SetEventStep, CancelReadStep, CancelWriteStep
<1>5. ASSUME NEW c \in Cells, Rot(c) PROVE DiagnosticInv'
  BY <1>5, RotStep
<1>6. ASSUME NEW m \in Managers, CrashManager(m) \/ Restart(m) PROVE DiagnosticInv'
  BY <1>6, CrashStep, RestartStep
<1>7. CASE ReaderLocks \/ ReaderUnlocks
  BY <1>7, ReaderLocksStep, ReaderUnlocksStep
<1>. QED  BY <1>1, <1>2, <1>3, <1>4, <1>5, <1>6, <1>7 DEF DiagnosticNext

LEMMA DiagnosticInductive == DiagnosticSpec => []DiagnosticInv
BY InitDiagnosticInv, NextDiagnosticInv, PTL DEF DiagnosticSpec

(* The owner runs each cell once and its claim stands: a run that finds    *)
(* the locks taken goes away, and nobody else changes a cell that runs.    *)
THEOREM CellsAreOwnedCorrect == DiagnosticSpec => []CellsAreOwned
<1>1. DiagnosticInv => OneExecutionPerCell
  <2> SUFFICES ASSUME DiagnosticInv, NEW c \in Cells PROVE Cardinality(Executing(c)) <= 1
    BY DEF OneExecutionPerCell
  <2>1. \A l, m \in Executing(c) : l = m
    BY OneRun DEF DiagnosticInv, ThreadsPooled, Executing
  <2>2. CASE Executing(c) = {}
    BY <2>2, FS_EmptySet
  <2>3. CASE Executing(c) # {}
    <3>1. PICK l \in Executing(c) : Executing(c) = {l}
      BY <2>1, <2>3
    <3>2. Cardinality({l}) = 1
      BY FS_Singleton
    <3>. QED  BY <3>1, <3>2
  <2>. QED  BY <2>2, <2>3
<1>2. DiagnosticInv => WorkIsOwned
  BY DEF DiagnosticInv, LockHeld, ThreadsPooled, WorkIsOwned
<1>3. DiagnosticInv => AdmittedCellIsKept
  BY DEF DiagnosticInv, ClaimsStand, AdmittedCellIsKept
<1>4. DiagnosticInv => CellsAreOwned
  BY <1>1, <1>2, <1>3 DEF DiagnosticInv, CellsAreOwned
<1>. QED  BY <1>4, DiagnosticInductive, PTL

(* A cell that has ended is left as it is, but for evidence that does not  *)
(* verify any more.                                                        *)
THEOREM EndedCellStandsCorrect == DiagnosticSpec => EndedCellStands
<1> DEFINE A == \A c \in Cells : cell[c] \in Ended =>
                  cell'[c] = cell[c] \/ (c \in rotten /\ cell'[c] = "failed")
<1>1. DiagnosticInv /\ [DiagnosticNext]_diagnosticVars => A
  <2> SUFFICES ASSUME DiagnosticInv, [DiagnosticNext]_diagnosticVars PROVE A
    OBVIOUS
  <2>1. CASE UNCHANGED cell
    BY <2>1
  <2>2. ASSUME NEW l \in Launches, Insert(l) PROVE A
    BY <2>2 DEF Insert, DiagnosticInv, DiagnosticTypeOK, CellsExist
  <2>3. ASSUME NEW l \in Launches, FailStart(l) PROVE A
    BY <2>3 DEF FailStart, DiagnosticInv, DiagnosticTypeOK, Rotten
  <2>4. ASSUME NEW l \in Launches, StartRun(l) PROVE A
    BY <2>4 DEF StartRun, DiagnosticInv, DiagnosticTypeOK
  <2>5. ASSUME NEW l \in Launches, NEW c \in Cells, ClaimCell(l, c) \/ FinishCell(l, c) PROVE A
    BY <2>5 DEF ClaimCell, FinishCell, DiagnosticInv, DiagnosticTypeOK, ClaimsStand
  <2>6. ASSUME NEW k \in Cancels, CancelWrite(k) PROVE A
    BY <2>6 DEF CancelWrite, DiagnosticInv, DiagnosticTypeOK
  <2>. QED  BY <2>1, <2>2, <2>3, <2>4, <2>5, <2>6
       DEF DiagnosticNext, diagnosticVars, Lookup, RunStep, Acquire, Read, VerifyEnded, EndRead, EndWrite, CellStep,
           TakeCell, Look, Recheck, Execute, SetEvent, CancelRead, Rot, CrashManager, Restart,
           ReaderLocks, ReaderUnlocks
<1>. QED  BY <1>1, DiagnosticInductive, PTL DEF DiagnosticSpec, EndedCellStands

(* After a recorded cancel no thread of any process enters the executor.   *)
THEOREM CancelStopsDispatchCorrect == DiagnosticSpec => CancelStopsDispatch
<1> DEFINE A == diag.cancel => \A c \in Cells : Executing(c)' \subseteq Executing(c)
<1>1. DiagnosticInv /\ [DiagnosticNext]_diagnosticVars => A
  <2> SUFFICES ASSUME DiagnosticInv, [DiagnosticNext]_diagnosticVars, diag.cancel, NEW c \in Cells, NEW m \in Launches,
                      thread'[m][c] = "execute"
               PROVE  thread[m][c] = "execute"
    BY DEF Executing
  <2> USE DEF DiagnosticInv, DiagnosticTypeOK
  <2>1. CASE UNCHANGED thread
    BY <2>1
  <2>2. ASSUME NEW l \in Launches, StartRun(l) PROVE thread[m][c] = "execute"
    BY <2>2 DEF StartRun
  <2>3. ASSUME NEW l \in Launches, NEW d \in Cells, CellStep(l, d) PROVE thread[m][c] = "execute"
    BY <2>3 DEF CellStep, TakeCell, Look, ClaimCell, Recheck, Execute, FinishCell, CancelSeen
  <2>4. ASSUME NEW n \in Managers, CrashManager(n) PROVE thread[m][c] = "execute"
    BY <2>4 DEF CrashManager
  <2>. QED  BY <2>1, <2>2, <2>3, <2>4
       DEF DiagnosticNext, diagnosticVars, Lookup, Insert, RunStep, Acquire, Read, VerifyEnded, FailStart, EndRead,
           EndWrite, SetEvent, CancelRead, CancelWrite, Rot, Restart, ReaderLocks, ReaderUnlocks
<1>. QED  BY <1>1, DiagnosticInductive, PTL DEF DiagnosticSpec, CancelStopsDispatch

(* Ended cells and recorded cancels both stand.                            *)
THEOREM EndsAndCancelsStandCorrect == DiagnosticSpec => EndsAndCancelsStand
BY EndedCellStandsCorrect, CancelStopsDispatchCorrect DEF EndsAndCancelsStand
=============================================================================
