---------------------------- MODULE LifecycleJob ----------------------------
(***************************************************************************)
(* One experiment job (EvaluationJob.run_experiment, evaluation_job.py):   *)
(* the table of launch attempts, the table of nested subcalls and the      *)
(* budget row they share, driven by runners.  A runner is one invocation   *)
(* of run_experiment; a crashed or failed one is followed by another that  *)
(* resumes from the tables.  Nothing in the code keeps two processes from  *)
(* running one job at a time: the variable `alone` says whether the        *)
(* operator does.                                                          *)
(*                                                                         *)
(* The stages are panels of cells in a fixed order.  The cells of a        *)
(* concurrent panel run on a thread pool, the others one after another.    *)
(* Each step of a cell below is one store transaction, or the callback     *)
(* between two.  The six budget dimensions are one, `spent`; receipts are  *)
(* their usage; a report is its verdict, chosen in Init because it is a    *)
(* function of the stored receipts.                                        *)
(***************************************************************************)
EXTENDS Naturals, FiniteSets, Sequences, Functions, FiniteSetsExt

CONSTANTS
  Runners,      \* invocations of run_experiment
  Cells,        \* cells of all the panels
  Panels,       \* the stages: a sequence of sequences of cells
  Concurrent,   \* indices of the panels run on the thread pool
  Gated,        \* index of the validation panel, followed by the gate
  Retries,      \* declared retries of the cells of each panel
  Children,     \* the nested calls of a cell, in order: "learning", "evaluation"
  Itemised,     \* cells whose receipt names the subcalls it already charged
  Width,        \* threads of the pool: the protocol's concurrency_limit
  MaxAttempts,  \* the job's limit on launches and subcalls
  MaxUsage,     \* the job's limit on usage
  Estimate,     \* what a subcall reserves at its admission
  Usages,       \* what one execution can use
  SoloModes     \* whether an operator keeps to one runner at a time

ASSUME JobAssumption ==
  /\ IsFiniteSet(Cells) /\ IsFiniteSet(Runners)
  /\ Panels \in Seq(Seq(Cells))
  /\ \A c \in Cells : \E s \in DOMAIN Panels : c \in Range(Panels[s])
  /\ \A s, t \in DOMAIN Panels :
       s # t => Range(Panels[s]) \cap Range(Panels[t]) = {}
  /\ Concurrent \subseteq DOMAIN Panels
  /\ Gated \in Nat /\ 1 <= Gated /\ Gated < Len(Panels)
  /\ Retries \in [DOMAIN Panels -> Nat]
  /\ Children \in [Cells -> Seq({"learning", "evaluation"})]
  /\ Itemised \subseteq Cells
  /\ Width \in Nat \ {0}
  /\ MaxAttempts \in Nat /\ MaxUsage \in Nat /\ Estimate \in Nat
  /\ Usages \subseteq Nat
  /\ SoloModes \subseteq BOOLEAN

VARIABLES
  attempt,  \* evaluation_lifecycle_attempts: cell -> attempt number -> row
  sub,      \* evaluation_lifecycle_subcalls: cell -> child number -> row
  budget,   \* evaluation_lifecycle_budget: attempts, spent, blocked
  job,      \* evaluation_jobs.status
  cand,     \* the candidate of the learning stage
  eligible, \* whether the validation report passes the promotion gate
  alone,    \* one runner at a time
  phase,    \* runner -> where run_experiment stands
  stage,    \* runner -> index of its current panel
  pc,       \* runner -> cell -> where run_cell stands
  try,      \* runner -> cell -> the attempt it is at
  child,    \* runner -> cell -> children its callback has behind it
  used      \* runner -> cell -> usage its callback has seen, nested calls included

\* History: how often a nested call was dispatched.
VARIABLE dispatches

tables == <<attempt, sub, budget>>
world  == <<job, cand, eligible, alone>>
runner == <<phase, stage>>
cellVars == <<pc, try, child, used>>
vars == <<attempt, sub, budget, job, cand, eligible, alone, phase, stage,
          pc, try, child, used, dispatches>>

PanelOf(c) == CHOOSE s \in DOMAIN Panels : c \in Range(Panels[s])
Attempts(c) == 1 .. Retries[PanelOf(c)] + 1
ChildrenOf(c) == DOMAIN Children[c]

NoRow == [status |-> "none", use |-> 0, known |-> TRUE]

Launched == {x \in UNION {{c} \X Attempts(c) : c \in Cells} :
               attempt[x[1]][x[2]].status # "none"}
Admitted == {x \in UNION {{c} \X ChildrenOf(c) : c \in Cells} :
               sub[x[1]][x[2]].status # "none"}
Reserved == {x \in Admitted : sub[x[1]][x[2]].status = "reserved"}

Active(r) == phase[r] \in {"stage", "gate"}

\* The steps of run_cell at which a thread is inside it.
InCell == {"look", "reserve", "recheck", "callback", "call", "close", "write",
           "fail", "failwrite"}

Init ==
  /\ attempt = [c \in Cells |-> [n \in Attempts(c) |-> NoRow]]
  /\ sub = [c \in Cells |-> [i \in ChildrenOf(c) |-> NoRow]]
  /\ budget = [attempts |-> 0, spent |-> 0, blocked |-> FALSE]
  /\ job = "none"
  /\ cand = "open"
  /\ eligible \in BOOLEAN
  /\ alone \in SoloModes
  /\ phase = [r \in Runners |-> "idle"]
  /\ stage = [r \in Runners |-> 1]
  /\ pc = [r \in Runners |-> [c \in Cells |-> "wait"]]
  /\ try = [r \in Runners |-> [c \in Cells |-> 1]]
  /\ child = [r \in Runners |-> [c \in Cells |-> 0]]
  /\ used = [r \in Runners |-> [c \in Cells |-> 0]]
  /\ dispatches = [c \in Cells |-> [i \in ChildrenOf(c) |-> 0]]

-----------------------------------------------------------------------------
(***************************************************************************)
(* The runner.                                                             *)
(***************************************************************************)

(* run_experiment up to its first stage: the budget and the binding are    *)
(* inserted or found equal, and the job is saved as running whatever it    *)
(* was.                                                                    *)
Start(r) ==
  /\ phase[r] = "idle"
  /\ alone => \A q \in Runners : ~Active(q)
  /\ phase' = [phase EXCEPT ![r] = "stage"]
  /\ job' = "running"
  /\ UNCHANGED <<tables, cand, eligible, alone, stage, cellVars, dispatches>>

InPanel(r, c) == phase[r] = "stage" /\ c \in Range(Panels[stage[r]])

OnPool(s) == s \in Concurrent /\ Len(Panels[s]) > 1 /\ Width > 1

Goto(r, c, l) == pc' = [pc EXCEPT ![r][c] = l]

(* A thread takes up a cell: the next in order, or on the pool any that    *)
(* still waits while a thread is free.                                     *)
StartCell(r, c) ==
  LET s == stage[r] IN
  /\ InPanel(r, c)
  /\ pc[r][c] = "wait"
  /\ \/ /\ OnPool(s)
        /\ Cardinality({d \in Cells : pc[r][d] \in InCell}) < Width
     \/ /\ ~OnPool(s)
        /\ \A i \in DOMAIN Panels[s] : Panels[s][i] = c =>
             \A j \in 1 .. i - 1 : pc[r][Panels[s][j]] = "done"
  /\ Goto(r, c, "look")
  /\ UNCHANGED <<tables, world, runner, try, child, used, dispatches>>

(* Mutant: the results of the pool are not collected.                      *)
FinishStage_NoResults(r) ==
  /\ phase[r] = "stage"
  /\ \A c \in Range(Panels[stage[r]]) : pc[r][c] \in {"done", "raised"}
  /\ IF stage[r] = Gated
       THEN phase' = [phase EXCEPT ![r] = "gate"] /\ UNCHANGED <<stage, job>>
       ELSE IF stage[r] < Len(Panels)
       THEN stage' = [stage EXCEPT ![r] = @ + 1] /\ UNCHANGED <<phase, job>>
       ELSE /\ phase' = [phase EXCEPT ![r] = "ended"]
            /\ job' = "complete"
            /\ UNCHANGED stage
  /\ UNCHANGED <<tables, cand, eligible, alone, cellVars, dispatches>>

(* All the cells of the panel gave a result: on to the gate, to the next   *)
(* panel, or, with valid reports, to the end of the job.                   *)
FinishStage(r) ==
  /\ phase[r] = "stage"
  /\ \A c \in Range(Panels[stage[r]]) : pc[r][c] = "done"
  /\ \/ /\ stage[r] = Gated
        /\ phase' = [phase EXCEPT ![r] = "gate"]
        /\ UNCHANGED <<stage, job>>
     \/ /\ stage[r] # Gated
        /\ stage[r] < Len(Panels)
        /\ stage' = [stage EXCEPT ![r] = @ + 1]
        /\ UNCHANGED <<phase, job>>
     \/ /\ stage[r] = Len(Panels)
        /\ phase' = [phase EXCEPT ![r] = "ended"]
        /\ job' = "complete"
        /\ UNCHANGED stage
  /\ UNCHANGED <<tables, cand, eligible, alone, cellVars, dispatches>>

Fail(r) ==
  /\ phase' = [phase EXCEPT ![r] = "ended"]
  /\ job' = "failed"

(* A cell raised.  The cells before it in a pool's order have given their  *)
(* results, those on a thread are waited for, the others are cancelled.    *)
AbandonStage(r) ==
  LET cells == Panels[stage[r]] IN
  /\ phase[r] = "stage"
  /\ \E i \in DOMAIN cells :
       /\ pc[r][cells[i]] = "raised"
       /\ \A j \in 1 .. i - 1 : pc[r][cells[j]] = "done"
  /\ \A c \in Range(cells) : pc[r][c] \notin InCell
  /\ Fail(r)
  /\ UNCHANGED <<tables, cand, eligible, alone, stage, cellVars, dispatches>>

(* A report cannot be built or is not valid, or the ablation cannot be     *)
(* pinned before the final panel.                                          *)
FailReport(r) ==
  /\ \/ phase[r] = "gate"
     \/ /\ phase[r] = "stage"
        /\ stage[r] = Len(Panels)
        /\ \E l \in {"wait", "done"} : \A c \in Range(Panels[stage[r]]) : pc[r][c] = l
  /\ Fail(r)
  /\ UNCHANGED <<tables, cand, eligible, alone, stage, cellVars, dispatches>>

(* The validation gate.  A report that does not pass quarantines the       *)
(* candidate; one that does promotes it, or finds it promoted and active   *)
(* already; a candidate promoted and taken back since fails the job.       *)
Gate(r) ==
  /\ phase[r] = "gate"
  /\ \/ /\ ~eligible
        /\ cand' = "quarantined"
        /\ Fail(r)
        /\ UNCHANGED stage
     \/ /\ eligible
        /\ cand = "rolled_back"
        /\ Fail(r)
        /\ UNCHANGED <<cand, stage>>
     \/ /\ eligible
        /\ cand # "rolled_back"
        /\ cand' = "promoted"
        /\ phase' = [phase EXCEPT ![r] = "stage"]
        /\ stage' = [stage EXCEPT ![r] = @ + 1]
        /\ UNCHANGED job
  /\ UNCHANGED <<tables, eligible, alone, cellVars, dispatches>>

(* The operator rolls the active bundle back.                              *)
RollBack ==
  /\ cand = "promoted"
  /\ cand' = "rolled_back"
  /\ UNCHANGED <<tables, job, eligible, alone, runner, cellVars, dispatches>>

(* The process dies: its threads are gone, the tables stay.                *)
Crash(r) ==
  /\ Active(r)
  /\ phase' = [phase EXCEPT ![r] = "dead"]
  /\ pc' = [pc EXCEPT ![r] = [c \in Cells |-> "wait"]]
  /\ try' = [try EXCEPT ![r] = [c \in Cells |-> 1]]
  /\ child' = [child EXCEPT ![r] = [c \in Cells |-> 0]]
  /\ used' = [used EXCEPT ![r] = [c \in Cells |-> 0]]
  /\ UNCHANGED <<tables, world, stage, dispatches>>

-----------------------------------------------------------------------------
(***************************************************************************)
(* run_cell: one attempt after the other until one is complete.            *)
(***************************************************************************)

Row(r, c) == attempt[c][try[r][c]]

(* The exception of an attempt leaves run_cell only when no attempt is left.*)
AfterFailure(r, c) ==
  IF try[r][c] + 1 \in Attempts(c)
    THEN /\ Goto(r, c, "look")
         /\ try' = [try EXCEPT ![r][c] = @ + 1]
    ELSE /\ Goto(r, c, "raised")
         /\ UNCHANGED try

(* Mutant: a launch found running is waited for.                           *)
Look_Waits(r, c) ==
  /\ pc[r][c] = "look"
  /\ Row(r, c).status # "running"
  /\ IF Row(r, c).status = "failed" THEN AfterFailure(r, c)
     ELSE /\ Goto(r, c, IF Row(r, c).status = "none" THEN "reserve" ELSE "done")
          /\ UNCHANGED try
  /\ UNCHANGED <<tables, world, runner, child, used, dispatches>>

(* The row of this attempt from an earlier runner: its receipt is reused,  *)
(* a failure moves on, and a row still running is taken for a failure.     *)
Look(r, c) ==
  /\ pc[r][c] = "look"
  /\ \/ /\ Row(r, c).status = "complete"
        /\ Goto(r, c, "done")
        /\ UNCHANGED try
     \/ /\ Row(r, c).status = "running"
        /\ Goto(r, c, "fail")
        /\ UNCHANGED try
     \/ /\ Row(r, c).status = "failed"
        /\ AfterFailure(r, c)
     \/ /\ Row(r, c).status = "none"
        /\ Goto(r, c, "reserve")
        /\ UNCHANGED try
  /\ UNCHANGED <<tables, world, runner, child, used, dispatches>>

LaunchExhausted ==
  \/ budget.blocked
  \/ budget.attempts + Cardinality(Admitted) >= MaxAttempts
  \/ budget.spent >= MaxUsage

(* The claim of a launch, one immediate transaction.                       *)
Reserve(r, c) ==
  /\ pc[r][c] = "reserve"
  /\ \/ /\ \/ \E n \in Attempts(c) : attempt[c][n].status = "complete"
           \/ Row(r, c).status # "none"
        /\ Goto(r, c, "recheck")
        /\ UNCHANGED <<attempt, budget, child, used>>
     \/ /\ \A n \in Attempts(c) : attempt[c][n].status # "complete"
        /\ Row(r, c).status = "none"
        /\ LaunchExhausted
        /\ budget' = [budget EXCEPT !.blocked = TRUE]
        /\ Goto(r, c, "fail")
        /\ UNCHANGED <<attempt, child, used>>
     \/ /\ \A n \in Attempts(c) : attempt[c][n].status # "complete"
        /\ Row(r, c).status = "none"
        /\ ~LaunchExhausted
        /\ attempt' = [attempt EXCEPT ![c][try[r][c]].status = "running"]
        /\ budget' = [budget EXCEPT !.attempts = @ + 1]
        /\ child' = [child EXCEPT ![r][c] = 0]
        /\ used' = [used EXCEPT ![r][c] = 0]
        /\ Goto(r, c, "callback")
  /\ UNCHANGED <<sub, world, runner, try, dispatches>>

(* The launch was not claimed: only a complete row of this very attempt    *)
(* will do.                                                                *)
Recheck(r, c) ==
  /\ pc[r][c] = "recheck"
  /\ Goto(r, c, IF Row(r, c).status = "complete" THEN "done" ELSE "fail")
  /\ UNCHANGED <<tables, world, runner, try, child, used, dispatches>>

-----------------------------------------------------------------------------
(***************************************************************************)
(* The callback of a cell: its nested calls in order, then its receipt.    *)
(***************************************************************************)

NextChild(r, c) == child[r][c] + 1

(* The callback has the receipt of its next child, which used u.           *)
TakeReceipt(r, c, u) ==
  /\ child' = [child EXCEPT ![r][c] = @ + 1]
  /\ used' = [used EXCEPT ![r][c] = @ + u]

(* Mutant: what blocked the job is not looked at.                          *)
SubcallExhausted_Unblocked ==
  \/ budget.attempts + Cardinality(Admitted) >= MaxAttempts
  \/ budget.spent + (Cardinality(Reserved) + 1) * Estimate > MaxUsage

SubcallExhausted ==
  \/ budget.blocked
  \/ budget.attempts + Cardinality(Admitted) >= MaxAttempts
  \/ budget.spent + (Cardinality(Reserved) + 1) * Estimate > MaxUsage

(* Mutant: a reservation whose runner is gone is dispatched again.         *)
ReuseSubcall_Redispatch(r, c) ==
  LET i == NextChild(r, c) IN
  /\ sub[c][i].status # "none"
  /\ IF sub[c][i].status = "reserved"
       THEN /\ Goto(r, c, "call")
            /\ dispatches' = [dispatches EXCEPT ![c][i] = @ + 1]
            /\ UNCHANGED <<child, used>>
       ELSE IF sub[c][i].status = "complete" /\ Children[c][i] = "learning"
       THEN /\ TakeReceipt(r, c, sub[c][i].use)
            /\ UNCHANGED <<pc, dispatches>>
       ELSE Goto(r, c, "fail") /\ UNCHANGED <<child, used, dispatches>>
  /\ UNCHANGED <<sub, budget>>

(* The admission exists: the receipt of a learning call is taken from it,  *)
(* anything else is not recoverable and raises.                            *)
ReuseSubcall(r, c) ==
  LET i == NextChild(r, c) IN
  /\ sub[c][i].status # "none"
  /\ IF sub[c][i].status = "complete" /\ Children[c][i] = "learning"
       THEN TakeReceipt(r, c, sub[c][i].use) /\ UNCHANGED pc
       ELSE Goto(r, c, "fail") /\ UNCHANGED <<child, used>>
  /\ UNCHANGED <<sub, budget, dispatches>>

(* admit_lifecycle_subcall, one immediate transaction, and the dispatch.   *)
AdmitSubcall(r, c) ==
  LET i == NextChild(r, c) IN
  /\ pc[r][c] = "callback"
  /\ i \in ChildrenOf(c)
  /\ \/ ReuseSubcall(r, c)
     \/ /\ sub[c][i].status = "none"
        /\ SubcallExhausted
        /\ budget' = [budget EXCEPT !.blocked = TRUE]
        /\ Goto(r, c, "fail")
        /\ UNCHANGED <<sub, child, used, dispatches>>
     \/ /\ sub[c][i].status = "none"
        /\ ~SubcallExhausted
        /\ sub' = [sub EXCEPT ![c][i].status = "reserved"]
        /\ dispatches' = [dispatches EXCEPT ![c][i] = @ + 1]
        /\ Goto(r, c, "call")
        /\ UNCHANGED <<budget, child, used>>
  /\ UNCHANGED <<attempt, world, runner, try>>

(* The nested call returned: its usage is charged with its receipt, in one *)
(* transaction, and a receipt of unknown cost blocks the job.  When it     *)
(* raised the receipt is lost, which blocks the job too.                   *)
RecordSubcall(r, c) ==
  LET i == NextChild(r, c) IN
  /\ pc[r][c] = "call"
  /\ \/ \E u \in Usages, known \in BOOLEAN :
          /\ sub' = [sub EXCEPT ![c][i] =
                       [status |-> "complete", use |-> u, known |-> known]]
          /\ budget' = [budget EXCEPT !.spent = @ + u, !.blocked = @ \/ ~known]
          /\ TakeReceipt(r, c, u)
          /\ Goto(r, c, "callback")
     \/ /\ sub' = [sub EXCEPT ![c][i].status = "failed"]
        /\ budget' = [budget EXCEPT !.blocked = TRUE]
        /\ Goto(r, c, "fail")
        /\ UNCHANGED <<child, used>>
  /\ UNCHANGED <<attempt, world, runner, try, dispatches>>

(* The callback raises, at any point outside a nested call.                *)
CallbackRaises(r, c) ==
  /\ pc[r][c] = "callback"
  /\ Goto(r, c, "fail")
  /\ UNCHANGED <<tables, world, runner, try, child, used, dispatches>>

(* It returns a receipt.  A cell with nested calls used nothing besides.   *)
CallbackReturns(r, c) ==
  /\ pc[r][c] = "callback"
  /\ NextChild(r, c) \notin ChildrenOf(c)
  /\ IF ChildrenOf(c) = {}
       THEN \E u \in Usages : used' = [used EXCEPT ![r][c] = u]
       ELSE UNCHANGED used
  /\ Goto(r, c, "close")
  /\ UNCHANGED <<tables, world, runner, try, child, dispatches>>

-----------------------------------------------------------------------------
(***************************************************************************)
(* _finish_lifecycle_launch: a read, then an unconditional update.         *)
(***************************************************************************)

(* What the cell used besides its nested calls.                            *)
OwnUse(r, c) == IF ChildrenOf(c) = {} THEN used[r][c] ELSE 0

(* The receipt's usage counts the nested calls'; those it names are taken  *)
(* off again, as they were charged when they were recorded.                *)
Charge(r, c) == IF c \in Itemised THEN OwnUse(r, c) ELSE used[r][c]

(* A final row is left as it is, and the receipt counts as recorded.  A    *)
(* nested call of unknown cost refuses the receipt that names it.          *)
Close(r, c) ==
  /\ pc[r][c] = "close"
  /\ Goto(r, c,
       IF Row(r, c).status \in {"complete", "failed"} THEN "done"
       ELSE IF c \in Itemised /\ \E i \in ChildrenOf(c) : ~sub[c][i].known THEN "fail"
       ELSE "write")
  /\ UNCHANGED <<tables, world, runner, try, child, used, dispatches>>

(* Mutant: the receipt is stored in one transaction, charged in none.      *)
WriteComplete_Uncharged(r, c) ==
  /\ pc[r][c] = "write"
  /\ attempt' = [attempt EXCEPT ![c][try[r][c]] =
                   [status |-> "complete", use |-> OwnUse(r, c), known |-> TRUE]]
  /\ Goto(r, c, "done")
  /\ UNCHANGED <<sub, budget, world, runner, try, child, used, dispatches>>

WriteComplete(r, c) ==
  /\ pc[r][c] = "write"
  /\ attempt' = [attempt EXCEPT ![c][try[r][c]] =
                   [status |-> "complete", use |-> OwnUse(r, c), known |-> TRUE]]
  /\ \E known \in BOOLEAN :
       budget' = [budget EXCEPT !.spent = @ + Charge(r, c),
                                !.blocked = @ \/ ~known \/ budget.spent + Charge(r, c) > MaxUsage]
  /\ Goto(r, c, "done")
  /\ UNCHANGED <<sub, world, runner, try, child, used, dispatches>>

CloseFailed(r, c) ==
  /\ pc[r][c] = "fail"
  /\ \/ /\ Row(r, c).status \in {"complete", "failed"}
        /\ AfterFailure(r, c)
     \/ /\ Row(r, c).status \notin {"complete", "failed"}
        /\ Goto(r, c, "failwrite")
        /\ UNCHANGED try
  /\ UNCHANGED <<tables, world, runner, child, used, dispatches>>

(* The update touches no row when the launch was never claimed.            *)
WriteFailed(r, c) ==
  /\ pc[r][c] = "failwrite"
  /\ attempt' = IF Row(r, c).status = "none" THEN attempt
                ELSE [attempt EXCEPT ![c][try[r][c]] = [NoRow EXCEPT !.status = "failed"]]
  /\ budget' = [budget EXCEPT !.blocked = @ \/ budget.spent > MaxUsage]
  /\ AfterFailure(r, c)
  /\ UNCHANGED <<sub, world, runner, child, used, dispatches>>

CellStep(r, c) ==
  \/ StartCell(r, c)       \/ Look(r, c)            \/ Reserve(r, c)
  \/ Recheck(r, c)         \/ AdmitSubcall(r, c)    \/ RecordSubcall(r, c)
  \/ CallbackRaises(r, c)  \/ CallbackReturns(r, c) \/ Close(r, c)
  \/ WriteComplete(r, c)   \/ CloseFailed(r, c)     \/ WriteFailed(r, c)

RunnerStep(r) ==
  \/ FinishStage(r) \/ AbandonStage(r) \/ FailReport(r) \/ Gate(r)
  \/ \E c \in Cells : CellStep(r, c)

Next ==
  \/ \E r \in Runners : Start(r) \/ Crash(r) \/ RunnerStep(r)
  \/ RollBack

Spec == Init /\ [][Next]_vars

-----------------------------------------------------------------------------
(***************************************************************************)
(* Properties.                                                             *)
(***************************************************************************)

RowSet == [status : {"none", "running", "reserved", "complete", "failed"},
           use : Nat, known : BOOLEAN]

(* The tables, the budget and the threads of every runner are well formed. *)
TypeOK ==
  /\ DOMAIN attempt = Cells /\ DOMAIN sub = Cells
  /\ \A c \in Cells : attempt[c] \in [Attempts(c) -> RowSet]
  /\ \A c \in Cells : sub[c] \in [ChildrenOf(c) -> RowSet]
  /\ budget \in [attempts : Nat, spent : Nat, blocked : BOOLEAN]
  /\ job \in {"none", "running", "complete", "failed"}
  /\ cand \in {"open", "promoted", "quarantined", "rolled_back"}
  /\ eligible \in BOOLEAN /\ alone \in BOOLEAN
  /\ phase \in [Runners -> {"idle", "stage", "gate", "ended", "dead"}]
  /\ stage \in [Runners -> DOMAIN Panels]
  /\ pc \in [Runners -> [Cells -> InCell \cup {"wait", "done", "raised"}]]
  /\ try \in [Runners -> [Cells -> Nat]] /\ child \in [Runners -> [Cells -> Nat]]
  /\ \A r \in Runners, c \in Cells : try[r][c] \in Attempts(c)
  /\ \A r \in Runners, c \in Cells : child[r][c] \in 0 .. Len(Children[c])
  /\ used \in [Runners -> [Cells -> Nat]]

(***************************************************************************)
(* Launches and nested calls together never exceed the job's limit,        *)
(* however many threads and runners claim them at once: both claims count  *)
(* both tables inside an immediate transaction.                            *)
(***************************************************************************)
AttemptBudgetHolds ==
  Cardinality(Launched) + Cardinality(Admitted) <= MaxAttempts

(***************************************************************************)
(* A nested call is dispatched at most once in the life of the job, over   *)
(* all attempts of its cell, all resumed runners and two runners at a time.*)
(***************************************************************************)
ChildDispatchedOnce ==
  \A c \in Cells : \A i \in ChildrenOf(c) : dispatches[c][i] <= 1

(***************************************************************************)
(* The work of a job is bounded: by the limit on launches and nested calls *)
(* and by one dispatch of each nested call.                                *)
(***************************************************************************)
WorkIsBounded == TypeOK /\ AttemptBudgetHolds /\ ChildDispatchedOnce

CompleteRow(c) == \E n \in Attempts(c) : attempt[c][n].status = "complete"

(***************************************************************************)
(* No cell of a panel is launched before every cell of the panels before   *)
(* it has a stored receipt: held-out work never starts on an unfinished    *)
(* development lifecycle, also after a resume.  One runner at a time.      *)
(***************************************************************************)
StagesInOrder ==
  alone =>
    \A x \in Launched : \A d \in Cells :
      PanelOf(d) < PanelOf(x[1]) => CompleteRow(d)

(***************************************************************************)
(* A job saved as complete has a stored receipt of every cell and its      *)
(* candidate went through the gate.  One runner at a time.                 *)
(***************************************************************************)
CompleteJobIsBacked ==
  alone /\ job = "complete" =>
    /\ \A c \in Cells : CompleteRow(c)
    /\ cand \in {"promoted", "rolled_back"}

(***************************************************************************)
(* The stages of a job rest on each other, and its completion on all.      *)
(***************************************************************************)
StagesAreBacked == StagesInOrder /\ CompleteJobIsBacked

(***************************************************************************)
(* The usage of every stored receipt and of every recorded nested call is  *)
(* in the total that the limits are compared with: nothing recorded is     *)
(* free, whatever crashed or raised afterwards.                            *)
(***************************************************************************)
RecordedUse ==
  MapThenSumSet(LAMBDA x : attempt[x[1]][x[2]].use, Launched)
  + MapThenSumSet(LAMBDA x : sub[x[1]][x[2]].use, Admitted)

NothingRecordedIsFree == budget.spent >= RecordedUse

(***************************************************************************)
(* Once the usage has reached its limit, or the job is blocked, no launch  *)
(* and no nested call starts any more, in this runner or in a later one.   *)
(***************************************************************************)
ExhaustedStartsNothing ==
  [][budget.blocked \/ budget.spent > MaxUsage
       => Launched' \subseteq Launched /\ Admitted' \subseteq Admitted]_vars

(***************************************************************************)
(* No runner waits for something that may never come, such as the launch   *)
(* of a crashed runner or a cell the pool has given up: while its process  *)
(* lives one of its threads can go on.                                     *)
(***************************************************************************)
NoRunnerIsStuck == \A r \in Runners : Active(r) => ENABLED RunnerStep(r)
=============================================================================
