--------------------------- MODULE BenchmarkDriver ---------------------------
(***************************************************************************)
(* ResumableEvaluationDriver (benchmark.py): processes that run the panel  *)
(* of a benchmark cell by cell, over the tables of plans, allocations,     *)
(* task runs and attempts, and resume what an earlier process left.        *)
(*                                                                         *)
(* A driver is one call of run, or of run_development_smoke.  It holds the *)
(* file lock of its benchmark all the time and acts under an owner id,     *)
(* which a later process may share.  A cell is a task with its arm and     *)
(* seed; an observation is whether its evidence verifies.  Errors of the   *)
(* store itself are left out.                                              *)
(***************************************************************************)
EXTENDS Naturals, FiniteSets, Sequences, SequencesExt

CONSTANTS
  Drivers,
  Smokes,      \* the drivers that run the development smoke
  Bench,       \* driver -> benchmark
  Owner,       \* driver -> owner id
  Inputs,      \* driver -> the fingerprint of bundles, hashes and protocol
  Benchmarks,
  Panels,      \* the disjoint validation panels, sequences of cells
  SmokePanel,  \* the cells of the smoke
  Ready,       \* benchmarks whose smoke was completed before
  Outcomes,    \* driver -> what its executions may end as
  Rots,        \* cells whose stored evidence can stop verifying
  Killable,    \* drivers whose process can be killed
  None

Cells == UNION {Range(Panels[i]) : i \in DOMAIN Panels} \cup Range(SmokePanel)

ASSUME DriverAssumption ==
  /\ Smokes \subseteq Drivers /\ Killable \subseteq Drivers
  /\ Bench \in [Drivers -> Benchmarks] /\ Ready \subseteq Benchmarks
  /\ Owner \in [Drivers -> Range(Owner)] /\ Inputs \in [Drivers -> Range(Inputs)]
  /\ Panels \in Seq(Seq(Cells)) /\ SmokePanel \in Seq(Cells)
  /\ \A i, j \in DOMAIN Panels : i # j => Range(Panels[i]) \cap Range(Panels[j]) = {}
  /\ \A i \in DOMAIN Panels : Range(Panels[i]) \cap Range(SmokePanel) = {}
  /\ Outcomes \in [Drivers -> SUBSET {"complete", "failed", "uncertain"}]
  /\ None \notin Drivers /\ None \notin Benchmarks

VARIABLES
  lock,     \* benchmark -> the driver that holds its file lock
  plan,     \* benchmark_plans of the validation: inputs and panel
  alloc,    \* evaluator_allocations: <<benchmark, inputs>> -> panel
  row,      \* task_runs: benchmark -> cell -> status, owner, sound evidence
  attempts, \* benchmark_task_attempts: benchmark -> cell -> what was saved
  pc,       \* driver -> where it stands
  panel,    \* driver -> the cells it goes through
  at,       \* driver -> the index of its current cell
  want,     \* driver -> the status it is about to save
  good      \* driver -> cells of its summary that are complete

\* History: the attempt numbers executed, and the executions whose process
\* was killed before their attempt was saved.
VARIABLES ran, lost

tables == <<plan, alloc, row, attempts>>
walk == <<panel, at, want, good>>
history == <<ran, lost>>
driverVars == <<lock, plan, alloc, row, attempts, pc, panel, at, want, good, ran, lost>>

NoPlan == [inputs |-> None, panel |-> 0]
NoRow == [status |-> "none", owner |-> None, sound |-> FALSE]
DoneRow == [status |-> "complete", owner |-> None, sound |-> TRUE]

InitialRow(b, c) ==
  IF b \in Ready /\ c \in Range(SmokePanel) THEN DoneRow ELSE NoRow

DriverInit ==
  /\ lock = [b \in Benchmarks |-> None]
  /\ plan = [b \in Benchmarks |-> NoPlan]
  /\ alloc = [x \in Benchmarks \X Range(Inputs) |-> 0]
  /\ row = [b \in Benchmarks |-> [c \in Cells |-> InitialRow(b, c)]]
  /\ attempts = [b \in Benchmarks |-> [c \in Cells |->
       IF InitialRow(b, c) = DoneRow THEN << [status |-> "complete", owner |-> None] >>
       ELSE <<>>]]
  /\ pc = [d \in Drivers |-> "idle"]
  /\ panel = [d \in Drivers |-> <<>>]
  /\ at = [d \in Drivers |-> 1]
  /\ want = [d \in Drivers |-> "none"]
  /\ good = [d \in Drivers |-> {}]
  /\ ran = [b \in Benchmarks |-> [c \in Cells |-> <<>>]]
  /\ lost = [b \in Benchmarks |-> [c \in Cells |-> 0]]

\* The locals of a call are gone when it is over.
Forget(d) ==
  /\ panel' = [panel EXCEPT ![d] = <<>>]
  /\ at' = [at EXCEPT ![d] = 1]
  /\ want' = [want EXCEPT ![d] = "none"]
  /\ good' = [good EXCEPT ![d] = {}]

Goto(d, l) == pc' = [pc EXCEPT ![d] = l]

\* The places at which the file lock is held.
Inside == {"reserve", "bind", "cell", "voidrelease", "execute", "attempt", "release"}

-----------------------------------------------------------------------------
(***************************************************************************)
(* The lock and the plan.                                                  *)
(***************************************************************************)

Call(d) ==
  /\ pc[d] = "idle"
  /\ Goto(d, "lock")
  /\ UNCHANGED <<lock, tables, walk, history>>

(* run ends in one way or another and its lock is given back.              *)
Leave(d, l) ==
  /\ lock' = [lock EXCEPT ![Bench[d]] = None]
  /\ Goto(d, l)

(* Mutant: the lock file is opened and never locked.                       *)
Lock_Unlocked(d) == lock' = [lock EXCEPT ![Bench[d]] = d]

(* flock waits for whoever holds the benchmark, smoke or panel.            *)
Lock(d) ==
  /\ lock[Bench[d]] = None
  /\ lock' = [lock EXCEPT ![Bench[d]] = d]

\* verify: the run, accounting, response and outcome of the stored observation
\* are all there and agree with it and with the frozen protocol.
Verifies(b, c) == row[b][c].sound

\* _development_smoke_complete: one smoke cell that is complete and verifies.
SmokeComplete(b) ==
  \E c \in Range(SmokePanel) : row[b][c].status = "complete" /\ Verifies(b, c)

(* The smoke takes the first development task; its inputs are always those *)
(* of its plan.                                                            *)
Smoke(d) ==
  /\ pc[d] = "lock"
  /\ d \in Smokes
  /\ Lock(d)
  /\ panel' = [panel EXCEPT ![d] = SmokePanel]
  /\ Goto(d, "cell")
  /\ UNCHANGED <<tables, at, want, good, history>>

\* A held-out panel needs its smoke, and a plan holds for its inputs only.
Refused(d) ==
  \/ ~SmokeComplete(Bench[d])
  \/ plan[Bench[d]] # NoPlan /\ plan[Bench[d]].inputs # Inputs[d]

RefuseRun(d) ==
  /\ pc[d] = "lock"
  /\ d \notin Smokes
  /\ lock[Bench[d]] = None
  /\ Refused(d)
  /\ Goto(d, "raised")
  /\ UNCHANGED <<lock, tables, walk, history>>

ReadPlan(d) ==
  LET p == plan[Bench[d]] IN
  /\ pc[d] = "lock"
  /\ d \notin Smokes
  /\ Lock(d)
  /\ ~Refused(d)
  /\ IF p = NoPlan
       THEN Goto(d, "reserve") /\ UNCHANGED panel
       ELSE Goto(d, "cell") /\ panel' = [panel EXCEPT ![d] = Panels[p.panel]]
  /\ UNCHANGED <<tables, at, want, good, history>>

Key(d) == <<Bench[d], Inputs[d]>>
Taken == Range(alloc) \ {0}
Free == DOMAIN Panels \ Taken

(* Mutant: the panels are counted, not the indices in use.                 *)
Reserve_ByBenchmark(d) ==
  /\ pc[d] = "reserve"
  /\ IF alloc[Key(d)] = 0 /\ Free # {}
       THEN alloc' = [alloc EXCEPT ![Key(d)] =
              1 + Cardinality({x \in DOMAIN alloc : x[1] = Bench[d] /\ alloc[x] # 0})]
       ELSE UNCHANGED alloc
  /\ IF alloc'[Key(d)] = 0
       THEN Leave(d, "raised") /\ UNCHANGED panel
       ELSE /\ panel' = [panel EXCEPT ![d] = Panels[alloc'[Key(d)]]]
            /\ Goto(d, "bind")
            /\ UNCHANGED lock
  /\ UNCHANGED <<plan, row, attempts, at, want, good, history>>

(* reserve_allocation, one immediate transaction: the first free panel of  *)
(* the base, or the one this benchmark got before a crash; none is left    *)
(* when as many benchmarks as panels have asked.                           *)
Reserve(d) ==
  /\ pc[d] = "reserve"
  /\ IF alloc[Key(d)] = 0 /\ Free # {}
       THEN alloc' = [alloc EXCEPT ![Key(d)] =
              CHOOSE i \in Free : \A j \in Free : i <= j]
       ELSE UNCHANGED alloc
  /\ IF alloc'[Key(d)] = 0
       THEN Leave(d, "raised") /\ UNCHANGED panel
       ELSE /\ panel' = [panel EXCEPT ![d] = Panels[alloc'[Key(d)]]]
            /\ Goto(d, "bind")
            /\ UNCHANGED lock
  /\ UNCHANGED <<plan, row, attempts, at, want, good, history>>

BindPlan(d) ==
  /\ pc[d] = "bind"
  /\ plan' = [plan EXCEPT ![Bench[d]] =
       [inputs |-> Inputs[d], panel |-> alloc[Key(d)]]]
  /\ Goto(d, "cell")
  /\ UNCHANGED <<lock, alloc, row, attempts, walk, history>>

-----------------------------------------------------------------------------
(***************************************************************************)
(* The cells, one after the other.                                         *)
(***************************************************************************)

Cell(d) == panel[d][at[d]]
Row(d) == row[Bench[d]][Cell(d)]
Mine(d) == Row(d).owner = Owner[d]

NextCell(d) ==
  /\ at' = [at EXCEPT ![d] = @ + 1]
  /\ Goto(d, "cell")

SetStatus(d, s) ==
  row' = [row EXCEPT ![Bench[d]][Cell(d)] =
            [@ EXCEPT !.status = s, !.sound = (s = "complete")]]

AtCell(d) == pc[d] = "cell" /\ at[d] <= Len(panel[d])

(* A complete cell whose evidence verifies is reused.                      *)
Reuse(d) ==
  /\ AtCell(d)
  /\ Row(d).status = "complete"
  /\ Verifies(Bench[d], Cell(d))
  /\ good' = [good EXCEPT ![d] = @ \cup {Cell(d)}]
  /\ NextCell(d)
  /\ UNCHANGED <<lock, tables, panel, want, history>>

SaveAttempt(d, s) ==
  attempts' = [attempts EXCEPT ![Bench[d]][Cell(d)] =
                 Append(@, [status |-> s, owner |-> Owner[d]])]

(* Mutant: nothing is added to the attempts.                               *)
VoidAttempt_Unsaved(d) ==
  /\ AtCell(d)
  /\ Row(d).status = "complete"
  /\ ~Verifies(Bench[d], Cell(d))
  /\ Goto(d, "voidrelease")
  /\ UNCHANGED <<lock, tables, walk, history>>

(* One whose evidence does not is failed first, in the two transactions of *)
(* a save, and then looked at again.                                       *)
VoidAttempt(d) ==
  /\ AtCell(d)
  /\ Row(d).status = "complete"
  /\ ~Verifies(Bench[d], Cell(d))
  /\ SaveAttempt(d, "failed")
  /\ Goto(d, "voidrelease")
  /\ UNCHANGED <<lock, plan, alloc, row, walk, history>>

(* Another owner's cell cannot be failed: the run ends with an error.      *)
VoidRelease(d) ==
  /\ pc[d] = "voidrelease"
  /\ \/ /\ Mine(d)
        /\ SetStatus(d, "failed")
        /\ Goto(d, "cell")
        /\ UNCHANGED lock
     \/ /\ ~Mine(d)
        /\ Leave(d, "raised")
        /\ UNCHANGED row
  /\ UNCHANGED <<plan, alloc, attempts, walk, history>>

\* A cell of the same owner that failed, was interrupted, or was left running
\* by a process that is gone is run again.
Resumable(d) == Row(d).status \in {"running", "failed", "uncertain"} /\ Mine(d)

(* claim_benchmark_task_run and _claim.                                    *)
Claim(d) ==
  /\ AtCell(d)
  /\ \/ /\ Row(d).status = "none"
        /\ row' = [row EXCEPT ![Bench[d]][Cell(d)] =
             [status |-> "running", owner |-> Owner[d], sound |-> FALSE]]
     \/ Resumable(d) /\ SetStatus(d, "running")
  /\ Goto(d, "execute")
  /\ UNCHANGED <<lock, plan, alloc, attempts, walk, history>>

(* A cell of another owner is passed over.                                 *)
PassOver(d) ==
  /\ AtCell(d)
  /\ Row(d).status \in {"running", "failed", "uncertain"}
  /\ ~Resumable(d)
  /\ NextCell(d)
  /\ UNCHANGED <<lock, tables, panel, want, good, history>>

(* _next_attempt counts the saved attempts, and the trusted executor is    *)
(* called with that number: a verified observation, an exception, or an    *)
(* interrupt of the process.                                               *)
Execute(d) ==
  /\ pc[d] = "execute"
  /\ ran' = [ran EXCEPT ![Bench[d]][Cell(d)] =
               Append(@, Len(attempts[Bench[d]][Cell(d)]))]
  /\ \E s \in Outcomes[d] : want' = [want EXCEPT ![d] = s]
  /\ Goto(d, "attempt")
  /\ UNCHANGED <<lock, tables, panel, at, good, lost>>

(* _save: the attempt is inserted, and in another transaction the task run *)
(* is updated.                                                             *)
StoreAttempt(d) ==
  /\ pc[d] = "attempt"
  /\ SaveAttempt(d, want[d])
  /\ Goto(d, "release")
  /\ UNCHANGED <<lock, plan, alloc, row, walk, history>>

ReleaseCell(d) ==
  /\ pc[d] = "release"
  /\ Mine(d)
  /\ SetStatus(d, want[d])
  /\ good' = [good EXCEPT ![d] = IF want[d] = "complete" THEN @ \cup {Cell(d)} ELSE @]
  /\ IF want[d] = "uncertain"
       THEN Leave(d, "interrupted") /\ UNCHANGED at
       ELSE NextCell(d) /\ UNCHANGED lock
  /\ want' = [want EXCEPT ![d] = "none"]
  /\ UNCHANGED <<plan, alloc, attempts, panel, history>>

(* All the cells were gone through: the summary is returned.               *)
Return(d) ==
  /\ pc[d] = "cell"
  /\ at[d] > Len(panel[d])
  /\ Leave(d, "returned")
  /\ UNCHANGED <<tables, walk, history>>

DriverStep(d) ==
  \/ Smoke(d)    \/ RefuseRun(d) \/ ReadPlan(d)     \/ Reserve(d)     \/ BindPlan(d)
  \/ Reuse(d)    \/ VoidAttempt(d) \/ VoidRelease(d) \/ Claim(d)      \/ PassOver(d)
  \/ Execute(d)  \/ StoreAttempt(d) \/ ReleaseCell(d) \/ Return(d)

\* The kernel gives the lock of a process that is gone back.
LockOfTheDead(d) ==
  IF lock[Bench[d]] = d THEN [lock EXCEPT ![Bench[d]] = None] ELSE lock

(* The process is killed and saves nothing.                                *)
Kill(d) ==
  /\ d \in Killable
  /\ pc[d] \notin {"idle", "dead"}
  /\ Goto(d, "dead")
  /\ lock' = LockOfTheDead(d)
  /\ lost' = IF pc[d] = "attempt"
             THEN [lost EXCEPT ![Bench[d]][Cell(d)] = @ + 1] ELSE lost
  /\ Forget(d)
  /\ UNCHANGED <<tables, ran>>

(* The evidence of a complete cell does not verify any more.               *)
Rot(b, c) ==
  /\ c \in Rots
  /\ row[b][c].status = "complete"
  /\ row[b][c].sound
  /\ row' = [row EXCEPT ![b][c].sound = FALSE]
  /\ UNCHANGED <<lock, plan, alloc, attempts, pc, walk, history>>

-----------------------------------------------------------------------------
(***************************************************************************)
(* Properties.                                                             *)
(***************************************************************************)

Statuses == {"none", "running", "complete", "failed", "uncertain"}

(* The tables, the lock and the drivers are well formed.                   *)
DriverTypeOK ==
  /\ lock \in [Benchmarks -> Drivers \cup {None}]
  /\ \A b \in Benchmarks :
       plan[b] = NoPlan \/ plan[b] \in [inputs : Range(Inputs), panel : DOMAIN Panels]
  /\ alloc \in [Benchmarks \X Range(Inputs) -> {0} \cup DOMAIN Panels]
  /\ row \in [Benchmarks -> [Cells ->
                [status : Statuses, owner : Range(Owner) \cup {None}, sound : BOOLEAN]]]
  /\ \A b \in Benchmarks, c \in Cells : \A i \in DOMAIN attempts[b][c] :
       attempts[b][c][i].status \in {"complete", "failed", "uncertain"}
  /\ pc \in [Drivers -> Inside \cup {"idle", "lock", "returned", "raised",
                                     "interrupted", "report", "promote", "store",
                                     "ended", "dead"}]
  /\ \A d \in Drivers : pc[d] \in Inside => at[d] \in 1 .. Len(panel[d]) + 1
  /\ want \in [Drivers -> Statuses]
  /\ \A d \in Drivers : good[d] \subseteq Cells

(***************************************************************************)
(* Two drivers never run the same cell at the same time, though they may   *)
(* share an owner id, which lets one take over what it finds running.      *)
(***************************************************************************)
AtWork == {"execute", "attempt", "release"}

OneDriverPerCell ==
  \A d, e \in Drivers :
    /\ d # e
    /\ Bench[d] = Bench[e]
    /\ pc[d] \in AtWork
    /\ pc[e] \in AtWork
    => Cell(d) # Cell(e)

(***************************************************************************)
(* Whoever holds the lock of a benchmark is inside its call: an error or a *)
(* killed process that kept it would block every later call for good.      *)
(***************************************************************************)
LockIsGivenBack == \A b \in Benchmarks : lock[b] # None => pc[lock[b]] \in Inside

(***************************************************************************)
(* A cell is run for the owner in its row and nobody else, from its claim  *)
(* to its release: a driver of another owner does not take it over.        *)
(***************************************************************************)
OwnerRunsCell ==
  \A d \in Drivers : pc[d] \in AtWork => Mine(d) /\ Row(d).status = "running"

(***************************************************************************)
(* No panel serves two benchmarks of one base, and the panel of a plan is  *)
(* the one its benchmark has reserved, also when a crash fell between the  *)
(* reservation and the plan.                                               *)
(***************************************************************************)
PanelsAreExclusive ==
  /\ \A x, y \in DOMAIN alloc : x # y /\ alloc[x] # 0 => alloc[x] # alloc[y]
  /\ \A b \in Benchmarks : plan[b] # NoPlan => plan[b].panel = alloc[<<b, plan[b].inputs>>]

(***************************************************************************)
(* An attempt number is used twice for a cell only as often as a killed    *)
(* process left an execution that was saved nowhere ("a same-owner retry   *)
(* receives a fresh attempt number").                                      *)
(***************************************************************************)
NumbersAreFresh ==
  \A b \in Benchmarks, c \in Cells :
    Len(ran[b][c]) - Cardinality(Range(ran[b][c])) <= lost[b][c]

(***************************************************************************)
(* Every outcome in a task run is also among its attempts: the history     *)
(* stays auditable, whichever transaction of a save was the last.          *)
(***************************************************************************)
OutcomesAreAudited ==
  \A b \in Benchmarks, c \in Cells :
    row[b][c].status \in {"complete", "failed", "uncertain"} =>
      [status |-> row[b][c].status, owner |-> row[b][c].owner] \in Range(attempts[b][c])

(***************************************************************************)
(* No held-out cell is touched before a smoke of its benchmark was         *)
(* completed.                                                              *)
(***************************************************************************)
HeldOutNeedsSmoke ==
  \A b \in Benchmarks :
    (\E c \in Cells \ Range(SmokePanel) : row[b][c].status # "none") =>
      \E c \in Range(SmokePanel) :
        \E i \in DOMAIN attempts[b][c] : attempts[b][c][i].status = "complete"
=============================================================================
