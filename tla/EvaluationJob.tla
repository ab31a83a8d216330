---------------------------- MODULE EvaluationJob ----------------------------
(***************************************************************************)
(* EvaluationJob.run (evaluation_job.py) around the driver: the job row,   *)
(* the report over the cells of the driver's summary, the promotion of the *)
(* candidate and the final save.  A validation job is a benchmark; its     *)
(* candidate has the benchmark's name.  All candidates have the same base, *)
(* so the compare-and-set of the active bundle lets one of them in.        *)
(***************************************************************************)
EXTENDS BenchmarkDriver

VARIABLES
  job,     \* evaluation_jobs: benchmark -> status
  active,  \* the candidate that is active, None for the base
  result   \* driver -> the status run is about to save

jobVars == <<job, active, result>>
vars == <<driverVars, jobVars>>

Init ==
  /\ DriverInit
  /\ job = [b \in Benchmarks |-> "none"]
  /\ active = None
  /\ result = [d \in Drivers |-> "none"]

(* The job is saved as running whatever it was, before the driver asks for *)
(* the lock.  A smoke has no job.                                          *)
Begin(d) ==
  /\ Call(d)
  /\ job' = IF d \in Smokes THEN job ELSE [job EXCEPT ![Bench[d]] = "running"]
  /\ UNCHANGED <<active, result>>

RunDriver(d) ==
  /\ DriverStep(d)
  /\ UNCHANGED jobVars

Decide(d, l, s) ==
  /\ Goto(d, l)
  /\ result' = [result EXCEPT ![d] = s]

Complete(d) == good[d] = Range(panel[d])

(* Mutant: the summary of the driver is not looked at.                     *)
Report_AnySummary(d) ==
  /\ pc[d] = "returned"
  /\ d \notin Smokes
  /\ \/ Decide(d, "promote", "decided")
     \/ Decide(d, "store", "closed")
  /\ UNCHANGED <<lock, tables, walk, history, job, active>>

(* The report is valid or not, and passes the gate or not; without all its *)
(* cells it is not valid.  Building it can raise.                          *)
Report(d) ==
  /\ pc[d] = "returned"
  /\ d \notin Smokes
  /\ \/ Complete(d) /\ Decide(d, "promote", "decided")
     \/ Decide(d, "store", "closed")
  /\ UNCHANGED <<lock, tables, walk, history, job, active>>

(* CandidateManager.promote: a candidate already promoted, or a base that  *)
(* is not active any more, raises, and the job has failed.                 *)
Promote(d) ==
  /\ pc[d] = "promote"
  /\ \/ /\ active = None
        /\ active' = Bench[d]
        /\ Goto(d, "store")
        /\ UNCHANGED result
     \/ /\ active # None
        /\ Decide(d, "store", "closed")
        /\ UNCHANGED active
  /\ UNCHANGED <<lock, tables, walk, history, job>>

(* An exception of the driver fails the job.  An interrupt is none: it     *)
(* leaves the job running.                                                 *)
CatchDriver(d) ==
  /\ pc[d] = "raised"
  /\ d \notin Smokes
  /\ Decide(d, "store", "closed")
  /\ UNCHANGED <<lock, tables, walk, history, job, active>>

EndWithoutJob(d) ==
  /\ pc[d] = "interrupted" \/ (d \in Smokes /\ pc[d] \in {"returned", "raised"})
  /\ Goto(d, "ended")
  /\ Forget(d)
  /\ UNCHANGED <<lock, tables, history, jobVars>>

SaveJob(d) ==
  /\ pc[d] = "store"
  /\ job' = [job EXCEPT ![Bench[d]] = result[d]]
  /\ result' = [result EXCEPT ![d] = "none"]
  /\ Goto(d, "ended")
  /\ Forget(d)
  /\ UNCHANGED <<lock, tables, history, active>>

JobStep(d) ==
  \/ RunDriver(d) \/ Report(d) \/ Promote(d) \/ CatchDriver(d)
  \/ EndWithoutJob(d) \/ SaveJob(d)

(* What the call was about to save is gone with its process.               *)
Die(d) ==
  /\ Kill(d)
  /\ result' = [result EXCEPT ![d] = "none"]
  /\ UNCHANGED <<job, active>>

Next ==
  \/ \E d \in Drivers : Begin(d) \/ JobStep(d) \/ Die(d)
  \/ \E b \in Benchmarks : \E c \in Cells : Rot(b, c) /\ UNCHANGED jobVars

Spec == Init /\ [][Next]_vars

-----------------------------------------------------------------------------
(***************************************************************************)
(* Properties.                                                             *)
(***************************************************************************)

(* The driver's variables, the jobs and the active bundle are well formed. *)
TypeOK ==
  /\ DriverTypeOK
  /\ job \in [Benchmarks -> {"none", "running", "decided", "closed"}]
  /\ active \in Benchmarks \cup {None}
  /\ result \in [Drivers -> {"none", "decided", "closed"}]

(***************************************************************************)
(* A candidate is active only if every cell of the panel that its          *)
(* benchmark reserved has a completed attempt, over all the processes that *)
(* resumed it.                                                             *)
(***************************************************************************)
ActiveRestsOnPanel ==
  active # None =>
    /\ plan[active] # NoPlan
    /\ \A c \in Range(Panels[plan[active].panel]) :
         \E i \in DOMAIN attempts[active][c] : attempts[active][c][i].status = "complete"

(***************************************************************************)
(* A job saved as decided is the one whose candidate is active: a job that *)
(* lost the race for the base ends as failed.                              *)
(***************************************************************************)
DecidedIsActive == \A b \in Benchmarks : job[b] = "decided" => active = b

(***************************************************************************)
(* A cell is run by one driver, for its owner, under a lock that a death   *)
(* gives back.                                                             *)
(***************************************************************************)
CellsAreExclusive == TypeOK /\ OneDriverPerCell /\ OwnerRunsCell /\ LockIsGivenBack

(***************************************************************************)
(* Held-out panels serve one benchmark of a base and none before its       *)
(* smoke.                                                                  *)
(***************************************************************************)
PanelsAreGuarded == PanelsAreExclusive /\ HeldOutNeedsSmoke

(***************************************************************************)
(* The attempts tell what happened: under fresh numbers, and to every      *)
(* outcome.                                                                *)
(***************************************************************************)
HistoryIsAuditable == NumbersAreFresh /\ OutcomesAreAudited

(***************************************************************************)
(* A decision rests on a measured panel and is the active bundle's.        *)
(***************************************************************************)
DecisionIsBacked == ActiveRestsOnPanel /\ DecidedIsActive
=============================================================================
