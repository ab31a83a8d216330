----------------------------- MODULE Diagnostics -----------------------------
(***************************************************************************)
(* One development diagnostic (diagnostics.py): the row of the diagnostic, *)
(* its cells, and the managers, one per process, that launch, run, cancel  *)
(* and look at it.  Every launch of one identity finds or inserts the same *)
(* row and is followed by a run in the background, also after a crash.     *)
(*                                                                         *)
(* A run owns the diagnostic while it holds two locks, one of its process  *)
(* and one on a file, tried one after the other without waiting; they are  *)
(* one `lock` here.  Whoever reads the diagnostic takes the same lock for  *)
(* a moment, to say whether it is resumable.  A cell's result is whether   *)
(* it is stored and whether its evidence still verifies; tampering with    *)
(* the rows of the plan is left out.                                       *)
(***************************************************************************)
EXTENDS Naturals, FiniteSets

CONSTANTS
  Managers,   \* processes
  Launches,   \* calls of POST /diagnostics/launch
  Cancels,    \* calls of cancel
  Home,       \* the process of each launch and each cancel
  Cells,      \* the cells of the diagnostic: environments times arms
  Width,      \* threads of the pool of a run
  Outdated,   \* processes whose frozen protocol is not the diagnostic's
  MayRot,     \* whether stored evidence can stop verifying
  Crashing,   \* processes that can die
  NoOwner

ASSUME DiagnosticsAssumption ==
  /\ IsFiniteSet(Cells)
  /\ Launches \cap Cancels = {}
  /\ Home \in [Launches \cup Cancels -> Managers]
  /\ Width \in Nat \ {0}
  /\ Outdated \subseteq Managers /\ Crashing \subseteq Managers
  /\ MayRot \in BOOLEAN
  /\ NoOwner \notin Launches /\ "reader" \notin Launches /\ NoOwner # "reader"

VARIABLES
  diag,    \* table diagnostics: state and cancel_requested
  cell,    \* table diagnostic_cells: cell -> status
  rotten,  \* completed cells whose evidence does not verify
  event,   \* manager -> its threading.Event for the diagnostic
  lock,    \* the launch whose run owns the diagnostic, "reader" or NoOwner
  up,      \* processes that live
  lpc,     \* launch -> where it stands
  seen,    \* launch -> what its run read last of the diagnostic
  thread,  \* launch -> cell -> where the pool's thread for it stands
  cpc      \* cancel -> where it stands

diagnosticVars == <<diag, cell, rotten, event, lock, up, lpc, seen, thread, cpc>>
rows == <<diag, cell, rotten>>
process == <<event, up>>

Ended == {"completed", "failed", "cancelled"}

(* Threads that occupy a place in the pool, and those in the executor.     *)
OnPool == {"look", "claim", "recheck", "execute"} \cup Ended

Executing(c) == {l \in Launches : thread[l][c] = "execute"}

DiagnosticInit ==
  /\ diag = [state |-> "none", cancel |-> FALSE]
  /\ cell = [c \in Cells |-> "none"]
  /\ rotten = {}
  /\ event = [m \in Managers |-> FALSE]
  /\ lock = NoOwner
  /\ up = Managers
  /\ lpc = [l \in Launches |-> "idle"]
  /\ seen = [l \in Launches |-> "none"]
  /\ thread = [l \in Launches |-> [c \in Cells |-> "none"]]
  /\ cpc = [k \in Cancels |-> "idle"]

-----------------------------------------------------------------------------
(***************************************************************************)
(* create, and readers.                                                    *)
(***************************************************************************)

LaunchGoto(l, p) == lpc' = [lpc EXCEPT ![l] = p]

(* The candidate and the base are checked before anything is written, and  *)
(* a stale base or an unvalidated candidate refuses the launch.            *)
Lookup(l) ==
  /\ lpc[l] = "idle"
  /\ Home[l] \in up
  /\ \/ LaunchGoto(l, "refused")
     \/ LaunchGoto(l, IF diag.state = "none" THEN "insert" ELSE "launched")
  /\ UNCHANGED <<rows, process, lock, seen, thread, cpc>>

(* The row and its cells are one transaction; the unique identity lets one *)
(* launch insert, and the others take the row they find then.              *)
Insert(l) ==
  /\ lpc[l] = "insert"
  /\ \/ /\ diag.state = "none"
        /\ diag' = [diag EXCEPT !.state = "queued"]
        /\ cell' = [c \in Cells |-> "queued"]
     \/ /\ diag.state # "none"
        /\ UNCHANGED <<diag, cell>>
  /\ LaunchGoto(l, "launched")
  /\ UNCHANGED <<rotten, process, lock, seen, thread, cpc>>

(* _resumable of get, list, create and cancel: the lock is held a moment   *)
(* and given back.                                                         *)
ReaderLocks ==
  /\ diag.state \in {"queued", "running"}
  /\ lock = NoOwner
  /\ lock' = "reader"
  /\ UNCHANGED <<rows, process, lpc, seen, thread, cpc>>

ReaderUnlocks ==
  /\ lock = "reader"
  /\ lock' = NoOwner
  /\ UNCHANGED <<rows, process, lpc, seen, thread, cpc>>

-----------------------------------------------------------------------------
(***************************************************************************)
(* run.                                                                    *)
(***************************************************************************)

(* A run that finds the lock taken returns, and nobody runs in its place.  *)
Acquire(l) ==
  /\ lpc[l] = "launched"
  /\ \/ /\ lock = NoOwner
        /\ lock' = l
        /\ LaunchGoto(l, "read")
     \/ /\ lock # NoOwner
        /\ LaunchGoto(l, "done")
        /\ UNCHANGED lock
  /\ UNCHANGED <<rows, process, seen, thread, cpc>>

Release(l, p) ==
  /\ LaunchGoto(l, p)
  /\ lock' = NoOwner

Read(l) ==
  /\ lpc[l] = "read"
  /\ seen' = [seen EXCEPT ![l] = diag.state]
  /\ LaunchGoto(l, "start")
  /\ UNCHANGED <<rows, process, lock, thread, cpc>>

Rotten == {c \in rotten : cell[c] = "completed"}

(* A diagnostic that had ended when it was read is only verified.          *)
VerifyEnded(l) ==
  /\ lpc[l] = "start"
  /\ seen[l] \in Ended
  /\ diag' = IF Rotten = {} THEN diag ELSE [diag EXCEPT !.state = "failed"]
  /\ Release(l, "done")
  /\ UNCHANGED <<cell, rotten, process, seen, thread, cpc>>

(* The protocol of this process is another one, or evidence stored by an   *)
(* earlier run does not verify any more: the diagnostic fails.             *)
FailStart(l) ==
  /\ lpc[l] = "start"
  /\ seen[l] \notin Ended
  /\ Home[l] \in Outdated \/ Rotten # {}
  /\ diag' = [diag EXCEPT !.state = "failed"]
  /\ cell' = IF Home[l] \in Outdated THEN cell
             ELSE [c \in Cells |-> IF c \in Rotten THEN "failed" ELSE cell[c]]
  /\ Release(l, "done")
  /\ UNCHANGED <<rotten, process, seen, thread, cpc>>

(* The state is set to running whatever it has become since it was read,   *)
(* cells an earlier owner left running are queued again, and every queued  *)
(* cell is submitted.                                                      *)
StartRun(l) ==
  LET requeued == [c \in Cells |-> IF cell[c] = "running" THEN "queued" ELSE cell[c]] IN
  /\ lpc[l] = "start"
  /\ seen[l] \notin Ended
  /\ Home[l] \notin Outdated /\ Rotten = {}
  /\ diag' = [diag EXCEPT !.state = "running"]
  /\ cell' = requeued
  /\ thread' = [thread EXCEPT ![l] =
       [c \in Cells |-> IF requeued[c] = "queued" THEN "wait" ELSE "none"]]
  /\ LaunchGoto(l, "pool")
  /\ UNCHANGED <<rotten, process, lock, seen, cpc>>

-----------------------------------------------------------------------------
(***************************************************************************)
(* execute: one thread of the pool for each submitted cell.                *)
(***************************************************************************)

ThreadGoto(l, c, p) == thread' = [thread EXCEPT ![l][c] = p]

(* Mutant: only a cancel in the same process is noticed.                   *)
CancelSeen_EventOnly(l) == event[Home[l]]

CancelSeen(l) == event[Home[l]] \/ diag.cancel

TakeCell(l, c) ==
  /\ lpc[l] = "pool"
  /\ thread[l][c] = "wait"
  /\ Cardinality({d \in Cells : thread[l][d] \in OnPool}) < Width
  /\ ThreadGoto(l, c, "look")
  /\ UNCHANGED <<rows, process, lock, lpc, seen, cpc>>

Look(l, c) ==
  /\ thread[l][c] = "look"
  /\ ThreadGoto(l, c, IF CancelSeen(l) THEN "gone" ELSE "claim")
  /\ UNCHANGED <<rows, process, lock, lpc, seen, cpc>>

(* The claim is an update guarded by the status.                           *)
ClaimCell(l, c) ==
  /\ thread[l][c] = "claim"
  /\ \/ /\ cell[c] = "queued"
        /\ cell' = [cell EXCEPT ![c] = "running"]
        /\ ThreadGoto(l, c, "recheck")
     \/ /\ cell[c] # "queued"
        /\ ThreadGoto(l, c, "gone")
        /\ UNCHANGED cell
  /\ UNCHANGED <<diag, rotten, process, lock, lpc, seen, cpc>>

(* A cancel that came with the claim takes the cell back.                  *)
Recheck(l, c) ==
  /\ thread[l][c] = "recheck"
  /\ ThreadGoto(l, c, IF CancelSeen(l) THEN "cancelled" ELSE "execute")
  /\ UNCHANGED <<rows, process, lock, lpc, seen, cpc>>

(* What a cell's execution comes to: an observation with the accounting    *)
(* its result is taken from, or anything that raises.                      *)
Outcomes == {"completed", "failed"}

(* The executor returns a verified observation, or raises, or returns what *)
(* does not verify.                                                        *)
Execute(l, c) ==
  /\ thread[l][c] = "execute"
  /\ \E s \in Outcomes : ThreadGoto(l, c, s)
  /\ UNCHANGED <<rows, process, lock, lpc, seen, cpc>>

(* _finish, an update without a guard.                                     *)
FinishCell(l, c) ==
  /\ thread[l][c] \in Ended
  /\ cell' = [cell EXCEPT ![c] = thread[l][c]]
  /\ ThreadGoto(l, c, "gone")
  /\ UNCHANGED <<diag, rotten, process, lock, lpc, seen, cpc>>

CellStep(l, c) ==
  \/ TakeCell(l, c) \/ Look(l, c) \/ ClaimCell(l, c) \/ Recheck(l, c)
  \/ Execute(l, c) \/ FinishCell(l, c)

(* The pool is done: cancel_requested is read, then the cells are counted  *)
(* and the state is written.                                               *)
EndRead(l) ==
  /\ lpc[l] = "pool"
  /\ \A c \in Cells : thread[l][c] \in {"none", "gone"}
  /\ seen' = [seen EXCEPT ![l] = IF diag.cancel THEN "cancelled" ELSE "running"]
  /\ LaunchGoto(l, "end")
  /\ UNCHANGED <<rows, process, lock, thread, cpc>>

PendingCells == {c \in Cells : cell[c] \in {"queued", "running"}}

(* Mutant: a failed cell counts as one still to be run.                    *)
Verdict_FailedPending(l) ==
  IF seen[l] = "cancelled" THEN "cancelled"
  ELSE IF \A c \in Cells : cell[c] = "completed" THEN "completed" ELSE "running"

Verdict(l) ==
  IF seen[l] = "cancelled" THEN "cancelled"
  ELSE IF \E c \in Cells : cell[c] = "failed" THEN "failed"
  ELSE IF PendingCells = {} THEN "completed" ELSE "running"

EndWrite(l) ==
  /\ lpc[l] = "end"
  /\ diag' = [diag EXCEPT !.state = Verdict(l)]
  /\ Release(l, "done")
  /\ UNCHANGED <<cell, rotten, process, seen, thread, cpc>>

RunStep(l) ==
  \/ Acquire(l) \/ Read(l) \/ VerifyEnded(l) \/ FailStart(l) \/ StartRun(l)
  \/ EndRead(l) \/ EndWrite(l)

-----------------------------------------------------------------------------
(***************************************************************************)
(* cancel, the evidence and the process.                                   *)
(***************************************************************************)

CancelGoto(k, p) == cpc' = [cpc EXCEPT ![k] = p]

(* The event of the process is set before the database is looked at.       *)
SetEvent(k) ==
  /\ cpc[k] = "idle"
  /\ Home[k] \in up
  /\ diag.state # "none"
  /\ event' = [event EXCEPT ![Home[k]] = TRUE]
  /\ CancelGoto(k, "read")
  /\ UNCHANGED <<rows, lock, up, lpc, seen, thread>>

CancelRead(k) ==
  /\ cpc[k] = "read"
  /\ CancelGoto(k, IF diag.state \in Ended THEN "done" ELSE "write")
  /\ UNCHANGED <<rows, process, lock, lpc, seen, thread>>

(* Mutant: the cells on their way are cancelled with the queued ones.      *)
CancelWrite_RunningToo(k) ==
  /\ cpc[k] = "write"
  /\ diag' = [state |-> IF diag.state = "queued" THEN "cancelled" ELSE diag.state,
              cancel |-> TRUE]
  /\ cell' = [c \in Cells |-> IF cell[c] \in {"queued", "running"}
                              THEN "cancelled" ELSE cell[c]]
  /\ CancelGoto(k, "done")
  /\ UNCHANGED <<rotten, process, lock, lpc, seen, thread>>

(* One transaction: a queued diagnostic is cancelled, of any other the     *)
(* wish is recorded, and the queued cells are cancelled.                   *)
CancelWrite(k) ==
  /\ cpc[k] = "write"
  /\ diag' = [state |-> IF diag.state = "queued" THEN "cancelled" ELSE diag.state,
              cancel |-> TRUE]
  /\ cell' = [c \in Cells |-> IF cell[c] = "queued" THEN "cancelled" ELSE cell[c]]
  /\ CancelGoto(k, "done")
  /\ UNCHANGED <<rotten, process, lock, lpc, seen, thread>>

(* A receipt, an observation or its accounting is lost or changed.         *)
Rot(c) ==
  /\ MayRot
  /\ cell[c] = "completed"
  /\ rotten' = rotten \cup {c}
  /\ UNCHANGED <<diag, cell, process, lock, lpc, seen, thread, cpc>>

CrashManager(m) ==
  /\ m \in up \cap Crashing
  /\ up' = up \ {m}
  /\ event' = [event EXCEPT ![m] = FALSE]
  /\ lpc' = [l \in Launches |->
       IF Home[l] = m /\ lpc[l] \notin {"idle", "done"} THEN "dead" ELSE lpc[l]]
  /\ thread' = [l \in Launches |->
       IF Home[l] = m THEN [c \in Cells |-> "none"] ELSE thread[l]]
  /\ cpc' = [k \in Cancels |->
       IF Home[k] = m /\ cpc[k] \notin {"idle", "done"} THEN "dead" ELSE cpc[k]]
  /\ lock' = IF lock \in Launches /\ Home[lock] = m THEN NoOwner ELSE lock
  /\ UNCHANGED <<rows, seen>>

Restart(m) ==
  /\ m \notin up
  /\ up' = up \cup {m}
  /\ UNCHANGED <<rows, event, lock, lpc, seen, thread, cpc>>

DiagnosticNext ==
  \/ \E l \in Launches :
       Lookup(l) \/ Insert(l) \/ RunStep(l) \/ \E c \in Cells : CellStep(l, c)
  \/ \E k \in Cancels : SetEvent(k) \/ CancelRead(k) \/ CancelWrite(k)
  \/ \E c \in Cells : Rot(c)
  \/ \E m \in Managers : CrashManager(m) \/ Restart(m)
  \/ ReaderLocks \/ ReaderUnlocks

(* The background task and its pool go on, and so does a reader inside its *)
(* probe; clients and crashes may come or not.                             *)
Fairness ==
  /\ WF_diagnosticVars(ReaderUnlocks)
  /\ \A l \in Launches :
       WF_diagnosticVars(RunStep(l)) /\ \A c \in Cells : WF_diagnosticVars(CellStep(l, c))

DiagnosticSpec == DiagnosticInit /\ [][DiagnosticNext]_diagnosticVars /\ Fairness

-----------------------------------------------------------------------------
(***************************************************************************)
(* Properties.                                                             *)
(***************************************************************************)

(* The rows, the locks and the threads are well formed.                    *)
DiagnosticTypeOK ==
  /\ diag \in [state : Ended \cup {"none", "queued", "running"}, cancel : BOOLEAN]
  /\ cell \in [Cells -> Ended \cup {"none", "queued", "running"}]
  /\ rotten \subseteq Cells
  /\ event \in [Managers -> BOOLEAN]
  /\ lock \in Launches \cup {"reader", NoOwner}
  /\ up \subseteq Managers
  /\ lpc \in [Launches -> {"idle", "refused", "insert", "launched", "read", "start",
                          "pool", "end", "done", "dead"}]
  /\ seen \in [Launches -> Ended \cup {"none", "queued", "running"}]
  /\ thread \in [Launches -> [Cells -> OnPool \cup {"none", "wait", "gone"}]]
  /\ cpc \in [Cancels -> {"idle", "read", "write", "done", "dead"}]

(***************************************************************************)
(* A cell is in the executor at most once at a time, whichever processes   *)
(* launch the diagnostic: a second run would queue again the cells the     *)
(* first has running.                                                      *)
(***************************************************************************)
OneExecutionPerCell == \A c \in Cells : Cardinality(Executing(c)) <= 1

(***************************************************************************)
(* Only the run that owns the diagnostic has threads, and the row says     *)
(* that it runs: a diagnostic that has ended, cancelled ones included, has *)
(* no cell on its way.                                                     *)
(***************************************************************************)
WorkIsOwned ==
  \A l \in Launches : (\E c \in Cells : thread[l][c] \in OnPool) =>
    lock = l /\ diag.state = "running"

(***************************************************************************)
(* A cell that has ended is never executed or overwritten by a later run   *)
(* or a cancel; only evidence that no longer verifies fails it.            *)
(***************************************************************************)
EndedCellStands ==
  [][\A c \in Cells : cell[c] \in Ended =>
       cell'[c] = cell[c] \/ (c \in rotten /\ cell'[c] = "failed")]_diagnosticVars

(***************************************************************************)
(* While a cell executes, and until its result is stored, its row says     *)
(* running: no cancel and no run of another process takes an admitted cell *)
(* away ("admitted cells will finish").                                    *)
(***************************************************************************)
AdmittedCellIsKept ==
  \A l \in Launches, c \in Cells :
    thread[l][c] \in {"execute", "completed", "failed"} => cell[c] = "running"

(***************************************************************************)
(* Cells are owned: by the one run of the diagnostic, from their claim     *)
(* until their result is stored.                                           *)
(***************************************************************************)
CellsAreOwned == DiagnosticTypeOK /\ OneExecutionPerCell /\ WorkIsOwned /\ AdmittedCellIsKept

(***************************************************************************)
(* Once a cancel is recorded no cell enters the executor, in any process.  *)
(***************************************************************************)
CancelStopsDispatch ==
  [][diag.cancel => \A c \in Cells : Executing(c)' \subseteq Executing(c)]_diagnosticVars

(***************************************************************************)
(* Neither the end of a cell nor a cancel is undone, whichever run, resume *)
(* or cancel comes next.                                                   *)
(***************************************************************************)
EndsAndCancelsStand == EndedCellStands /\ CancelStopsDispatch

(***************************************************************************)
(* A run whose process lives brings its diagnostic to an end, unless a     *)
(* cancel crosses it, between its event and its transaction.               *)
(***************************************************************************)
OwnedRunEnds ==
  \A l \in Launches :
    lpc[l] = "pool"
      ~> \/ diag.state \in Ended
         \/ lpc[l] = "dead"
         \/ \E k \in Cancels : cpc[k] \in {"read", "write"}

(***************************************************************************)
(* What tests/test_development_diagnostics.py asserts of a completed       *)
(* diagnostic: all its cells are completed.                                *)
(***************************************************************************)
CompletedHasAllCells ==
  diag.state = "completed" => \A c \in Cells : cell[c] = "completed"
=============================================================================
