--------------------------- MODULE RunLifecycle ---------------------------
(***************************************************************************)
(* One durable run, from its creation to its terminal status: the row it   *)
(* has in table runs, its evidence events, its outcome, and the threads    *)
(* that work on them (controller.py and app.py over store.py):             *)
(*                                                                         *)
(*   launchers   background tasks of POST /runs/{id}/launch                *)
(*   cancellers  POST /runs/{id}/cancel                                    *)
(*   approvers   POST /runs/{id}/approvals/{id}                            *)
(*   streams     GET /runs/{id}/events, server-sent events                 *)
(*                                                                         *)
(* Every store method is a transaction of its own.  Three helpers of the   *)
(* controller take two of them, and other threads come in between:         *)
(* append_event takes the next sequence number and then inserts the event; *)
(* _set_run_status reads the whole row and then writes the whole row back; *)
(* the identity and accounting writers of the runtime do the same.  Each   *)
(* action below is one transaction with the code up to the next one.       *)
(***************************************************************************)
EXTENDS Naturals, FiniteSets

CONSTANTS
  Launchers, Cancellers, Approvers, Streams,
  LibraryStreams,   \* the streams served by Controller.stream_events; the
                    \* others are the generator of api.py
  MaxTurns,         \* bound on the model responses of a driver
  MaxCrashes,       \* bound on process crashes
  ProviderMayRaise, \* constructing the tool provider may raise
  None

Workers == Launchers \cup Cancellers \cup Approvers

ASSUME LifecycleAssumption ==
  /\ LibraryStreams \subseteq Streams
  /\ MaxTurns \in Nat /\ MaxCrashes \in Nat
  /\ ProviderMayRaise \in BOOLEAN
  /\ Launchers \cap (Cancellers \cup Approvers) = {}
  /\ Cancellers \cap Approvers = {}

Verdicts == {"succeeded", "failed"}
Terminal == Verdicts \cup {"cancelled"}
Statuses == Terminal \cup {"queued", "running"}

(* The columns of the row and the fields of its run_json that two threads  *)
(* write: `bound` and `accounted` stand for the launch identity and for    *)
(* finalAccountingRef.                                                     *)
RunRow == [status: Statuses, seq: Nat, bound: BOOLEAN, accounted: BOOLEAN]

Kinds == {"run_created", "run_started", "model_response", "trusted_outcome",
          "run_failed", "run_cancelled", "approval"}
Event == [seq: Nat, kind: Kinds]

(* Where a thread is in the code.  "take"/"insert" is append_event,        *)
(* "setread"/"setwrite" is _set_run_status; both return to `cont`.         *)
Places == {"idle", "accepted", "bindread", "bindwrite", "enter", "driving",
           "driven", "evaluating", "recording", "confirm", "confirmed", "checkfail",
           "reconcile", "reevaluating", "account", "accountwrite",
           "take", "insert", "setread", "setwrite", "announce", "done", "dead"}

(* Which call of record_outcome a launcher is in: the one that ends        *)
(* execute_run, or the two of the evaluation that follows a failed run.    *)
Rounds == {"finish", "reconcile", "again"}

VARIABLES
  row,       \* the run's row of table runs
  evidence,  \* its rows of table evidence, one per sequence number
  outcome,   \* `passed` of its row of table outcomes, or None
  pc, cont,  \* where each worker is, and where its helper returns to
  kind,      \* the event it is appending
  num,       \* the sequence number it took for it
  snap,      \* the row it read and will write back
  want,      \* the status it is writing
  verdict,   \* what its evaluator answered
  round,     \* see Rounds
  turns,     \* model responses of the driver so far
  crashes,   \* crashes so far
  spc, cursor, progressed,  \* a stream: place, last id sent, sent any
  delivered, \* events a stream has sent
  claims     \* history: launchers whose claim succeeded

local      == <<cont, kind, num, snap, want, verdict, round>>
streamVars == <<spc, cursor, progressed, delivered>>
vars == <<row, evidence, outcome, pc, local, turns, crashes, streamVars, claims>>

Has(k) == \E e \in evidence : e.kind = k

(* create_run has stored the queued row and appended run_created.          *)
Init ==
  /\ row = [status |-> "queued", seq |-> 1, bound |-> FALSE, accounted |-> FALSE]
  /\ evidence = {[seq |-> 1, kind |-> "run_created"]}
  /\ outcome = None
  /\ pc = [w \in Workers |-> "idle"]
  /\ cont = [w \in Workers |-> "done"]
  /\ kind = [w \in Workers |-> None]
  /\ num = [w \in Workers |-> 0]
  /\ snap = [w \in Workers |-> None]
  /\ want = [w \in Workers |-> None]
  /\ verdict = [w \in Workers |-> None]
  /\ round = [w \in Workers |-> "finish"]
  /\ turns = 0
  /\ crashes = 0
  /\ spc = [s \in Streams |-> "reading"]
  /\ cursor = [s \in Streams |-> 0]
  /\ progressed = [s \in Streams |-> FALSE]
  /\ delivered = [s \in Streams |-> {}]
  /\ claims = {}

-----------------------------------------------------------------------------
(***************************************************************************)
(* The helpers a thread calls.  A local variable is reset after its last   *)
(* use.                                                                    *)
(***************************************************************************)
Goto(w, p) == pc' = [pc EXCEPT ![w] = p]

(* append_event(k), then on to p.                                          *)
Append(w, k, p) ==
  /\ Goto(w, "take")
  /\ kind' = [kind EXCEPT ![w] = k]
  /\ cont' = [cont EXCEPT ![w] = p]

TakeSequence(w) ==
  /\ pc[w] = "take"
  /\ row' = [row EXCEPT !.seq = @ + 1]
  /\ num' = [num EXCEPT ![w] = row'.seq]
  /\ Goto(w, "insert")
  /\ UNCHANGED <<evidence, outcome, cont, kind, snap, want, verdict, round,
                 turns, crashes, streamVars, claims>>

(* INSERT OR REPLACE under UNIQUE(run_id, sequence): an event that has the *)
(* number already is deleted.                                              *)
StoreEvent(n, k) ==
  evidence' = {e \in evidence : e.seq # n} \cup {[seq |-> n, kind |-> k]}

InsertEvent(w) ==
  /\ pc[w] = "insert"
  /\ StoreEvent(num[w], kind[w])
  /\ kind' = [kind EXCEPT ![w] = None]
  /\ num' = [num EXCEPT ![w] = 0]
  /\ Goto(w, cont[w])
  /\ UNCHANGED <<row, outcome, cont, snap, want, verdict, round, turns, crashes,
                 streamVars, claims>>

(* _set_run_status(s), then on to p.                                       *)
SetStatus(w, s, p) ==
  /\ Goto(w, "setread")
  /\ want' = [want EXCEPT ![w] = s]
  /\ cont' = [cont EXCEPT ![w] = p]

(* The row a thread reads is the one it will write back, whatever others   *)
(* did to it meanwhile.                                                    *)
ReadRow(w, p) ==
  /\ snap' = [snap EXCEPT ![w] = row]
  /\ Goto(w, p)
  /\ UNCHANGED <<row, evidence, outcome, cont, kind, num, want, verdict, round,
                 turns, crashes, streamVars, claims>>

WriteRow(w, r, p) ==
  /\ row' = r
  /\ snap' = [snap EXCEPT ![w] = None]
  /\ want' = [want EXCEPT ![w] = None]
  /\ Goto(w, p)
  /\ UNCHANGED <<evidence, outcome, cont, kind, num, verdict, round, turns,
                 crashes, streamVars, claims>>

SetRead(w)  == pc[w] = "setread" /\ ReadRow(w, "setwrite")
SetWrite(w) ==
  /\ pc[w] = "setwrite"
  /\ WriteRow(w, [snap[w] EXCEPT !.status = want[w]], cont[w])

Helper(w) == TakeSequence(w) \/ InsertEvent(w) \/ SetRead(w) \/ SetWrite(w)

(* A step that reads the tables, or none, and goes on to p.                *)
Step(w, p) ==
  /\ Goto(w, p)
  /\ UNCHANGED <<row, evidence, outcome, local, turns, crashes, streamVars, claims>>

StepAppend(w, k, p) ==
  /\ Append(w, k, p)
  /\ UNCHANGED <<row, evidence, outcome, num, snap, want, verdict, round,
                 turns, crashes, streamVars, claims>>

StepSetStatus(w, s, p) ==
  /\ SetStatus(w, s, p)
  /\ UNCHANGED <<row, evidence, outcome, kind, num, snap, verdict, round,
                 turns, crashes, streamVars, claims>>

-----------------------------------------------------------------------------
(***************************************************************************)
(* A launcher.                                                             *)
(***************************************************************************)

(* The endpoint sees a queued run and adds the background task.            *)
Accept(l) == pc[l] = "idle" /\ row.status = "queued" /\ Step(l, "accepted")

(* Budgets, identity or task refused before the claim: the run stays queued. *)
RefuseLaunch(l) == pc[l] = "accepted" /\ Step(l, "done")

(* Store.claim_run takes a queued run only.                                *)
Claimable == row.status = "queued"

(* Store.claim_run is one transaction; the winner appends run_started.     *)
Claim(l) ==
  /\ pc[l] = "accepted"
  /\ Claimable
  /\ row' = [row EXCEPT !.status = "running"]
  /\ claims' = claims \cup {l}
  /\ Append(l, "run_started", "bindread")
  /\ UNCHANGED <<evidence, outcome, num, snap, want, verdict, round, turns,
                 crashes, streamVars>>

LoseClaim(l) == pc[l] = "accepted" /\ ~Claimable /\ Step(l, "done")

(* The identity is added to the row that was read after the claim.         *)
BindRead(l)  == pc[l] = "bindread" /\ ReadRow(l, "bindwrite")
BindWrite(l) ==
  /\ pc[l] = "bindwrite"
  /\ WriteRow(l, [snap[l] EXCEPT !.bound = TRUE], "enter")

(* make_provider is outside every handler: the task dies, the row stays.   *)
ProviderRaises(l) ==
  ProviderMayRaise /\ pc[l] = "enter" /\ Step(l, "done")

(* Building the runtime fails: the same handler as a failing driver.       *)
SetupFails(l) == pc[l] = "enter" /\ StepAppend(l, "run_failed", "checkfail")

Enter(l) ==
  /\ pc[l] = "enter"
  /\ Step(l, IF row.status = "running" THEN "driving" ELSE "reconcile")

DriverResponds(l) ==
  /\ pc[l] = "driving"
  /\ turns < MaxTurns
  /\ turns' = turns + 1
  /\ Append(l, "model_response", "driving")
  /\ UNCHANGED <<row, evidence, outcome, num, snap, want, verdict, round,
                 crashes, streamVars, claims>>

DriverReturns(l) == pc[l] = "driving" /\ Step(l, "driven")
DriverRaises(l)  == pc[l] = "driving" /\ StepAppend(l, "run_failed", "checkfail")

CheckCancelled(l) ==
  /\ pc[l] = "driven"
  /\ Step(l, IF row.status = "cancelled" THEN "reconcile" ELSE "evaluating")

(* record_trusted_outcome needs the id of a model response: with none on   *)
(* record it raises.                                                       *)
Evaluated(l, v, r) ==
  /\ Has("model_response")
  /\ verdict' = [verdict EXCEPT ![l] = v]
  /\ round' = [round EXCEPT ![l] = r]
  /\ Append(l, "trusted_outcome", "recording")
  /\ UNCHANGED <<row, evidence, outcome, num, snap, want, turns, crashes,
                 streamVars, claims>>

(* Mutant: the status is written before the outcome is recorded.           *)
Evaluate_StatusFirst(l, v) ==
  /\ pc[l] = "evaluating"
  /\ verdict' = [verdict EXCEPT ![l] = v]
  /\ SetStatus(l, v, "recording")
  /\ UNCHANGED <<row, evidence, outcome, kind, num, snap, round, turns, crashes,
                 streamVars, claims>>

Evaluate(l, v) == pc[l] = "evaluating" /\ Evaluated(l, v, "finish")

(* The evaluator raises, or no response is on record.                      *)
EvaluateRaises(l) ==
  pc[l] = "evaluating" /\ StepAppend(l, "run_failed", "checkfail")

(* record_outcome replaces the run's row of outcomes.                      *)
RecordOutcome(l) ==
  /\ pc[l] = "recording"
  /\ outcome' = verdict[l]
  /\ Goto(l, "confirm")
  /\ UNCHANGED <<row, evidence, local, turns, crashes, streamVars, claims>>

(* It appends a trusted_outcome event of its own when it finds none.       *)
AppendMissing(l) ==
  /\ pc[l] = "confirm"
  /\ ~Has("trusted_outcome")
  /\ StepAppend(l, "trusted_outcome", "confirmed")

(* record_outcome returns.                                                 *)
Recorded(l) == pc[l] = "confirmed" \/ (pc[l] = "confirm" /\ Has("trusted_outcome"))

(* Mutant: the evaluation after a failed run writes the status again.      *)
Confirmed_StatusEveryRound(l) ==
  /\ Recorded(l)
  /\ StepSetStatus(l, verdict[l], IF round[l] = "finish" THEN "reconcile" ELSE "account")

(* Then execute_run writes the status of the verdict; the evaluation after *)
(* a failed run records its outcome a second time and is over.             *)
Confirmed(l) ==
  /\ Recorded(l)
  /\ \/ round[l] = "finish" /\ StepSetStatus(l, verdict[l], "reconcile")
     \/ /\ round[l] = "reconcile"
        /\ round' = [round EXCEPT ![l] = "again"]
        /\ Goto(l, "recording")
        /\ UNCHANGED <<row, evidence, outcome, cont, kind, num, snap, want,
                       verdict, turns, crashes, streamVars, claims>>
     \/ round[l] = "again" /\ Step(l, "account")

(* Mutant: the failure is recorded as an event only.                       *)
FailUnlessCancelled_EventOnly(l) == pc[l] = "checkfail" /\ Step(l, "reconcile")

(* After run_failed: a cancelled run keeps its status.                     *)
FailUnlessCancelled(l) ==
  /\ pc[l] = "checkfail"
  /\ \/ row.status = "cancelled" /\ Step(l, "reconcile")
     \/ row.status # "cancelled" /\ StepSetStatus(l, "failed", "reconcile")

(* DurableRuntime._execute_run evaluates a failed run (again) when a model *)
(* response is on record.                                                  *)
Reconcile(l) ==
  /\ pc[l] = "reconcile"
  /\ Step(l, IF row.status = "failed" /\ Has("model_response")
             THEN "reevaluating" ELSE "account")

Reevaluate(l, v) == pc[l] = "reevaluating" /\ Evaluated(l, v, "reconcile")

(* Outside every handler but the `finally` that binds the accounting.      *)
ReevaluateRaises(l) == pc[l] = "reevaluating" /\ Step(l, "account")

AccountRead(l) ==
  /\ pc[l] = "account"
  /\ \/ ~row.accounted /\ Has("model_response") /\ ReadRow(l, "accountwrite")
     \/ ~(~row.accounted /\ Has("model_response")) /\ Step(l, "done")

AccountWrite(l) ==
  /\ pc[l] = "accountwrite"
  /\ WriteRow(l, [snap[l] EXCEPT !.accounted = TRUE], "done")

Launch(l) ==
  \/ RefuseLaunch(l) \/ Claim(l) \/ LoseClaim(l)
  \/ BindRead(l) \/ BindWrite(l)
  \/ ProviderRaises(l) \/ SetupFails(l) \/ Enter(l)
  \/ DriverResponds(l) \/ DriverReturns(l) \/ DriverRaises(l)
  \/ CheckCancelled(l)
  \/ \E v \in Verdicts : Evaluate(l, v) \/ Reevaluate(l, v)
  \/ EvaluateRaises(l) \/ RecordOutcome(l) \/ AppendMissing(l) \/ Confirmed(l)
  \/ FailUnlessCancelled(l)
  \/ Reconcile(l) \/ ReevaluateRaises(l)
  \/ AccountRead(l) \/ AccountWrite(l)

-----------------------------------------------------------------------------
(***************************************************************************)
(* Cancellers and approvers.                                               *)
(***************************************************************************)

(* cancel_run looks at the status, then _set_run_status reads the row      *)
(* again.  The status is written before the event.                         *)
Cancel(c) ==
  /\ pc[c] = "idle"
  /\ \/ row.status \in Terminal /\ Step(c, "done")
     \/ row.status \notin Terminal /\ StepSetStatus(c, "cancelled", "announce")

AnnounceCancel(c) ==
  pc[c] = "announce" /\ StepAppend(c, "run_cancelled", "done")

Approve(a) == pc[a] = "idle" /\ StepAppend(a, "approval", "done")

-----------------------------------------------------------------------------
(***************************************************************************)
(* Streams.                                                                *)
(***************************************************************************)

(* Evaluator-only events are not shown.                                    *)
Visible(e) == e.kind # "trusted_outcome"

Unread(s) == {e \in evidence : e.seq > cursor[s] /\ Visible(e)}

(* Send every event past the cursor, in order.                             *)
Send(s) ==
  LET es == Unread(s) IN
  /\ delivered' = [delivered EXCEPT ![s] = @ \cup es]
  /\ \/ es = {} /\ cursor' = cursor
     \/ \E last \in es : /\ \A e \in es : e.seq <= last.seq
                         /\ cursor' = [cursor EXCEPT ![s] = last.seq]
  /\ progressed' = [progressed EXCEPT ![s] = es # {}]

StreamRead(s) ==
  /\ spc[s] = "reading"
  /\ Send(s)
  /\ spc' = [spc EXCEPT ![s] = "checking"]
  /\ UNCHANGED <<row, evidence, outcome, pc, local, turns, crashes, claims>>

(* Mutant: the API stream ends only on a read that found something.        *)
AfterCheck_Inverted(s) ==
  IF row.status \notin Terminal \/ ~progressed[s] THEN "reading" ELSE "ended"

(* On a terminal status: over when the read before it found nothing; else  *)
(* the library drains once and the API reads on.                           *)
AfterCheck(s) ==
  IF row.status \notin Terminal THEN "reading"
  ELSE IF ~progressed[s] THEN "ended"
  ELSE IF s \in LibraryStreams THEN "draining" ELSE "reading"

StreamCheck(s) ==
  /\ spc[s] = "checking"
  /\ spc' = [spc EXCEPT ![s] = AfterCheck(s)]
  /\ UNCHANGED <<row, evidence, outcome, pc, local, turns, crashes, cursor,
                 progressed, delivered, claims>>

StreamDrain(s) ==
  /\ spc[s] = "draining"
  /\ Send(s)
  /\ spc' = [spc EXCEPT ![s] = "ended"]
  /\ UNCHANGED <<row, evidence, outcome, pc, local, turns, crashes, claims>>

Stream(s) == StreamRead(s) \/ StreamCheck(s) \/ StreamDrain(s)

-----------------------------------------------------------------------------
(* The process dies: threads are gone, tables stay, and the clients of the *)
(* streams reconnect with the cursor they have.                            *)
Crash ==
  /\ crashes < MaxCrashes
  /\ crashes' = crashes + 1
  /\ pc' = [w \in Workers |-> IF pc[w] \in {"idle", "done"} THEN pc[w] ELSE "dead"]
  /\ spc' = [s \in Streams |-> IF spc[s] = "ended" THEN "ended" ELSE "reading"]
  /\ UNCHANGED <<row, evidence, outcome, local, turns, cursor, progressed,
                 delivered, claims>>

Next ==
  \/ \E l \in Launchers : Accept(l) \/ Launch(l)
  \/ \E c \in Cancellers : Cancel(c) \/ AnnounceCancel(c)
  \/ \E a \in Approvers : Approve(a)
  \/ \E w \in Workers : Helper(w)
  \/ \E s \in Streams : Stream(s)
  \/ Crash

Spec == Init /\ [][Next]_vars

(* A thread that has started goes on; a stream keeps polling.  Nothing     *)
(* makes a client launch, cancel, approve, or a process crash.             *)
Fairness ==
  /\ \A l \in Launchers : WF_vars(Launch(l))
  /\ \A c \in Cancellers : WF_vars(AnnounceCancel(c))
  /\ \A w \in Workers : WF_vars(Helper(w))
  /\ \A s \in Streams : WF_vars(Stream(s))

FairSpec == Spec /\ Fairness

-----------------------------------------------------------------------------
(***************************************************************************)
(* Properties.                                                             *)
(***************************************************************************)

(* Every variable keeps to its type.                                       *)
TypeOK ==
  /\ row \in RunRow
  /\ evidence \subseteq Event
  /\ outcome \in Verdicts \cup {None}
  /\ pc \in [Workers -> Places]
  /\ cont \in [Workers -> Places]
  /\ kind \in [Workers -> Kinds \cup {None}]
  /\ num \in [Workers -> Nat]
  /\ snap \in [Workers -> RunRow \cup {None}]
  /\ want \in [Workers -> Statuses \cup {None}]
  /\ verdict \in [Workers -> Verdicts \cup {None}]
  /\ round \in [Workers -> Rounds]
  /\ turns \in 0..MaxTurns
  /\ crashes \in 0..MaxCrashes
  /\ spc \in [Streams -> {"reading", "checking", "draining", "ended"}]
  /\ cursor \in [Streams -> Nat]
  /\ progressed \in [Streams -> BOOLEAN]
  /\ delivered \in [Streams -> SUBSET Event]
  /\ claims \subseteq Launchers

(* The run is claimed by one launcher at most, although cancellers write   *)
(* whole rows back that they read before the claim, and across a crash.    *)
ExecutedAtMostOnce == Cardinality(claims) <= 1

(* A run that reads succeeded has a passed trusted outcome, whoever wrote  *)
(* the row last: SPEC.md asks that success never rests on the agent's own  *)
(* completion claim.                                                       *)
SuccessNeedsPassedOutcome == row.status = "succeeded" => outcome = "succeeded"

(* One execution, and success only over its passed outcome, on well-formed *)
(* tables.                                                                 *)
ExecutionIsSound == TypeOK /\ ExecutedAtMostOnce /\ SuccessNeedsPassedOutcome

(* The verdict of a run is final but for a cancellation in flight: it      *)
(* never turns into the other verdict and never goes back to running.      *)
VerdictIsFinal ==
  [][row.status \in Verdicts => row'.status \in {row.status, "cancelled"}]_vars

(* A run cancelled before any launcher claimed it is never executed.       *)
CancelledUnclaimedStays ==
  [][row.status = "cancelled" /\ claims = {} =>
       row'.status = "cancelled" /\ claims' = {}]_vars

(* What was decided of a run stays decided: its verdict, and that it is    *)
(* never to execute.                                                       *)
StatusIsFinal == VerdictIsFinal /\ CancelledUnclaimedStays

(* A run that was taken up reaches a terminal status, whatever raises in   *)
(* the driver, the runtime or the evaluator and whoever cancels.           *)
ClaimedRunTerminates == (row.status = "running") ~> (row.status \in Terminal)

(* A stream of a run that was taken up ends.                               *)
StreamsEnd == \A s \in Streams : (row.status = "running") ~> (spc[s] = "ended")

-----------------------------------------------------------------------------
(***************************************************************************)
(* What documents and tests say and the code does not do.                  *)
(***************************************************************************)

(* tests/test_api.py:957 test_durable_cancelled_run_cannot_be_reopened:    *)
(* the launcher writes back the row it read before the cancellation.       *)
CancelledStaysCancelled ==
  [][row.status = "cancelled" => row'.status = "cancelled"]_vars

(* SPEC.md:223 evidence is append-only: a row written back takes the       *)
(* sequence number back with it, and a later event replaces an earlier one.*)
EvidenceIsAppendOnly == [][evidence \subseteq evidence']_vars
=============================================================================
