------------------------ MODULE RunLifecycle_proofs ------------------------
(***************************************************************************)
(* The safety of a run's life, for any number of launchers, cancellers,    *)
(* approvers, streams, turns and crashes.                                  *)
(***************************************************************************)
EXTENDS RunLifecycle, FiniteSetTheorems, TLAPS

Appending == {"take", "insert"}
Setting == {"setread", "setwrite"}
Writing == {"setwrite", "bindwrite", "accountwrite"}

(* Where a worker is, or where the append it is in returns to.             *)
At(w) == IF pc[w] \in Appending THEN cont[w] ELSE pc[w]

Reporting == {"recording", "confirm", "confirmed"}

(* A launcher that has not written a verdict: it has just claimed the run, *)
(* it drives or evaluates it, or it is writing its verdict.                *)
Unwritten(l) ==
  \/ At(l) \in {"bindread", "bindwrite", "enter", "driving", "driven",
                "evaluating", "checkfail"} \cup Setting
  \/ At(l) \in Reporting /\ round[l] = "finish"

(* A launcher in the evaluation that follows a failed run.                 *)
Again(l) ==
  \/ At(l) = "reevaluating"
  \/ At(l) \in Reporting /\ round[l] # "finish"

Closing == {"reconcile", "account", "accountwrite"}

LauncherPlaces == {"idle", "accepted", "done", "dead"} \cup Closing

(* The places of each kind of worker, and what it holds there.             *)
Places_OK ==
  /\ \A l \in Launchers :
       At(l) \in LauncherPlaces \/ Unwritten(l) \/ Again(l)
  /\ \A c \in Cancellers :
       /\ At(c) \in {"idle", "announce", "done", "dead"} \cup Setting
       /\ pc[c] \in Setting => want[c] = "cancelled" /\ cont[c] = "announce"
  /\ \A a \in Approvers : At(a) \in {"idle", "done", "dead"}

Held_OK ==
  \A w \in Workers :
    /\ pc[w] \in Appending => /\ kind[w] \in Kinds
                              /\ cont[w] \notin Appending \cup Setting \cup Writing
    /\ pc[w] \in Setting => want[w] \in Terminal
    /\ pc[w] \in Setting /\ w \in Launchers =>
         want[w] \in Verdicts /\ cont[w] = "reconcile"
    /\ pc[w] \in Writing => snap[w] \in RunRow
    /\ At(w) \in Reporting => verdict[w] \in Verdicts

ShapeInv == TypeOK /\ Places_OK /\ Held_OK

USE LifecycleAssumption
USE DEF Workers, Verdicts, Terminal, Statuses, Kinds, Places, Rounds, Appending, Setting, Writing,
        Reporting, Closing, LauncherPlaces, Places_OK, Held_OK

LEMMA InitShape == Init => ShapeInv
BY DEF Init, ShapeInv, TypeOK, At, Unwritten, Again, RunRow, Event

(* One lemma per kind of step.  A step that only moves a worker on.        *)
PlaceFits(w, p) ==
  /\ p \in Places \ (Appending \cup Setting \cup Writing)
  /\ p \in Reporting => verdict[w] \in Verdicts
  /\ w \in Launchers =>
       \/ p \in LauncherPlaces
       \/ p \in {"bindread", "enter", "driving", "driven", "evaluating", "checkfail",
                 "reevaluating"}
       \/ p \in Reporting
  /\ w \in Cancellers => p \in {"announce", "done", "dead"}
  /\ w \in Approvers => p \in {"done", "dead"}

LEMMA StepShape ==
  ASSUME ShapeInv, NEW w \in Workers, NEW p, PlaceFits(w, p), Step(w, p)
  PROVE  ShapeInv'
<1> USE DEF ShapeInv, TypeOK, PlaceFits, Step, Goto, local, streamVars
<1>1. TypeOK'
  OBVIOUS
<1>2. \A x \in Workers \ {w} : At(x)' = At(x) /\ round'[x] = round[x]
  BY DEF At
<1>3. At(w)' = p
  BY DEF At
<1>4. Places_OK'
  BY <1>2, <1>3 DEF Unwritten, Again
<1>5. Held_OK'
  BY <1>2, <1>3 DEF At
<1> QED BY <1>1, <1>4, <1>5

LEMMA AppendShape ==
  ASSUME ShapeInv, NEW w \in Workers, NEW p, NEW k \in Kinds, PlaceFits(w, p),
         StepAppend(w, k, p)
  PROVE  ShapeInv'
<1> USE DEF ShapeInv, TypeOK, PlaceFits, StepAppend, Append, Goto, local, streamVars
<1>1. TypeOK'
  OBVIOUS
<1>2. \A x \in Workers \ {w} : At(x)' = At(x) /\ round'[x] = round[x]
  BY DEF At
<1>3. At(w)' = p
  BY DEF At
<1>4. Places_OK'
  BY <1>2, <1>3 DEF Unwritten, Again
<1>5. Held_OK'
  BY <1>2, <1>3 DEF At
<1> QED BY <1>1, <1>4, <1>5

LEMMA SetStatusShape ==
  ASSUME ShapeInv, NEW w \in Launchers \cup Cancellers, NEW s, NEW p,
         IF w \in Launchers THEN s \in Verdicts /\ p = "reconcile"
                            ELSE s = "cancelled" /\ p = "announce",
         StepSetStatus(w, s, p)
  PROVE  ShapeInv'
<1> USE DEF ShapeInv, TypeOK, StepSetStatus, SetStatus, Goto, local, streamVars
<1>1. TypeOK'
  OBVIOUS
<1>2. \A x \in Workers \ {w} : At(x)' = At(x) /\ round'[x] = round[x]
  BY DEF At
<1>3. At(w)' = "setread"
  BY DEF At
<1>4. Places_OK'
  BY <1>2, <1>3 DEF Unwritten, Again
<1>5. Held_OK'
  BY <1>2, <1>3 DEF At
<1> QED BY <1>1, <1>4, <1>5

LEMMA ReadRowShape ==
  ASSUME ShapeInv, NEW w \in Workers, NEW p,
         \/ pc[w] = "setread" /\ p = "setwrite"
         \/ w \in Launchers /\ p \in {"bindwrite", "accountwrite"},
         ReadRow(w, p)
  PROVE  ShapeInv'
<1> USE DEF ShapeInv, TypeOK, ReadRow, Goto, local, streamVars
<1>1. TypeOK'
  OBVIOUS
<1>2. \A x \in Workers \ {w} : At(x)' = At(x) /\ round'[x] = round[x]
  BY DEF At
<1>3. At(w)' = p /\ (pc[w] = "setread" => At(w) = "setread")
  BY DEF At
<1>4. Places_OK'
  BY <1>2, <1>3 DEF Unwritten, Again
<1>5. Held_OK'
  BY <1>2, <1>3 DEF At
<1> QED BY <1>1, <1>4, <1>5

LEMMA WriteRowShape ==
  ASSUME ShapeInv, NEW w \in Workers, NEW r \in RunRow, NEW p, PlaceFits(w, p),
         WriteRow(w, r, p)
  PROVE  ShapeInv'
<1> USE DEF ShapeInv, TypeOK, PlaceFits, WriteRow, Goto, local, streamVars
<1>1. TypeOK'
  OBVIOUS
<1>2. \A x \in Workers \ {w} : At(x)' = At(x) /\ round'[x] = round[x]
  BY DEF At
<1>3. At(w)' = p
  BY DEF At
<1>4. Places_OK'
  BY <1>2, <1>3 DEF Unwritten, Again
<1>5. Held_OK'
  BY <1>2, <1>3 DEF At
<1> QED BY <1>1, <1>4, <1>5

LEMMA HelperShape ==
  ASSUME ShapeInv, NEW w \in Workers, Helper(w)
  PROVE  ShapeInv'
<1>1. CASE TakeSequence(w)
  <2> USE <1>1 DEF ShapeInv, TypeOK, TakeSequence, Goto, local, streamVars
  <2>1. TypeOK'
    BY DEF RunRow
  <2>2. \A x \in Workers : At(x)' = At(x) /\ round'[x] = round[x]
    BY DEF At
  <2>3. Places_OK'
    BY <2>2 DEF Unwritten, Again
  <2>4. Held_OK'
    BY <2>2
  <2> QED BY <2>1, <2>3, <2>4
<1>2. CASE InsertEvent(w)
  <2> USE <1>2 DEF ShapeInv, TypeOK, InsertEvent, StoreEvent, Goto, local, streamVars
  <2>1. TypeOK'
    BY DEF Event
  <2>2. \A x \in Workers : At(x)' = At(x) /\ round'[x] = round[x]
    BY DEF At
  <2>3. Places_OK'
    BY <2>2 DEF Unwritten, Again
  <2>4. Held_OK'
    BY <2>2
  <2> QED BY <2>1, <2>3, <2>4
<1>3. CASE SetRead(w)
  BY <1>3, ReadRowShape DEF SetRead
<1>4. CASE SetWrite(w)
  <2> USE <1>4 DEF SetWrite, ShapeInv, TypeOK
  <2>1. w \in Launchers \cup Cancellers
    BY DEF At
  <2>2. PlaceFits(w, cont[w])
    BY <2>1 DEF PlaceFits, At, Unwritten, Again
  <2>3. [snap[w] EXCEPT !.status = want[w]] \in RunRow
    BY DEF RunRow
  <2> QED BY <2>2, <2>3, WriteRowShape
<1> QED BY <1>1, <1>2, <1>3, <1>4 DEF Helper

LEMMA CancelShape ==
  ASSUME ShapeInv, NEW c \in Cancellers, Cancel(c) \/ AnnounceCancel(c)
  PROVE  ShapeInv'
<1>1. PlaceFits(c, "done")
  BY DEF PlaceFits
<1> QED BY <1>1, StepShape, AppendShape, SetStatusShape DEF Cancel, AnnounceCancel

LEMMA ApproveShape ==
  ASSUME ShapeInv, NEW a \in Approvers, Approve(a)
  PROVE  ShapeInv'
BY AppendShape DEF Approve, PlaceFits

LEMMA StreamShape ==
  ASSUME ShapeInv, \E s \in Streams : Stream(s)
  PROVE  ShapeInv'
<1> PICK s \in Streams : Stream(s)
  OBVIOUS
<1> USE DEF ShapeInv, TypeOK
<1>1. ASSUME Send(s)
      PROVE  /\ progressed' \in [Streams -> BOOLEAN]
             /\ delivered' \in [Streams -> SUBSET Event]
             /\ cursor' \in [Streams -> Nat]
  BY <1>1 DEF Send, Unread, Event
<1>2. CASE StreamRead(s)
  BY <1>1, <1>2 DEF StreamRead, local, At, Unwritten, Again
<1>3. CASE StreamCheck(s)
  BY <1>3 DEF StreamCheck, AfterCheck, local, At, Unwritten, Again
<1>4. CASE StreamDrain(s)
  BY <1>1, <1>4 DEF StreamDrain, local, At, Unwritten, Again
<1> QED BY <1>2, <1>3, <1>4 DEF Stream

LEMMA CrashShape == ShapeInv /\ Crash => ShapeInv'
<1> SUFFICES ASSUME ShapeInv, Crash PROVE ShapeInv'
  OBVIOUS
<1> USE DEF ShapeInv, TypeOK, Crash, local
<1>1. TypeOK'
  OBVIOUS
<1>2. \A w \in Workers : /\ pc'[w] \in {"idle", "done", "dead"}
                          /\ At(w)' \in {"idle", "done", "dead"}
  BY DEF At
<1>3. Places_OK'
  BY <1>2
<1>4. Held_OK'
  BY <1>2
<1> QED BY <1>1, <1>3, <1>4

LEMMA ClaimShape ==
  ASSUME ShapeInv, NEW l \in Launchers, Claim(l)
  PROVE  ShapeInv'
<1> USE DEF ShapeInv, TypeOK, Claim, Append, Goto, streamVars
<1>1. TypeOK'
  BY DEF RunRow
<1>2. \A x \in Workers \ {l} : At(x)' = At(x) /\ round'[x] = round[x]
  BY DEF At
<1>3. At(l)' = "bindread"
  BY DEF At
<1>4. Places_OK'
  BY <1>2, <1>3 DEF Unwritten, Again
<1>5. Held_OK'
  BY <1>2, <1>3 DEF At
<1> QED BY <1>1, <1>4, <1>5

LEMMA RespondShape ==
  ASSUME ShapeInv, NEW l \in Launchers, DriverResponds(l)
  PROVE  ShapeInv'
<1> USE DEF ShapeInv, TypeOK, DriverResponds, Append, Goto, streamVars
<1>1. TypeOK'
  OBVIOUS
<1>2. \A x \in Workers \ {l} : At(x)' = At(x) /\ round'[x] = round[x]
  BY DEF At
<1>3. At(l)' = "driving"
  BY DEF At
<1>4. Places_OK'
  BY <1>2, <1>3 DEF Unwritten, Again
<1>5. Held_OK'
  BY <1>2, <1>3 DEF At
<1> QED BY <1>1, <1>4, <1>5

LEMMA EvaluatedShape ==
  ASSUME ShapeInv, NEW l \in Launchers, NEW v \in Verdicts, NEW r \in Rounds,
         Evaluated(l, v, r)
  PROVE  ShapeInv'
<1> USE DEF ShapeInv, TypeOK, Evaluated, Append, Goto, streamVars
<1>1. TypeOK'
  OBVIOUS
<1>2. \A x \in Workers \ {l} : At(x)' = At(x) /\ round'[x] = round[x]
  BY DEF At
<1>3. At(l)' = "recording" /\ verdict'[l] = v
  BY DEF At
<1>4. Places_OK'
  BY <1>2, <1>3 DEF Unwritten, Again
<1>5. Held_OK'
  BY <1>2, <1>3 DEF At
<1> QED BY <1>1, <1>4, <1>5

LEMMA RecordShape ==
  ASSUME ShapeInv, NEW l \in Launchers,
         \/ RecordOutcome(l)
         \/ /\ Recorded(l) /\ round[l] = "reconcile"
            /\ round' = [round EXCEPT ![l] = "again"]
            /\ Goto(l, "recording")
            /\ UNCHANGED <<row, evidence, outcome, cont, kind, num, snap, want,
                           verdict, turns, crashes, streamVars, claims>>
  PROVE  ShapeInv'
<1> USE DEF ShapeInv, TypeOK, RecordOutcome, Recorded, Goto, local, streamVars
<1>1. At(l) \in Reporting
  BY DEF At
<1>2. TypeOK'
  BY <1>1
<1>3. \A x \in Workers \ {l} : At(x)' = At(x) /\ round'[x] = round[x]
  BY DEF At
<1>4. At(l)' \in Reporting /\ pc'[l] \notin Appending \cup Setting \cup Writing
  BY DEF At
<1>5. Places_OK'
  BY <1>3, <1>4 DEF Unwritten, Again
<1>6. Held_OK'
  BY <1>1, <1>3, <1>4 DEF At
<1> QED BY <1>2, <1>5, <1>6

LEMMA LaunchShape ==
  ASSUME ShapeInv, NEW l \in Launchers, Accept(l) \/ Launch(l)
  PROVE  ShapeInv'
<1>1. /\ l \notin Cancellers /\ l \notin Approvers
      /\ \A p \in {"accepted", "done", "bindread", "enter", "driving", "driven",
                   "evaluating", "checkfail", "reconcile", "reevaluating", "account"} :
           PlaceFits(l, p)
  BY DEF PlaceFits
<1>2. CASE \/ Accept(l) \/ RefuseLaunch(l) \/ LoseClaim(l) \/ ProviderRaises(l)
           \/ Enter(l) \/ DriverReturns(l) \/ CheckCancelled(l) \/ Reconcile(l)
           \/ ReevaluateRaises(l)
  BY <1>1, <1>2, StepShape
  DEF Accept, RefuseLaunch, LoseClaim, ProviderRaises, Enter, DriverReturns,
      CheckCancelled, Reconcile, ReevaluateRaises
<1>3. CASE Claim(l) \/ DriverResponds(l)
  BY <1>3, ClaimShape, RespondShape
<1>4. CASE SetupFails(l) \/ DriverRaises(l) \/ EvaluateRaises(l)
  BY <1>1, <1>4, AppendShape DEF SetupFails, DriverRaises, EvaluateRaises
<1>5. CASE BindRead(l) \/ AccountRead(l)
  BY <1>1, <1>5, StepShape, ReadRowShape DEF BindRead, AccountRead
<1>6. CASE BindWrite(l) \/ AccountWrite(l)
  <2>1. /\ [snap[l] EXCEPT !.bound = TRUE] \in RunRow
        /\ [snap[l] EXCEPT !.accounted = TRUE] \in RunRow
    BY <1>6, ZenonT(40) DEF BindWrite, AccountWrite, ShapeInv, RunRow
  <2> QED BY <1>1, <1>6, <2>1, WriteRowShape DEF BindWrite, AccountWrite
<1>7. CASE \E v \in Verdicts : Evaluate(l, v) \/ Reevaluate(l, v)
  BY <1>7, EvaluatedShape DEF Evaluate, Reevaluate
<1>8. CASE RecordOutcome(l)
  BY <1>8, RecordShape
<1>9. CASE AppendMissing(l)
  <2>1. PlaceFits(l, "confirmed")
    BY <1>1, <1>9 DEF AppendMissing, PlaceFits, ShapeInv, At
  <2> QED BY <1>9, <2>1, AppendShape DEF AppendMissing
<1>10. CASE Confirmed(l)
  <2>1. verdict[l] \in Verdicts
    BY <1>10 DEF Confirmed, Recorded, ShapeInv, At
  <2> QED BY <1>1, <1>10, <2>1, RecordShape, SetStatusShape, StepShape DEF Confirmed
<1>11. CASE FailUnlessCancelled(l)
  BY <1>1, <1>11, StepShape, SetStatusShape DEF FailUnlessCancelled
<1> QED BY <1>2, <1>3, <1>4, <1>5, <1>6, <1>7, <1>8, <1>9, <1>10, <1>11 DEF Launch

LEMMA NextShape == ShapeInv /\ [Next]_vars => ShapeInv'
<1> SUFFICES ASSUME ShapeInv, [Next]_vars PROVE ShapeInv'
  OBVIOUS
<1>1. CASE UNCHANGED vars
  BY <1>1 DEF vars, local, streamVars, ShapeInv, TypeOK, At, Unwritten, Again
<1>2. CASE Next
  BY <1>2, LaunchShape, CancelShape, ApproveShape, HelperShape, StreamShape, CrashShape
  DEF Next
<1> QED BY <1>1, <1>2

(* Every variable keeps to its type.                                       *)
THEOREM TypeCorrect == Spec => []TypeOK
<1>1. ShapeInv => TypeOK
  BY DEF ShapeInv
<1> QED BY <1>1, InitShape, NextShape, PTL DEF Spec

-----------------------------------------------------------------------------
(***************************************************************************)
(* One claim, and success only over a passed outcome.                      *)
(***************************************************************************)
Outside == {"idle", "accepted", "done", "dead"}

(* Inside its launch a launcher holds the claim.  Until it has written its *)
(* verdict the run has none, and in the evaluation that follows a failed   *)
(* run it has not succeeded; the rows it writes back carry no other verdict*)
(* than the run has, and no success without its outcome.                   *)
SafeAt(l) ==
  /\ At(l) \notin Outside => l \in claims
  /\ Unwritten(l) => row.status \notin Verdicts
  /\ Again(l) => row.status # "succeeded"
  /\ pc[l] \in Setting /\ want[l] = "succeeded" => outcome = "succeeded"
  /\ At(l) \in {"confirm", "confirmed"} => outcome = verdict[l]
  /\ pc[l] = "bindwrite" => snap[l].status \notin Verdicts \cup {"queued"}
  /\ pc[l] = "accountwrite" =>
       /\ snap[l].status # "queued"
       /\ snap[l].status = "succeeded" => outcome = "succeeded"
       /\ row.status \in Verdicts => snap[l].status = row.status

OneClaim == \A l, m \in claims : l = m

SafetyInv ==
  /\ OneClaim
  /\ claims # {} => row.status # "queued"
  /\ row.status = "succeeded" => outcome = "succeeded"
  /\ \A l \in Launchers : SafeAt(l)

(* What a step may do to the status.                                       *)
StatusStep ==
  /\ row.status \in Verdicts => row'.status \in {row.status, "cancelled"}
  /\ row.status = "cancelled" /\ claims = {} =>
       row'.status = "cancelled" /\ claims' = {}

USE DEF Outside

LEMMA InitSafety == Init => SafetyInv
BY DEF Init, SafetyInv, SafeAt, OneClaim, At, Unwritten, Again

(* Somebody else's step: the launcher is where it was, and its run was     *)
(* cancelled at worst.                                                     *)
LEMMA FrameSafety ==
  ASSUME ShapeInv, SafetyInv, claims' = claims, outcome' = outcome,
         row'.status \in {row.status, "cancelled"},
         \A l \in Launchers :
           /\ At(l)' = At(l) /\ round'[l] = round[l] /\ verdict'[l] = verdict[l]
           /\ pc'[l] \in Setting \cup Writing =>
                pc'[l] = pc[l] /\ snap'[l] = snap[l] /\ want'[l] = want[l]
  PROVE  SafetyInv' /\ StatusStep
<1>1. ASSUME NEW l \in Launchers
      PROVE  SafeAt(l)'
  <2>1. SafeAt(l)
    BY DEF SafetyInv
  <2>2. (Unwritten(l)' <=> Unwritten(l)) /\ (Again(l)' <=> Again(l))
    BY DEF Unwritten, Again
  <2> QED BY <2>1, <2>2 DEF SafeAt
<1>2. /\ row.status = "queued" \/ row'.status # "queued"
      /\ row'.status = "succeeded" => row.status = "succeeded"
  OBVIOUS
<1> QED BY <1>1, <1>2 DEF SafetyInv, StatusStep, OneClaim

(* A launcher's own step inside its launch: nobody else is in one.         *)
LEMMA LauncherSafety ==
  ASSUME ShapeInv, SafetyInv, NEW l \in Launchers, l \in claims, claims' = claims,
         \A x \in Launchers \ {l} : At(x)' = At(x) /\ pc'[x] = pc[x],
         row'.status # "queued",
         row'.status = "succeeded" => outcome' = "succeeded",
         row.status \in Verdicts => row'.status \in {row.status, "cancelled"},
         SafeAt(l)'
  PROVE  SafetyInv' /\ StatusStep
<1>1. ASSUME NEW x \in Launchers, x # l
      PROVE  SafeAt(x)'
  <2>1. At(x) \in Outside
    BY <1>1 DEF SafetyInv, SafeAt, OneClaim
  <2>2. At(x)' \in Outside /\ pc'[x] \notin Setting \cup Writing
    BY <1>1, <2>1 DEF At
  <2>3. ~Unwritten(x)' /\ ~Again(x)'
    BY <2>2 DEF Unwritten, Again
  <2> QED BY <2>2, <2>3 DEF SafeAt
<1> QED BY <1>1 DEF SafetyInv, StatusStep, OneClaim

(* A launcher's step that leaves the row's status and the outcome alone.   *)
LEMMA MoveSafety ==
  ASSUME ShapeInv, SafetyInv, NEW l \in Launchers, l \in claims,
         NEW p, p \notin {"take", "insert", "bindwrite", "accountwrite"},
         At(l)' = p, pc'[l] = p \/ pc'[l] = "take",
         row' = row, outcome' = outcome, claims' = claims,
         \A x \in Launchers \ {l} : At(x)' = At(x) /\ pc'[x] = pc[x],
         Unwritten(l)' => row.status \notin Verdicts,
         Again(l)' => row.status # "succeeded",
         p \in Setting => (want'[l] = "succeeded" => outcome = "succeeded"),
         p \in {"confirm", "confirmed"} => outcome = verdict'[l]
  PROVE  SafetyInv' /\ StatusStep
<1>1. SafeAt(l)'
  BY DEF SafeAt
<1>2. row.status # "queued" /\ (row.status = "succeeded" => outcome = "succeeded")
  BY DEF SafetyInv
<1> QED BY <1>1, <1>2, LauncherSafety

(* Where the launcher's own steps lead.                                    *)
LEMMA MovesAt ==
  ASSUME ShapeInv, NEW l \in Launchers, NEW p,
         p \notin Appending \cup Setting \cup Writing,
         \/ Step(l, p)
         \/ \E k \in Kinds : StepAppend(l, k, p)
  PROVE  /\ At(l)' = p /\ (pc'[l] = p \/ pc'[l] = "take")
         /\ row' = row /\ outcome' = outcome /\ claims' = claims
         /\ round' = round /\ verdict' = verdict
         /\ \A x \in Launchers \ {l} : At(x)' = At(x) /\ pc'[x] = pc[x]
BY DEF Step, StepAppend, Append, Goto, local, streamVars, ShapeInv, TypeOK, At

LEMMA SetsAt ==
  ASSUME ShapeInv, NEW l \in Launchers, NEW s, NEW p, StepSetStatus(l, s, p)
  PROVE  /\ At(l)' = "setread" /\ pc'[l] = "setread" /\ want'[l] = s
         /\ row' = row /\ outcome' = outcome /\ claims' = claims
         /\ round' = round /\ verdict' = verdict
         /\ \A x \in Launchers \ {l} : At(x)' = At(x) /\ pc'[x] = pc[x]
BY DEF StepSetStatus, SetStatus, Goto, local, streamVars, ShapeInv, TypeOK, At

(* What a launcher knows at each place of its launch.                      *)
LEMMA Knows ==
  ASSUME ShapeInv, SafetyInv, NEW l \in Launchers, pc[l] = At(l), pc[l] \notin Outside
  PROVE  /\ l \in claims /\ row.status # "queued"
         /\ row.status = "succeeded" => outcome = "succeeded"
         /\ pc[l] \in {"bindread", "bindwrite", "enter", "driving", "driven", "evaluating",
                      "checkfail"} \cup Setting => row.status \notin Verdicts
         /\ pc[l] \in Reporting /\ round[l] = "finish" => row.status \notin Verdicts
         /\ pc[l] = "reevaluating" => row.status # "succeeded"
         /\ pc[l] \in Reporting /\ round[l] # "finish" => row.status # "succeeded"
BY DEF SafetyInv, SafeAt, Unwritten, Again

LEMMA MoveOnSafety ==
  ASSUME ShapeInv, SafetyInv, NEW l \in Launchers,
         \/ ProviderRaises(l) \/ Enter(l) \/ DriverReturns(l) \/ CheckCancelled(l)
         \/ Reconcile(l) \/ ReevaluateRaises(l)
         \/ SetupFails(l) \/ DriverRaises(l) \/ EvaluateRaises(l)
  PROVE  SafetyInv' /\ StatusStep
<1>1. PICK p : /\ Step(l, p) \/ \E k \in Kinds : StepAppend(l, k, p)
               /\ \/ p \in {"done", "account", "reconcile"}
                  \/ p = "reevaluating" /\ row.status = "failed"
                  \/ p \in {"driving", "driven", "evaluating", "checkfail"}
                      /\ pc[l] \in {"enter", "driving", "driven", "evaluating"}
  BY DEF ProviderRaises, Enter, DriverReturns, CheckCancelled, Reconcile, ReevaluateRaises,
         SetupFails, DriverRaises, EvaluateRaises
<1>2. pc[l] = At(l) /\ pc[l] \notin Outside
  BY DEF ProviderRaises, Enter, DriverReturns, CheckCancelled, Reconcile, ReevaluateRaises,
         SetupFails, DriverRaises, EvaluateRaises, At
<1>3. /\ At(l)' = p /\ (pc'[l] = p \/ pc'[l] = "take")
      /\ row' = row /\ outcome' = outcome /\ claims' = claims
      /\ \A x \in Launchers \ {l} : At(x)' = At(x) /\ pc'[x] = pc[x]
  BY <1>1, MovesAt
<1>4. Unwritten(l)' => row.status \notin Verdicts
  BY <1>1, <1>2, <1>3, Knows DEF Unwritten
<1>5. Again(l)' => row.status # "succeeded"
  BY <1>1, <1>2, <1>3, Knows DEF Again
<1>6. l \in claims
  BY <1>2, Knows
<1>7. p \notin {"take", "insert", "bindwrite", "accountwrite", "confirm", "confirmed"} \cup Setting
  BY <1>1
<1> QED BY <1>3, <1>4, <1>5, <1>6, <1>7, MoveSafety

(* A step among the places outside a launch.                               *)
LEMMA OutsideSafety ==
  ASSUME ShapeInv, SafetyInv, NEW l \in Launchers,
         Accept(l) \/ RefuseLaunch(l) \/ LoseClaim(l)
  PROVE  SafetyInv' /\ StatusStep
<1> USE DEF Accept, RefuseLaunch, LoseClaim, Step, Goto, local, ShapeInv, TypeOK
<1>1. ASSUME NEW x \in Launchers
      PROVE  SafeAt(x)'
  <2>1. SafeAt(x)
    BY DEF SafetyInv
  <2>2. CASE x = l
    <3>1. At(x)' \in Outside /\ pc'[x] \in Outside
      BY <2>2 DEF At
    <3> QED BY <3>1 DEF SafeAt, Unwritten, Again
  <2>3. CASE x # l
    <3>1. At(x)' = At(x) /\ pc'[x] = pc[x]
      BY <2>3 DEF At
    <3> QED BY <2>1, <3>1 DEF SafeAt, Unwritten, Again
  <2> QED BY <2>2, <2>3
<1> QED BY <1>1 DEF SafetyInv, OneClaim, StatusStep

LEMMA ClaimSafety ==
  ASSUME ShapeInv, SafetyInv, NEW l \in Launchers, Claim(l)
  PROVE  SafetyInv' /\ StatusStep
<1> USE DEF Claim, Claimable, Append, Goto, ShapeInv, TypeOK
<1>1. claims = {} /\ claims' = {l} /\ row'.status = "running" /\ row.status = "queued"
  BY DEF SafetyInv, RunRow
<1>2. ASSUME NEW x \in Launchers, x # l
      PROVE  SafeAt(x)'
  <2>1. At(x) \in Outside
    BY <1>1 DEF SafetyInv, SafeAt
  <2>2. At(x)' \in Outside /\ pc'[x] \notin Setting \cup Writing
    BY <1>2, <2>1 DEF At
  <2>3. ~Unwritten(x)' /\ ~Again(x)'
    BY <2>2 DEF Unwritten, Again
  <2> QED BY <2>2, <2>3 DEF SafeAt
<1>3. SafeAt(l)'
  <2>1. At(l)' = "bindread" /\ pc'[l] = "take"
    BY DEF At
  <2> QED BY <1>1, <2>1 DEF SafeAt, Again
<1> QED BY <1>1, <1>2, <1>3 DEF SafetyInv, OneClaim, StatusStep

LEMMA EvaluateSafety ==
  ASSUME ShapeInv, SafetyInv, NEW l \in Launchers,
         \/ DriverResponds(l)
         \/ \E v \in Verdicts : Evaluate(l, v) \/ Reevaluate(l, v)
  PROVE  SafetyInv' /\ StatusStep
<1> USE DEF Append, Goto, ShapeInv, TypeOK, streamVars
<1>1. CASE DriverResponds(l)
  <2> USE <1>1 DEF DriverResponds
  <2>1. pc[l] = At(l) /\ At(l)' = "driving" /\ pc'[l] = "take"
        /\ \A x \in Launchers \ {l} : At(x)' = At(x) /\ pc'[x] = pc[x]
    BY DEF At
  <2>2. l \in claims /\ row.status \notin Verdicts
    BY <2>1, Knows
  <2>3. ~Again(l)'
    BY <2>1 DEF Again
  <2> QED BY <2>1, <2>2, <2>3, MoveSafety
<1>2. ASSUME NEW v \in Verdicts, Evaluate(l, v)
      PROVE  SafetyInv' /\ StatusStep
  <2> USE <1>2 DEF Evaluate, Evaluated
  <2>1. pc[l] = At(l) /\ At(l)' = "recording" /\ pc'[l] = "take" /\ round'[l] = "finish"
        /\ \A x \in Launchers \ {l} : At(x)' = At(x) /\ pc'[x] = pc[x]
    BY DEF At
  <2>2. l \in claims /\ row.status \notin Verdicts
    BY <2>1, Knows
  <2>3. ~Again(l)'
    BY <2>1 DEF Again
  <2> QED BY <2>1, <2>2, <2>3, MoveSafety
<1>3. ASSUME NEW v \in Verdicts, Reevaluate(l, v)
      PROVE  SafetyInv' /\ StatusStep
  <2> USE <1>3 DEF Reevaluate, Evaluated
  <2>1. pc[l] = At(l) /\ At(l)' = "recording" /\ pc'[l] = "take" /\ round'[l] = "reconcile"
        /\ \A x \in Launchers \ {l} : At(x)' = At(x) /\ pc'[x] = pc[x]
    BY DEF At
  <2>2. l \in claims /\ row.status # "succeeded"
    BY <2>1, Knows
  <2>3. ~Unwritten(l)'
    BY <2>1 DEF Unwritten
  <2> QED BY <2>1, <2>2, <2>3, MoveSafety
<1> QED BY <1>1, <1>2, <1>3

LEMMA RecordSafety ==
  ASSUME ShapeInv, SafetyInv, NEW l \in Launchers,
         RecordOutcome(l) \/ AppendMissing(l) \/ Confirmed(l)
  PROVE  SafetyInv' /\ StatusStep
<1>1. pc[l] = At(l) /\ pc[l] \in Reporting
  BY DEF RecordOutcome, AppendMissing, Confirmed, Recorded, At
<1>2. CASE RecordOutcome(l)
  <2> USE <1>2 DEF RecordOutcome, Goto, local, ShapeInv, TypeOK
  <2>1. At(l)' = "confirm" /\ pc'[l] = "confirm"
        /\ \A x \in Launchers \ {l} : At(x)' = At(x) /\ pc'[x] = pc[x]
    BY DEF At
  <2>2. l \in claims /\ row.status # "succeeded" /\ row.status # "queued"
        /\ (round[l] = "finish" => row.status \notin Verdicts)
    BY <1>1, Knows
  <2>3. SafeAt(l)'
    BY <2>1, <2>2 DEF SafeAt, Unwritten, Again
  <2> QED BY <2>1, <2>2, <2>3, LauncherSafety
<1>3. CASE AppendMissing(l)
  <2>1. /\ At(l)' = "confirmed" /\ pc'[l] \in {"confirmed", "take"}
        /\ row' = row /\ outcome' = outcome /\ claims' = claims
        /\ round' = round /\ verdict' = verdict
        /\ \A x \in Launchers \ {l} : At(x)' = At(x) /\ pc'[x] = pc[x]
    BY <1>3, MovesAt DEF AppendMissing
  <2>2. outcome = verdict[l]
    BY <1>1, <1>3 DEF AppendMissing, SafetyInv, SafeAt
  <2>3. /\ Unwritten(l)' => row.status \notin Verdicts
        /\ Again(l)' => row.status # "succeeded"
    BY <1>1, <2>1, Knows DEF Unwritten, Again
  <2> QED BY <1>1, <2>1, <2>2, <2>3, Knows, MoveSafety
<1>4. ASSUME Recorded(l), round[l] = "finish", StepSetStatus(l, verdict[l], "reconcile")
      PROVE  SafetyInv' /\ StatusStep
  <2>1. outcome = verdict[l]
    BY <1>1, <1>4 DEF Recorded, SafetyInv, SafeAt
  <2>2. /\ At(l)' = "setread" /\ pc'[l] = "setread" /\ want'[l] = verdict[l]
        /\ row' = row /\ outcome' = outcome /\ claims' = claims
        /\ \A x \in Launchers \ {l} : At(x)' = At(x) /\ pc'[x] = pc[x]
    BY <1>4, SetsAt
  <2>3. l \in claims /\ row.status \notin Verdicts
    BY <1>1, <1>4, Knows
  <2>4. ~Again(l)'
    BY <2>2 DEF Again
  <2> QED BY <2>1, <2>2, <2>3, <2>4, MoveSafety
<1>5. ASSUME round[l] = "reconcile", round' = [round EXCEPT ![l] = "again"],
             Goto(l, "recording"),
             UNCHANGED <<row, evidence, outcome, cont, kind, num, snap, want,
                         verdict, turns, crashes, streamVars, claims>>
      PROVE  SafetyInv' /\ StatusStep
  <2>1. At(l)' = "recording" /\ pc'[l] = "recording" /\ round'[l] = "again"
        /\ \A x \in Launchers \ {l} : At(x)' = At(x) /\ pc'[x] = pc[x]
    BY <1>5 DEF Goto, At, ShapeInv, TypeOK
  <2>2. l \in claims /\ row.status # "succeeded"
    BY <1>1, <1>5, Knows
  <2>3. ~Unwritten(l)'
    BY <2>1 DEF Unwritten
  <2> QED BY <1>5, <2>1, <2>2, <2>3, MoveSafety
<1>6. ASSUME Step(l, "account")
      PROVE  SafetyInv' /\ StatusStep
  <2>1. /\ At(l)' = "account" /\ pc'[l] \in {"account", "take"}
        /\ row' = row /\ outcome' = outcome /\ claims' = claims
        /\ \A x \in Launchers \ {l} : At(x)' = At(x) /\ pc'[x] = pc[x]
    BY <1>6, MovesAt
  <2>2. ~Unwritten(l)' /\ ~Again(l)'
    BY <2>1 DEF Unwritten, Again
  <2> QED BY <1>1, <2>1, <2>2, Knows, MoveSafety
<1> QED BY <1>2, <1>3, <1>4, <1>5, <1>6 DEF Confirmed

LEMMA FailSafety ==
  ASSUME ShapeInv, SafetyInv, NEW l \in Launchers, FailUnlessCancelled(l)
  PROVE  SafetyInv' /\ StatusStep
<1>1. pc[l] = At(l) /\ pc[l] = "checkfail"
  BY DEF FailUnlessCancelled, At
<1>2. l \in claims /\ row.status \notin Verdicts
  BY <1>1, Knows
<1>3. CASE Step(l, "reconcile")
  <2>1. ~Unwritten(l)' /\ ~Again(l)'
    BY <1>3, MovesAt DEF Unwritten, Again
  <2> QED BY <1>2, <1>3, <2>1, MovesAt, MoveSafety
<1>4. CASE StepSetStatus(l, "failed", "reconcile")
  <2>1. ~Again(l)'
    BY <1>4, SetsAt DEF Again
  <2> QED BY <1>2, <1>4, <2>1, SetsAt, MoveSafety
<1> QED BY <1>3, <1>4 DEF FailUnlessCancelled

(* Reading the row, and writing it back.                                   *)
LEMMA BindSafety ==
  ASSUME ShapeInv, SafetyInv, NEW l \in Launchers,
         BindRead(l) \/ BindWrite(l) \/ AccountRead(l) \/ AccountWrite(l)
  PROVE  SafetyInv' /\ StatusStep
<1>1. pc[l] = At(l) /\ pc[l] \in {"bindread", "bindwrite", "account", "accountwrite"}
  BY DEF BindRead, BindWrite, AccountRead, AccountWrite, At
<1>2. /\ l \in claims /\ row.status # "queued"
      /\ row.status = "succeeded" => outcome = "succeeded"
      /\ pc[l] \in {"bindread", "bindwrite"} => row.status \notin Verdicts
  BY <1>1, Knows
<1>3. CASE BindRead(l) \/ (AccountRead(l) /\ ReadRow(l, "accountwrite"))
  <2> USE <1>3 DEF BindRead, AccountRead, ReadRow, Step, Goto, local, streamVars, ShapeInv, TypeOK
  <2>1. /\ At(l)' = pc'[l] /\ snap'[l] = row
        /\ pc'[l] = "accountwrite" \/ (pc'[l] = "bindwrite" /\ pc[l] = "bindread")
        /\ \A x \in Launchers \ {l} : At(x)' = At(x) /\ pc'[x] = pc[x]
    BY DEF At
  <2>2. UNCHANGED <<row, outcome, claims>>
    OBVIOUS
  <2>3. SafeAt(l)'
    BY <1>2, <2>1, <2>2 DEF SafeAt, Unwritten, Again
  <2> QED BY <1>2, <2>1, <2>2, <2>3, LauncherSafety
<1>4. CASE AccountRead(l) /\ Step(l, "done")
  <2>1. ~Unwritten(l)' /\ ~Again(l)'
    BY <1>4, MovesAt DEF Unwritten, Again
  <2> QED BY <1>2, <1>4, <2>1, MovesAt, MoveSafety
<1>5. CASE BindWrite(l)
  <2> USE <1>5 DEF BindWrite, WriteRow, Goto, local, streamVars, ShapeInv, TypeOK, RunRow
  <2>1. /\ At(l)' = "enter" /\ pc'[l] = "enter"
        /\ \A x \in Launchers \ {l} : At(x)' = At(x) /\ pc'[x] = pc[x]
    BY DEF At
  <2>2. row'.status \notin Verdicts \cup {"queued"}
    BY DEF SafetyInv, SafeAt
  <2>3. SafeAt(l)'
    BY <1>2, <2>1, <2>2 DEF SafeAt, Again
  <2> QED BY <1>2, <2>1, <2>2, <2>3, LauncherSafety
<1>6. CASE AccountWrite(l)
  <2> USE <1>6 DEF AccountWrite, WriteRow, Goto, local, streamVars, ShapeInv, TypeOK, RunRow
  <2>1. /\ At(l)' = "done" /\ pc'[l] = "done"
        /\ \A x \in Launchers \ {l} : At(x)' = At(x) /\ pc'[x] = pc[x]
    BY DEF At
  <2>2. /\ row'.status # "queued"
        /\ row'.status = "succeeded" => outcome = "succeeded"
        /\ row.status \in Verdicts => row'.status = row.status
    BY DEF SafetyInv, SafeAt
  <2>3. SafeAt(l)'
    BY <2>1 DEF SafeAt, Unwritten, Again
  <2> QED BY <1>2, <2>1, <2>2, <2>3, LauncherSafety
<1> QED BY <1>3, <1>4, <1>5, <1>6 DEF AccountRead

LEMMA HelperSafety ==
  ASSUME ShapeInv, SafetyInv, NEW w \in Workers, Helper(w)
  PROVE  SafetyInv' /\ StatusStep
<1>1. CASE TakeSequence(w)
  BY <1>1, FrameSafety
  DEF TakeSequence, Goto, local, streamVars, ShapeInv, TypeOK, RunRow, At
<1>2. CASE InsertEvent(w)
  <2> USE <1>2 DEF InsertEvent, Goto, local, streamVars, ShapeInv, TypeOK
  <2>1. \A x \in Launchers : At(x)' = At(x)
    BY DEF At
  <2>2. pc'[w] \notin Setting \cup Writing
    OBVIOUS
  <2> QED BY <2>1, <2>2, FrameSafety
<1>3. CASE SetRead(w) /\ w \in Launchers
  <2> USE <1>3 DEF SetRead, ReadRow, Goto, local, streamVars, ShapeInv, TypeOK
  <2>1. pc[w] = At(w) /\ At(w)' = "setwrite" /\ pc'[w] = "setwrite"
        /\ \A x \in Launchers \ {w} : At(x)' = At(x) /\ pc'[x] = pc[x]
    BY DEF At
  <2>2. w \in claims /\ row.status \notin Verdicts
    BY <2>1, Knows
  <2>3. want[w] = "succeeded" => outcome = "succeeded"
    BY DEF SafetyInv, SafeAt
  <2>4. ~Again(w)'
    BY <2>1 DEF Again
  <2> QED BY <2>1, <2>2, <2>3, <2>4, MoveSafety
<1>4. CASE SetRead(w) /\ w \notin Launchers
  BY <1>4, FrameSafety
  DEF SetRead, ReadRow, Goto, local, streamVars, ShapeInv, TypeOK, At
<1>5. CASE SetWrite(w) /\ w \in Launchers
  <2> USE <1>5 DEF SetWrite, WriteRow, Goto, local, streamVars, ShapeInv, TypeOK, RunRow
  <2>1. pc[w] = At(w) /\ At(w)' = "reconcile" /\ pc'[w] = "reconcile"
        /\ \A x \in Launchers \ {w} : At(x)' = At(x) /\ pc'[x] = pc[x]
    BY DEF At
  <2>2. w \in claims /\ row.status \notin Verdicts
    BY <2>1, Knows
  <2>3. /\ row'.status = want[w] /\ want[w] \in Verdicts
        /\ want[w] = "succeeded" => outcome = "succeeded"
    BY DEF SafetyInv, SafeAt
  <2>4. SafeAt(w)'
    BY <2>1, <2>2 DEF SafeAt, Unwritten, Again
  <2> QED BY <2>1, <2>2, <2>3, <2>4, LauncherSafety
<1>6. CASE SetWrite(w) /\ w \notin Launchers
  <2> USE <1>6 DEF SetWrite, WriteRow, Goto, local, streamVars, ShapeInv, TypeOK, RunRow
  <2>1. w \in Cancellers
    BY DEF At
  <2>2. row'.status = "cancelled"
    BY <2>1
  <2>3. \A x \in Launchers : At(x)' = At(x) /\ pc'[x] = pc[x]
                           /\ snap'[x] = snap[x] /\ want'[x] = want[x]
    BY DEF At
  <2> QED BY <2>2, <2>3, FrameSafety
<1> QED BY <1>1, <1>2, <1>3, <1>4, <1>5, <1>6 DEF Helper

LEMMA OthersSafety ==
  ASSUME ShapeInv, SafetyInv,
         \/ \E c \in Cancellers : Cancel(c) \/ AnnounceCancel(c)
         \/ \E a \in Approvers : Approve(a)
         \/ \E s \in Streams : Stream(s)
         \/ UNCHANGED vars
  PROVE  SafetyInv' /\ StatusStep
<1>1. /\ row' = row /\ outcome' = outcome /\ claims' = claims
      /\ round' = round /\ verdict' = verdict /\ snap' = snap
      /\ \A l \in Launchers : pc'[l] = pc[l] /\ cont'[l] = cont[l] /\ want'[l] = want[l]
  BY DEF Cancel, AnnounceCancel, Approve, Stream, StreamRead, StreamCheck, StreamDrain,
         Step, StepAppend, StepSetStatus, Append, SetStatus, Goto, local, streamVars, vars,
         ShapeInv, TypeOK
<1>2. \A l \in Launchers : At(l)' = At(l)
  BY <1>1 DEF At
<1> QED BY <1>1, <1>2, FrameSafety

LEMMA CrashSafety ==
  ASSUME ShapeInv, SafetyInv, Crash
  PROVE  SafetyInv' /\ StatusStep
<1>1. ASSUME NEW l \in Launchers
      PROVE  SafeAt(l)'
  <2>1. At(l)' \in Outside /\ pc'[l] \in Outside
    BY DEF Crash, At, ShapeInv, TypeOK
  <2>2. ~Unwritten(l)' /\ ~Again(l)'
    BY <2>1 DEF Unwritten, Again
  <2> QED BY <2>1, <2>2 DEF SafeAt
<1> QED BY <1>1 DEF Crash, SafetyInv, StatusStep, OneClaim

LEMMA NextSafety == ShapeInv /\ SafetyInv /\ [Next]_vars => SafetyInv' /\ StatusStep
<1> SUFFICES ASSUME ShapeInv, SafetyInv, [Next]_vars PROVE SafetyInv' /\ StatusStep
  OBVIOUS
<1>1. ASSUME NEW l \in Launchers, Accept(l) \/ Launch(l)
      PROVE  SafetyInv' /\ StatusStep
  BY <1>1, OutsideSafety, ClaimSafety, MoveOnSafety, EvaluateSafety, RecordSafety,
     FailSafety, BindSafety
  DEF Launch
<1> QED BY <1>1, HelperSafety, OthersSafety, CrashSafety DEF Next

LEMMA InvHolds == Spec => [](ShapeInv /\ SafetyInv) /\ [][StatusStep]_vars
<1>1. ShapeInv /\ SafetyInv /\ [Next]_vars => (ShapeInv /\ SafetyInv)' /\ StatusStep
  BY NextShape, NextSafety
<1> QED BY <1>1, InitShape, InitSafety, PTL DEF Spec

(* The run is claimed by one launcher at most.                             *)
THEOREM ExecutedAtMostOnceCorrect == Spec => []ExecutedAtMostOnce
<1>1. ShapeInv /\ SafetyInv => ExecutedAtMostOnce
  <2> SUFFICES ASSUME OneClaim PROVE Cardinality(claims) <= 1
    BY DEF SafetyInv, ExecutedAtMostOnce
  <2>1. CASE claims = {}
    BY <2>1, FS_EmptySet
  <2>2. ASSUME NEW l \in claims
        PROVE  Cardinality(claims) <= 1
    <3>1. claims = {l}
      BY DEF OneClaim
    <3>2. Cardinality({l}) = 1
      BY FS_Singleton, Zenon
    <3> QED BY <3>1, <3>2
  <2> QED BY <2>1, <2>2
<1> QED BY <1>1, InvHolds, PTL

(* A run that reads succeeded has a passed trusted outcome.                *)
THEOREM SuccessNeedsPassedOutcomeCorrect == Spec => []SuccessNeedsPassedOutcome
<1>1. ShapeInv /\ SafetyInv => SuccessNeedsPassedOutcome
  BY DEF SafetyInv, SuccessNeedsPassedOutcome
<1> QED BY <1>1, InvHolds, PTL

(* A verdict never turns into the other one nor back to running.           *)
THEOREM VerdictIsFinalCorrect == Spec => VerdictIsFinal
<1>1. StatusStep => (row.status \in Verdicts => row'.status \in {row.status, "cancelled"})
  BY DEF StatusStep
<1> QED BY <1>1, InvHolds, PTL DEF VerdictIsFinal

(* A run cancelled before any launcher claimed it is never executed.       *)
THEOREM CancelledUnclaimedCorrect == Spec => CancelledUnclaimedStays
<1>1. StatusStep => (row.status = "cancelled" /\ claims = {} =>
                       row'.status = "cancelled" /\ claims' = {})
  BY DEF StatusStep
<1> QED BY <1>1, InvHolds, PTL DEF CancelledUnclaimedStays

(* One execution, and success only over its passed outcome.                *)
THEOREM ExecutionIsSoundCorrect == Spec => []ExecutionIsSound
<1>1. TypeOK /\ ExecutedAtMostOnce /\ SuccessNeedsPassedOutcome => ExecutionIsSound
  BY DEF ExecutionIsSound
<1> QED BY <1>1, TypeCorrect, ExecutedAtMostOnceCorrect, SuccessNeedsPassedOutcomeCorrect, PTL

(* A verdict stays, and so does a cancellation before the claim.           *)
THEOREM StatusIsFinalCorrect == Spec => StatusIsFinal
BY VerdictIsFinalCorrect, CancelledUnclaimedCorrect DEF StatusIsFinal
=============================================================================
