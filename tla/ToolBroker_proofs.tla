-------------------------- MODULE ToolBroker_proofs --------------------------
(***************************************************************************)
(* The safety of the tool broker, for any number of calls, keys, payloads, *)
(* tools and crashes, with reconciliation at any time; and, when it runs   *)
(* in quiet, the honesty of the ledger and of the answers, and that the    *)
(* broker implements OperationLedger.                                      *)
(***************************************************************************)
EXTENDS ToolBroker, TLAPS

(* An invocation past its arrival has a key and a payload.                 *)
RequestsFormed ==
  \A c \in Calls : stage[c] # "idle" =>
    req[c].key \in Keys /\ req[c].payload \in Payloads

(* Whoever passed the insert, as its winner or not, finds the key's row.   *)
RowsExist ==
  /\ \A c \in Calls : stage[c] \in {"reread", "prepared", "executed"} =>
       calls[req[c].key] # None
  /\ \A k \in listed : calls[k] # None
  /\ verdict # None => calls[verdict.key] # None

(* An execution ended in one of the ways a provider call can end, and only *)
(* real executions are dispatched.                                         *)
ExecutionsFormed ==
  /\ \A c \in Calls : stage[c] = "executed" => outcome[c] \in Dispatched
  /\ \A c \in dispatched : stage[c] \in {"executed", "done", "lost"} /\ ~DryRun

(* From the moment it is prepared, a write owns the row of its key and the *)
(* approval it spent, and never loses them again.                          *)
WritesOwnTheirRow ==
  \A c \in Calls :
    \/ stage[c] \in {"prepared", "executed"} /\ NeedsApproval(req[c].payload)
    \/ WriteDispatched(c)
    => ApprovedAndRecorded(c)

IInv ==
  /\ TypeOK
  /\ RequestsFormed
  /\ RowsExist
  /\ ExecutionsFormed
  /\ WritesOwnTheirRow

LEMMA InitIInv == Init => IInv
BY CallsAssumption, NoneAssumption
DEF Init, IInv, TypeOK, RequestsFormed, RowsExist, ExecutionsFormed, WritesOwnTheirRow,
    WriteDispatched, NoRequest, Stages


(***************************************************************************)
(* The value sets and the abbreviations the actions are written with.      *)
(***************************************************************************)
USE CallsAssumption, NoneAssumption
USE DEF Stages, InFlight, Results, Dispatched, Reconciled, Refusals, Tokens, Row,
        Verdict, Goto, Answer, InsertRow, IsWrite, NeedsApproval,
        brokerVars, recVars, extVars, procVars, DryRun

(* Rows are never removed nor given to another call, and a consumed        *)
(* approval is never touched again.                                        *)
Persist ==
  /\ \A k \in Keys : calls[k] # None =>
       /\ calls'[k] # None
       /\ calls'[k].call = calls[k].call
       /\ calls'[k].payload = calls[k].payload
  /\ \A t \in Tokens : approvals[t].status = "consumed" => approvals'[t] = approvals[t]

LEMMA OwnershipPersists ==
  ASSUME NEW c \in Calls, TypeOK, Persist, ApprovedAndRecorded(c),
         req[c].key \in Keys, req[c].payload \in Payloads, req'[c] = req[c]
  PROVE  ApprovedAndRecorded(c)'
BY DEF TypeOK, Persist, ApprovedAndRecorded

(* Enough for WritesOwnTheirRow: nobody becomes a dispatched or prepared   *)
(* write without owning its row.                                           *)
LEMMA NoNewWriter ==
  ASSUME IInv, Persist, mode' = mode,
         \A c \in Calls : stage[c] # "idle" => req'[c] = req[c],
         \A c \in Calls : c \in dispatched' => c \in dispatched,
         \A c \in Calls : stage'[c] \in {"prepared", "executed"} => stage'[c] = stage[c]
  PROVE  WritesOwnTheirRow'
<1> SUFFICES ASSUME NEW c \in Calls,
                    \/ stage'[c] \in {"prepared", "executed"} /\ NeedsApproval(req'[c].payload)
                    \/ c \in dispatched' /\ IsWrite(req'[c].payload)
             PROVE  ApprovedAndRecorded(c)'
  BY DEF WritesOwnTheirRow, WriteDispatched
<1>1. stage[c] # "idle" /\ req'[c] = req[c]
  BY DEF IInv, ExecutionsFormed
<1>2. ApprovedAndRecorded(c)
  BY <1>1 DEF IInv, WritesOwnTheirRow, WriteDispatched
<1>. QED  BY <1>1, <1>2, OwnershipPersists DEF IInv, RequestsFormed

LEMMA IssueApprovalStep == ASSUME IInv, NEW p \in Payloads, NEW k \in Keys, IssueApproval(p, k) PROVE IInv'
<1> USE DEF IInv, IssueApproval
<1>1. TypeOK'
  BY DEF TypeOK
<1>2. RequestsFormed'
  BY DEF TypeOK, RequestsFormed
<1>3. RowsExist'
  BY DEF TypeOK, RequestsFormed, RowsExist
<1>4. ExecutionsFormed'
  BY DEF TypeOK, ExecutionsFormed
<1>5. WritesOwnTheirRow'
  <2>1. Persist
    BY DEF TypeOK, Persist
  <2>. QED  BY <2>1, NoNewWriter DEF TypeOK
<1>. QED  BY <1>1, <1>2, <1>3, <1>4, <1>5

LEMMA ExpireApprovalStep == ASSUME IInv, NEW t \in Tokens, ExpireApproval(t) PROVE IInv'
<1> USE DEF IInv, ExpireApproval
<1>1. TypeOK'
  BY DEF TypeOK
<1>2. RequestsFormed'
  BY DEF TypeOK, RequestsFormed
<1>3. RowsExist'
  BY DEF TypeOK, RequestsFormed, RowsExist
<1>4. ExecutionsFormed'
  BY DEF TypeOK, ExecutionsFormed
<1>5. WritesOwnTheirRow'
  <2>1. Persist
    BY DEF TypeOK, Persist
  <2>. QED  BY <2>1, NoNewWriter DEF TypeOK
<1>. QED  BY <1>1, <1>2, <1>3, <1>4, <1>5

LEMMA DenyStep == ASSUME IInv, 
         NEW c \in Calls, NEW k \in Keys, NEW p \in Payloads,
         NEW t \in Tokens \cup {None}, Deny(c, k, p, t)
  PROVE IInv'
<1> USE DEF IInv, Deny
<1>1. TypeOK'
  BY DEF TypeOK, Arrive
<1>2. RequestsFormed'
  BY DEF TypeOK, RequestsFormed, Arrive
<1>3. RowsExist'
  BY DEF TypeOK, RequestsFormed, RowsExist, Arrive
<1>4. ExecutionsFormed'
  BY DEF TypeOK, ExecutionsFormed, Arrive
<1>5. WritesOwnTheirRow'
  <2>1. Persist
    BY DEF TypeOK, Persist, Arrive
  <2>. QED  BY <2>1, NoNewWriter DEF TypeOK, Arrive
<1>. QED  BY <1>1, <1>2, <1>3, <1>4, <1>5

LEMMA LookupStep == ASSUME IInv, 
         NEW c \in Calls, NEW k \in Keys, NEW p \in Payloads,
         NEW t \in Tokens \cup {None}, Lookup(c, k, p, t)
  PROVE IInv'
<1> USE DEF IInv, Lookup
<1>1. TypeOK'
  BY ZenonT(60) DEF TypeOK, Arrive
<1>2. RequestsFormed'
  BY DEF TypeOK, RequestsFormed, Arrive
<1>3. RowsExist'
  BY DEF TypeOK, RequestsFormed, RowsExist, Arrive
<1>4. ExecutionsFormed'
  <2>1. mode' = mode /\ dispatched' = dispatched /\ c \notin dispatched
    BY DEF ExecutionsFormed, Arrive
  <2>2. stage'[c] # "executed"
    BY DEF TypeOK, Arrive
  <2>3. \A d \in Calls : d # c => stage'[d] = stage[d] /\ outcome'[d] = outcome[d]
    BY DEF TypeOK, Arrive
  <2>. QED  BY <2>1, <2>2, <2>3 DEF TypeOK, ExecutionsFormed
<1>5. WritesOwnTheirRow'
  <2>1. Persist
    BY DEF TypeOK, Persist, Arrive
  <2>. QED  BY <2>1, NoNewWriter DEF TypeOK, Arrive
<1>. QED  BY <1>1, <1>2, <1>3, <1>4, <1>5

LEMMA ConsumeAndPrepareStep == ASSUME IInv, NEW c \in Calls, ConsumeAndPrepare(c) PROVE IInv'
<1> USE DEF IInv, ConsumeAndPrepare
<1>1. TypeOK'
  <2> DEFINE row == [call |-> c, payload |-> req[c].payload, result |-> None]
  <2>1. row \in Row /\ req[c].key \in Keys
    BY DEF RequestsFormed
  <2>2. calls' \in [Keys -> Row \cup {None}]
    BY <2>1 DEF TypeOK
  <2>3. approvals' \in [Tokens -> [status: {"absent", "live", "expired", "consumed"},
                                 payload: Payloads \cup {None}]]
    BY DEF TypeOK, TokenAuthorizes
  <2>. QED  BY <2>2, <2>3, ZenonT(40) DEF TypeOK
<1>2. RequestsFormed'
  BY DEF TypeOK, RequestsFormed, TokenAuthorizes
<1>3. RowsExist'
  BY DEF TypeOK, RequestsFormed, RowsExist, TokenAuthorizes
<1>4. ExecutionsFormed'
  <2>1. UNCHANGED <<dispatched, mode>>
    BY DEF extVars, procVars
  <2>2. \A d \in Calls : d # c => stage'[d] = stage[d] /\ outcome'[d] = outcome[d]
    BY DEF TypeOK
  <2>3. stage'[c] # "executed" /\ c \notin dispatched
    BY DEF TypeOK, ExecutionsFormed
  <2>4. dispatched \subseteq Calls
    BY DEF TypeOK
  <2>5. ExecutionsFormed
    OBVIOUS
  <2> HIDE DEF IInv, ConsumeAndPrepare
  <2>. QED  BY <2>1, <2>2, <2>3, <2>4, <2>5 DEF ExecutionsFormed
<1>5. WritesOwnTheirRow'
  <2>1. Persist
    BY DEF TypeOK, Persist, TokenAuthorizes, RequestsFormed
  <2>2. ASSUME stage'[c] = "prepared" PROVE ApprovedAndRecorded(c)'
    <3> DEFINE k == req[c].key  p == req[c].payload  t == <<ToolOf[p], k>>
    <3>1. k \in Keys /\ p \in Payloads /\ t \in Tokens
      BY DEF RequestsFormed
    <3>2. TokenAuthorizes(req[c].token, k, p)
      BY <2>2 DEF TypeOK
    <3>3. /\ calls' = [calls EXCEPT ![k] = [call |-> c, payload |-> p, result |-> None]]
          /\ approvals' = [approvals EXCEPT ![req[c].token].status = "consumed"]
          /\ req' = req
      BY <2>2 DEF TypeOK
    <3>4. calls'[k] = [call |-> c, payload |-> p, result |-> None] /\ calls'[k] \in Row
      BY <3>1, <3>3 DEF TypeOK
    <3>5. req[c].token = t /\ approvals[t].payload = p
      BY <3>2 DEF TokenAuthorizes
    <3>6. approvals'[t] = [status |-> "consumed", payload |-> p]
      <4>1. approvals'[t] = [approvals[t] EXCEPT !.status = "consumed"]
        BY <3>1, <3>3, <3>5 DEF TypeOK
      <4>2. approvals[t] \in [status: {"absent", "live", "expired", "consumed"},
                             payload: Payloads \cup {None}]
        BY <3>1 DEF TypeOK
      <4> HIDE DEF t, p, k
      <4>. QED  BY <4>1, <4>2, <3>5
    <3>. QED  BY <3>3, <3>4, <3>5, <3>6 DEF ApprovedAndRecorded
  <2>3. ASSUME stage'[c] # "prepared" PROVE WritesOwnTheirRow'
    <3>1. \A d \in Calls : stage'[d] \in {"prepared", "executed"} => stage'[d] = stage[d]
      BY <2>3 DEF TypeOK
    <3>. QED  BY <2>1, <3>1, NoNewWriter
  <2>4. ASSUME NEW d \in Calls, d # c, stage'[c] = "prepared",
               \/ stage'[d] \in {"prepared", "executed"} /\ NeedsApproval(req'[d].payload)
               \/ WriteDispatched(d)'
        PROVE  ApprovedAndRecorded(d)'
    <3>1. stage'[d] = stage[d] /\ req' = req /\ dispatched' = dispatched
      BY <2>4 DEF TypeOK
    <3>2. ApprovedAndRecorded(d) /\ stage[d] # "idle"
      BY <2>4, <3>1 DEF WritesOwnTheirRow, WriteDispatched, ExecutionsFormed
    <3>. QED  BY <2>1, <3>1, <3>2, OwnershipPersists DEF RequestsFormed
  <2>. QED  BY <2>2, <2>3, <2>4 DEF WritesOwnTheirRow
<1>. QED  BY <1>1, <1>2, <1>3, <1>4, <1>5

LEMMA PrepareCallStep == ASSUME IInv, NEW c \in Calls, PrepareCall(c) PROVE IInv'
<1> USE DEF IInv, PrepareCall
<1>1. TypeOK'
  <2> DEFINE row == [call |-> c, payload |-> req[c].payload, result |-> None]
  <2>1. row \in Row /\ req[c].key \in Keys
    BY DEF RequestsFormed
  <2>2. calls' \in [Keys -> Row \cup {None}]
    BY <2>1 DEF TypeOK
  <2>3. stage' \in [Calls -> Stages]
    BY DEF TypeOK
  <2>. QED  BY <2>2, <2>3 DEF TypeOK
<1>2. RequestsFormed'
  BY DEF TypeOK, RequestsFormed
<1>3. RowsExist'
  BY DEF TypeOK, RequestsFormed, RowsExist
<1>4. ExecutionsFormed'
  BY DEF TypeOK, ExecutionsFormed, RequestsFormed
<1>5. WritesOwnTheirRow'
  <2>1. Persist
    BY DEF TypeOK, Persist, RequestsFormed
  <2>2. ASSUME NEW d \in Calls,
               \/ stage'[d] \in {"prepared", "executed"} /\ NeedsApproval(req'[d].payload)
               \/ WriteDispatched(d)'
        PROVE  ApprovedAndRecorded(d)'
    <3>1. req' = req /\ dispatched' = dispatched /\ (d # c => stage'[d] = stage[d])
      BY DEF TypeOK
    <3>2. ApprovedAndRecorded(d) /\ stage[d] # "idle"
      BY <2>2, <3>1 DEF WritesOwnTheirRow, WriteDispatched, ExecutionsFormed
    <3>. QED  BY <2>1, <3>1, <3>2, OwnershipPersists DEF RequestsFormed
  <2>. QED  BY <2>2 DEF WritesOwnTheirRow
<1>. QED  BY <1>1, <1>2, <1>3, <1>4, <1>5

LEMMA RereadStep == ASSUME IInv, NEW c \in Calls, Reread(c) PROVE IInv'
<1> USE DEF IInv, Reread
<1>1. TypeOK'
  BY DEF TypeOK, RequestsFormed, RowsExist
<1>2. RequestsFormed'
  BY DEF TypeOK, RequestsFormed, RowsExist
<1>3. RowsExist'
  BY DEF TypeOK, RequestsFormed, RowsExist
<1>4. ExecutionsFormed'
  BY DEF TypeOK, ExecutionsFormed, RequestsFormed, RowsExist
<1>5. WritesOwnTheirRow'
  <2>1. Persist
    BY DEF TypeOK, Persist, RequestsFormed, RowsExist
  <2>. QED  BY <2>1, NoNewWriter DEF TypeOK, RequestsFormed, RowsExist
<1>. QED  BY <1>1, <1>2, <1>3, <1>4, <1>5

LEMMA ExecuteStep == ASSUME IInv, NEW c \in Calls, Execute(c) PROVE IInv'
<1> USE DEF IInv, Execute
<1>1. TypeOK'
  <2>1. outcome' \in [Calls -> Results \cup Refusals \cup {None}]
    BY DEF TypeOK
  <2>2. dispatched' \subseteq Calls /\ landed' \subseteq dispatched'
    BY DEF TypeOK
  <2>3. stage' \in [Calls -> Stages]
    BY DEF TypeOK
  <2>. QED  BY <2>1, <2>2, <2>3 DEF TypeOK
<1>2. RequestsFormed'
  BY DEF TypeOK, RequestsFormed
<1>3. RowsExist'
  BY DEF TypeOK, RequestsFormed, RowsExist
<1>4. ExecutionsFormed'
  BY DEF TypeOK, ExecutionsFormed
<1>5. WritesOwnTheirRow'
  <2>1. Persist
    BY DEF TypeOK, Persist
  <2>2. ASSUME NEW d \in Calls,
               \/ stage'[d] \in {"prepared", "executed"} /\ NeedsApproval(req'[d].payload)
               \/ WriteDispatched(d)'
        PROVE  ApprovedAndRecorded(d)'
    <3>1. req' = req /\ (d # c => stage'[d] = stage[d])
      BY DEF TypeOK
    <3>2. d # c => (d \in dispatched' <=> d \in dispatched)
      OBVIOUS
    <3>3. ApprovedAndRecorded(d) /\ stage[d] # "idle"
      BY <2>2, <3>1, <3>2 DEF WritesOwnTheirRow, WriteDispatched, ExecutionsFormed
    <3>. QED  BY <2>1, <3>1, <3>3, OwnershipPersists DEF RequestsFormed
  <2>. QED  BY <2>2 DEF WritesOwnTheirRow
<1>. QED  BY <1>1, <1>2, <1>3, <1>4, <1>5

LEMMA SaveStep == ASSUME IInv, NEW c \in Calls, Save(c) PROVE IInv'
<1> USE DEF IInv, Save
<1>1. TypeOK'
  <2>1. req[c].key \in Keys /\ calls[req[c].key] \in Row /\ outcome[c] \in Results
    BY DEF TypeOK, RequestsFormed, RowsExist, ExecutionsFormed
  <2>2. calls' \in [Keys -> Row \cup {None}]
    BY <2>1 DEF TypeOK
  <2>3. stage' \in [Calls -> Stages]
    BY DEF TypeOK
  <2>. QED  BY <2>2, <2>3 DEF TypeOK
<1>2. RequestsFormed'
  BY DEF TypeOK, RequestsFormed, RowsExist, ExecutionsFormed
<1>3. RowsExist'
  <2>1. req[c].key \in Keys /\ calls[req[c].key] \in Row /\ outcome[c] \in Results
    BY DEF TypeOK, RequestsFormed, RowsExist, ExecutionsFormed
  <2>2. [calls[req[c].key] EXCEPT !.result = outcome[c]] \in Row
    BY <2>1
  <2>3. \A k \in Keys : calls[k] # None => calls'[k] # None
    BY <2>1, <2>2 DEF TypeOK
  <2>4. \A d \in Calls : stage'[d] \in {"reread", "prepared", "executed"} =>
          stage[d] \in {"reread", "prepared", "executed"} /\ req[d].key \in Keys
    BY DEF TypeOK, RequestsFormed
  <2>5. req' = req /\ listed' = listed /\ verdict' = verdict
    OBVIOUS
  <2>. QED  BY <2>3, <2>4, <2>5 DEF TypeOK, RowsExist
<1>4. ExecutionsFormed'
  BY DEF TypeOK, ExecutionsFormed, RequestsFormed, RowsExist
<1>5. WritesOwnTheirRow'
  <2>1. Persist
    BY DEF TypeOK, Persist, RequestsFormed, RowsExist, ExecutionsFormed
  <2>. QED  BY <2>1, NoNewWriter DEF TypeOK, RequestsFormed, RowsExist, ExecutionsFormed
<1>. QED  BY <1>1, <1>2, <1>3, <1>4, <1>5

LEMMA ReconcileListStep == ASSUME IInv, ReconcileList PROVE IInv'
<1> USE DEF IInv, ReconcileList
<1>1. TypeOK'
  BY DEF TypeOK, Unreconciled
<1>2. RequestsFormed'
  BY DEF TypeOK, RequestsFormed, Unreconciled
<1>3. RowsExist'
  BY DEF TypeOK, RequestsFormed, RowsExist, Unreconciled
<1>4. ExecutionsFormed'
  BY DEF TypeOK, ExecutionsFormed, Unreconciled
<1>5. WritesOwnTheirRow'
  <2>1. Persist
    BY DEF TypeOK, Persist, Unreconciled
  <2>. QED  BY <2>1, NoNewWriter DEF TypeOK, Unreconciled
<1>. QED  BY <1>1, <1>2, <1>3, <1>4, <1>5

LEMMA ReconcileAskStep == ASSUME IInv, NEW k \in Keys, ReconcileAsk(k) PROVE IInv'
<1> USE DEF IInv, ReconcileAsk
<1>1. TypeOK'
  BY DEF TypeOK, Verdicts, RowsExist
<1>2. RequestsFormed'
  BY DEF TypeOK, RequestsFormed, Verdicts, RowsExist
<1>3. RowsExist'
  BY DEF TypeOK, RequestsFormed, RowsExist, Verdicts
<1>4. ExecutionsFormed'
  BY DEF TypeOK, ExecutionsFormed, Verdicts, RowsExist
<1>5. WritesOwnTheirRow'
  <2>1. Persist
    BY DEF TypeOK, Persist, Verdicts, RowsExist
  <2>. QED  BY <2>1, NoNewWriter DEF TypeOK, Verdicts, RowsExist
<1>. QED  BY <1>1, <1>2, <1>3, <1>4, <1>5

LEMMA ReconcileMarkStep == ASSUME IInv, ReconcileMark PROVE IInv'
<1> USE DEF IInv, ReconcileMark
<1>1. TypeOK'
  <2>1. verdict.key \in Keys /\ verdict.result \in Results
    BY DEF TypeOK
  <2>2. calls[verdict.key] \in Row
    BY <2>1 DEF TypeOK, RowsExist
  <2>3. calls' \in [Keys -> Row \cup {None}]
    BY <2>1, <2>2 DEF TypeOK
  <2>. QED  BY <2>3 DEF TypeOK
<1>2. RequestsFormed'
  BY DEF TypeOK, RequestsFormed, RowsExist
<1>3. RowsExist'
  BY SMTT(30) DEF TypeOK, RequestsFormed, RowsExist
<1>4. ExecutionsFormed'
  BY DEF TypeOK, ExecutionsFormed, RowsExist
<1>5. WritesOwnTheirRow'
  <2>1. Persist
    BY DEF TypeOK, Persist, RowsExist
  <2>. QED  BY <2>1, NoNewWriter DEF TypeOK, RowsExist
<1>. QED  BY <1>1, <1>2, <1>3, <1>4, <1>5

LEMMA CrashStep == ASSUME IInv, Crash PROVE IInv'
<1> USE DEF IInv, Crash
<1>1. TypeOK'
  BY DEF TypeOK
<1>2. RequestsFormed'
  BY DEF TypeOK, RequestsFormed
<1>3. RowsExist'
  BY DEF TypeOK, RequestsFormed, RowsExist
<1>4. ExecutionsFormed'
  BY DEF TypeOK, ExecutionsFormed
<1>5. WritesOwnTheirRow'
  <2>1. Persist
    BY DEF TypeOK, Persist
  <2>. QED  BY <2>1, NoNewWriter DEF TypeOK
<1>. QED  BY <1>1, <1>2, <1>3, <1>4, <1>5

LEMMA NextStep == IInv /\ [Next]_vars => IInv'
<1> SUFFICES ASSUME IInv, [Next]_vars PROVE IInv'
  OBVIOUS
<1>1. CASE UNCHANGED vars
  BY <1>1 DEF vars, IInv, TypeOK, RequestsFormed, RowsExist, ExecutionsFormed, 
              WritesOwnTheirRow, WriteDispatched, ApprovedAndRecorded
<1>2. CASE Approve
  BY <1>2, IssueApprovalStep, ExpireApprovalStep DEF Approve
<1>3. ASSUME NEW c \in Calls, Request(c) PROVE IInv'
  BY <1>3, DenyStep, LookupStep DEF Request
<1>4. ASSUME NEW c \in Calls, Advance(c) PROVE IInv'
  BY <1>4, ConsumeAndPrepareStep, PrepareCallStep, RereadStep, ExecuteStep, SaveStep
  DEF Advance
<1>5. CASE ReconcileNext
  BY <1>5, ReconcileListStep, ReconcileAskStep, ReconcileMarkStep DEF ReconcileNext
<1>6. CASE Crash
  BY <1>6, CrashStep
<1>. QED  BY <1>1, <1>2, <1>3, <1>4, <1>5, <1>6 DEF Next

LEMMA Inductive == Spec => []IInv
BY InitIInv, NextStep, PTL DEF Spec

(* Every variable keeps to its type.                                       *)
THEOREM TypeCorrect == Spec => []TypeOK
<1>1. IInv => TypeOK
  BY DEF IInv
<1>. QED  BY <1>1, Inductive, PTL

(* A dispatched write spent an approval made out for it and owns the row   *)
(* of its key, which was there before the provider was called: this is     *)
(* consume_approval_and_prepare preceding provider.execute, for any number *)
(* of threads, crashes and reconciliations.                                *)
THEOREM ApprovedAndRecordedCorrect == Spec => []WriteIsApprovedAndRecorded
<1>1. IInv => WriteIsApprovedAndRecorded
  BY DEF IInv, WritesOwnTheirRow, WriteIsApprovedAndRecorded
<1>. QED  BY <1>1, Inductive, PTL

(* No idempotency key has its write dispatched twice: both calls would own *)
(* the one row of the key.                                                 *)
THEOREM AtMostOnceCorrect == Spec => []AtMostOneWriteDispatch
<1>1. IInv => AtMostOneWriteDispatch
  <2> SUFFICES ASSUME IInv, NEW c1 \in Calls, NEW c2 \in Calls,
                      WriteDispatched(c1), WriteDispatched(c2), req[c1].key = req[c2].key
               PROVE  c1 = c2
    BY DEF AtMostOneWriteDispatch
  <2>1. ApprovedAndRecorded(c1) /\ ApprovedAndRecorded(c2)
    BY DEF IInv, WritesOwnTheirRow
  <2>. QED  BY <2>1 DEF ApprovedAndRecorded
<1>. QED  BY <1>1, Inductive, PTL


(* Writes through the broker are safe.                                     *)
THEOREM WritesAreSafeCorrect == Spec => []WritesAreSafe
<1>1. TypeOK /\ AtMostOneWriteDispatch /\ WriteIsApprovedAndRecorded => WritesAreSafe
  BY DEF WritesAreSafe
<1>. QED  BY <1>1, TypeCorrect, AtMostOnceCorrect, ApprovedAndRecordedCorrect, PTL

-----------------------------------------------------------------------------
(***************************************************************************)
(* What the ledger and the answers say, when reconciliation runs in quiet. *)
(* A row is resolved once: by its owner, or by the reconciler after its    *)
(* owner was lost in a crash.                                              *)
(***************************************************************************)

(* The owner of a row got past its insert, and the row has its payload; it *)
(* has a result exactly when its owner, or the reconciler, gave it one.    *)
OwnersFormed ==
  \A k \in Keys : calls[k] # None =>
    LET o == calls[k].call IN
    /\ stage[o] \in {"prepared", "executed", "done", "lost"}
    /\ req[o].key = k
    /\ req[o].payload = calls[k].payload
    /\ calls[k].result # None => stage[o] \in {"done", "lost"}
    /\ calls[k].result = None => stage[o] # "done"

(* The reconciler works on rows whose owner was lost only.                 *)
ReconcilesTheLost ==
  /\ \A k \in listed : stage[calls[k].call] = "lost"
  /\ verdict # None => stage[calls[verdict.key].call] = "lost"

(* Whoever executes owns the row, or repeats the read that the row is of.  *)
ExecutorsFormed ==
  \A c \in Calls : stage[c] \in {"prepared", "executed"} =>
    \/ calls[req[c].key].call = c
    \/ calls[req[c].key].payload = req[c].payload /\ ~IsWrite(req[c].payload)

(* An outcome that is not saved yet, a verdict that is not recorded yet    *)
(* and a result all tell the effect.                                       *)
EffectsTold ==
  /\ \A c \in landed : IsWrite(req[c].payload)
  /\ \A c \in Calls : stage[c] = "executed" =>
       /\ DryRun => outcome[c] = "ok"
       /\ NeedsApproval(req[c].payload) =>
            /\ outcome[c] = "ok" => c \in landed
            /\ outcome[c] = "rejected" => c \notin landed
  /\ verdict # None =>
       LET o == calls[verdict.key].call IN
       /\ verdict.result = "r_confirmed" => o \in landed
       /\ verdict.result = "r_no_effect" => o \notin landed
  /\ \A k \in Keys : calls[k] # None =>
       LET o == calls[k].call IN
       /\ NeedsApproval(calls[k].payload) /\ calls[k].result = "ok" => o \in landed
       /\ calls[k].result = "r_confirmed" => o \in landed
       /\ NeedsApproval(calls[k].payload) /\ calls[k].result = "rejected" => o \notin landed
       /\ calls[k].result = "r_no_effect" => o \notin landed

(* The row was inserted while this invocation ran: its owner still runs or *)
(* has saved what it got from the provider.                                *)
FreshRow(c) ==
  LET row == calls[req[c].key] IN
  /\ row.result = None => stage[row.call] \in {"prepared", "executed"}
  /\ row.result # None => row.result \in Dispatched /\ (DryRun => row.result = "ok")

LookupsFormed ==
  \A c \in Calls :
    /\ stage[c] = "looked" /\ existed[c] =>
         /\ calls[req[c].key] # None
         /\ calls[req[c].key].payload = req[c].payload
         /\ ~IsWrite(req[c].payload)
    /\ stage[c] = "looked" /\ ~existed[c] /\ calls[req[c].key] # None => FreshRow(c)
    /\ stage[c] = "reread" => FreshRow(c) /\ ~NeedsApproval(req[c].payload)

(* An answer is the result in the row, or what a repeated read returned.   *)
AnswerRecorded(c) ==
  LET row == calls[req[c].key] IN
  /\ row # None
  /\ \/ /\ outcome[c] = row.result
        /\ IsWrite(req[c].payload) /\ ~IsWrite(row.payload) => DryRun /\ outcome[c] = "ok"
     \/ /\ row.payload = req[c].payload
        /\ ~IsWrite(row.payload)
        /\ DryRun => outcome[c] = "ok"

AnswersRecorded ==
  \A c \in Calls : stage[c] = "done" /\ outcome[c] \in Results => AnswerRecorded(c)

HonestInv ==
  /\ IInv
  /\ OwnersFormed
  /\ ReconcilesTheLost
  /\ ExecutorsFormed
  /\ EffectsTold
  /\ LookupsFormed
  /\ AnswersRecorded

(* An effect under a key is the effect of the owner of its row.            *)
LEMMA LandedByOwner ==
  ASSUME IInv, OwnersFormed, EffectsTold, NEW k \in Keys
  PROVE  LandedOn(k) <=> calls[k] # None /\ calls[k].call \in landed
<1>1. ASSUME NEW c \in landed, req[c].key = k PROVE calls[k] # None /\ calls[k].call = c
  <2>1. c \in Calls /\ WriteDispatched(c)
    BY DEF IInv, TypeOK, EffectsTold, WriteDispatched
  <2>. QED  BY <1>1, <2>1 DEF IInv, WritesOwnTheirRow, ApprovedAndRecorded
<1>2. ASSUME calls[k] # None, calls[k].call \in landed PROVE LandedOn(k)
  BY <1>2 DEF OwnersFormed, LandedOn
<1>. QED  BY <1>1, <1>2 DEF LandedOn

LEMMA HonestInit == Init => HonestInv
BY InitIInv
DEF HonestInv, Init, OwnersFormed, ReconcilesTheLost, ExecutorsFormed, EffectsTold,
    LookupsFormed, AnswersRecorded

LEMMA HonestIssueApproval ==
  ASSUME HonestInv, ~OnlineReconcile, NEW p \in Payloads, NEW k \in Keys, IssueApproval(p, k)
  PROVE  HonestInv'
<1> USE DEF HonestInv, IInv, IssueApproval
<1>1. IInv'
  BY IssueApprovalStep
<1>2. OwnersFormed'
  BY DEF OwnersFormed
<1>3. ReconcilesTheLost'
  BY DEF ReconcilesTheLost
<1>4. ExecutorsFormed'
  BY DEF ExecutorsFormed
<1>5. EffectsTold'
  BY DEF EffectsTold
<1>6. LookupsFormed'
  BY DEF LookupsFormed, FreshRow
<1>7. AnswersRecorded'
  BY DEF AnswersRecorded, AnswerRecorded
<1>. QED  BY <1>1, <1>2, <1>3, <1>4, <1>5, <1>6, <1>7

LEMMA HonestExpireApproval ==
  ASSUME HonestInv, ~OnlineReconcile, NEW t \in Tokens, ExpireApproval(t)
  PROVE  HonestInv'
<1> USE DEF HonestInv, IInv, ExpireApproval
<1>1. IInv'
  BY ExpireApprovalStep
<1>2. OwnersFormed'
  BY DEF OwnersFormed
<1>3. ReconcilesTheLost'
  BY DEF ReconcilesTheLost
<1>4. ExecutorsFormed'
  BY DEF ExecutorsFormed
<1>5. EffectsTold'
  BY DEF EffectsTold
<1>6. LookupsFormed'
  BY DEF LookupsFormed, FreshRow
<1>7. AnswersRecorded'
  BY DEF AnswersRecorded, AnswerRecorded
<1>. QED  BY <1>1, <1>2, <1>3, <1>4, <1>5, <1>6, <1>7

LEMMA HonestDeny ==
  ASSUME HonestInv, ~OnlineReconcile, NEW c \in Calls, NEW k \in Keys, NEW p \in Payloads,
         NEW t \in Tokens \cup {None}, Deny(c, k, p, t)
  PROVE  HonestInv'
<1> USE DEF HonestInv, IInv, Deny, Arrive
<1>1. IInv'
  BY DenyStep
<1>2. OwnersFormed'
  BY DEF OwnersFormed
<1>3. ReconcilesTheLost'
  BY DEF ReconcilesTheLost
<1>4. ExecutorsFormed'
  BY DEF ExecutorsFormed
<1>5. EffectsTold'
  BY DEF TypeOK, EffectsTold, ExecutionsFormed
<1>6. LookupsFormed'
  BY DEF TypeOK, LookupsFormed, FreshRow
<1>7. AnswersRecorded'
  BY DEF TypeOK, AnswersRecorded, AnswerRecorded
<1>. QED  BY <1>1, <1>2, <1>3, <1>4, <1>5, <1>6, <1>7

LEMMA HonestLookup ==
  ASSUME HonestInv, ~OnlineReconcile, NEW c \in Calls, NEW k \in Keys, NEW p \in Payloads,
         NEW t \in Tokens \cup {None}, Lookup(c, k, p, t)
  PROVE  HonestInv'
<1> USE DEF HonestInv, IInv, Lookup, Arrive
<1>1. IInv'
  BY LookupStep
<1>2. OwnersFormed'
  BY DEF TypeOK, OwnersFormed
<1>3. ReconcilesTheLost'
  BY DEF TypeOK, RowsExist, ReconcilesTheLost
<1>4. ExecutorsFormed'
  BY DEF TypeOK, ExecutorsFormed
<1>5. EffectsTold'
  BY DEF TypeOK, EffectsTold, ExecutionsFormed
<1>6. LookupsFormed'
  <2> USE DEF OwnersFormed
  <2>1. calls' = calls /\ mode' = mode /\ \A d \in Calls : d # c =>
          stage'[d] = stage[d] /\ req'[d] = req[d] /\ existed'[d] = existed[d]
    BY DEF TypeOK
  <2>2. \A j \in Keys : calls[j] # None => stage'[calls[j].call] = stage[calls[j].call]
    <3> SUFFICES ASSUME NEW j \in Keys, calls[j] # None
                 PROVE  stage'[calls[j].call] = stage[calls[j].call]
      OBVIOUS
    <3>1. calls[j].call \in Calls /\ calls[j].call # c
      BY SMTT(30) DEF TypeOK
    <3>. QED  BY <2>1, <3>1
  <2>3. ASSUME NEW d \in Calls, d # c, stage[d] # "idle", calls[req[d].key] # None, FreshRow(d)
        PROVE  FreshRow(d)'
    BY <2>1, <2>2, <2>3 DEF RequestsFormed, FreshRow
  <2>4. ASSUME NEW d \in Calls, d # c
        PROVE  /\ stage'[d] = "looked" /\ existed'[d] =>
                    /\ calls'[req'[d].key] # None
                    /\ calls'[req'[d].key].payload = req'[d].payload
                    /\ ~IsWrite(req'[d].payload)
               /\ stage'[d] = "looked" /\ ~existed'[d] /\ calls'[req'[d].key] # None => FreshRow(d)'
               /\ stage'[d] = "reread" => FreshRow(d)' /\ ~NeedsApproval(req'[d].payload)
    BY <2>1, <2>3, <2>4 DEF LookupsFormed, RowsExist
  <2>5. /\ stage'[c] = "looked" => /\ existed'[c] <=> calls[k] # None
                                   /\ calls[k] # None => calls[k].payload = p /\ ~IsWrite(p)
        /\ stage'[c] # "reread"
        /\ req'[c].key = k /\ req'[c].payload = p
    <3>1. req'[c].key = k /\ req'[c].payload = p
      BY DEF TypeOK
    <3>2. CASE stage' = [stage EXCEPT ![c] = "done"]
      BY <3>1, <3>2 DEF TypeOK
    <3>3. CASE /\ calls[k] # None => calls[k].payload = p /\ calls[k].result = None /\ ~IsWrite(p)
               /\ existed' = [existed EXCEPT ![c] = calls[k] # None]
               /\ stage' = [stage EXCEPT ![c] = "looked"]
      <4>1. existed'[c] <=> calls[k] # None
        BY <3>3, ZenonT(40) DEF TypeOK
      <4>2. stage'[c] = "looked"
        BY <3>3 DEF TypeOK
      <4>. QED  BY <3>1, <3>3, <4>1, <4>2
    <3>. QED  BY <3>2, <3>3, Zenon
  <2>6. /\ stage'[c] = "looked" /\ existed'[c] =>
             /\ calls'[req'[c].key] # None
             /\ calls'[req'[c].key].payload = req'[c].payload
             /\ ~IsWrite(req'[c].payload)
        /\ ~(stage'[c] = "looked" /\ ~existed'[c] /\ calls'[req'[c].key] # None)
        /\ stage'[c] # "reread"
    BY <2>1, <2>5
  <2>. QED  BY <2>4, <2>6, ZenonT(40) DEF LookupsFormed
<1>7. AnswersRecorded'
  BY DEF TypeOK, AnswersRecorded, AnswerRecorded
<1>. QED  BY <1>1, <1>2, <1>3, <1>4, <1>5, <1>6, <1>7

LEMMA HonestConsumeAndPrepare ==
  ASSUME HonestInv, ~OnlineReconcile, NEW c \in Calls, ConsumeAndPrepare(c)
  PROVE  HonestInv'
<1> USE DEF HonestInv, IInv, ConsumeAndPrepare
<1>1. IInv'
  BY ConsumeAndPrepareStep
<1>2. OwnersFormed'
  BY DEF TypeOK, OwnersFormed
<1>3. ReconcilesTheLost'
  <2>1. \A k \in Keys : calls[k] # None => calls'[k] = calls[k]
    BY DEF TypeOK
  <2>2. \A d \in Calls : stage[d] = "lost" => stage'[d] = "lost"
    BY DEF TypeOK
  <2>3. /\ UNCHANGED <<listed, verdict>>
        /\ listed \subseteq Keys /\ \A k \in Keys : calls[k] # None => calls[k].call \in Calls
        /\ verdict # None => verdict.key \in Keys
    BY DEF TypeOK, recVars
  <2>4. /\ \A k \in listed : calls[k] # None
        /\ verdict # None => calls[verdict.key] # None
    BY DEF RowsExist
  <2>5. ReconcilesTheLost
    OBVIOUS
  <2> HIDE DEF HonestInv, IInv, ConsumeAndPrepare
  <2>. QED  BY <2>1, <2>2, <2>3, <2>4, <2>5 DEF ReconcilesTheLost
<1>4. ExecutorsFormed'
  BY DEF TypeOK, RequestsFormed, RowsExist, ExecutorsFormed
<1>5. EffectsTold'
  <2>1. CASE calls' = calls
    BY <2>1 DEF TypeOK, EffectsTold
  <2>2. CASE calls[req[c].key] = None /\ InsertRow(c) /\ stage'[c] = "prepared"
    <3>1. req[c].key \in Keys /\ calls'[req[c].key] = [call |-> c, payload |-> req[c].payload, result |-> None]
      BY <2>2 DEF TypeOK, RequestsFormed
    <3>2. \A k \in Keys : k # req[c].key => calls'[k] = calls[k]
      BY <2>2 DEF TypeOK
    <3>3. /\ landed' = landed /\ verdict' = verdict /\ mode' = mode /\ req' = req
          /\ \A d \in Calls : stage'[d] = "executed" => stage[d] = "executed" /\ outcome'[d] = outcome[d]
      BY <2>2 DEF TypeOK
    <3>4. verdict # None => verdict.key \in Keys /\ verdict.key # req[c].key
      BY <2>2 DEF TypeOK, RowsExist
    <3>. QED  BY <3>1, <3>2, <3>3, <3>4 DEF EffectsTold
  <2>. QED  BY <2>1, <2>2 DEF TypeOK
<1>6. LookupsFormed'
  BY SMTT(30) DEF TypeOK, RequestsFormed, RowsExist, LookupsFormed, FreshRow
<1>7. AnswersRecorded'
  <2>1. CASE calls' = calls
    BY <2>1 DEF TypeOK, RequestsFormed, AnswersRecorded, AnswerRecorded
  <2>2. CASE calls[req[c].key] = None /\ InsertRow(c) /\ stage'[c] = "prepared"
    <3>1. \A k \in Keys : k # req[c].key => calls'[k] = calls[k]
      BY <2>2 DEF TypeOK
    <3>2. \A d \in Calls : stage'[d] = "done" =>
            stage[d] = "done" /\ outcome'[d] = outcome[d] /\ req[d].key \in Keys
      BY <2>2 DEF TypeOK, RequestsFormed
    <3>. QED  BY <2>2, <3>1, <3>2 DEF AnswersRecorded, AnswerRecorded
  <2>. QED  BY <2>1, <2>2 DEF TypeOK
<1>. QED  BY <1>1, <1>2, <1>3, <1>4, <1>5, <1>6, <1>7

LEMMA HonestPrepareCall ==
  ASSUME HonestInv, ~OnlineReconcile, NEW c \in Calls, PrepareCall(c)
  PROVE  HonestInv'
<1> USE DEF HonestInv, IInv, PrepareCall
<1>1. IInv'
  BY PrepareCallStep
<1>2. OwnersFormed'
  BY DEF TypeOK, OwnersFormed
<1>3. ReconcilesTheLost'
  <2>1. \A k \in Keys : calls[k] # None => calls'[k] = calls[k] /\ calls[k].call # c
    BY DEF TypeOK, RequestsFormed, OwnersFormed
  <2>2. \A k \in Keys : calls[k] # None => stage'[calls[k].call] = stage[calls[k].call]
    BY <2>1 DEF TypeOK
  <2>3. listed' = listed /\ verdict' = verdict /\ listed \subseteq Keys
    BY DEF TypeOK
  <2>4. verdict # None => verdict.key \in Keys
    BY DEF TypeOK
  <2>. QED  BY <2>1, <2>2, <2>3, <2>4 DEF RowsExist, ReconcilesTheLost
<1>4. ExecutorsFormed'
  BY DEF TypeOK, RequestsFormed, RowsExist, ExecutorsFormed, FreshRow, LookupsFormed
<1>5. EffectsTold'
  BY SMTT(60) DEF TypeOK, RowsExist, EffectsTold
<1>6. LookupsFormed'
  BY DEF TypeOK, RequestsFormed, RowsExist, LookupsFormed, FreshRow, OwnersFormed
<1>7. AnswersRecorded'
  BY DEF TypeOK, RequestsFormed, AnswersRecorded, AnswerRecorded
<1>. QED  BY <1>1, <1>2, <1>3, <1>4, <1>5, <1>6, <1>7

LEMMA HonestReread ==
  ASSUME HonestInv, ~OnlineReconcile, NEW c \in Calls, Reread(c)
  PROVE  HonestInv'
<1> USE DEF HonestInv, IInv, Reread
<1>1. IInv'
  BY RereadStep
<1>2. OwnersFormed'
  BY DEF OwnersFormed
<1>3. ReconcilesTheLost'
  BY DEF ReconcilesTheLost
<1>4. ExecutorsFormed'
  BY DEF ExecutorsFormed
<1>5. EffectsTold'
  BY DEF EffectsTold
<1>6. LookupsFormed'
  BY DEF LookupsFormed, FreshRow
<1>7. AnswersRecorded'
  BY DEF TypeOK, RowsExist, AnswersRecorded, FreshRow, AnswerRecorded, LookupsFormed
<1>. QED  BY <1>1, <1>2, <1>3, <1>4, <1>5, <1>6, <1>7

LEMMA HonestExecute ==
  ASSUME HonestInv, ~OnlineReconcile, NEW c \in Calls, Execute(c)
  PROVE  HonestInv'
<1> USE DEF HonestInv, IInv, Execute
<1>1. IInv'
  BY ExecuteStep
<1>2. OwnersFormed'
  BY DEF OwnersFormed
<1>3. ReconcilesTheLost'
  BY DEF ReconcilesTheLost
<1>4. ExecutorsFormed'
  BY DEF ExecutorsFormed
<1>5. EffectsTold'
  BY DEF TypeOK, EffectsTold, OwnersFormed, ExecutionsFormed, ReconcilesTheLost
<1>6. LookupsFormed'
  BY SMTT(30) DEF LookupsFormed, FreshRow
<1>7. AnswersRecorded'
  BY DEF TypeOK, AnswersRecorded, AnswerRecorded
<1>. QED  BY <1>1, <1>2, <1>3, <1>4, <1>5, <1>6, <1>7

LEMMA HonestSave ==
  ASSUME HonestInv, ~OnlineReconcile, NEW c \in Calls, Save(c)
  PROVE  HonestInv'
<1> USE DEF HonestInv, IInv, Save
<1>1. IInv'
  BY SaveStep
<1>r. /\ req[c].key \in Keys /\ calls[req[c].key] \in Row
      /\ calls \in [Keys -> Row \cup {None}]
  BY DEF TypeOK, RequestsFormed, RowsExist
<1>s. \A j \in Keys : calls[j] # None =>
        /\ calls[j].call \in Calls /\ calls'[j] # None
        /\ \/ calls'[j] = calls[j] /\ calls[j].call # c
           \/ /\ calls[j].call = c /\ calls'[j].call = c
              /\ calls'[j].payload = calls[j].payload
              /\ calls'[j].result = outcome[c]
  <2>1. \A j \in Keys : calls[j] # None /\ calls[j].call = c => j = req[c].key
    BY DEF OwnersFormed
  <2>2. ASSUME calls[req[c].key].call = c
        PROVE  /\ calls' = [calls EXCEPT ![req[c].key] = [calls[req[c].key] EXCEPT !.result = outcome[c]]]
               /\ [calls[req[c].key] EXCEPT !.result = outcome[c]] # None
    <3>1. outcome[c] \in Dispatched
      BY DEF ExecutionsFormed
    <3>. QED  BY <1>r, <2>2, <3>1, NoneAssumption
  <2> HIDE DEF HonestInv, IInv
  <2>3. CASE calls[req[c].key].call = c
    BY <1>r, <2>1, <2>2, <2>3
  <2>4. CASE calls[req[c].key].call # c
    BY <1>r, <2>1, <2>4
  <2>. QED  BY <2>3, <2>4
<1>n. \A j \in Keys : calls[j] = None => calls'[j] = None
  BY <1>r
<1>2. OwnersFormed'
  <2>1. /\ stage' = [stage EXCEPT ![c] = "done"] /\ stage \in [Calls -> Stages]
        /\ req' = req /\ outcome[c] # None
    BY DEF TypeOK, ExecutionsFormed
  <2>2. OwnersFormed
    OBVIOUS
  <2> HIDE DEF HonestInv, IInv, Save
  <2>. QED  BY <1>s, <1>n, <2>1, <2>2 DEF OwnersFormed
<1>3. ReconcilesTheLost'
  BY DEF ReconcilesTheLost
<1>4. ExecutorsFormed'
  BY DEF ExecutorsFormed
<1>5. EffectsTold'
  BY SMTT(30) DEF TypeOK, RowsExist, EffectsTold, OwnersFormed, ExecutionsFormed
<1>6. LookupsFormed'
  <2>2. /\ UNCHANGED <<req, existed, mode>>
        /\ stage' = [stage EXCEPT ![c] = "done"]
        /\ stage \in [Calls -> Stages] /\ c \in Calls
    BY DEF TypeOK, procVars
  <2>3. outcome[c] \in Dispatched /\ outcome[c] # None /\ (DryRun => outcome[c] = "ok")
    BY NoneAssumption DEF ExecutionsFormed, EffectsTold
  <2>4. \A d \in Calls : stage[d] # "idle" => req[d].key \in Keys
    BY DEF RequestsFormed
  <2>5. LookupsFormed
    OBVIOUS
  <2> HIDE DEF HonestInv, IInv, Save
  <2>6. ASSUME NEW d \in Calls, stage[d] # "idle", calls[req[d].key] # None, FreshRow(d)
        PROVE  FreshRow(d)'
    <3> DEFINE j == req[d].key
    <3>1. req'[d].key = j /\ j \in Keys
      BY <2>2, <2>4, <2>6
    <3>2. CASE calls'[j] = calls[j] /\ calls[j].call # c
      BY <1>s, <2>2, <2>6, <3>1, <3>2 DEF FreshRow
    <3>3. CASE calls'[j].result = outcome[c]
      BY <2>2, <2>3, <3>1, <3>3 DEF FreshRow
    <3>. QED  BY <1>s, <2>6, <3>1, <3>2, <3>3
  <2>7. \A d \in Calls : stage'[d] \in {"looked", "reread"} => stage'[d] = stage[d]
    BY <2>2
  <2>8. \A d \in Calls : stage[d] = "reread" => calls[req[d].key] # None
    BY DEF HonestInv, IInv, RowsExist
  <2>9. ASSUME NEW d \in Calls, stage'[d] = "looked", existed'[d]
        PROVE  /\ calls'[req'[d].key] # None
               /\ calls'[req'[d].key].payload = req'[d].payload
               /\ ~IsWrite(req'[d].payload)
    BY <1>s, <1>n, <2>2, <2>4, <2>5, <2>7, <2>9 DEF LookupsFormed
  <2>10. ASSUME NEW d \in Calls, stage'[d] = "looked", ~existed'[d], calls'[req'[d].key] # None
         PROVE  FreshRow(d)'
    BY <2>2, <2>4, <2>5, <2>6, <2>7, <1>n, <2>10 DEF LookupsFormed
  <2>11. ASSUME NEW d \in Calls, stage'[d] = "reread"
         PROVE  FreshRow(d)' /\ ~NeedsApproval(req[d].payload)'
    BY <2>2, <2>5, <2>6, <2>7, <2>8, <2>11 DEF LookupsFormed, NeedsApproval
  <2>. QED  BY <2>9, <2>10, <2>11 DEF LookupsFormed
<1>7. AnswersRecorded'
  BY DEF TypeOK, RequestsFormed, RowsExist, AnswersRecorded, AnswerRecorded, OwnersFormed, ExecutionsFormed, ExecutorsFormed, EffectsTold
<1>. QED  BY <1>1, <1>2, <1>3, <1>4, <1>5, <1>6, <1>7

LEMMA HonestReconcileList ==
  ASSUME HonestInv, ~OnlineReconcile, ReconcileList
  PROVE  HonestInv'
<1> USE DEF HonestInv, IInv, ReconcileList, Unreconciled, Quiet
<1>1. IInv'
  BY ReconcileListStep
<1>2. OwnersFormed'
  BY DEF OwnersFormed
<1>3. ReconcilesTheLost'
  BY DEF TypeOK, ReconcilesTheLost, OwnersFormed
<1>4. ExecutorsFormed'
  BY DEF ExecutorsFormed
<1>5. EffectsTold'
  BY DEF EffectsTold
<1>6. LookupsFormed'
  BY DEF LookupsFormed
<1>7. AnswersRecorded'
  BY DEF AnswersRecorded, AnswerRecorded
<1>. QED  BY <1>1, <1>2, <1>3, <1>4, <1>5, <1>6, <1>7

LEMMA HonestReconcileAsk ==
  ASSUME HonestInv, ~OnlineReconcile, NEW k \in Keys, ReconcileAsk(k)
  PROVE  HonestInv'
<1>0. LandedOn(k) <=> calls[k] # None /\ calls[k].call \in landed
  BY LandedByOwner DEF HonestInv
<1> USE DEF HonestInv, IInv, ReconcileAsk, Verdicts
<1>1. IInv'
  BY ReconcileAskStep
<1>2. OwnersFormed'
  BY DEF OwnersFormed
<1>3. ReconcilesTheLost'
  BY DEF ReconcilesTheLost
<1>4. ExecutorsFormed'
  BY DEF ExecutorsFormed
<1>5. EffectsTold'
  <2>1. calls[k] # None /\ (LandedOn(k) <=> calls[k].call \in landed)
    <3>1. calls[k] # None
      BY DEF RowsExist
    <3>. QED  BY <1>0, <3>1
  <2>2. \/ verdict' = [key |-> k, result |-> "r_no_effect"] /\ calls[k].call \notin landed
        \/ verdict' = [key |-> k, result |-> "r_confirmed"] /\ calls[k].call \in landed
        \/ verdict' = [key |-> k, result |-> "r_unknown"]
    <3>1. CASE ~IsWrite(calls[k].payload)
      <4>1. calls[k].call \notin landed
        BY <2>1, <3>1 DEF EffectsTold, OwnersFormed
      <4>. QED  BY <3>1, <4>1
    <3>2. CASE IsWrite(calls[k].payload)
      BY <2>1, <3>2
    <3>. QED  BY <3>1, <3>2
  <2>. QED  BY <2>2 DEF EffectsTold
<1>6. LookupsFormed'
  BY DEF LookupsFormed, FreshRow
<1>7. AnswersRecorded'
  BY DEF AnswersRecorded, AnswerRecorded
<1>. QED  BY <1>1, <1>2, <1>3, <1>4, <1>5, <1>6, <1>7

LEMMA HonestReconcileMark ==
  ASSUME HonestInv, ~OnlineReconcile, ReconcileMark
  PROVE  HonestInv'
<1> USE DEF HonestInv, IInv, ReconcileMark
<1>1. IInv'
  BY ReconcileMarkStep
<1>2. OwnersFormed'
  BY DEF RowsExist, OwnersFormed, ReconcilesTheLost
<1>3. ReconcilesTheLost'
  BY DEF ReconcilesTheLost
<1>4. ExecutorsFormed'
  BY DEF ExecutorsFormed
<1>5. EffectsTold'
  BY DEF TypeOK, EffectsTold
<1>6. LookupsFormed'
  <2>1. \A j \in Keys :
          /\ calls[j] = None => calls'[j] = None
          /\ calls[j] # None => calls'[j] # None /\ calls'[j].payload = calls[j].payload
          /\ calls[j] # None /\ stage[calls[j].call] # "lost" => calls'[j] = calls[j]
          /\ calls[j] # None /\ calls[j].result # None => calls'[j] = calls[j]
    <3> DEFINE k == verdict.key
    <3>1. /\ k \in Keys /\ calls[k] \in Row /\ verdict.result \in Results
          /\ calls \in [Keys -> Row \cup {None}]
      BY DEF TypeOK, RowsExist
    <3>2. stage[calls[k].call] = "lost"
      BY DEF ReconcilesTheLost
    <3>3. \/ UNCHANGED calls
          \/ /\ calls[k].result = None
             /\ calls' = [calls EXCEPT ![k] = [calls[k] EXCEPT !.result = verdict.result]]
      OBVIOUS
    <3>4. [calls[k] EXCEPT !.result = verdict.result] # None
      BY <3>1, NoneAssumption
    <3> HIDE DEF HonestInv, IInv, ReconcileMark, k
    <3>. QED  BY <3>1, <3>2, <3>3, <3>4
  <2>2. UNCHANGED <<req, existed, mode, stage>>
    BY DEF procVars
  <2>3. \A d \in Calls : stage[d] # "idle" => req[d].key \in Keys
    BY DEF RequestsFormed
  <2>4. LookupsFormed
    OBVIOUS
  <2> HIDE DEF HonestInv, IInv, ReconcileMark
  <2>5. ASSUME NEW d \in Calls, stage[d] # "idle", calls[req[d].key] # None, FreshRow(d)
        PROVE  FreshRow(d)'
    <3>1. calls'[req[d].key] = calls[req[d].key]
      BY <2>1, <2>3, <2>5 DEF FreshRow
    <3>. QED  BY <2>2, <2>5, <3>1 DEF FreshRow
  <2>6. ASSUME NEW d \in Calls, stage[d] = "reread" PROVE FreshRow(d)' /\ ~NeedsApproval(req[d].payload)'
    <3>1. calls[req[d].key] # None
      BY <2>6 DEF HonestInv, IInv, RowsExist
    <3>. QED  BY <2>2, <2>4, <2>5, <2>6, <3>1 DEF LookupsFormed, NeedsApproval
  <2>. QED  BY <2>1, <2>2, <2>3, <2>4, <2>5, <2>6 DEF LookupsFormed, NeedsApproval
<1>7. AnswersRecorded'
  BY DEF TypeOK, RequestsFormed, RowsExist, AnswersRecorded, FreshRow, AnswerRecorded, OwnersFormed, ReconcilesTheLost
<1>. QED  BY <1>1, <1>2, <1>3, <1>4, <1>5, <1>6, <1>7

LEMMA HonestCrash ==
  ASSUME HonestInv, ~OnlineReconcile, Crash
  PROVE  HonestInv'
<1> USE DEF HonestInv, IInv, Crash
<1>1. IInv'
  BY CrashStep
<1>2. OwnersFormed'
  BY DEF TypeOK, RequestsFormed, RowsExist, OwnersFormed, FreshRow, AnswerRecorded
<1>3. ReconcilesTheLost'
  BY DEF TypeOK, RequestsFormed, RowsExist, ReconcilesTheLost, FreshRow, AnswerRecorded, OwnersFormed
<1>4. ExecutorsFormed'
  BY DEF TypeOK, RequestsFormed, RowsExist, ExecutorsFormed, FreshRow, AnswerRecorded, OwnersFormed
<1>5. EffectsTold'
  BY DEF TypeOK, RequestsFormed, RowsExist, EffectsTold, FreshRow, AnswerRecorded, OwnersFormed
<1>6. LookupsFormed'
  BY DEF TypeOK, RequestsFormed, RowsExist, LookupsFormed, FreshRow, AnswerRecorded, OwnersFormed
<1>7. AnswersRecorded'
  BY DEF TypeOK, RequestsFormed, RowsExist, AnswersRecorded, FreshRow, AnswerRecorded, OwnersFormed
<1>. QED  BY <1>1, <1>2, <1>3, <1>4, <1>5, <1>6, <1>7

LEMMA HonestStep == ASSUME ~OnlineReconcile PROVE HonestInv /\ [Next]_vars => HonestInv'
<1> SUFFICES ASSUME HonestInv, [Next]_vars PROVE HonestInv'
  OBVIOUS
<1>1. CASE UNCHANGED vars
  <2>1. IInv'
    BY <1>1, NextStep DEF HonestInv
  <2>2. OwnersFormed' /\ ReconcilesTheLost' /\ ExecutorsFormed'
    BY <1>1 DEF vars, HonestInv, OwnersFormed, ReconcilesTheLost, ExecutorsFormed
  <2>3. EffectsTold'
    BY <1>1 DEF vars, HonestInv, EffectsTold
  <2>4. LookupsFormed'
    BY <1>1 DEF vars, HonestInv, LookupsFormed, FreshRow
  <2>5. AnswersRecorded'
    BY <1>1 DEF vars, HonestInv, AnswersRecorded, AnswerRecorded
  <2>. QED  BY <2>1, <2>2, <2>3, <2>4, <2>5 DEF HonestInv
<1>2. CASE Approve
  BY <1>2, HonestIssueApproval, HonestExpireApproval DEF Approve
<1>3. ASSUME NEW c \in Calls, Request(c) PROVE HonestInv'
  BY <1>3, HonestDeny, HonestLookup DEF Request
<1>4. ASSUME NEW c \in Calls, Advance(c) PROVE HonestInv'
  BY <1>4, HonestConsumeAndPrepare, HonestPrepareCall, HonestReread, HonestExecute, HonestSave
  DEF Advance
<1>5. CASE ReconcileNext
  BY <1>5, HonestReconcileList, HonestReconcileAsk, HonestReconcileMark DEF ReconcileNext
<1>6. CASE Crash
  BY <1>6, HonestCrash
<1>. QED  BY <1>1, <1>2, <1>3, <1>4, <1>5, <1>6 DEF Next

LEMMA HonestInductive == ~OnlineReconcile => (Spec => []HonestInv)
<1> SUFFICES ASSUME ~OnlineReconcile PROVE Spec => []HonestInv
  OBVIOUS
<1>. QED  BY HonestInit, HonestStep, PTL DEF Spec

(* The ledger never says of a write what did not happen at the provider,   *)
(* when reconcile_run is called in quiet, as SPEC.md asks.                 *)
THEOREM LedgerTellsTheTruthCorrect == Spec => []LedgerTellsTheTruth
<1>1. CASE OnlineReconcile
  <2>1. LedgerTellsTheTruth
    BY <1>1 DEF LedgerTellsTheTruth
  <2>. QED  BY <2>1, PTL
<1>2. CASE ~OnlineReconcile
  <2>1. HonestInv => LedgerTellsTheTruth
    BY LandedByOwner DEF HonestInv, LedgerTellsTheTruth, EffectsTold
  <2>. QED  BY <1>2, <2>1, HonestInductive, PTL
<1>. QED  BY <1>1, <1>2

(* Whoever is answered a result of a write, as its executor or in a later  *)
(* request with the key, is answered the same one.                         *)
THEOREM AnswersAgreeCorrect == Spec => []AnswersAgree
<1>1. CASE OnlineReconcile
  <2>1. AnswersAgree
    BY <1>1 DEF AnswersAgree
  <2>. QED  BY <2>1, PTL
<1>2. CASE ~OnlineReconcile
  <2>1. HonestInv => AnswersAgree
    <3> SUFFICES ASSUME HonestInv, NEW c1 \in Calls, NEW c2 \in Calls,
                        stage[c1] = "done", outcome[c1] \in Results,
                        stage[c2] = "done", outcome[c2] \in Results,
                        req[c1].key = req[c2].key, IsWrite(req[c1].payload)
                 PROVE  outcome[c1] = outcome[c2]
      BY DEF AnswersAgree
    <3>. QED  BY DEF HonestInv, AnswersRecorded, AnswerRecorded
  <2>. QED  BY <1>2, <2>1, HonestInductive, PTL
<1>. QED  BY <1>1, <1>2

(* Ledger and answers are one story, and the true one.                     *)
THEOREM LedgerIsHonestCorrect == Spec => []LedgerIsHonest
<1>1. LedgerTellsTheTruth /\ AnswersAgree => LedgerIsHonest
  BY DEF LedgerIsHonest
<1>. QED  BY <1>1, LedgerTellsTheTruthCorrect, AnswersAgreeCorrect, PTL

-----------------------------------------------------------------------------
(***************************************************************************)
(* The broker implements the operation ledger.                             *)
(***************************************************************************)

(* An effect belongs to an external operation.                             *)
LEMMA EffectIsExternal ==
  ASSUME HonestInv, NEW k \in Keys, LandedOn(k)
  PROVE  calls[k] # None /\ External(k)
<1>1. calls[k] # None /\ calls[k].call \in landed
  BY LandedByOwner DEF HonestInv
<1>. QED  BY <1>1 DEF HonestInv, IInv, TypeOK, OwnersFormed, EffectsTold, ExecutionsFormed, External

(* The effects as a function, which the provers compare value by value.    *)
LEMMA SameEffects ==
  ASSUME \A k \in Keys : LandedOn(k)' <=> LandedOn(k)
  PROVE  OpEffect' = OpEffect
<1>1. \A k \in Keys : (LandedOn(k))' = LandedOn(k)
  BY Zenon DEF LandedOn
<1>. QED  BY <1>1, Zenon DEF OpEffect

(* A step that leaves rows and effects alone is not seen.                  *)
LEMMA Unseen ==
  ASSUME calls' = calls, mode' = mode,
         \A k \in Keys : LandedOn(k)' <=> LandedOn(k)
  PROVE  UNCHANGED Ledger!vars
<1>1. OpEffect' = OpEffect
  BY SameEffects
<1>. QED  BY <1>1 DEF Ledger!vars, OpPhase, OpRecord, External

(* A step that changes one row, and no effect, is seen in that row.        *)
LEMMA SeenInRow ==
  ASSUME NEW k \in Keys, mode' = mode,
         \A j \in Keys : j # k => calls'[j] = calls[j],
         \A j \in Keys : LandedOn(j)' <=> LandedOn(j)
  PROVE  /\ OpPhase' = [OpPhase EXCEPT ![k] = OpPhase[k]']
         /\ OpRecord' = [OpRecord EXCEPT ![k] = OpRecord[k]']
         /\ OpEffect' = OpEffect
<1>1. OpEffect' = OpEffect
  BY SameEffects
<1>. QED  BY <1>1 DEF OpPhase, OpRecord, External

LEMMA InsertPrepares ==
  ASSUME HonestInv, NEW c \in Calls, stage[c] = "looked", calls[req[c].key] = None, InsertRow(c),
         mode' = mode, req' = req, landed' = landed
  PROVE  Ledger!Next
<1> DEFINE k == req[c].key
<1>1. k \in Keys
  BY DEF HonestInv, IInv, RequestsFormed
<1>2. \A j \in Keys : LandedOn(j)' <=> LandedOn(j)
  BY DEF LandedOn
<1>3. calls'[k] # None /\ calls'[k].result = None /\ \A j \in Keys : j # k => calls'[j] = calls[j]
  <2>1. [call |-> c, payload |-> req[c].payload, result |-> None] \in Row
    BY DEF HonestInv, IInv, RequestsFormed
  <2>. QED  BY <1>1, <2>1 DEF HonestInv, IInv, TypeOK
<1>4. OpPhase[k] = "new" /\ OpPhase[k]' = "prepared" /\ OpRecord[k]' = OpRecord[k]
  BY <1>1, <1>3 DEF OpPhase, OpRecord
<1>5. OpRecord' = OpRecord
  <2>1. OpRecord' = [OpRecord EXCEPT ![k] = OpRecord[k]']
    BY <1>1, <1>2, <1>3, SeenInRow
  <2>2. OpRecord = [j \in Keys |-> OpRecord[j]]
    BY DEF OpRecord
  <2>. HIDE DEF k
  <2>. QED  BY <1>4, <2>1, <2>2
<1>. QED  BY <1>1, <1>2, <1>3, <1>4, <1>5, SeenInRow DEF Ledger!Next, Ledger!Prepare

LEMMA ResultResolves ==
  ASSUME HonestInv, NEW k \in Keys, calls[k] # None, calls[k].result = None,
         NEW r \in Results, calls' = [calls EXCEPT ![k].result = r],
         External(k) /\ r \in {"ok", "r_confirmed"} => LandedOn(k),
         External(k) /\ r \in {"rejected", "r_no_effect"} => ~LandedOn(k),
         mode' = mode, req' = req, landed' = landed
  PROVE  Ledger!Next
<1>1. \A j \in Keys : LandedOn(j)' <=> LandedOn(j)
  BY DEF LandedOn
<1>2. /\ calls'[k] # None /\ calls'[k].result = r /\ calls'[k].payload = calls[k].payload
      /\ \A j \in Keys : j # k => calls'[j] = calls[j]
  <2>1. calls[k] \in Row /\ [calls[k] EXCEPT !.result = r] \in Row
    BY DEF HonestInv, IInv, TypeOK
  <2>2. calls'[k] = [calls[k] EXCEPT !.result = r] /\ \A j \in Keys : j # k => calls'[j] = calls[j]
    BY DEF HonestInv, IInv, TypeOK
  <2>. QED  BY <2>1, <2>2
<1>3. OpPhase[k] = "prepared" /\ OpPhase[k]' = "resolved"
  BY <1>2 DEF OpPhase
<1>4. OpRecord[k]' \in {"uncertain", IF OpEffect[k] THEN "took_effect" ELSE "no_effect"}
  <2>1. External(k)' <=> External(k)
    BY <1>2 DEF External
  <2>2. OpEffect[k] <=> LandedOn(k)
    BY DEF OpEffect
  <2>3. CASE External(k)
    BY <1>2, <2>1, <2>2, <2>3 DEF OpRecord
  <2>4. CASE ~External(k)
    <3>1. OpRecord[k]' = "no_effect"
      BY <1>2, <2>1, <2>4 DEF OpRecord
    <3>. QED  BY <2>2, <2>4, <3>1, EffectIsExternal
  <2>. QED  BY <2>3, <2>4
<1>. QED  BY <1>1, <1>2, <1>3, <1>4, SeenInRow DEF Ledger!Next, Ledger!Resolve

LEMMA ExecuteTakesEffect ==
  ASSUME HonestInv, NEW c \in Calls, Execute(c)
  PROVE  [Ledger!Next]_(Ledger!vars)
<1> DEFINE k == req[c].key
<1>1. CASE landed' = landed
  <2>1. \A j \in Keys : LandedOn(j)' <=> LandedOn(j)
    BY <1>1 DEF LandedOn, Execute
  <2>. QED  BY <2>1, Unseen DEF Execute
<1>2. CASE landed' = landed \cup {c} /\ ~DryRun /\ IsWrite(req[c].payload)
  <2>1. k \in Keys /\ ApprovedAndRecorded(c)
    BY <1>2 DEF HonestInv, IInv, RequestsFormed, WritesOwnTheirRow, Execute
  <2>2. calls[k] # None /\ calls[k].call = c /\ calls[k].result = None
    BY <2>1 DEF ApprovedAndRecorded, HonestInv, OwnersFormed, Execute
  <2>3. ~LandedOn(k)
    <3>1. c \notin landed
      BY DEF HonestInv, IInv, TypeOK, ExecutionsFormed, Execute
    <3>. QED  BY <2>1, <2>2, <3>1, LandedByOwner DEF HonestInv
  <2>4. LandedOn(k)' /\ \A j \in Keys : j # k => (LandedOn(j)' <=> LandedOn(j))
    BY <1>2 DEF LandedOn, Execute
  <2>5. OpPhase' = OpPhase /\ OpRecord' = OpRecord
    BY DEF OpPhase, OpRecord, External, Execute
  <2>6. OpPhase[k] = "prepared" /\ ~OpEffect[k]
    BY <2>1, <2>2, <2>3 DEF OpPhase, OpEffect
  <2>7. OpEffect' = [OpEffect EXCEPT ![k] = TRUE]
    <3>1. \A j \in Keys : (LandedOn(j))' = IF j = k THEN TRUE ELSE LandedOn(j)
      <4> SUFFICES ASSUME NEW j \in Keys
                   PROVE  (LandedOn(j))' = IF j = k THEN TRUE ELSE LandedOn(j)
        OBVIOUS
      <4>1. CASE j = k
        <5>1. req' = req
          BY DEF Execute
        <5>. QED  BY <2>4, <4>1, <5>1, Zenon DEF LandedOn
      <4>2. CASE j # k
        BY <2>4, <4>2, Zenon DEF LandedOn
      <4>. QED  BY <4>1, <4>2
    <3>. QED  BY <2>1, <3>1, Zenon DEF OpEffect
  <2>. QED  BY <2>1, <2>5, <2>6, <2>7 DEF Ledger!Next, Ledger!TakeEffect
<1>. QED  BY <1>1, <1>2 DEF Execute

LEMMA SaveResolves ==
  ASSUME HonestInv, NEW c \in Calls, Save(c)
  PROVE  [Ledger!Next]_(Ledger!vars)
<1> DEFINE k == req[c].key
<1>1. k \in Keys /\ calls[k] # None /\ outcome[c] \in Dispatched
  BY DEF HonestInv, IInv, RequestsFormed, RowsExist, ExecutionsFormed, Save
<1>2. CASE calls[k].call # c
  <2>1. \A j \in Keys : LandedOn(j)' <=> LandedOn(j)
    BY DEF LandedOn, Save
  <2>. QED  BY <1>2, <2>1, Unseen DEF Save
<1>3. CASE calls[k].call = c
  <2>1. calls[k].result = None /\ calls[k].payload = req[c].payload
    BY <1>1, <1>3 DEF HonestInv, OwnersFormed, Save
  <2>2. LandedOn(k) <=> c \in landed
    BY <1>1, <1>3, LandedByOwner DEF HonestInv
  <2>3. /\ External(k) /\ outcome[c] \in {"ok", "r_confirmed"} => LandedOn(k)
        /\ External(k) /\ outcome[c] \in {"rejected", "r_no_effect"} => ~LandedOn(k)
    BY <1>1, <2>1, <2>2 DEF External, HonestInv, EffectsTold, Save
  <2>4. outcome[c] \in Results
    BY <1>1
  <2>. QED  BY <1>1, <1>3, <2>1, <2>3, <2>4, ResultResolves DEF Save
<1>. QED  BY <1>2, <1>3

LEMMA MarkResolves ==
  ASSUME HonestInv, ReconcileMark
  PROVE  [Ledger!Next]_(Ledger!vars)
<1> DEFINE k == verdict.key
<1>1. k \in Keys /\ calls[k] # None /\ verdict.result \in Reconciled
  BY DEF HonestInv, IInv, TypeOK, RowsExist, ReconcileMark
<1>2. CASE calls[k].result # None
  <2>1. \A j \in Keys : LandedOn(j)' <=> LandedOn(j)
    BY DEF LandedOn, ReconcileMark
  <2>. QED  BY <1>2, <2>1, Unseen DEF ReconcileMark
<1>3. CASE calls[k].result = None
  <2>1. LandedOn(k) <=> calls[k].call \in landed
    BY <1>1, LandedByOwner DEF HonestInv
  <2>2. /\ External(k) /\ verdict.result \in {"ok", "r_confirmed"} => LandedOn(k)
        /\ External(k) /\ verdict.result \in {"rejected", "r_no_effect"} => ~LandedOn(k)
    BY <1>1, <2>1 DEF HonestInv, EffectsTold, ReconcileMark
  <2>3. verdict.result \in Results
    BY <1>1
  <2>. QED  BY <1>1, <1>3, <2>2, <2>3, ResultResolves DEF ReconcileMark
<1>. QED  BY <1>2, <1>3

LEMMA LedgerInit == Init => Ledger!Init
BY DEF Init, Ledger!Init, OpPhase, OpEffect, OpRecord, LandedOn

LEMMA LedgerStep == HonestInv /\ [Next]_vars => [Ledger!Next]_(Ledger!vars)
<1> SUFFICES ASSUME HonestInv, [Next]_vars PROVE [Ledger!Next]_(Ledger!vars)
  OBVIOUS
<1>1. ASSUME calls' = calls, mode' = mode, landed' = landed,
             \A c \in landed : req'[c] = req[c]
      PROVE  UNCHANGED Ledger!vars
  BY <1>1, Unseen DEF LandedOn
<1>2. CASE UNCHANGED vars
  BY <1>1, <1>2 DEF vars
<1>3. CASE Approve
  BY <1>1, <1>3 DEF Approve, IssueApproval, ExpireApproval
<1>4. ASSUME NEW c \in Calls, Request(c) PROVE UNCHANGED Ledger!vars
  <2>1. c \notin landed
    BY <1>4 DEF Request, Deny, Lookup, Arrive, HonestInv, IInv, TypeOK, ExecutionsFormed
  <2>2. \A d \in landed : req'[d] = req[d]
    BY <1>4, <2>1 DEF Request, Deny, Lookup, Arrive, HonestInv, IInv, TypeOK
  <2>3. calls' = calls /\ mode' = mode /\ landed' = landed
    BY <1>4 DEF Request, Deny, Lookup
  <2>. QED  BY <1>1, <2>2, <2>3
<1>5. ASSUME NEW c \in Calls, Advance(c) PROVE [Ledger!Next]_(Ledger!vars)
  <2>1. CASE ConsumeAndPrepare(c)
    BY <1>1, <2>1, InsertPrepares DEF ConsumeAndPrepare
  <2>2. CASE PrepareCall(c)
    BY <1>1, <2>2, InsertPrepares DEF PrepareCall
  <2>3. CASE Reread(c)
    BY <1>1, <2>3 DEF Reread
  <2>4. CASE Execute(c)
    BY <2>4, ExecuteTakesEffect
  <2>5. CASE Save(c)
    BY <2>5, SaveResolves
  <2>. QED  BY <1>5, <2>1, <2>2, <2>3, <2>4, <2>5 DEF Advance
<1>6. CASE ReconcileNext
  <2>1. CASE ReconcileList
    BY <1>1, <2>1 DEF ReconcileList
  <2>2. ASSUME NEW k \in Keys, ReconcileAsk(k) PROVE UNCHANGED Ledger!vars
    BY <1>1, <2>2 DEF ReconcileAsk
  <2>3. CASE ReconcileMark
    BY <2>3, MarkResolves
  <2>. QED  BY <1>6, <2>1, <2>2, <2>3 DEF ReconcileNext
<1>7. CASE Crash
  BY <1>1, <1>7 DEF Crash
<1>. QED  BY <1>2, <1>3, <1>4, <1>5, <1>6, <1>7 DEF Next

(* The broker, with its threads, crashes and reconciliations in quiet, is  *)
(* an operation ledger: each key is prepared, takes effect at most once    *)
(* and only then, and is resolved once by what tells its effect.           *)
THEOREM LedgerSpecCorrect == ~OnlineReconcile => (Spec => LedgerSpec)
<1> SUFFICES ASSUME ~OnlineReconcile PROVE Spec => LedgerSpec
  OBVIOUS
<1>. QED  BY LedgerInit, LedgerStep, HonestInductive, PTL DEF Spec, LedgerSpec, Ledger!Spec

(* No verdict replaces a result, with reconciliation at any time: only the *)
(* owner of a row saves over what is there, once, when it returns.         *)
THEOREM ReconcileNeverOverwritesCorrect == Spec => ReconcileNeverOverwrites
<1> DEFINE A == \A k \in Keys :
       (calls[k] # None /\ calls[k].result # None /\ calls'[k] # calls[k])
         => /\ calls'[k].result \in Dispatched
            /\ stage[calls[k].call] = "executed"
<1>1. IInv /\ [Next]_vars => A
  <2> SUFFICES ASSUME IInv, [Next]_vars, NEW k \in Keys, calls[k] # None,
                      calls[k].result # None, calls'[k] # calls[k]
               PROVE  calls'[k].result \in Dispatched /\ stage[calls[k].call] = "executed"
    OBVIOUS
  <2>1. calls \in [Keys -> Row \cup {None}]
    BY DEF IInv, TypeOK
  <2>2. ~UNCHANGED vars /\ ~Approve /\ ~Crash /\ ~ReconcileNext /\ ~\E c \in Calls : Request(c)
    <3>1. ~ReconcileMark
      BY <2>1 DEF ReconcileMark, IInv, TypeOK
    <3>. QED  BY <3>1, ZenonT(40) DEF vars, Approve, IssueApproval, ExpireApproval, Crash, ReconcileNext,
             ReconcileList, ReconcileAsk, Request, Deny, Lookup
  <2>3. PICK c \in Calls : Advance(c)
    BY <2>2 DEF Next
  <2>4. Save(c)
    BY <2>1, <2>3 DEF Advance, ConsumeAndPrepare, PrepareCall, Reread, Execute, IInv, RequestsFormed
  <2>5. req[c].key \in Keys /\ outcome[c] \in Dispatched /\ stage[c] = "executed"
    BY <2>4 DEF Save, IInv, RequestsFormed, ExecutionsFormed
  <2>6. k = req[c].key /\ calls[k].call = c /\ calls' = [calls EXCEPT ![k].result = outcome[c]]
    BY <2>1, <2>4, <2>5 DEF Save
  <2>7. calls[k] \in Row /\ calls'[k] = [calls[k] EXCEPT !.result = outcome[c]]
    BY <2>1, <2>6
  <2>. QED  BY <2>5, <2>6, <2>7
<1>2. IInv /\ [Next]_vars => [A]_vars
  BY <1>1
<1>. QED  BY <1>1, Inductive, PTL DEF Spec, ReconcileNeverOverwrites
=============================================================================
