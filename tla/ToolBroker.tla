----------------------------- MODULE ToolBroker -----------------------------
(***************************************************************************)
(* The tool broker of one run (broker.py) over the two tables it keeps in  *)
(* the store (store.py): the tool-call ledger, one row per idempotency key *)
(* of the run, and the one-use approvals.                                  *)
(*                                                                         *)
(* Every store method opens a connection and commits a transaction of its  *)
(* own, so request_tool_call is not atomic: a thread looks the key up, then*)
(* prepares the row, then executes at the provider, then saves the result, *)
(* and other threads, the reconciler or a crash may come between any two   *)
(* of those steps.  Each action below is one such transaction with the     *)
(* code that runs up to the next one.                                      *)
(*                                                                         *)
(* A payload is a tool together with its canonical arguments.  Capability, *)
(* argument-schema and budget checks read nothing the ledger holds and are *)
(* one nondeterministic early return (Deny).                               *)
(***************************************************************************)
EXTENDS Naturals, FiniteSets

CONSTANTS
  Calls,           \* call ids: one per invocation of request_tool_call
  Keys,            \* idempotency keys of the run
  Payloads,        \* a tool with its canonical arguments
  WritePayloads,   \* those whose tool schema declares the effect "write"
  Tools,           \* tool names
  ToolOf,          \* the tool of a payload
  Modes,           \* the execution modes runs are created with
  OnlineReconcile, \* reconcile_run may run while requests are in flight
  ProviderKnows,   \* the provider's reconcile never answers "unknown"
  MaxCrashes,      \* bound on process crashes
  None             \* absent row, token or result

ASSUME CallsAssumption ==
  /\ WritePayloads \subseteq Payloads
  /\ ToolOf \in [Payloads -> Tools]
  /\ OnlineReconcile \in BOOLEAN
  /\ ProviderKnows \in BOOLEAN
  /\ MaxCrashes \in Nat

(***************************************************************************)
(* A token is built from the run, the environment, the tool and the key;   *)
(* the arguments are not part of it.                                       *)
(***************************************************************************)
Tokens == Tools \X Keys

(* What an execution or a reconciliation can leave in result_json.         *)
Dispatched == {"ok", "rejected", "unknown"}
Reconciled == {"r_confirmed", "r_no_effect", "r_unknown"}
Results    == Dispatched \cup Reconciled

(* What request_tool_call answers without a result.                        *)
Refusals == {"denied", "conflict", "unresolved", "forbidden"}

Row == [call: Calls, payload: Payloads, result: Results \cup {None}]

Verdict == [key: Keys, result: Reconciled]

ASSUME NoneAssumption ==
  /\ None \notin Keys \cup Payloads \cup Calls \cup Results
  /\ None \notin Tokens \cup Row \cup Verdict

Stages == {"idle", "looked", "reread", "prepared", "executed", "done", "lost"}
InFlight == {"looked", "reread", "prepared", "executed"}

VARIABLES
  calls,      \* table tool_calls: key -> row, or None
  approvals,  \* table approvals: token -> status and the payload it binds
  stage,      \* where each invocation of request_tool_call stands
  req,        \* its key, payload and approval token
  existed,    \* whether its lookup found a row (the local "existing")
  outcome,    \* what its execution produced, or its answer once it is done
  listed,     \* keys the reconciler listed and has still to visit
  verdict,    \* the verdict it has obtained and has still to record
  mode,       \* the run's execution mode, set when the run was created
  crashes     \* crashes so far

\* The provider, and the history of what reached it (not broker state).
VARIABLES
  dispatched, \* call ids whose execution reached the provider
  landed      \* call ids whose write took effect there

brokerVars == <<stage, req, existed, outcome>>
recVars    == <<listed, verdict>>
extVars    == <<dispatched, landed>>
procVars   == <<mode, crashes>>
vars == <<calls, approvals, stage, req, existed, outcome, listed, verdict,
          mode, crashes, dispatched, landed>>

IsWrite(p) == p \in WritePayloads

DryRun == mode = "dry_run"

(* The calls that need an approval: `schema.effect == "write" and not dry_run`. *)
NeedsApproval(p) == IsWrite(p) /\ ~DryRun

NoRequest == [key |-> None, payload |-> None, token |-> None]

Init ==
  /\ calls = [k \in Keys |-> None]
  /\ approvals = [t \in Tokens |-> [status |-> "absent", payload |-> None]]
  /\ stage = [c \in Calls |-> "idle"]
  /\ req = [c \in Calls |-> NoRequest]
  /\ existed = [c \in Calls |-> FALSE]
  /\ outcome = [c \in Calls |-> None]
  /\ listed = {}
  /\ verdict = None
  /\ mode \in Modes
  /\ crashes = 0
  /\ dispatched = {}
  /\ landed = {}

-----------------------------------------------------------------------------
(***************************************************************************)
(* Approvals.                                                              *)
(***************************************************************************)

(* The insert of a second token for the same tool and key violates the     *)
(* primary key and raises: the table is left alone.                        *)
IssueApproval(p, k) ==
  LET t == <<ToolOf[p], k>> IN
  /\ IsWrite(p)
  /\ approvals[t].status = "absent"
  /\ approvals' = [approvals EXCEPT ![t] = [status |-> "live", payload |-> p]]
  /\ UNCHANGED <<calls, brokerVars, recVars, extVars, procVars>>

(* The clock passes expires_at.                                            *)
ExpireApproval(t) ==
  /\ approvals[t].status = "live"
  /\ approvals' = [approvals EXCEPT ![t].status = "expired"]
  /\ UNCHANGED <<calls, brokerVars, recVars, extVars, procVars>>

-----------------------------------------------------------------------------
(***************************************************************************)
(* One invocation of request_tool_call.                                    *)
(***************************************************************************)

Goto(c, s) == stage' = [stage EXCEPT ![c] = s]

Answer(c, a) ==
  /\ Goto(c, "done")
  /\ outcome' = [outcome EXCEPT ![c] = a]

(* A request names any key and payload; its token, when it has one, is the *)
(* one issued for some tool under some key.                                *)
Arrive(c, k, p, t) ==
  /\ stage[c] = "idle"
  /\ t \in Tokens => approvals[t].status # "absent"
  /\ req' = [req EXCEPT ![c] = [key |-> k, payload |-> p, token |-> t]]

(* Unknown tool, capability, argument or budget: refused before the ledger *)
(* is read.                                                                *)
Deny(c, k, p, t) ==
  /\ Arrive(c, k, p, t)
  /\ Answer(c, "denied")
  /\ UNCHANGED <<calls, approvals, existed, recVars, extVars, procVars>>

(* The idempotency lookup.  A row with another payload is a conflict, a    *)
(* recorded result is replayed, an unresolved write is never repeated; an  *)
(* unresolved read goes on, like a key with no row.                        *)
Lookup(c, k, p, t) ==
  LET row == calls[k] IN
  /\ Arrive(c, k, p, t)
  /\ \/ /\ row # None
        /\ row.payload # p
        /\ Answer(c, "conflict")
        /\ UNCHANGED existed
     \/ /\ row # None
        /\ row.payload = p
        /\ row.result # None
        /\ Answer(c, row.result)
        /\ UNCHANGED existed
     \/ /\ row # None
        /\ row.payload = p
        /\ row.result = None
        /\ IsWrite(p)
        /\ Answer(c, "unresolved")
        /\ UNCHANGED existed
     \/ /\ row # None => row.payload = p /\ row.result = None /\ ~IsWrite(p)
        /\ existed' = [existed EXCEPT ![c] = row # None]
        /\ Goto(c, "looked")
        /\ UNCHANGED outcome
  /\ UNCHANGED <<calls, approvals, recVars, extVars, procVars>>

(* The token binds this tool, key and arguments and can still be used.     *)
TokenAuthorizes(t, k, p) ==
  /\ t \in Tokens
  /\ t = <<ToolOf[p], k>>
  /\ approvals[t].status = "live"
  /\ approvals[t].payload = p

InsertRow(c) ==
  calls' = [calls EXCEPT ![req[c].key] =
              [call |-> c, payload |-> req[c].payload, result |-> None]]

(* Mutant: a row that appeared since the lookup is taken for one's own.    *)
ConsumeAndPrepare_RowIgnored(c) ==
  LET k == req[c].key  p == req[c].payload  t == req[c].token IN
  /\ stage[c] = "looked"
  /\ NeedsApproval(p)
  /\ IF TokenAuthorizes(t, k, p)
       THEN /\ approvals' = [approvals EXCEPT ![t].status = "consumed"]
            /\ IF calls[k] = None THEN InsertRow(c) ELSE UNCHANGED calls
            /\ Goto(c, "prepared")
            /\ UNCHANGED outcome
       ELSE Answer(c, "forbidden") /\ UNCHANGED <<approvals, calls>>
  /\ UNCHANGED <<req, existed, recVars, extVars, procVars>>

(* One transaction consumes the approval and inserts the prepared row, or  *)
(* neither happens.                                                        *)
ConsumeAndPrepare(c) ==
  LET k == req[c].key  p == req[c].payload  t == req[c].token IN
  /\ stage[c] = "looked"
  /\ NeedsApproval(p)
  /\ \/ /\ TokenAuthorizes(t, k, p)
        /\ calls[k] = None
        /\ approvals' = [approvals EXCEPT ![t].status = "consumed"]
        /\ InsertRow(c)
        /\ Goto(c, "prepared")
        /\ UNCHANGED outcome
     \/ /\ TokenAuthorizes(t, k, p)
        /\ calls[k] # None
        /\ Answer(c, IF calls[k].payload = p THEN "forbidden" ELSE "conflict")
        /\ UNCHANGED <<approvals, calls>>
     \/ /\ ~TokenAuthorizes(t, k, p)
        /\ Answer(c, "forbidden")
        /\ UNCHANGED <<approvals, calls>>
  /\ UNCHANGED <<req, existed, recVars, extVars, procVars>>

(* Mutant: INSERT OR REPLACE, as for the other tables of the store.        *)
PrepareCall_Replaces(c) ==
  /\ stage[c] = "looked"
  /\ ~NeedsApproval(req[c].payload)
  /\ InsertRow(c)
  /\ Goto(c, "prepared")
  /\ UNCHANGED <<approvals, req, existed, outcome, recVars, extVars, procVars>>

(* Reads, and every call of a dry run: insert the row if the key is free.  *)
(* A caller whose lookup had found the row goes on without a row of its    *)
(* own; one that lost the insert race reads the winner's row.              *)
PrepareCall(c) ==
  LET k == req[c].key IN
  /\ stage[c] = "looked"
  /\ ~NeedsApproval(req[c].payload)
  /\ \/ /\ calls[k] = None
        /\ InsertRow(c)
        /\ Goto(c, "prepared")
     \/ /\ calls[k] # None
        /\ Goto(c, IF existed[c] THEN "prepared" ELSE "reread")
        /\ UNCHANGED calls
  /\ UNCHANGED <<approvals, req, existed, outcome, recVars, extVars, procVars>>

(* The race's loser answers the winner's result if it is there already.    *)
Reread(c) ==
  LET row == calls[req[c].key] IN
  /\ stage[c] = "reread"
  /\ Answer(c, IF row.result # None THEN row.result ELSE "conflict")
  /\ UNCHANGED <<calls, approvals, req, existed, recVars, extVars, procVars>>

(***************************************************************************)
(* The provider call.  A dry run never reaches the provider.  A provider   *)
(* may succeed, reject without an effect, or raise; when it raises a write *)
(* may or may not have taken effect.                                       *)
(***************************************************************************)
Execute(c) ==
  /\ stage[c] = "prepared"
  /\ Goto(c, "executed")
  /\ \/ /\ DryRun
        /\ outcome' = [outcome EXCEPT ![c] = "ok"]
        /\ UNCHANGED extVars
     \/ /\ ~DryRun
        /\ dispatched' = dispatched \cup {c}
        /\ \E o \in Dispatched :
             /\ outcome' = [outcome EXCEPT ![c] = o]
             /\ \/ /\ o # "rejected"
                   /\ IsWrite(req[c].payload)
                   /\ landed' = landed \cup {c}
                \/ /\ o # "ok" \/ ~IsWrite(req[c].payload)
                   /\ UNCHANGED landed
  /\ UNCHANGED <<calls, approvals, req, existed, recVars, procVars>>

(* save_tool_result updates the row with this call id, if there is one,    *)
(* whatever it holds.                                                      *)
Save(c) ==
  LET k == req[c].key IN
  /\ stage[c] = "executed"
  /\ calls' = IF calls[k].call = c
                THEN [calls EXCEPT ![k].result = outcome[c]]
                ELSE calls
  /\ Goto(c, "done")
  /\ UNCHANGED <<approvals, req, existed, outcome, recVars, extVars, procVars>>

-----------------------------------------------------------------------------
(***************************************************************************)
(* reconcile_run: list the rows without a result, then, one row after the  *)
(* other, ask the provider and record the verdict if the row is still      *)
(* without a result.                                                       *)
(***************************************************************************)
Unreconciled == {k \in Keys : calls[k] # None /\ calls[k].result = None}

Quiet == \A c \in Calls : stage[c] \notin InFlight

ReconcileList ==
  /\ OnlineReconcile \/ Quiet
  /\ listed = {}
  /\ verdict = None
  /\ Unreconciled # {}
  /\ listed' = Unreconciled
  /\ UNCHANGED <<calls, approvals, brokerVars, verdict, extVars, procVars>>

LandedOn(k) == \E c \in landed : req[c].key = k

(* Mutant: an unknown key is taken for no effect.                          *)
Verdicts_NoEffectByDefault(k) ==
  {"r_no_effect"} \cup (IF LandedOn(k) /\ ProviderKnows THEN {"r_confirmed"} ELSE {})

(* The provider tells the truth about a write, or says it does not know;   *)
(* a read has no effect by declaration.                                    *)
Verdicts(k) ==
  IF ~IsWrite(calls[k].payload)
    THEN {"r_no_effect"}
    ELSE {IF LandedOn(k) THEN "r_confirmed" ELSE "r_no_effect"}
           \cup (IF ProviderKnows THEN {} ELSE {"r_unknown"})

ReconcileAsk(k) ==
  /\ k \in listed
  /\ verdict = None
  /\ \E v \in Verdicts(k) : verdict' = [key |-> k, result |-> v]
  /\ listed' = listed \ {k}
  /\ UNCHANGED <<calls, approvals, brokerVars, extVars, procVars>>

(* Mutant: an unknown verdict leaves the row without a result.             *)
ReconcileMark_SkipsUnknown ==
  /\ verdict # None
  /\ calls' = IF calls[verdict.key].result = None /\ verdict.result # "r_unknown"
                THEN [calls EXCEPT ![verdict.key].result = verdict.result]
                ELSE calls
  /\ verdict' = None
  /\ UNCHANGED <<approvals, brokerVars, listed, extVars, procVars>>

ReconcileMark ==
  /\ verdict # None
  /\ calls' = IF calls[verdict.key].result = None
                THEN [calls EXCEPT ![verdict.key].result = verdict.result]
                ELSE calls
  /\ verdict' = None
  /\ UNCHANGED <<approvals, brokerVars, listed, extVars, procVars>>

(* The process dies: every invocation in flight, and the reconciler's      *)
(* worklist, are gone; the tables and the provider's state stay.           *)
Crash ==
  /\ crashes < MaxCrashes
  /\ crashes' = crashes + 1
  /\ stage' = [c \in Calls |-> IF stage[c] \in InFlight THEN "lost" ELSE stage[c]]
  /\ listed' = {}
  /\ verdict' = None
  /\ UNCHANGED <<calls, approvals, req, existed, outcome, mode, extVars>>

-----------------------------------------------------------------------------
Request(c) ==
  \E k \in Keys, p \in Payloads, t \in Tokens \cup {None} :
    Deny(c, k, p, t) \/ Lookup(c, k, p, t)

Advance(c) ==
  ConsumeAndPrepare(c) \/ PrepareCall(c) \/ Reread(c) \/ Execute(c) \/ Save(c)

Approve == \/ \E p \in Payloads, k \in Keys : IssueApproval(p, k)
           \/ \E t \in Tokens : ExpireApproval(t)

ReconcileNext ==
  \/ ReconcileList
  \/ \E k \in Keys : ReconcileAsk(k)
  \/ ReconcileMark

Next ==
  \/ Approve
  \/ \E c \in Calls : Request(c) \/ Advance(c)
  \/ ReconcileNext
  \/ Crash

Spec == Init /\ [][Next]_vars

(***************************************************************************)
(* A thread that has entered request_tool_call runs on unless the process  *)
(* dies, and someone keeps calling reconcile_run.  Requests, approvals,    *)
(* expiry and crashes may or may not come.                                 *)
(***************************************************************************)
Fairness ==
  /\ \A c \in Calls : WF_vars(Advance(c))
  /\ WF_vars(ReconcileNext)

FairSpec == Spec /\ Fairness

-----------------------------------------------------------------------------
(* The ledger, the approvals and every invocation keep to their types, and  *)
(* an effect is one of a dispatched call.                                   *)
TypeOK ==
  /\ calls \in [Keys -> Row \cup {None}]
  /\ approvals \in [Tokens -> [status: {"absent", "live", "expired", "consumed"},
                               payload: Payloads \cup {None}]]
  /\ stage \in [Calls -> Stages]
  /\ req \in [Calls -> [key: Keys \cup {None}, payload: Payloads \cup {None},
                        token: Tokens \cup {None}]]
  /\ existed \in [Calls -> BOOLEAN]
  /\ outcome \in [Calls -> Results \cup Refusals \cup {None}]
  /\ listed \subseteq Keys
  /\ verdict \in Verdict \cup {None}
  /\ mode \in Modes
  /\ crashes \in 0..MaxCrashes
  /\ dispatched \subseteq Calls
  /\ landed \subseteq dispatched

WriteDispatched(c) == c \in dispatched /\ IsWrite(req[c].payload)

ApprovedAndRecorded(c) ==
  LET k == req[c].key  p == req[c].payload  t == <<ToolOf[p], k>> IN
  /\ req[c].token = t
  /\ approvals[t] = [status |-> "consumed", payload |-> p]
  /\ calls[k] # None
  /\ calls[k].call = c
  /\ calls[k].payload = p

(***************************************************************************)
(* A write reaches the provider at most once per idempotency key, whatever *)
(* retries, races between two threads, reconciliations and crashes come    *)
(* between: lookup, approval and insert are separate transactions, and     *)
(* only together do they rule a second dispatch out.                       *)
(***************************************************************************)
AtMostOneWriteDispatch ==
  \A c1, c2 \in Calls :
    /\ WriteDispatched(c1)
    /\ WriteDispatched(c2)
    /\ req[c1].key = req[c2].key
    => c1 = c2

(***************************************************************************)
(* Every write that reached the provider spent an approval bound to its    *)
(* tool, key and arguments, and its row was in the ledger beforehand and   *)
(* is there still: no effect is unapproved, and none is invisible to a     *)
(* restarted process.                                                      *)
(***************************************************************************)
WriteIsApprovedAndRecorded ==
  \A c \in Calls : WriteDispatched(c) => ApprovedAndRecorded(c)

(***************************************************************************)
(* Writes through the broker are safe: on well-formed tables, each is      *)
(* dispatched once for its key, with its approval and its row.             *)
(***************************************************************************)
WritesAreSafe == TypeOK /\ AtMostOneWriteDispatch /\ WriteIsApprovedAndRecorded

(***************************************************************************)
(* What the ledger says of a write is what happened at the provider: a     *)
(* success or a confirmation means the effect is there, a rejection or a   *)
(* "no effect" means it is not.  Reconciliation runs while no request is   *)
(* in flight.                                                              *)
(***************************************************************************)
LedgerTellsTheTruth ==
  (~DryRun /\ ~OnlineReconcile) =>
    \A k \in Keys :
      calls[k] # None /\ IsWrite(calls[k].payload) =>
        /\ calls[k].result \in {"ok", "r_confirmed"} => LandedOn(k)
        /\ calls[k].result \in {"rejected", "r_no_effect"} => ~LandedOn(k)

(***************************************************************************)
(* All the results ever answered for one write operation agree: the thread *)
(* that executed it and every replay of its key saw the same result.       *)
(***************************************************************************)
AnswersAgree ==
  ~OnlineReconcile =>
    \A c1, c2 \in Calls :
      /\ stage[c1] = "done" /\ outcome[c1] \in Results
      /\ stage[c2] = "done" /\ outcome[c2] \in Results
      /\ req[c1].key = req[c2].key
      /\ IsWrite(req[c1].payload)
      => outcome[c1] = outcome[c2]

(***************************************************************************)
(* What the broker says of a write, in its ledger and in its answers, is   *)
(* one story, and the true one.                                            *)
(***************************************************************************)
LedgerIsHonest == LedgerTellsTheTruth /\ AnswersAgree

(***************************************************************************)
(* A recorded result is never replaced by a reconciliation verdict, even   *)
(* when a slow provider call saves its result between the reconciler's     *)
(* list and its mark; only the call that owns the row may save over it.    *)
(***************************************************************************)
ReconcileNeverOverwrites ==
  [][\A k \in Keys :
       (calls[k] # None /\ calls[k].result # None /\ calls'[k] # calls[k])
         => /\ calls'[k].result \in Dispatched
            /\ stage[calls[k].call] = "executed"]_vars

(***************************************************************************)
(* While reconcile_run keeps being called, no prepared row stays without a *)
(* result: neither a crash between prepare and save nor a provider that    *)
(* does not know leaves an operation pending for good.                     *)
(***************************************************************************)
PreparedGetsResult ==
  \A k \in Keys : (calls[k] # None) ~> (calls[k] # None /\ calls[k].result # None)

(***************************************************************************)
(* Reconciliation, racing requests and a crash, settles every operation    *)
(* once: with a result in the end, and never over one.                     *)
(***************************************************************************)
ReconcileSettles == PreparedGetsResult /\ ReconcileNeverOverwrites

-----------------------------------------------------------------------------
(***************************************************************************)
(* What the documents say and the code does not do.                        *)
(***************************************************************************)

(* SPEC.md: the same run and key with the same input returns a result or a *)
(* status "without redispatch".  A prepared read is dispatched again.      *)
NoRedispatch ==
  \A c1, c2 \in dispatched : req[c1].key = req[c2].key => c1 = c2

-----------------------------------------------------------------------------
(***************************************************************************)
(* Refinement: seen from outside, each key is one operation of the ledger. *)
(***************************************************************************)
External(k) == IsWrite(calls[k].payload) /\ ~DryRun

OpPhase == [k \in Keys |->
  IF calls[k] = None THEN "new"
  ELSE IF calls[k].result = None THEN "prepared" ELSE "resolved"]

OpEffect == [k \in Keys |-> LandedOn(k)]

OpRecord == [k \in Keys |->
  IF calls[k] = None \/ calls[k].result = None THEN "open"
  ELSE IF ~External(k) THEN "no_effect"
  ELSE IF calls[k].result \in {"ok", "r_confirmed"} THEN "took_effect"
  ELSE IF calls[k].result \in {"rejected", "r_no_effect"} THEN "no_effect"
  ELSE "uncertain"]

Ledger == INSTANCE OperationLedger
            WITH phase <- OpPhase, effect <- OpEffect, record <- OpRecord

(* The broker with its store, threads, crashes and reconciler implements   *)
(* the abstract operation ledger, when reconciliation runs in quiet.       *)
LedgerSpec == Ledger!Spec

=============================================================================
