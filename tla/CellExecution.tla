--------------------------- MODULE CellExecution ---------------------------
(***************************************************************************)
(* Executing one cell of an evaluation: DurableRuntime                     *)
(* .execute_evaluation_task (app.py), which makes a run under a key built  *)
(* from the protocol, task, arm, seed, bundle and attempt, launches it,    *)
(* and turns the run's evidence into an observation; and what              *)
(* DefaultExperimentStageRunner (experiment_runtime.py) makes of it: the   *)
(* receipt that is stored, and the observation rebuilt from the receipt    *)
(* after a restart.                                                        *)
(*                                                                         *)
(* A cell whose executor died is executed again under its old key, and two *)
(* jobs of one frozen protocol execute the same base cells, so that        *)
(* several executors can meet on one run.  Each is a process of its own;   *)
(* the key is created by RunCreation.  The launch is RunLifecycle's: here  *)
(* it is as fine as the whole-row writes others can come between.          *)
(***************************************************************************)
EXTENDS RunCreation, Sequences

CONSTANTS
  MaxExecutors, \* executions of the cell, one after the other
  MaxOverlaps,  \* of those, when some overlap before one is accepted
  MaxResponses, \* model responses of one execution
  MaxUnlike,    \* responses whose receipt has another cost than a nominal one
  MaxCrashes    \* executors that die

ASSUME CellAssumption ==
  /\ MaxExecutors \in Nat /\ MaxOverlaps \in Nat
  /\ MaxResponses \in Nat /\ MaxUnlike \in Nat /\ MaxCrashes \in Nat

(* What a receipt says of the cost.                                        *)
Prices == {"exact", "nominal", "none"}

(* One model response: the executor that paid for it, which of its         *)
(* responses it is, and what its receipt says of the cost.                 *)
Response == [by: Requests, turn: 1..MaxResponses, price: Prices]

(* An accounting artifact: the response it is of, the receipts it adds up  *)
(* and who measured the terminal fields, None for the one of the response. *)
Accounting ==
  [response: Response, receipts: SUBSET Response, sealed: Requests \cup {None}]

ModelEvent   == [response: Response, receipts: SUBSET Response]
OutcomeEvent == [response: Response, passed: BOOLEAN]

Statuses == {"queued", "running", "succeeded", "failed"}

(* What the row of the key holds beside its pins.                          *)
Content == [status: Statuses, identity: BOOLEAN, final: Accounting \cup {None}]

(* What an executor read of the run's events, and what it answers with.    *)
View        == [model: ModelEvent, outcome: OutcomeEvent]
Observation == [model: ModelEvent, outcome: OutcomeEvent, accounting: Accounting,
                passed: BOOLEAN]

ASSUME NoneAssumption ==
  /\ None \notin Content \cup Accounting \cup View \cup Observation
  /\ None \notin BOOLEAN

VARIABLES
  cells,     \* the requests that execute the cell; the key is theirs or API clients'
  content,   \* the rest of the row that holds the key
  models,    \* the model events of each run, in order
  verdicts,  \* and its outcome events; nothing compares the order of the two kinds
  outcomes,  \* table outcomes: `passed` of each run, or None
  stage,     \* where each executor is
  held,      \* the content it read and will write back
  seal,      \* the accounting it is about to bind or to use
  ledger,    \* the receipts its process remembers of the run, {} before its first
  view,      \* the last model and outcome events it read
  obs,       \* the observation it answered with
  crashes,
  overlapped, \* history: two executors were active at once,
  settled     \* and the ones that were accepted before that

cellVars == <<cells, content, models, verdicts, outcomes, stage, held, seal, ledger,
              view, obs, crashes, overlapped, settled>>
allVars == <<vars, cellVars>>

Fresh == [status |-> "queued", identity |-> FALSE, final |-> None]

CellInit ==
  /\ Init
  /\ cells \in {{}, Requests}
  /\ content = Fresh
  /\ models = [r \in Requests |-> <<>>]
  /\ verdicts = [r \in Requests |-> <<>>]
  /\ outcomes = [r \in Requests |-> None]
  /\ stage = [r \in Requests |-> "idle"]
  /\ held = [r \in Requests |-> None]
  /\ seal = [r \in Requests |-> None]
  /\ ledger = [r \in Requests |-> {}]
  /\ view = [r \in Requests |-> None]
  /\ obs = [r \in Requests |-> None]
  /\ crashes = 0
  /\ overlapped = FALSE
  /\ settled = {}

Over == {"idle", "accepted", "failed", "dead"}
Stages ==
  Over \cup {"creating", "identifying", "launching", "claimed", "binding", "driving",
             "recording", "ending", "sealing", "binding accounting", "measuring",
             "accounting", "publishing", "binding once", "observing"}
Active == {x \in cells : stage[x] \notin Over}

At(x, s) == x \in cells /\ stage[x] = s
To(x, s) == stage' = [stage EXCEPT ![x] = s]

(* The run an executor was given is still the one with the key.            *)
Exists(x) == row # None /\ row.run = answer[x]

Final(s) == s[Len(s)]

events == <<models, verdicts>>
tables == <<row, content, events, outcomes>>
locals == <<held, seal, ledger, view, obs>>
fixed  == <<cells, crashes, overlapped, settled>>
create == <<pc, payload, found, answer>>

(* An executor goes on with the tables as they are.                        *)
Pass(x, s) == To(x, s) /\ UNCHANGED <<tables, locals, fixed, create>>

Forget(x) ==
  /\ held' = [held EXCEPT ![x] = None]
  /\ seal' = [seal EXCEPT ![x] = None]
  /\ ledger' = [ledger EXCEPT ![x] = {}]
  /\ view' = [view EXCEPT ![x] = None]

(* It raises; what it held is of no more use.                              *)
Raise(x) ==
  To(x, "failed") /\ Forget(x) /\ UNCHANGED <<tables, obs, fixed, create>>

-----------------------------------------------------------------------------
(***************************************************************************)
(* Creating the run and writing the cell's identity into it.               *)
(***************************************************************************)

(* Environment, arm, seed, attempt, bundle and model are what the frozen   *)
(* protocol says, or it raises before anything is stored; all executions   *)
(* of the key pin the same.                                                *)
Enter(x, p) ==
  /\ At(x, "idle") /\ pc[x] = "idle"
  /\ Cardinality({y \in cells : stage[y] # "idle"}) <
       IF settled = {} /\ (overlapped \/ Active # {})
       THEN MaxOverlaps ELSE MaxExecutors
  /\ \A y \in cells : payload[y] \in {p, None}
  /\ To(x, "creating")
  /\ Goto(x, "checked")
  /\ payload' = [payload EXCEPT ![x] = p]
  /\ overlapped' = (overlapped \/ Active # {})
  /\ UNCHANGED <<tables, locals, cells, crashes, settled, found, answer>>

(* Controller.create_run; a row that replaces another is a queued one.     *)
Create(x) ==
  /\ At(x, "creating")
  /\ Recheck(x) \/ Save(x) \/ AppendCreated(x)
  /\ content' = IF row' # row THEN Fresh ELSE content
  /\ UNCHANGED <<events, outcomes, stage, locals, fixed>>

(* A row that was read, and the step that writes all of it back.           *)
Hold(x, s) ==
  /\ held' = [held EXCEPT ![x] = content]
  /\ To(x, s)
  /\ UNCHANGED <<tables, seal, ledger, view, obs, fixed, create>>

(* save_run inserts or replaces by run and by key.                         *)
WriteBack(x, c, s) ==
  /\ row' = [run |-> answer[x], payload |-> payload[answer[x]]]
  /\ content' = c
  /\ held' = [held EXCEPT ![x] = None]
  /\ To(x, s)
  /\ UNCHANGED <<events, outcomes, seal, ledger, view, obs, fixed, create>>

ReadIdentity(x) ==
  /\ At(x, "creating") /\ pc[x] = "done"
  /\ \/ answer[x] = "error" /\ Raise(x)
     \/ answer[x] # "error" /\ Exists(x) /\ Hold(x, "identifying")
     \/ answer[x] # "error" /\ ~Exists(x) /\ Pass(x, "launching")

(* Mutant: the identity is written into the row a new run would have.      *)
WriteIdentity_Anew(x) ==
  At(x, "identifying") /\ WriteBack(x, [Fresh EXCEPT !.identity = TRUE], "launching")

WriteIdentity(x) ==
  At(x, "identifying") /\ WriteBack(x, [held[x] EXCEPT !.identity = TRUE], "launching")

-----------------------------------------------------------------------------
(***************************************************************************)
(* The launch.                                                             *)
(***************************************************************************)

(* launch raises for a run that is gone, returns when the run is not       *)
(* queued, and claims it otherwise.                                        *)
Claim(x) ==
  /\ At(x, "launching")
  /\ \/ ~Exists(x) /\ Raise(x)
     \/ Exists(x) /\ content.status # "queued" /\ Pass(x, "measuring")
     \/ /\ Exists(x) /\ content.status = "queued"
        /\ content' = [content EXCEPT !.status = "running"]
        /\ To(x, "claimed")
        /\ UNCHANGED <<row, events, outcomes, locals, fixed, create>>

ReadLaunch(x) ==
  /\ At(x, "claimed")
  /\ \/ Exists(x) /\ Hold(x, "binding")
     \/ ~Exists(x) /\ Raise(x)

BindLaunch(x) ==
  At(x, "binding") /\ WriteBack(x, [held[x] EXCEPT !.identity = TRUE], "driving")

(* A process that has no receipts of the run takes them from its evidence. *)
Remembered(x) ==
  IF ledger[x] # {} THEN ledger[x]
  ELSE UNION {models[answer[x]][i].receipts : i \in DOMAIN models[answer[x]]}

(* Mutant: the accounting of a response is of this response.               *)
Charged_Last(x, r) == {r}

(* All receipts so far, and the new one.                                   *)
Charged(x, r) == Remembered(x) \cup {r}

Turns(x) ==
  Cardinality({i \in DOMAIN models[answer[x]] : models[answer[x]][i].response.by = x})

Unlike(r) == Cardinality({i \in DOMAIN models[r] : models[r][i].response.price # "nominal"})

(* _record_model_response: every response of the driver and its children   *)
(* becomes an event with the accounting so far.                            *)
Respond(x, c) ==
  /\ At(x, "driving")
  /\ Exists(x)
  /\ Turns(x) < MaxResponses
  /\ c # "nominal" => Unlike(answer[x]) < MaxUnlike
  /\ LET r == [by |-> x, turn |-> Turns(x) + 1, price |-> c] IN
       /\ ledger' = [ledger EXCEPT ![x] = Charged(x, r)]
       /\ models' = [models EXCEPT ![answer[x]] =
                       Append(@, [response |-> r, receipts |-> Charged(x, r)])]
  /\ UNCHANGED <<row, content, verdicts, outcomes, stage, held, seal, view, obs, fixed, create>>

(* The evaluator's verdict on a driver that returned, or that raised after *)
(* a response; the event names the last response.                          *)
Evaluate(x, v) ==
  /\ At(x, "driving")
  /\ Exists(x)
  /\ models[answer[x]] # <<>>
  /\ verdicts' = [verdicts EXCEPT ![answer[x]] =
                    Append(@, [response |-> Final(models[answer[x]]).response,
                               passed |-> v])]
  /\ To(x, "recording")
  /\ UNCHANGED <<row, content, models, outcomes, locals, fixed, create>>

RecordOutcome(x) ==
  /\ At(x, "recording")
  /\ outcomes' = [outcomes EXCEPT ![answer[x]] = Final(verdicts[answer[x]]).passed]
  /\ To(x, "ending")
  /\ UNCHANGED <<row, content, events, locals, fixed, create>>

(* The status of the verdict.  The evaluation after a failed run repeats   *)
(* the event and the row it has.                                           *)
EndRun(x) ==
  /\ At(x, "ending")
  /\ IF Exists(x)
     THEN content' = [content EXCEPT !.status =
                        IF outcomes[answer[x]] = TRUE THEN "succeeded" ELSE "failed"]
     ELSE UNCHANGED content
  /\ To(x, "sealing")
  /\ UNCHANGED <<row, events, outcomes, locals, fixed, create>>

(* No response, or an evaluator that raised: the run fails with no verdict. *)
FailRun(x) ==
  /\ At(x, "driving")
  /\ IF Exists(x) THEN content' = [content EXCEPT !.status = "failed"]
                  ELSE UNCHANGED content
  /\ To(x, "sealing")
  /\ UNCHANGED <<row, events, outcomes, locals, fixed, create>>

(* The accounting of a response with the terminal fields this executor saw. *)
Sealed(x, e) == [response |-> e.response, receipts |-> e.receipts, sealed |-> x]

(* _bind_terminal_accounting, the last act of the launch.                  *)
ReadSeal(x) ==
  /\ At(x, "sealing")
  /\ LET bindable == Exists(x) /\ content.final = None /\ models[answer[x]] # <<>> IN
       \/ ~bindable /\ Pass(x, "measuring")
       \/ /\ bindable
          /\ held' = [held EXCEPT ![x] = content]
          /\ seal' = [seal EXCEPT ![x] = Sealed(x, Final(models[answer[x]]))]
          /\ To(x, "binding accounting")
          /\ UNCHANGED <<tables, ledger, view, obs, fixed, create>>

WriteSeal(x) ==
  At(x, "binding accounting")
    /\ WriteBack(x, [held[x] EXCEPT !.final = seal[x]], "measuring")

-----------------------------------------------------------------------------
(***************************************************************************)
(* From the run's evidence to an observation, whoever executed the run.    *)
(***************************************************************************)
ReadEvidence(x) ==
  /\ At(x, "measuring")
  /\ LET m == models[answer[x]]
         o == verdicts[answer[x]]
     IN \/ (m = <<>> \/ o = <<>>) /\ Raise(x)
        \/ /\ m # <<>> /\ o # <<>>
           /\ view' = [view EXCEPT ![x] = [model |-> Final(m), outcome |-> Final(o)]]
           /\ To(x, "accounting")
           /\ UNCHANGED <<tables, held, seal, ledger, obs, fixed, create>>

(* Mutant: the terminal accounting is published whether or not one is bound. *)
ChooseAccounting_Anew(x) ==
  /\ At(x, "accounting")
  /\ seal' = [seal EXCEPT ![x] = Sealed(x, view[x].model)]
  /\ To(x, "publishing")
  /\ UNCHANGED <<tables, held, ledger, view, obs, fixed, create>>

(* The bound accounting is the run's; without one it is made here.         *)
ChooseAccounting(x) ==
  /\ At(x, "accounting")
  /\ IF Exists(x) /\ content.final # None
     THEN seal' = [seal EXCEPT ![x] = content.final] /\ To(x, "observing")
     ELSE seal' = [seal EXCEPT ![x] = Sealed(x, view[x].model)] /\ To(x, "publishing")
  /\ UNCHANGED <<tables, held, ledger, view, obs, fixed, create>>

ReadPublish(x) ==
  /\ At(x, "publishing")
  /\ \/ Exists(x) /\ Hold(x, "binding once")
     \/ ~Exists(x) /\ Pass(x, "observing")

WritePublish(x) ==
  At(x, "binding once")
    /\ WriteBack(x, [held[x] EXCEPT !.final = seal[x]], "observing")

(* The cost is known when one receipt has an exact one, or all a nominal.  *)
CostKnown(a) ==
  \/ \E r \in a.receipts : r.price = "exact"
  \/ \A r \in a.receipts : r.price = "nominal"

(* The observation is of the last model and outcome events, with the       *)
(* verdict of table outcomes; a run without a row there has not passed.    *)
Measured(x) ==
  [model |-> view[x].model, outcome |-> view[x].outcome, accounting |-> seal[x],
   passed |-> outcomes[answer[x]] = TRUE]

(* The strict verifier, on the rows as they are now.                       *)
Verified(x, o) ==
  /\ Exists(x) /\ content.identity
  /\ content.final = o.accounting
  /\ o.accounting.receipts = o.model.receipts
  /\ o.outcome.response = o.model.response
  /\ o.outcome.passed = o.passed

(* The accounting must be of the model event's response, at a known cost.  *)
Answers(x) == seal[x].response = view[x].model.response /\ CostKnown(seal[x])

(* _execute accepts the observation, or raises.                            *)
Observe(x) ==
  /\ At(x, "observing")
  /\ IF Answers(x) /\ Verified(x, Measured(x))
     THEN /\ To(x, "accepted")
          /\ obs' = [obs EXCEPT ![x] = Measured(x)]
          /\ settled' = IF overlapped THEN settled ELSE settled \cup {x}
     ELSE To(x, "failed") /\ UNCHANGED <<obs, settled>>
  /\ Forget(x)
  /\ UNCHANGED <<tables, cells, crashes, overlapped, create>>

(* A process dies between two transactions.                                *)
Crash(x) ==
  /\ x \in Active
  /\ crashes < MaxCrashes
  /\ crashes' = crashes + 1
  /\ To(x, "dead")
  /\ Forget(x)
  /\ UNCHANGED <<tables, obs, cells, overlapped, settled, create>>

Step(x) ==
  \/ \E p \in Payloads : Enter(x, p)
  \/ Create(x) \/ ReadIdentity(x) \/ WriteIdentity(x)
  \/ Claim(x) \/ ReadLaunch(x) \/ BindLaunch(x)
  \/ \E c \in Prices : Respond(x, c)
  \/ \E v \in BOOLEAN : Evaluate(x, v)
  \/ RecordOutcome(x) \/ EndRun(x) \/ FailRun(x)
  \/ ReadSeal(x) \/ WriteSeal(x)
  \/ ReadEvidence(x) \/ ChooseAccounting(x) \/ ReadPublish(x) \/ WritePublish(x)
  \/ Observe(x) \/ Crash(x)

(* The API's requests, where the key is theirs.                            *)
Api == cells = {} /\ Next /\ UNCHANGED cellVars

CellNext == Api \/ \E x \in Requests : Step(x)

CellSpec == CellInit /\ [][CellNext]_allVars

-----------------------------------------------------------------------------
(***************************************************************************)
(* What is stored of an accepted observation, and what is made of it after *)
(* a restart.                                                              *)
(***************************************************************************)

(* _accounting: the receipts that are charged, and whether with a cost.    *)
Usage(a) == [receipts |-> a.receipts, costed |-> CostKnown(a)]

(* _observation_receipt: the run, its two events, and the usage charged.   *)
Receipt(x) ==
  [run |-> answer[x], model |-> obs[x].model, outcome |-> obs[x].outcome,
   usage |-> Usage(obs[x].accounting)]

(* The accounting is the bound one or else the response's own.             *)
RecoveredAccounting(c) ==
  IF content.final # None THEN content.final
  ELSE [response |-> c.model.response, receipts |-> c.model.receipts,
        sealed |-> None]

(* recover_evaluation_observations: the verdict is the event's.            *)
Recovered(c) ==
  [passed |-> c.outcome.passed, accounting |-> RecoveredAccounting(c)]

-----------------------------------------------------------------------------
(* Every variable of this module keeps to its type, and who has ended      *)
(* holds nothing but an accepted observation.                              *)
CellTypeOK ==
  /\ cells \in {{}, Requests}
  /\ content \in Content
  /\ models \in [Requests -> Seq(ModelEvent)]
  /\ verdicts \in [Requests -> Seq(OutcomeEvent)]
  /\ outcomes \in [Requests -> BOOLEAN \cup {None}]
  /\ stage \in [Requests -> Stages]
  /\ held \in [Requests -> Content \cup {None}]
  /\ seal \in [Requests -> Accounting \cup {None}]
  /\ ledger \in [Requests -> SUBSET Response]
  /\ view \in [Requests -> View \cup {None}]
  /\ obs \in [Requests -> Observation \cup {None}]
  /\ \A x \in Requests :
       /\ stage[x] \in Over => held[x] = None /\ seal[x] = None /\ view[x] = None
       /\ obs[x] # None <=> stage[x] = "accepted"
  /\ crashes \in 0..MaxCrashes
  /\ overlapped \in BOOLEAN
  /\ settled \subseteq cells

(* An observation that was accepted before any two executors of its cell   *)
(* were active at once can be rebuilt from its receipt at any later time,  *)
(* however executors died before and whatever later ones do, also at once: *)
(* the run still has the key, and verdict and terminal accounting are the  *)
(* measured ones (app.py, "A terminal receipt is immutable once bound").   *)
RecoveredIsMeasured ==
  \A x \in settled :
    /\ Exists(x)
    /\ Recovered(Receipt(x)) = [passed |-> obs[x].passed,
                                accounting |-> obs[x].accounting]

(* The tables of a cell are well formed, and its recovery is exact.        *)
RecoveryIsExact == CellTypeOK /\ RecoveredIsMeasured

(* A cell is paid for once: executions of its key after one that was       *)
(* claimed, whether that one died or was measured, never dispatch the      *)
(* model for the cell again.                                               *)
CellIsPaidOnce ==
  settled # {} \/ ~overlapped =>
    \A r, s \in Requests :
      \A i \in DOMAIN models[r], j \in DOMAIN models[s] :
        models[r][i].response.by = models[s][j].response.by

(* Whoever measures the run, the accounting of an accepted observation     *)
(* adds up every response the run was charged for, those of an executor    *)
(* that died included, and stays complete.                                 *)
ReceiptsAreComplete ==
  \A x \in settled :
    Receipt(x).usage.receipts =
      {models[answer[x]][i].response : i \in DOMAIN models[answer[x]]}
=============================================================================
