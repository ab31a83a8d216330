---------------------------- MODULE RunCreation ----------------------------
(***************************************************************************)
(* Creating a run under an idempotency key: DurableRuntime.create_run      *)
(* (app.py) over Controller.create_run (controller.py) over table runs,    *)
(* whose idempotency_key is UNIQUE and which is written with               *)
(* INSERT OR REPLACE (store.py).                                           *)
(*                                                                         *)
(* Requests are served by a pool of threads and nothing locks a key: each  *)
(* of the two lookups, the save and the run_created event is a transaction *)
(* of its own.  One key is modelled; the row it has is the whole of the    *)
(* state two requests share.                                               *)
(***************************************************************************)
EXTENDS Naturals, FiniteSets

CONSTANTS
  Requests,  \* invocations of create_run; each would make a run of its own
  Payloads,  \* what a request pins: task, model, budget, mode and skills
  None

(* A run is named by the request that made it.                             *)
Row == [run: Requests, payload: Payloads]

ASSUME CreationAssumption ==
  /\ {"conflict", "error"} \cap Requests = {}
  /\ None \notin Requests \cup Payloads \cup Row \cup {"conflict", "error"}

VARIABLES
  row,     \* the row that holds the key, or None
  pc,      \* where each request stands
  payload, \* what it pins
  found,   \* which of its two lookups found the key taken (history)
  answer   \* the run it answered with, "conflict", "error" or None

vars == <<row, pc, payload, found, answer>>

Init ==
  /\ row = None
  /\ pc = [r \in Requests |-> "idle"]
  /\ payload = [r \in Requests |-> None]
  /\ found = [r \in Requests |-> "none"]
  /\ answer = [r \in Requests |-> None]

Goto(r, p) == pc' = [pc EXCEPT ![r] = p]

Answer(r, a) ==
  /\ Goto(r, "done")
  /\ answer' = [answer EXCEPT ![r] = a]

(* Mutant: a stored run is answered whatever it pins.                      *)
Compared_Ignored(p) == row.run

(* The stored run, when it pins what the request does.                     *)
Compared(p) == IF row.payload = p THEN row.run ELSE "conflict"

(* DurableRuntime.create_run looks the key up and compares the pins.       *)
Arrive(r, p) ==
  /\ pc[r] = "idle"
  /\ payload' = [payload EXCEPT ![r] = p]
  /\ found' = [found EXCEPT ![r] = IF row # None THEN "first" ELSE @]
  /\ \/ row # None /\ Answer(r, Compared(p))
     \/ row = None /\ Goto(r, "checked") /\ UNCHANGED answer
  /\ UNCHANGED row

(* Controller.create_run looks it up again and compares nothing.           *)
Recheck(r) ==
  /\ pc[r] = "checked"
  /\ found' = [found EXCEPT ![r] = IF row # None THEN "second" ELSE @]
  /\ \/ row # None /\ Answer(r, row.run)
     \/ row = None /\ Goto(r, "saving") /\ UNCHANGED answer
  /\ UNCHANGED <<row, payload>>

(* save_run replaces a row that took the key meanwhile.                    *)
Save(r) ==
  /\ pc[r] = "saving"
  /\ row' = [run |-> r, payload |-> payload[r]]
  /\ Goto(r, "created")
  /\ UNCHANGED <<payload, found, answer>>

(* next_event_sequence of run_created raises when the row is gone.         *)
AppendCreated(r) ==
  /\ pc[r] = "created"
  /\ Answer(r, IF row.run = r THEN r ELSE "error")
  /\ UNCHANGED <<row, payload, found>>

Next ==
  \E r \in Requests :
    \/ \E p \in Payloads : Arrive(r, p)
    \/ Recheck(r) \/ Save(r) \/ AppendCreated(r)

Spec == Init /\ [][Next]_vars

-----------------------------------------------------------------------------
(* Every variable keeps to its type.                                       *)
TypeOK ==
  /\ row \in Row \cup {None}
  /\ pc \in [Requests -> {"idle", "checked", "saving", "created", "done"}]
  /\ payload \in [Requests -> Payloads \cup {None}]
  /\ found \in [Requests -> {"none", "first", "second"}]
  /\ answer \in [Requests -> Requests \cup {"conflict", "error", None}]

(* A request whose lookup, either of the two, finds the key taken never    *)
(* makes a run: only requests that looked before the first row was stored  *)
(* can replace it.                                                         *)
LateRequestsCreateNothing ==
  [][\A r \in Requests :
       row' # row /\ row'.run = r => found[r] = "none"]_vars

(* A request that found the key taken when it came in is answered with a   *)
(* run that pins what it asked for, or with a conflict, also while earlier *)
(* requests replace the row.                                               *)
LateAnswersAreCompared ==
  \A r \in Requests :
    found[r] = "first" /\ answer[r] \in Requests
      => payload[answer[r]] = payload[r]

(* A request that comes after the key is taken neither displaces a run nor *)
(* gets one it did not ask for.                                            *)
LateRequestsAreServed ==
  [](TypeOK /\ LateAnswersAreCompared) /\ LateRequestsCreateNothing

(* SPEC.md:253 retries cannot create duplicate runs: the same key answers  *)
(* with one run.                                                           *)
OneRunPerKey ==
  \A r, q \in Requests :
    answer[r] \in Requests /\ answer[q] \in Requests => answer[r] = answer[q]
=============================================================================
