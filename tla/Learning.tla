------------------------------ MODULE Learning ------------------------------
(***************************************************************************)
(* A learning request (ApplicationHooks.launch_learning, LearningRuntime.  *)
(* propose_completed_runs, LearningService.propose) after its runs were    *)
(* materialized.  The hooks have one LearningRuntime, hence one            *)
(* LearningService, whose retriever and model runner every request sets    *)
(* for itself and then reads again; requests run on threads of the server. *)
(* The model may cite anything.  Meanwhile another bundle can become       *)
(* active.                                                                 *)
(***************************************************************************)
EXTENDS LearningProjection

CONSTANTS
  TokenCap,      \* token_budget of a request
  Usages,        \* tokens a model call may use
  Declared,      \* request -> what it declares: its source runs and its primary one
  MaxPromotions, \* bound: changes of the active bundle
  None

ASSUME LearningAssumption ==
  /\ TokenCap \in Nat \ {0}
  /\ Usages \subseteq Nat /\ \E m \in Usages : \A t \in Usages : t <= m
  /\ \A q \in Requests :
       /\ Declared[q].runs \subseteq Runs /\ IsFiniteSet(Declared[q].runs)
       /\ Declared[q].primary \in Declared[q].runs

VARIABLES
  retriever,    \* LearningService.retriever: the evidence it provides
  sink,         \* the run that LearningService.model_runner records under
  call,         \* request -> what propose holds, see NoCall
  observations, \* evidence rows of type learning_model_observation: [of, run]
  patches,      \* requests whose patch bytes are stored
  candidates,   \* [request, base, cited]
  active,       \* the active bundle, as the number of promotions
  alone         \* history: requests that no other one overlapped so far

serviceVars == <<retriever, sink>>
resultVars == <<observations, patches, candidates, active>>
learningVars == <<serviceVars, call, resultVars, alone>>
vars == <<projectionVars, learningVars>>

(* The run that owns the proposal and its rows when the request arrived;   *)
(* the bundle that was active at the search, the evidence the search       *)
(* returned and the run of the model runner it took; the evidence in the   *)
(* packed context; 1 for the repair; the accepted citations; the tokens    *)
(* used; and the rows the request was charged for.                         *)
NoCall == [primary |-> None, before |-> {}, base |-> 0, found |-> {}, runner |-> None,
           exposed |-> {}, attempt |-> 0, cited |-> {}, spent |-> 0, accounted |-> {}]

Init ==
  /\ ProjectionInit
  /\ retriever = {} /\ sink = None
  /\ call = [q \in Requests |-> NoCall]
  /\ observations = {} /\ patches = {} /\ candidates = {} /\ active = 0
  /\ alone = Requests

RowsOf(r) == {o \in observations : o.run = r}
Evidence(q) == {[src |-> i.src, run |-> i.run] : i \in {j \in work[q].context : j.kind = "live"}}

Launch(q) ==
  LET d == Declared[q] IN
    /\ Materialize(q, d.runs)
    /\ call' = [call EXCEPT ![q] = [NoCall EXCEPT !.primary = d.primary,
                                                  !.before = RowsOf(d.primary)]]
    /\ LET others == {o \in Requests \ {q} : pc[o] \notin Ended}
       IN alone' = IF others = {} THEN alone ELSE alone \ (others \cup {q})
    /\ UNCHANGED <<serviceVars, resultVars>>

MaterializeStep(q) == ProjectionStep(q) /\ UNCHANGED learningVars

Stay == UNCHANGED <<tableVars, work, sources, restarts, alone>>

(* Two assignments to the shared service.                                  *)
SetRetriever(q) ==
  /\ pc[q] = "bind"
  /\ retriever' = Evidence(q)
  /\ work' = [work EXCEPT ![q] = NoWork]
  /\ Goto(q, "sink")
  /\ UNCHANGED <<tableVars, sources, restarts, sink, call, resultVars, alone>>

SetRunner(q) ==
  /\ pc[q] = "sink"
  /\ sink' = call[q].primary
  /\ Goto(q, "search")
  /\ UNCHANGED <<retriever, call, resultVars>> /\ Stay

(* Mutant: a source is allowed whatever run it is of.                      *)
Allowed_AnyRun(q, s) == TRUE

Allowed(q, s) == s.run \in sources[q]

(* An error of the request: nothing of it stays but what it stored.        *)
Fail(q) == Goto(q, "failed") /\ call' = [call EXCEPT ![q] = NoCall]

(* The active bundle is the base; the retriever and the runner are those   *)
(* the service has now.                                                    *)
Search(q) ==
  /\ pc[q] = "search"
  /\ LET found == {s \in retriever : Allowed(q, s)}
     IN IF found = {} THEN Fail(q)
        ELSE /\ call' = [call EXCEPT ![q].base = active, ![q].found = found, ![q].runner = sink]
             /\ Goto(q, "pack")
  /\ UNCHANGED <<serviceVars, resultVars>> /\ Stay

Remaining(q) == TokenCap - call[q].spent

(* The context has a record of each source run and as many others as fit;  *)
(* a cap that is used up, or records that do not fit, end the request.     *)
Pack(q) ==
  /\ pc[q] = "pack"
  /\ \/ /\ Remaining(q) > 0
        /\ \E E \in SUBSET call[q].found :
             /\ sources[q] \subseteq {s.run : s \in E}
             /\ call' = [call EXCEPT ![q].exposed = E]
        /\ Goto(q, "ask")
     \/ Fail(q)
  /\ UNCHANGED <<serviceVars, resultVars>> /\ Stay

(* The call fails, or answers without a provenance the adapter accepts.    *)
ModelFails(q) ==
  /\ pc[q] = "ask"
  /\ Fail(q)
  /\ UNCHANGED <<serviceVars, resultVars>> /\ Stay

(* The answer has been paid for when it is here; it is recorded next.      *)
Answer(q) ==
  /\ pc[q] = "ask"
  /\ \E t \in Usages :
       /\ call' = [call EXCEPT ![q].spent = @ + t]
       /\ Goto(q, IF t > Remaining(q) THEN "overspent" ELSE "answered")
  /\ UNCHANGED <<serviceVars, resultVars>> /\ Stay

(* Recorded first, under the run of the runner, and only then looked at.   *)
Record(q) ==
  /\ pc[q] \in {"answered", "overspent"}
  /\ observations' = observations \cup {[of |-> <<q, call[q].attempt>>, run |-> call[q].runner]}
  /\ IF pc[q] = "overspent" THEN Fail(q) ELSE Goto(q, "check") /\ UNCHANGED call
  /\ UNCHANGED <<serviceVars, patches, candidates, active>> /\ Stay

Available(q) == {s.src : s \in {x \in retriever : Allowed(q, x)}}

(* Mutant: what is cited need only exist.                                  *)
Acceptable_Exists(q, E) == E # {} /\ E \subseteq Available(q)

(* What is cited exists in the retriever the service has now, is allowed,  *)
(* and was in the context.                                                 *)
Acceptable(q, E) ==
  /\ E # {} /\ E \subseteq Available(q)
  /\ E \subseteq {s.src : s \in call[q].exposed}

Accept(q) ==
  /\ pc[q] = "check"
  /\ \E E \in SUBSET Events :
       /\ Acceptable(q, E)
       /\ call' = [call EXCEPT ![q].cited = E]
  /\ Goto(q, "patch")
  /\ UNCHANGED <<serviceVars, resultVars>> /\ Stay

(* The proposal is malformed, or cites what is not acceptable: one repair. *)
Reject(q) ==
  /\ pc[q] = "check"
  /\ IF call[q].attempt = 0
     THEN call' = [call EXCEPT ![q].attempt = 1] /\ Goto(q, "pack")
     ELSE Fail(q)
  /\ UNCHANGED <<serviceVars, resultVars>> /\ Stay

PersistPatch(q) ==
  /\ pc[q] = "patch"
  /\ patches' = patches \cup {q}
  /\ Goto(q, "create")
  /\ UNCHANGED <<serviceVars, call, observations, candidates, active>> /\ Stay

Candidate(q) == [request |-> q, base |-> active, cited |-> call[q].cited]

BaseHolds(q) == active = call[q].base

(* The pinned bundle must still be active.                                 *)
CreateCandidate(q) ==
  /\ pc[q] = "create"
  /\ IF BaseHolds(q)
     THEN /\ candidates' = candidates \cup {Candidate(q)}
          /\ Goto(q, "account") /\ UNCHANGED call
     ELSE Fail(q) /\ UNCHANGED candidates
  /\ UNCHANGED <<serviceVars, observations, patches, active>> /\ Stay

(* What the primary run has now and did not have before.                   *)
NewRows(q) == RowsOf(call[q].primary) \ call[q].before

Account(q) ==
  /\ pc[q] = "account"
  /\ call' = [call EXCEPT ![q] = [NoCall EXCEPT !.primary = call[q].primary,
                                                !.attempt = call[q].attempt,
                                                !.accounted = NewRows(q)]]
  /\ Goto(q, "done")
  /\ UNCHANGED <<serviceVars, resultVars>> /\ Stay

PromoteOther ==
  /\ active < MaxPromotions
  /\ active' = active + 1
  /\ UNCHANGED <<projectionVars, serviceVars, call, observations, patches, candidates, alone>>

(* The service of the new process has no retriever and no run.             *)
Restart ==
  /\ Dies
  /\ retriever' = {} /\ sink' = None
  /\ call' = [q \in Requests |-> IF pc[q] \in Ended THEN call[q] ELSE NoCall]
  /\ UNCHANGED <<resultVars, alone>>

Lose(e) == Compact(e) /\ UNCHANGED learningVars

Step(q) ==
  \/ Launch(q) \/ MaterializeStep(q) \/ SetRetriever(q) \/ SetRunner(q)
  \/ Search(q) \/ Pack(q) \/ ModelFails(q) \/ Answer(q) \/ Record(q)
  \/ Accept(q) \/ Reject(q) \/ PersistPatch(q) \/ CreateCandidate(q) \/ Account(q)

Next ==
  \/ \E q \in Requests : Step(q)
  \/ \E e \in Events : Lose(e)
  \/ PromoteOther \/ Restart

Spec == Init /\ [][Next]_vars

-----------------------------------------------------------------------------
Labels == Ended \cup {"read", "docs", "project", "persist", "bind", "sink", "search",
  "pack", "ask", "overspent", "answered", "check", "patch", "create", "account"}

TypeOK ==
  /\ pc \in [Requests -> Labels]
  /\ records \subseteq [kind : {"doc", "broker", "minimal", "outcome"},
                        src : Docs \cup Events \cup Runs, run : Runs, full : BOOLEAN]
  /\ \A x, y \in records : SameId(x, y) => x = y
  /\ derived \subseteq Events /\ artifacts \subseteq Events
  /\ \A q \in Requests : call[q].attempt \in 0..1 /\ call[q].found \subseteq [src : Events, run : Runs]
  /\ observations \subseteq [of : Requests \X (0..1), run : Runs]

(* The model is shown evidence of the declared runs only, and of each of   *)
(* them, although another request may have put its own retriever in place. *)
LearnerSeesDeclaredOnly ==
  \A q \in Requests : pc[q] = "ask" =>
    /\ {s.run : s \in call[q].exposed} = sources[q]
    /\ \A s \in call[q].exposed : s.src \in Range(EventsOf[s.run])

(* A candidate cites what its own request showed the model, has its patch  *)
(* stored, and is a change of the bundle that was active at the search.    *)
CandidateIsBacked ==
  [][\A c \in candidates' \ candidates :
       /\ c.request \in patches
       /\ c.cited # {} /\ c.cited \subseteq {s.src : s \in call[c.request].exposed}
       /\ c.base = call[c.request].base]_vars

(* Both attempts of a request share one cap: a proposal that is accepted   *)
(* stayed within it, and one that is not went over it with one call.       *)
LearningSpendBounded ==
  \A q \in Requests :
    /\ call[q].spent < TokenCap + Max(Usages)
    /\ pc[q] \in {"answered", "check", "patch", "create"} => call[q].spent <= TokenCap

(* A request that was alone from its arrival to its end is charged for its *)
(* own model calls, all of them and no others.                             *)
SoloAccountingIsExact ==
  \A q \in alone : pc[q] = "done" =>
    call[q].accounted = {[of |-> <<q, n>>, run |-> call[q].primary] : n \in 0..call[q].attempt}

(* Requests do not get into each other's way on the shared service: each   *)
(* learns from its own runs, spends its own cap and pays its own calls.    *)
RequestsAreSeparate == LearnerSeesDeclaredOnly /\ LearningSpendBounded /\ SoloAccountingIsExact

(* The material of a request is complete and has its provenance.           *)
MaterialIsSound == TypeOK /\ ContextIsComplete /\ ProvenanceFirst
=============================================================================
