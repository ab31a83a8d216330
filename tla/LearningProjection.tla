------------------------- MODULE LearningProjection -------------------------
(***************************************************************************)
(* What LearningRuntime._materialize_run_records makes of the completed    *)
(* runs of one environment, and keeps in the store's learning_records:     *)
(* the public documents, the broker's results (projected from their        *)
(* artifacts, or a minimal row when nothing can be projected) and the      *)
(* outcome.  Every write is a transaction of its own, several requests do  *)
(* this at the same time, artifacts can be compacted away between two      *)
(* reads, and the process can be killed between two writes.                *)
(***************************************************************************)
EXTENDS Naturals, Sequences, FiniteSets, SequencesExt

CONSTANTS
  Requests,       \* calls of launch_learning
  Runs,           \* completed development runs with a trusted outcome
  Docs,           \* documents of the environment's manifest
  EventsOf,       \* run -> the sequence of its broker results
  Saved,          \* results that earlier processes had saved when they died
  MaxCompactions, \* bound: artifacts that get lost
  MaxRestarts     \* bound: deaths of the process

Events == UNION {Range(EventsOf[r]) : r \in Runs}

ASSUME EventsAssumption ==
  /\ EventsOf \in [Runs -> Seq(Events)] /\ Saved \subseteq Events
  /\ \A r, s \in Runs : r # s => Range(EventsOf[r]) \cap Range(EventsOf[s]) = {}

VARIABLES
  records,   \* learning_records: a set of rows, of which no two have one id
  derived,   \* results with an evidence row of type learning_evidence_projection
  artifacts, \* results whose artifact is still in the store
  pc,        \* request -> where its thread is
  sources,   \* request -> the declared source runs
  work,      \* request -> what its thread holds, see NoWork
  restarts

tableVars == <<records, derived, artifacts>>
projectionVars == <<tableVars, pc, sources, work, restarts>>

(* The source runs not materialized yet, the current one first; the rows   *)
(* of the current run that were read or saved; its results still to be     *)
(* projected and its rows still to be saved; what was materialized so far; *)
(* and, as history, the results with a row when the request arrived.       *)
NoWork == [todo |-> <<>>, kept |-> {}, feed |-> <<>>, queue |-> <<>>,
           context |-> {}, stored |-> {}]

(* A row of learning_records; full says whether its content is the result. *)
(* The kind names the form of the record id, of which src is the rest.     *)
Row(kind, src, run, full) == [kind |-> kind, src |-> src, run |-> run, full |-> full]

(* Mutant: the record id of a result does not name it.                     *)
SameId_Kind(x, y) == x.kind = y.kind /\ (x.kind = "broker" \/ x.src = y.src)

SameId(x, y) == x.kind = y.kind /\ x.src = y.src

ProjectedRow(e, r) == Row("broker", e, r, TRUE)
MinimalRow(e, r) == Row("minimal", e, r, FALSE)

(* What makes two records one source: its kind and its source id.          *)
Key(row) == [kind |-> IF row.kind \in {"broker", "minimal"} THEN "live" ELSE row.kind,
             src |-> row.src]

Item(row, r) == [kind |-> Key(row).kind, src |-> row.src, run |-> r]

(* INSERT OR REPLACE: a document's row has an id without its run, so the   *)
(* last run that saves it has it.                                          *)
SaveRecord(row) == records' = {x \in records : ~SameId(x, row)} \cup {row}

(* Without any row of the run the reader makes up the documents and the    *)
(* outcome, which are then used and not saved.                             *)
ReadRecords(r) ==
  LET rows == {x \in records : x.run = r}
  IN IF rows # {} THEN rows
     ELSE {Row("doc", d, r, TRUE) : d \in Docs} \cup {Row("outcome", r, r, TRUE)}

Current(q) == Head(work[q].todo)
Goto(q, label) == pc' = [pc EXCEPT ![q] = label]

(* The sources of the current run that are there already: persist skips    *)
(* them.                                                                   *)
Has(q, row) == Key(row) \in {Key(x) : x \in work[q].kept}

(* Earlier processes projected the runs of Saved and died before the rest: *)
(* one after it saved these results, the next one after the documents.     *)
EarlierRuns == {r \in Runs : Saved \cap Range(EventsOf[r]) # {}}
EarlierResults == UNION {{ProjectedRow(e, r) : e \in Saved \cap Range(EventsOf[r])} : r \in EarlierRuns}
EarlierDocs ==
  {Row("doc", d, CHOOSE r \in EarlierRuns : TRUE, TRUE) : d \in {c \in Docs : Saved # {}}}

ProjectionInit ==
  /\ records = EarlierResults \cup EarlierDocs
  /\ derived = UNION {Range(EventsOf[r]) : r \in EarlierRuns}
  /\ artifacts = Events
  /\ pc = [q \in Requests |-> "idle"]
  /\ sources = [q \in Requests |-> {}]
  /\ work = [q \in Requests |-> NoWork]
  /\ restarts = 0

(* The source runs are checked and put in order.                           *)
Materialize(q, S) ==
  /\ pc[q] = "idle"
  /\ Goto(q, "read")
  /\ sources' = [sources EXCEPT ![q] = S]
  /\ work' = [work EXCEPT ![q].todo = SetToSeq(S),
                          ![q].stored = {x.src : x \in {y \in records : Key(y).kind = "live"}}]
  /\ UNCHANGED <<tableVars, restarts>>

TakeRows(q, rows) ==
  work' = [work EXCEPT ![q].kept = rows,
                       ![q].context = @ \cup {Item(x, Current(q)) : x \in rows}]

(* Mutant: a run with saved rows is taken to be complete.                  *)
ReadRun_SavedIsAll(q) ==
  /\ pc[q] = "read"
  /\ TakeRows(q, ReadRecords(Current(q)))
  /\ Goto(q, IF \E x \in records : x.run = Current(q) /\ Key(x).kind = "live"
             THEN "persist" ELSE "docs")
  /\ UNCHANGED <<tableVars, sources, restarts>>

ReadRun(q) ==
  /\ pc[q] = "read"
  /\ TakeRows(q, ReadRecords(Current(q)))
  /\ Goto(q, "docs")
  /\ UNCHANGED <<tableVars, sources, restarts>>

MissingDocs(q) == {d \in Docs : ~Has(q, Row("doc", d, Current(q), TRUE))}

PersistDoc(q) ==
  /\ pc[q] = "docs"
  /\ \E d \in MissingDocs(q) :
       LET row == Row("doc", d, Current(q), TRUE)
       IN SaveRecord(row) /\ TakeRows(q, work[q].kept \cup {row})
  /\ UNCHANGED <<derived, artifacts, pc, sources, restarts>>

(* The feed of the run's calls: a result without its artifact is not       *)
(* joined to its call, whose row the projection skips.                     *)
ReadFeed(q) ==
  /\ pc[q] = "docs"
  /\ MissingDocs(q) = {}
  /\ work' = [work EXCEPT ![q].feed = [i \in DOMAIN EventsOf[Current(q)] |->
                                         LET e == EventsOf[Current(q)][i]
                                         IN [event |-> e, joined |-> e \in artifacts]]]
  /\ Goto(q, "project")
  /\ UNCHANGED <<tableVars, sources, restarts>>

Derive(e) == derived' = derived \cup {e}

(* One row of the feed: the artifact of its result is read again, the      *)
(* derived evidence is stored unless it is there.                          *)
Project(q) ==
  /\ pc[q] = "project"
  /\ work[q].feed # <<>>
  /\ LET row == Head(work[q].feed)
         e == row.event
     IN IF row.joined /\ e \in artifacts
        THEN /\ Derive(e)
             /\ work' = [work EXCEPT ![q].feed = Tail(@),
                                     ![q].queue = Append(@, ProjectedRow(e, Current(q)))]
        ELSE /\ UNCHANGED derived
             /\ work' = [work EXCEPT ![q].feed = Tail(@)]
  /\ UNCHANGED <<records, artifacts, pc, sources, restarts>>

(* Rows of an earlier projection that still have their evidence.           *)
EarlierProjection(q) == {x \in work[q].kept : x.kind = "broker" /\ x.src \in derived}

(* Nothing was projected and nothing is kept of an earlier projection: the *)
(* unjoined results are saved without their content.                       *)
EndProjection(q) ==
  /\ pc[q] = "project"
  /\ work[q].feed = <<>>
  /\ work' = IF work[q].queue = <<>> /\ EarlierProjection(q) = {}
             THEN [work EXCEPT ![q].queue = [i \in DOMAIN EventsOf[Current(q)] |->
                                               MinimalRow(EventsOf[Current(q)][i], Current(q))]]
             ELSE work
  /\ Goto(q, "persist")
  /\ UNCHANGED <<tableVars, sources, restarts>>

(* persist: a record is saved and becomes part of the context, unless its  *)
(* source is there.                                                        *)
PersistEvidence(q) ==
  /\ pc[q] = "persist"
  /\ work[q].queue # <<>>
  /\ LET row == Head(work[q].queue)
         rest == [work[q] EXCEPT !.queue = Tail(@)]
     IN IF Has(q, row)
        THEN work' = [work EXCEPT ![q] = rest] /\ UNCHANGED records
        ELSE /\ SaveRecord(row)
             /\ work' = [work EXCEPT ![q] = [rest EXCEPT !.kept = @ \cup {row},
                                                         !.context = @ \cup {Item(row, row.run)}]]
  /\ UNCHANGED <<derived, artifacts, pc, sources, restarts>>

(* The outcome comes last; then the next source run.                       *)
PersistOutcome(q) ==
  /\ pc[q] = "persist" /\ work[q].queue = <<>>
  /\ LET row == Row("outcome", Current(q), Current(q), TRUE)
     IN /\ IF Has(q, row) THEN UNCHANGED records ELSE SaveRecord(row)
        /\ work' = [work EXCEPT ![q].kept = {}, ![q].todo = Tail(@),
                                ![q].context = @ \cup {Item(row, Current(q))}]
  /\ Goto(q, IF Len(work[q].todo) = 1 THEN "bind" ELSE "read")
  /\ UNCHANGED <<derived, artifacts, sources, restarts>>

ProjectionStep(q) ==
  \/ ReadRun(q) \/ PersistDoc(q) \/ ReadFeed(q) \/ Project(q)
  \/ EndProjection(q) \/ PersistEvidence(q) \/ PersistOutcome(q)

(* The artifact of a result is compacted away.                             *)
Compact(e) ==
  /\ e \in artifacts
  /\ Cardinality(Events \ artifacts) < MaxCompactions
  /\ artifacts' = artifacts \ {e}
  /\ UNCHANGED <<records, derived, pc, sources, work, restarts>>

(* The process dies and comes back; its requests do not.                   *)
Ended == {"idle", "done", "failed", "dead"}
Dies ==
  /\ restarts < MaxRestarts
  /\ \E q \in Requests : pc[q] \notin Ended
  /\ restarts' = restarts + 1
  /\ pc' = [q \in Requests |-> IF pc[q] \in Ended THEN pc[q] ELSE "dead"]
  /\ sources' = [q \in Requests |-> IF pc[q] \in Ended THEN sources[q] ELSE {}]
  /\ work' = [q \in Requests |-> NoWork]
  /\ UNCHANGED tableVars

-----------------------------------------------------------------------------
(* A request that has its material has, for each of its source runs, the   *)
(* documents, the outcome and every result that was saved when it arrived  *)
(* or that can still be read, whatever an earlier request left half done   *)
(* when it died and whatever was compacted.                                *)
ContextIsComplete ==
  \A q \in Requests : pc[q] = "bind" => \A r \in sources[q] :
    /\ \A d \in Docs : [kind |-> "doc", src |-> d, run |-> r] \in work[q].context
    /\ [kind |-> "outcome", src |-> r, run |-> r] \in work[q].context
    /\ \A e \in Range(EventsOf[r]) \cap (work[q].stored \cup artifacts) :
         [kind |-> "live", src |-> e, run |-> r] \in work[q].context

(* A projected record never exists without the evidence row that says      *)
(* where it comes from, at whatever write the process died.                *)
ProvenanceFirst == \A x \in records : x.kind = "broker" => x.src \in derived

(* A saved result stays as it was saved: no later request, with fewer      *)
(* artifacts to read, takes it away or replaces it by less.                *)
EvidenceRowsStay ==
  [][\A x \in records : Key(x).kind = "live" => x \in records']_projectionVars
=============================================================================
