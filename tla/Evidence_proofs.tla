--------------------------- MODULE Evidence_proofs --------------------------
(***************************************************************************)
(* What evidence is worth on its two ways to a bundle.  First the safety   *)
(* of learning, for any number of requests, runs, results and documents,   *)
(* any order of their steps, any artifacts lost and any restarts.  Then    *)
(* the evidence of promotions, for any jobs, releases, panels and probes,  *)
(* any changes of the fixtures, and any number of restarts and launches.   *)
(* They are two specifications without a variable in common.               *)
(***************************************************************************)
EXTENDS Learning, PromotionEvidence, FiniteSetTheorems, SequenceTheorems, WellFoundedInduction, TLAPS

-----------------------------------------------------------------------------
(* The values the variables take.                                          *)

Sources == Docs \cup Events \cup Runs
RowSet == [kind : {"doc", "broker", "minimal", "outcome"}, src : Sources, run : Runs, full : BOOLEAN]
ItemSet == [kind : {"doc", "live", "outcome"}, src : Sources, run : Runs]
FeedRow == [event : Events, joined : BOOLEAN]
Fact == [src : Events, run : Runs]
Observation == [of : Requests \X (0..1), run : Runs]

WorkSet == [todo : Seq(Runs), kept : SUBSET RowSet, feed : Seq(FeedRow), queue : Seq(RowSet),
            context : SUBSET ItemSet, stored : SUBSET Sources]

(* What may be a request's run, its rows and its evidence.                 *)
Owner == Runs \cup {None}
RowSets == SUBSET Observation
FactSets == SUBSET Fact
Citations == SUBSET Events

CallSet == [primary : Owner, before : RowSets, base : Nat, found : FactSets, runner : Owner,
            exposed : FactSets, attempt : 0..1, cited : Citations, spent : Nat, accounted : RowSets]

ShapeOK ==
  /\ pc \in [Requests -> Labels]
  /\ work \in [Requests -> WorkSet]
  /\ sources \in [Requests -> SUBSET Runs]
  /\ records \subseteq RowSet
  /\ derived \subseteq Events /\ artifacts \subseteq Events
  /\ call \in [Requests -> CallSet]
  /\ retriever \subseteq Fact /\ sink \in Owner
  /\ observations \subseteq Observation
  /\ active \in Nat /\ alone \subseteq Requests

-----------------------------------------------------------------------------
(* The material.                                                           *)

Live(x) == Key(x).kind = "live"

(* A live row is about a result of its run, with its content or without,   *)
(* as the form of its id says.                                             *)
Belongs(x) == Live(x) => x.src \in Range(EventsOf[x.run]) /\ x.full = (x.kind = "broker")

Phases == {"read", "docs", "project", "persist"}
Held == Phases \ {"read"}

RecordsBelong ==
  /\ \A x \in records : Belongs(x)
  /\ \A x, y \in records : SameId(x, y) => x = y

(* What a thread holds of a run is about that run, and a run is taken up   *)
(* with nothing left of the one before.                                    *)
WorkBelongs(q) ==
  /\ pc[q] \in Phases => work[q].todo # <<>>
  /\ pc[q] \in {"idle", "read", "docs"} => work[q].queue = <<>>
  /\ pc[q] = "bind" => work[q].todo = <<>>
  /\ pc[q] \in Held => \A x \in work[q].kept : Belongs(x) /\ x.run = Current(q)
  /\ pc[q] \in Held => \A i \in DOMAIN work[q].queue :
       LET x == work[q].queue[i] IN Live(x) /\ Belongs(x) /\ x.run = Current(q)
  /\ pc[q] = "project" => \A i \in DOMAIN work[q].feed :
       work[q].feed[i].event \in Range(EventsOf[Current(q)])
  /\ \A i \in work[q].context : i.kind = "live" => i.src \in Range(EventsOf[i.run])

(* The evidence row of a result is there before its record is saved.       *)
QueueDerived(q) ==
  pc[q] \in Held => \A i \in DOMAIN work[q].queue :
    work[q].queue[i].kind = "broker" => work[q].queue[i].src \in derived

LiveItem(e, r) == [kind |-> "live", src |-> e, run |-> r]
DocItem(d, r) == [kind |-> "doc", src |-> d, run |-> r]

(* A run of which the request has everything it must have.                 *)
Complete(q, r) ==
  /\ \A d \in Docs : DocItem(d, r) \in work[q].context
  /\ [kind |-> "outcome", src |-> r, run |-> r] \in work[q].context
  /\ \A e \in Range(EventsOf[r]) \cap (work[q].stored \cup artifacts) :
       LiveItem(e, r) \in work[q].context

(* How far the current run is, per step of the thread.                     *)
StoredStays(q) ==
  pc[q] \in Phases => \A e \in work[q].stored : \E x \in records : Live(x) /\ x.src = e

KeptShown(q) ==
  pc[q] \in Held =>
    /\ \A x \in work[q].kept : Item(x, Current(q)) \in work[q].context
    /\ \A e \in Range(EventsOf[Current(q)]) \cap work[q].stored :
         LiveItem(e, Current(q)) \in work[q].context

DocsShown(q) ==
  pc[q] \in {"project", "persist"} => \A d \in Docs : DocItem(d, Current(q)) \in work[q].context

Queued(q, e) == \E i \in DOMAIN work[q].queue : work[q].queue[i].src = e
Joined(q, e) == \E i \in DOMAIN work[q].feed : work[q].feed[i] = [event |-> e, joined |-> TRUE]

ResultsComing(q) ==
  /\ pc[q] = "project" =>
       \A e \in Range(EventsOf[Current(q)]) \cap artifacts : Queued(q, e) \/ Joined(q, e)
  /\ pc[q] = "persist" =>
       \A e \in Range(EventsOf[Current(q)]) \cap artifacts :
         Queued(q, e) \/ LiveItem(e, Current(q)) \in work[q].context

RunsCovered(q) ==
  pc[q] \in Phases \cup {"bind"} => \A r \in sources[q] : r \in Range(work[q].todo) \/ Complete(q, r)

MaterialOf(q) ==
  /\ WorkBelongs(q) /\ QueueDerived(q) /\ StoredStays(q) /\ KeptShown(q)
  /\ DocsShown(q) /\ ResultsComing(q) /\ RunsCovered(q)

MaterialInv ==
  /\ RecordsBelong /\ ProvenanceFirst
  /\ \A q \in Requests : MaterialOf(q)

-----------------------------------------------------------------------------
(* The request.                                                            *)

Proposing == {"search", "pack", "ask", "overspent", "answered", "check", "patch", "create", "account"}
Searched == Proposing \ {"search"}
Before == Phases \cup {"bind", "sink", "search"}

IsFact(s) == s.src \in Range(EventsOf[s.run])

(* The service serves evidence of some runs, and the sink is a run once a  *)
(* request under way has set it.                                           *)
ServiceOK ==
  /\ \A s \in retriever : IsFact(s)
  /\ (\E q \in Requests : pc[q] \in Proposing) => sink \in Runs

CallOK(q) ==
  /\ pc[q] \notin Ended => call[q].primary \in Runs
  /\ pc[q] \in Searched => call[q].runner \in Runs
  /\ pc[q] \in Before => call[q].exposed = {} /\ call[q].attempt = 0 /\ call[q].spent = 0
  /\ \A s \in call[q].found : IsFact(s) /\ Allowed(q, s)
  /\ call[q].exposed \subseteq call[q].found
  /\ pc[q] = "ask" => sources[q] \subseteq {s.run : s \in call[q].exposed}

SpendOK(q) ==
  /\ call[q].spent < TokenCap + Max(Usages)
  /\ pc[q] \in {"pack", "answered", "check", "patch", "create"} => call[q].spent <= TokenCap
  /\ pc[q] = "ask" => call[q].spent < TokenCap

BackedOK(q) ==
  /\ pc[q] \in {"patch", "create"} =>
       call[q].cited # {} /\ call[q].cited \subseteq {s.src : s \in call[q].exposed}
  /\ pc[q] = "create" => q \in patches

(* The calls of a request that are recorded.                               *)
Recorded(q) ==
  {n \in 0..1 : \/ n < call[q].attempt
                \/ n = call[q].attempt /\ pc[q] \in {"check", "patch", "create", "account"}}

OwnRows(q, N) == {[of |-> <<q, n>>, run |-> call[q].primary] : n \in N}

(* A request that was alone so far still is, until it ends; the service is *)
(* its own, and the rows its run has got since it arrived are its calls.   *)
AloneOK(q) ==
  q \in alone =>
    /\ pc[q] \notin Ended => \A o \in Requests \ {q} : pc[o] \in Ended
    /\ pc[q] \in Proposing => sink = call[q].primary
    /\ pc[q] \in Searched => call[q].runner = call[q].primary
    /\ pc[q] \notin Ended => RowsOf(call[q].primary) \ call[q].before = OwnRows(q, Recorded(q))
    /\ pc[q] = "done" => call[q].accounted = OwnRows(q, 0..call[q].attempt)

(* No row names a request before it makes a call.                          *)
Fresh(q) ==
  /\ pc[q] = "idle" => \A o \in observations : o.of[1] # q
  /\ \A o \in call[q].before : o.of[1] # q

RequestInv ==
  /\ ServiceOK
  /\ \A q \in Requests : CallOK(q) /\ SpendOK(q) /\ BackedOK(q) /\ Fresh(q) /\ AloneOK(q)

IInv == ShapeOK /\ MaterialInv /\ RequestInv

-----------------------------------------------------------------------------
(* Facts about the data.                                                   *)

USE EventsAssumption, LearningAssumption
USE DEF Ended, Goto

LEMMA EventsOfRun ==
  ASSUME NEW r \in Runs
  PROVE  /\ EventsOf[r] \in Seq(Events)
         /\ Range(EventsOf[r]) \subseteq Events
         /\ \A i \in DOMAIN EventsOf[r] : EventsOf[r][i] \in Range(EventsOf[r])
BY DEF Range, Events

(* SetToSeq puts the elements of a finite set in some order.               *)
LEMMA SetToSeqOf ==
  ASSUME NEW S, IsFiniteSet(S)
  PROVE  SetToSeq(S) \in Seq(S) /\ Range(SetToSeq(S)) = S
<1> DEFINE n == Cardinality(S)
           f == SetToSeq(S)
<1>1. n \in Nat /\ ExistsBijection(1..n, S)
  BY FS_CardinalityType
<1>2. \E g \in [1..n -> S] : IsInjective(g)
  BY <1>1 DEF ExistsBijection, Bijection, Injection
<1>3. f \in [1..n -> S] /\ IsInjective(f)
  BY <1>2 DEF SetToSeq
<1>4. f \in Injection(1..n, S)
  BY <1>3 DEF Injection
<1>5. Cardinality(1..n) = n
  BY <1>1, FS_Interval
<1>6. f \in Surjection(1..n, S)
  BY <1>4, <1>5, FS_Injection
<1>7. Range(f) = S
  BY <1>3, <1>6 DEF Range, Surjection
<1>8. f \in Seq(S)
  BY <1>1, <1>3
<1> QED BY <1>7, <1>8

(* The first element of a sequence and the others.                         *)
LEMMA HeadTail ==
  ASSUME NEW S, NEW s \in Seq(S), s # <<>>
  PROVE  /\ Head(s) \in S /\ Tail(s) \in Seq(S)
         /\ Range(s) = {Head(s)} \cup Range(Tail(s))
         /\ \A i \in DOMAIN Tail(s) : i + 1 \in DOMAIN s /\ Tail(s)[i] = s[i + 1]
         /\ \A i \in DOMAIN s : i = 1 \/ (i - 1 \in DOMAIN Tail(s) /\ Tail(s)[i - 1] = s[i])
         /\ 1 \in DOMAIN s /\ s[1] = Head(s)
         /\ Len(s) = 1 <=> Tail(s) = <<>>
<1>1. /\ Head(s) \in S /\ Tail(s) \in Seq(S)
      /\ \A i \in DOMAIN Tail(s) : i + 1 \in DOMAIN s /\ Tail(s)[i] = s[i + 1]
      /\ \A i \in DOMAIN s : i = 1 \/ (i - 1 \in DOMAIN Tail(s) /\ Tail(s)[i - 1] = s[i])
      /\ 1 \in DOMAIN s /\ s[1] = Head(s)
  OBVIOUS
<1> DEFINE t == Tail(s)
<1>2. Range(s) \subseteq {Head(s)} \cup Range(Tail(s))
  <2> SUFFICES ASSUME NEW i \in DOMAIN s PROVE s[i] \in {Head(s)} \cup Range(t)
    BY DEF Range
  <2>1. CASE i = 1
    BY <1>1, <2>1
  <2>2. CASE i # 1
    BY <1>1, <2>2 DEF Range
  <2> QED BY <2>1, <2>2
<1>3. {Head(s)} \cup Range(Tail(s)) \subseteq Range(s)
  <2>1. \A i \in DOMAIN t : t[i] \in Range(s)
    BY <1>1 DEF Range
  <2> QED BY <1>1, <2>1 DEF Range
<1>4. Len(t) = Len(s) - 1 /\ Len(s) \in Nat
  OBVIOUS
<1>5. Len(t) = 0 <=> t = <<>>
  BY <1>1, EmptySeq
<1> QED BY <1>1, <1>2, <1>3, <1>4, <1>5

(* No usage exceeds the largest one.                                       *)
LEMMA MaxUsage == Max(Usages) \in Nat /\ \A t \in Usages : t <= Max(Usages)
<1>1. \E m \in Usages : \A t \in Usages : m >= t
  OBVIOUS
<1> QED BY <1>1 DEF Max

(* A live row names the one run its result is of.                          *)
LEMMA OneRun ==
  ASSUME NEW r \in Runs, NEW t \in Runs, NEW e \in Range(EventsOf[r]), e \in Range(EventsOf[t])
  PROVE  r = t
OBVIOUS

-----------------------------------------------------------------------------
(* Every variable keeps its form.                                          *)

LEMMA RowsOfRun ==
  ASSUME NEW r \in Runs
  PROVE  /\ \A d \in Docs : Row("doc", d, r, TRUE) \in RowSet
         /\ Row("outcome", r, r, TRUE) \in RowSet
         /\ \A e \in Events : ProjectedRow(e, r) \in RowSet /\ MinimalRow(e, r) \in RowSet
BY DEF Row, RowSet, ProjectedRow, MinimalRow, Sources

LEMMA ItemOfRow ==
  ASSUME NEW x \in RowSet, NEW r \in Runs
  PROVE  Item(x, r) \in ItemSet
BY DEF Item, Key, RowSet, ItemSet

LEMMA NoWorkShape == NoWork \in WorkSet
BY EmptySeq DEF NoWork, WorkSet

LEMMA NoCallShape == NoCall \in CallSet
<1>1. None \in Owner /\ {} \in RowSets /\ {} \in FactSets /\ {} \in Citations
  BY DEF Owner, RowSets, FactSets, Citations
<1> QED BY <1>1 DEF NoCall, CallSet

LEMMA InitShape == Init => ShapeOK
<1> SUFFICES ASSUME Init PROVE ShapeOK
  OBVIOUS
<1> USE DEF Init, ProjectionInit
<1>1. records \subseteq RowSet
  <2>1. \A r \in EarlierRuns : \A e \in Saved \cap Range(EventsOf[r]) : ProjectedRow(e, r) \in RowSet
    BY RowsOfRun DEF EarlierRuns
  <2>2. Saved # {} => EarlierRuns # {}
    BY DEF EarlierRuns, Events
  <2>3. Saved # {} => (CHOOSE r \in EarlierRuns : TRUE) \in Runs
    BY <2>2 DEF EarlierRuns
  <2>4. \A d \in {c \in Docs : Saved # {}} : Row("doc", d, CHOOSE r \in EarlierRuns : TRUE, TRUE) \in RowSet
    BY <2>3, RowsOfRun
  <2>5. EarlierResults \subseteq RowSet
    BY <2>1 DEF EarlierResults
  <2>6. EarlierDocs \subseteq RowSet
    BY <2>4 DEF EarlierDocs
  <2> QED BY <2>5, <2>6
<1>2. derived \subseteq Events
  BY EventsOfRun DEF EarlierRuns
<1>3. /\ pc \in [Requests -> Labels] /\ work \in [Requests -> WorkSet]
      /\ sources \in [Requests -> SUBSET Runs]
  BY NoWorkShape DEF Labels
<1>4. /\ call \in [Requests -> CallSet] /\ retriever \subseteq Fact /\ sink \in Owner
      /\ observations \subseteq Observation /\ active \in Nat /\ artifacts \subseteq Events
      /\ alone \subseteq Requests
  BY NoCallShape DEF Owner
<1> QED BY <1>1, <1>2, <1>3, <1>4 DEF ShapeOK

LEMMA WorkField ==
  ASSUME NEW w \in WorkSet
  PROVE  /\ w.todo \in Seq(Runs) /\ w.kept \subseteq RowSet /\ w.feed \in Seq(FeedRow)
         /\ w.queue \in Seq(RowSet) /\ w.context \subseteq ItemSet /\ w.stored \subseteq Sources
         /\ \A t \in Seq(Runs) : [w EXCEPT !.todo = t] \in WorkSet
         /\ \A k \in SUBSET RowSet : [w EXCEPT !.kept = k] \in WorkSet
         /\ \A f \in Seq(FeedRow) : [w EXCEPT !.feed = f] \in WorkSet
         /\ \A u \in Seq(RowSet) : [w EXCEPT !.queue = u] \in WorkSet
         /\ \A c \in SUBSET ItemSet : [w EXCEPT !.context = c] \in WorkSet
         /\ \A t \in SUBSET Sources : [w EXCEPT !.stored = t] \in WorkSet
BY DEF WorkSet

(* The run a thread works at.                                              *)
LEMMA CurrentRun ==
  ASSUME ShapeOK, NEW q \in Requests, WorkBelongs(q), pc[q] \in Phases
  PROVE  Current(q) \in Runs /\ work[q] \in WorkSet /\ work[q].todo \in Seq(Runs)
BY HeadTail, WorkField DEF ShapeOK, WorkBelongs, Current

LEMMA TakeRowsShape ==
  ASSUME ShapeOK, NEW q \in Requests, Current(q) \in Runs, NEW took \in SUBSET RowSet, TakeRows(q, took)
  PROVE  work' \in [Requests -> WorkSet]
<1>1. {Item(x, Current(q)) : x \in took} \subseteq ItemSet
  BY ItemOfRow
<1>2. work[q] \in WorkSet /\ work[q].context \subseteq ItemSet
  BY WorkField DEF ShapeOK
<1> DEFINE c == work[q].context \cup {Item(x, Current(q)) : x \in took}
           w == [work[q] EXCEPT !.kept = took, !.context = c]
<1>3. c \in SUBSET ItemSet
  BY <1>1, <1>2
<1>4. w \in WorkSet
  <2> DEFINE v == [work[q] EXCEPT !.kept = took]
  <2>1. v \in WorkSet
    BY <1>2, WorkField
  <2> HIDE DEF c
  <2>2. [v EXCEPT !.context = c] \in WorkSet
    <3> HIDE DEF v
    <3> QED BY <2>1, <1>3, WorkField
  <2>3. w = [v EXCEPT !.context = c]
    BY <1>2 DEF WorkSet
  <2> QED BY <2>2, <2>3
<1>5. work' = [work EXCEPT ![q] = w]
  BY DEF TakeRows
<1>6. work \in [Requests -> WorkSet]
  BY DEF ShapeOK
<1> HIDE DEF w
<1> QED BY <1>4, <1>5, <1>6

LEMMA ReadRecordsShape ==
  ASSUME ShapeOK, NEW r \in Runs
  PROVE  ReadRecords(r) \subseteq RowSet
BY RowsOfRun DEF ShapeOK, ReadRecords

LEMMA MaterialStepShape ==
  ASSUME ShapeOK, NEW q \in Requests, WorkBelongs(q), MaterializeStep(q)
  PROVE  ShapeOK'
<1> USE DEF MaterializeStep, learningVars, serviceVars, resultVars, tableVars
<1> DEFINE r == Current(q)
<1>0. pc[q] \in Phases
  BY DEF ProjectionStep, ReadRun, PersistDoc, ReadFeed, Project, EndProjection, PersistEvidence,
         PersistOutcome, Phases
<1>1. r \in Runs /\ work[q] \in WorkSet /\ work[q].todo \in Seq(Runs)
  BY <1>0, CurrentRun
<1>2. CASE ReadRun(q)
  <2>1. work' \in [Requests -> WorkSet]
    BY <1>1, <1>2, ReadRecordsShape, TakeRowsShape DEF ReadRun
  <2> QED BY <1>2, <2>1 DEF ReadRun, ShapeOK, Labels
<1>3. CASE PersistDoc(q)
  <2>1. PICK d \in MissingDocs(q) :
          SaveRecord(Row("doc", d, r, TRUE)) /\ TakeRows(q, work[q].kept \cup {Row("doc", d, r, TRUE)})
    BY <1>3 DEF PersistDoc
  <2>2. Row("doc", d, r, TRUE) \in RowSet
    BY <1>1, RowsOfRun DEF MissingDocs
  <2>3. work[q].kept \cup {Row("doc", d, r, TRUE)} \subseteq RowSet
    BY <1>1, <2>2, WorkField
  <2>4. work' \in [Requests -> WorkSet]
    BY <1>1, <2>1, <2>3, TakeRowsShape
  <2>5. records' \subseteq RowSet
    BY <2>1, <2>2 DEF SaveRecord, ShapeOK
  <2> QED BY <1>3, <2>4, <2>5 DEF PersistDoc, ShapeOK
<1>4. CASE ReadFeed(q)
  <2> DEFINE f == [i \in DOMAIN EventsOf[r] |->
                     LET e == EventsOf[r][i] IN [event |-> e, joined |-> e \in artifacts]]
  <2>1. f \in Seq(FeedRow)
    <3>1. \A i \in DOMAIN EventsOf[r] : f[i] \in FeedRow
      BY <1>1, EventsOfRun DEF FeedRow
    <3>2. DOMAIN EventsOf[r] = 1..Len(EventsOf[r]) /\ Len(EventsOf[r]) \in Nat
      BY <1>1, EventsOfRun
    <3>3. f \in [1..Len(EventsOf[r]) -> FeedRow]
      BY <3>1, <3>2
    <3> QED BY <3>2, <3>3
  <2>2. [work[q] EXCEPT !.feed = f] \in WorkSet
    BY <1>1, <2>1, WorkField
  <2>3. work' = [work EXCEPT ![q] = [work[q] EXCEPT !.feed = f]]
    BY <1>4 DEF ReadFeed
  <2> QED BY <1>4, <2>2, <2>3 DEF ReadFeed, ShapeOK, Labels
<1>5. CASE Project(q)
  <2> DEFINE row == Head(work[q].feed)
             w == [work[q] EXCEPT !.feed = Tail(@)]
             v == [work[q] EXCEPT !.feed = Tail(@), !.queue = Append(@, ProjectedRow(row.event, r))]
  <2>1. work[q].feed \in Seq(FeedRow) /\ work[q].feed # <<>> /\ work[q].queue \in Seq(RowSet)
    BY <1>1, <1>5, WorkField DEF Project
  <2>2. Tail(work[q].feed) \in Seq(FeedRow) /\ row \in FeedRow
    BY <2>1, HeadTail
  <2>3. Append(work[q].queue, ProjectedRow(row.event, r)) \in Seq(RowSet)
    <3>1. ProjectedRow(row.event, r) \in RowSet
      BY <1>1, <2>2, RowsOfRun DEF FeedRow
    <3> QED BY <2>1, <3>1
  <2>4. w \in WorkSet /\ v \in WorkSet
    BY <1>1, <2>2, <2>3 DEF WorkSet
  <2>5. /\ work' = [work EXCEPT ![q] = w] \/ work' = [work EXCEPT ![q] = v]
        /\ derived' \subseteq derived \cup {row.event}
    BY <1>5 DEF Project, Derive
  <2>6. work' \in [Requests -> WorkSet]
    BY <2>4, <2>5 DEF ShapeOK
  <2>7. derived' \subseteq Events
    BY <2>2, <2>5 DEF ShapeOK, FeedRow
  <2> QED BY <1>5, <2>6, <2>7 DEF Project, ShapeOK
<1>6. CASE EndProjection(q)
  <2> DEFINE u == [i \in DOMAIN EventsOf[r] |-> MinimalRow(EventsOf[r][i], r)]
  <2>1. u \in Seq(RowSet)
    <3>1. \A i \in DOMAIN EventsOf[r] : u[i] \in RowSet
      BY <1>1, EventsOfRun, RowsOfRun
    <3>2. DOMAIN EventsOf[r] = 1..Len(EventsOf[r]) /\ Len(EventsOf[r]) \in Nat
      BY <1>1, EventsOfRun
    <3>3. u \in [1..Len(EventsOf[r]) -> RowSet]
      BY <3>1, <3>2
    <3> QED BY <3>2, <3>3
  <2>2. [work[q] EXCEPT !.queue = u] \in WorkSet
    BY <1>1, <2>1, WorkField
  <2>3. work' = work \/ work' = [work EXCEPT ![q] = [work[q] EXCEPT !.queue = u]]
    BY <1>6 DEF EndProjection
  <2>4. work' \in [Requests -> WorkSet]
    BY <2>2, <2>3 DEF ShapeOK
  <2> QED BY <1>6, <2>4 DEF EndProjection, ShapeOK, Labels
<1>7. CASE PersistEvidence(q)
  <2> DEFINE row == Head(work[q].queue)
             w == [work[q] EXCEPT !.queue = Tail(@)]
             v == [w EXCEPT !.kept = @ \cup {row}, !.context = @ \cup {Item(row, row.run)}]
  <2>1. row \in RowSet /\ Tail(work[q].queue) \in Seq(RowSet)
    BY <1>1, <1>7, HeadTail, WorkField DEF PersistEvidence
  <2>2. w \in WorkSet
    BY <1>1, <2>1, WorkField
  <2>3. Item(row, row.run) \in ItemSet
    BY <2>1, ItemOfRow DEF RowSet
  <2>4. v \in WorkSet
    BY <2>1, <2>2, <2>3 DEF WorkSet
  <2>5. /\ work' = [work EXCEPT ![q] = w] \/ work' = [work EXCEPT ![q] = v]
        /\ records' \subseteq records \cup {row}
    BY <1>7 DEF PersistEvidence, SaveRecord
  <2> QED BY <1>7, <2>1, <2>2, <2>4, <2>5 DEF PersistEvidence, ShapeOK
<1>8. CASE PersistOutcome(q)
  <2> DEFINE row == Row("outcome", r, r, TRUE)
             w == [work[q] EXCEPT !.kept = {}, !.todo = Tail(@), !.context = @ \cup {Item(row, r)}]
  <2>1. row \in RowSet /\ Item(row, r) \in ItemSet
    BY <1>1, RowsOfRun, ItemOfRow
  <2>2. Tail(work[q].todo) \in Seq(Runs)
    BY <1>0, <1>1, HeadTail DEF WorkBelongs
  <2>3. w \in WorkSet
    BY <1>1, <2>1, <2>2 DEF WorkSet
  <2>4. work' = [work EXCEPT ![q] = w] /\ records' \subseteq records \cup {row}
    BY <1>8 DEF PersistOutcome, SaveRecord
  <2>5. work' \in [Requests -> WorkSet] /\ records' \subseteq RowSet
    BY <2>1, <2>3, <2>4 DEF ShapeOK
  <2>6. pc' \in [Requests -> Labels]
    BY <1>8 DEF PersistOutcome, ShapeOK, Labels
  <2> QED BY <1>8, <2>5, <2>6 DEF PersistOutcome, ShapeOK
<1> QED BY <1>2, <1>3, <1>4, <1>5, <1>6, <1>7, <1>8 DEF ProjectionStep

(* The calls a request begins and ends with.                               *)
LEMMA CallMade ==
  ASSUME NEW r \in Owner, NEW O \in RowSets
  PROVE  /\ [NoCall EXCEPT !.primary = r, !.before = O] \in CallSet
         /\ \A n \in 0..1 : [NoCall EXCEPT !.primary = r, !.attempt = n, !.accounted = O] \in CallSet
BY NoCallShape DEF CallSet

LEMMA LaunchShape ==
  ASSUME ShapeOK, NEW q \in Requests, Launch(q)
  PROVE  ShapeOK'
<1> DEFINE S == Declared[q].runs
           O == RowsOf(Declared[q].primary)
           t == {x.src : x \in {y \in records : Key(y).kind = "live"}}
           w == [work[q] EXCEPT !.todo = SetToSeq(S), !.stored = t]
           c == [NoCall EXCEPT !.primary = Declared[q].primary, !.before = O]
<1>1. SetToSeq(S) \in Seq(Runs)
  <2>1. SetToSeq(S) \in Seq(S) /\ S \subseteq Runs
    BY SetToSeqOf
  <2> QED BY <2>1
<1>2. t \subseteq Sources
  <2>1. records \subseteq RowSet
    BY DEF ShapeOK
  <2>2. \A x \in RowSet : x.src \in Sources
    BY DEF RowSet
  <2> QED BY <2>1, <2>2
<1>3. w \in WorkSet
  <2> DEFINE s == SetToSeq(S)
             v == [work[q] EXCEPT !.todo = s]
  <2>1. work[q] \in WorkSet
    BY DEF ShapeOK
  <2>2. v \in WorkSet
    BY <1>1, <2>1, WorkField
  <2> HIDE DEF s, t
  <2>3. [v EXCEPT !.stored = t] \in WorkSet
    <3> HIDE DEF v
    <3> QED BY <1>2, <2>2, WorkField
  <2>4. w = [v EXCEPT !.stored = t]
    BY <2>1 DEF WorkSet, s
  <2> QED BY <2>3, <2>4
<1>4. c \in CallSet
  <2>1. O \in RowSets /\ Declared[q].primary \in Owner
    BY DEF RowsOf, ShapeOK, RowSets, Owner
  <2> QED BY <2>1, CallMade
<1>5. /\ work' = [work EXCEPT ![q] = w] /\ call' = [call EXCEPT ![q] = c]
      /\ sources' = [sources EXCEPT ![q] = S] /\ pc' = [pc EXCEPT ![q] = "read"]
      /\ UNCHANGED <<records, derived, artifacts, retriever, sink, observations, active>>
      /\ alone' \subseteq alone
  BY DEF Launch, Materialize, tableVars, serviceVars, resultVars
<1>6. work' \in [Requests -> WorkSet] /\ call' \in [Requests -> CallSet]
  BY <1>3, <1>4, <1>5 DEF ShapeOK
<1>7. pc' \in [Requests -> Labels] /\ sources' \in [Requests -> SUBSET Runs]
  BY <1>5 DEF ShapeOK, Labels
<1> QED BY <1>5, <1>6, <1>7 DEF ShapeOK

(* The steps of a request that has its material touch nothing of it.       *)
ServiceStep(q) ==
  \/ SetRetriever(q) \/ SetRunner(q) \/ Search(q) \/ Pack(q) \/ ModelFails(q) \/ Answer(q) \/ Record(q)
  \/ Accept(q) \/ Reject(q) \/ PersistPatch(q) \/ CreateCandidate(q) \/ Account(q)

LEMMA ServiceStepFrame ==
  ASSUME ShapeOK, NEW q \in Requests, ServiceStep(q)
  PROVE  /\ pc[q] \in {"bind", "sink"} \cup Proposing
         /\ \E p \in {"sink", "failed", "done"} \cup Proposing : Goto(q, p)
         /\ work' = work \/ work' = [work EXCEPT ![q] = NoWork]
         /\ UNCHANGED <<tableVars, sources, restarts, alone>>
BY DEF ServiceStep, SetRetriever, SetRunner, Search, Pack, ModelFails, Answer, Record, Accept, Reject,
       PersistPatch, CreateCandidate, Account, Fail, Stay, Proposing, tableVars

(* What these steps make of the request's call.                            *)
LEMMA CallField ==
  ASSUME NEW c \in CallSet
  PROVE  /\ \A n \in Nat, F \in FactSets : \A r \in Owner :
              [c EXCEPT !.base = n, !.found = F, !.runner = r] \in CallSet
         /\ \A E \in FactSets : [c EXCEPT !.exposed = E] \in CallSet
         /\ \A n \in Nat : [c EXCEPT !.spent = n] \in CallSet
         /\ \A E \in Citations : [c EXCEPT !.cited = E] \in CallSet
         /\ [c EXCEPT !.attempt = 1] \in CallSet
<1>1. \A n \in Nat, F \in FactSets : \A r \in Owner :
        [c EXCEPT !.base = n, !.found = F, !.runner = r] \in CallSet
  BY DEF CallSet
<1>2. \A E \in FactSets : [c EXCEPT !.exposed = E] \in CallSet
  BY DEF CallSet
<1>3. \A n \in Nat : [c EXCEPT !.spent = n] \in CallSet
  BY DEF CallSet
<1>4. \A E \in Citations : [c EXCEPT !.cited = E] \in CallSet
  BY DEF CallSet
<1>5. [c EXCEPT !.attempt = 1] \in CallSet
  BY DEF CallSet
<1> QED BY <1>1, <1>2, <1>3, <1>4, <1>5

LEMMA AccountedShape ==
  ASSUME ShapeOK, NEW q \in Requests
  PROVE  [NoCall EXCEPT !.primary = call[q].primary, !.attempt = call[q].attempt,
                        !.accounted = NewRows(q)] \in CallSet
<1>1. call[q] \in CallSet
  BY DEF ShapeOK
<1>2. NewRows(q) \in RowSets
  BY DEF NewRows, RowsOf, ShapeOK, RowSets
<1>3. call[q].primary \in Owner /\ call[q].attempt \in 0..1
  BY <1>1 DEF CallSet
<1> QED BY <1>2, <1>3, CallMade

LEMMA ServiceStepCall ==
  ASSUME ShapeOK, NEW q \in Requests, ServiceStep(q)
  PROVE  \E c \in CallSet : call' = [call EXCEPT ![q] = c]
<1>0. call \in [Requests -> CallSet]
  BY DEF ShapeOK
<1>9. call[q] \in CallSet
  BY <1>0
<1>1. CASE UNCHANGED call
  <2>1. call' = [call EXCEPT ![q] = call[q]]
    BY <1>0, <1>1
  <2> QED BY <1>0, <2>1
<1>2. CASE Fail(q)
  BY <1>2, NoCallShape DEF Fail
<1>3. CASE Search(q)
  <2>1. {s \in retriever : Allowed(q, s)} \in FactSets /\ active \in Nat /\ sink \in Owner
    BY DEF ShapeOK, FactSets, Owner
  <2>2. CASE call' = [call EXCEPT ![q].base = active, ![q].found = {s \in retriever : Allowed(q, s)},
                                  ![q].runner = sink]
    <3>1. call' = [call EXCEPT ![q] = [call[q] EXCEPT !.base = active,
                                                      !.found = {s \in retriever : Allowed(q, s)},
                                                      !.runner = sink]]
      BY <2>2
    <3> QED BY <1>9, <2>1, <3>1, CallField
  <2> QED BY <1>2, <1>3, <2>2 DEF Search
<1>4. CASE Pack(q)
  <2>1. CASE \E E \in SUBSET call[q].found : call' = [call EXCEPT ![q].exposed = E]
    <3>1. PICK E \in SUBSET call[q].found : call' = [call EXCEPT ![q].exposed = E]
      BY <2>1
    <3>2. call' = [call EXCEPT ![q] = [call[q] EXCEPT !.exposed = E]]
      BY <3>1
    <3>3. E \in FactSets
      BY <1>9 DEF CallSet, FactSets
    <3> QED BY <1>9, <3>2, <3>3, CallField
  <2> QED BY <1>2, <1>4, <2>1 DEF Pack
<1>5. CASE Answer(q)
  <2>1. PICK t \in Usages : call' = [call EXCEPT ![q].spent = @ + t]
    BY <1>5 DEF Answer
  <2>2. call' = [call EXCEPT ![q] = [call[q] EXCEPT !.spent = call[q].spent + t]]
    BY <2>1
  <2>3. call[q].spent + t \in Nat
    <3>1. call[q].spent \in Nat /\ t \in Nat
      BY <1>9 DEF CallSet
    <3> QED BY <3>1
  <2> QED BY <1>9, <2>2, <2>3, CallField
<1>6. CASE Accept(q)
  <2>1. PICK E \in SUBSET Events : call' = [call EXCEPT ![q].cited = E]
    BY <1>6 DEF Accept
  <2>2. call' = [call EXCEPT ![q] = [call[q] EXCEPT !.cited = E]]
    BY <2>1
  <2> QED BY <1>9, <2>2, CallField DEF Citations
<1>7. CASE Reject(q)
  <2>1. CASE call' = [call EXCEPT ![q].attempt = 1]
    <3>1. call' = [call EXCEPT ![q] = [call[q] EXCEPT !.attempt = 1]]
      BY <2>1
    <3> QED BY <1>9, <3>1, CallField
  <2> QED BY <1>2, <1>7, <2>1 DEF Reject
<1>8. CASE Account(q)
  BY <1>8, AccountedShape DEF Account
<1> QED BY <1>1, <1>2, <1>3, <1>4, <1>5, <1>6, <1>7, <1>8
        DEF ServiceStep, SetRetriever, SetRunner, ModelFails, Record, PersistPatch, CreateCandidate

(* The evidence of a request is about results of runs.                     *)
LEMMA EvidenceIsFact ==
  ASSUME ShapeOK, NEW q \in Requests, WorkBelongs(q)
  PROVE  Evidence(q) \subseteq Fact /\ \A s \in Evidence(q) : IsFact(s)
<1>1. work[q].context \subseteq ItemSet
  BY WorkField DEF ShapeOK
<1> SUFFICES ASSUME NEW i \in work[q].context, i.kind = "live"
             PROVE  /\ [src |-> i.src, run |-> i.run] \in Fact
                    /\ IsFact([src |-> i.src, run |-> i.run])
  BY Zenon DEF Evidence
<1>2. i.run \in Runs /\ i.src \in Range(EventsOf[i.run])
  BY <1>1 DEF WorkBelongs, ItemSet
<1> QED BY <1>2, EventsOfRun DEF Fact, IsFact

LEMMA ServiceStepShape ==
  ASSUME ShapeOK, NEW q \in Requests, WorkBelongs(q), CallOK(q), ServiceStep(q)
  PROVE  ShapeOK'
<1>1. work' \in [Requests -> WorkSet] /\ pc' \in [Requests -> Labels]
  <2>1. work' \in [Requests -> WorkSet]
    BY ServiceStepFrame, NoWorkShape DEF ShapeOK
  <2>2. PICK p \in {"sink", "failed", "done"} \cup Proposing : Goto(q, p)
    BY ServiceStepFrame
  <2>3. p \in Labels
    BY DEF Labels, Proposing
  <2> QED BY <2>1, <2>2, <2>3 DEF ShapeOK
<1>2. call' \in [Requests -> CallSet]
  BY ServiceStepCall DEF ShapeOK
<1>3. /\ sources' \in [Requests -> SUBSET Runs] /\ records' \subseteq RowSet
      /\ derived' \subseteq Events /\ artifacts' \subseteq Events /\ alone' \subseteq Requests
  BY ServiceStepFrame DEF ShapeOK, tableVars
<1>4. retriever' \subseteq Fact
  <2>1. retriever' = retriever \/ retriever' = Evidence(q)
    BY DEF ServiceStep, SetRetriever, SetRunner, Search, Pack, ModelFails, Answer, Record, Accept, Reject,
           PersistPatch, CreateCandidate, Account, serviceVars
  <2> QED BY <2>1, EvidenceIsFact DEF ShapeOK
<1>5. call[q] \in CallSet
  BY DEF ShapeOK
<1>6. sink' \in Owner
  <2>1. sink' = sink \/ sink' = call[q].primary
    BY DEF ServiceStep, SetRetriever, SetRunner, Search, Pack, ModelFails, Answer, Record, Accept, Reject,
           PersistPatch, CreateCandidate, Account, serviceVars
  <2> QED BY <1>5, <2>1 DEF ShapeOK, CallSet
<1>7. observations' \subseteq Observation /\ active' \in Nat
  <2>1. CASE Record(q)
    <3>1. call[q].runner \in Runs /\ call[q].attempt \in 0..1
      BY <1>5, <2>1 DEF CallOK, Record, Searched, Proposing, CallSet
    <3>2. [of |-> <<q, call[q].attempt>>, run |-> call[q].runner] \in Observation
      BY <3>1 DEF Observation
    <3> QED BY <2>1, <3>2 DEF ShapeOK, Record
  <2>2. CASE UNCHANGED <<observations, active>>
    BY <2>2 DEF ShapeOK
  <2> QED BY <2>1, <2>2
          DEF ServiceStep, SetRetriever, SetRunner, Search, Pack, ModelFails, Answer, Accept, Reject,
              PersistPatch, CreateCandidate, Account, resultVars
<1> QED BY <1>1, <1>2, <1>3, <1>4, <1>6, <1>7 DEF ShapeOK

LEMMA RestartShape ==
  ASSUME ShapeOK, Restart
  PROVE  ShapeOK'
<1>1. work' \in [Requests -> WorkSet] /\ pc' \in [Requests -> Labels] /\ sources' \in [Requests -> SUBSET Runs]
  BY NoWorkShape DEF Restart, Dies, ShapeOK, Labels
<1>2. call' \in [Requests -> CallSet] /\ retriever' \subseteq Fact /\ sink' \in Owner
  BY NoCallShape DEF Restart, ShapeOK, Owner
<1> QED BY <1>1, <1>2 DEF Restart, Dies, ShapeOK, tableVars, resultVars

LEMMA OtherStepShape ==
  ASSUME ShapeOK, PromoteOther \/ \E e \in Events : Lose(e)
  PROVE  ShapeOK'
BY DEF ShapeOK, PromoteOther, Lose, Compact, projectionVars, tableVars, learningVars, serviceVars, resultVars

-----------------------------------------------------------------------------
(* The material is what it should be.                                      *)

(* A request that does nothing loses nothing: rows with results and rows   *)
(* of evidence stay, and there are no new artifacts.                       *)
LEMMA Untouched ==
  ASSUME NEW q \in Requests, MaterialOf(q), UNCHANGED <<pc[q], work[q], sources[q]>>,
         derived \subseteq derived', artifacts' \subseteq artifacts,
         \A x \in records : Live(x) => x \in records'
  PROVE  MaterialOf(q)'
<1> USE DEF MaterialOf, Current, Phases, Held
<1>1. WorkBelongs(q)' /\ DocsShown(q)' /\ KeptShown(q)'
  BY DEF WorkBelongs, DocsShown, KeptShown
<1>2. QueueDerived(q)' /\ StoredStays(q)'
  BY DEF QueueDerived, StoredStays
<1>3. ResultsComing(q)'
  BY DEF ResultsComing, Queued, Joined
<1>4. RunsCovered(q)'
  BY DEF RunsCovered, Complete
<1> QED BY <1>1, <1>2, <1>3, <1>4

(* Nor does one that has its material, or has ended.                       *)
LEMMA PastMaterial ==
  ASSUME NEW q \in Requests, MaterialOf(q), pc'[q] \notin Phases \cup {"bind"}, pc'[q] = "idle" => pc[q] = "idle",
         work'[q] = work[q] \/ work'[q] = NoWork
  PROVE  MaterialOf(q)'
<1>1. WorkBelongs(q)'
  BY DEF MaterialOf, WorkBelongs, Phases, Held, NoWork
<1> QED BY <1>1 DEF MaterialOf, QueueDerived, StoredStays, KeptShown, DocsShown, ResultsComing,
                    RunsCovered, Phases, Held

(* Saving a row of another id, or the same live row again, keeps the rest. *)
LEMMA SaveKeeps ==
  ASSUME RecordsBelong, NEW row, Belongs(row), SaveRecord(row), records \subseteq RowSet, row \in RowSet
  PROVE  RecordsBelong' /\ \A x \in records : Live(x) => x \in records'
<1>1. RecordsBelong'
  BY DEF RecordsBelong, SaveRecord, SameId
<1>2. ASSUME NEW x \in records, Live(x), SameId(x, row)
      PROVE  x = row
  <2>1. x.kind = row.kind /\ x.src = row.src /\ Live(row)
    BY <1>2 DEF SameId, Live, Key
  <2>2. x.run \in Runs /\ row.run \in Runs
    BY DEF RowSet
  <2>3. x.run = row.run
    BY <1>2, <2>1, <2>2, OneRun DEF RecordsBelong, Belongs
  <2>4. x.full = row.full
    BY <1>2, <2>1 DEF RecordsBelong, Belongs
  <2> QED BY <2>1, <2>3, <2>4 DEF RowSet
<1> QED BY <1>1, <1>2 DEF SaveRecord

(* The rows of a run, and those it is given, belong to it.                 *)
LEMMA OwnRowsBelong ==
  ASSUME NEW r \in Runs
  PROVE  /\ \A d \in Docs : Belongs(Row("doc", d, r, TRUE))
         /\ Belongs(Row("outcome", r, r, TRUE))
         /\ \A e \in Range(EventsOf[r]) : /\ Belongs(ProjectedRow(e, r)) /\ Live(ProjectedRow(e, r))
                                          /\ Belongs(MinimalRow(e, r)) /\ Live(MinimalRow(e, r))
BY DEF Belongs, Live, Key, Row, ProjectedRow, MinimalRow

LEMMA ReadRecordsBelong ==
  ASSUME RecordsBelong, NEW r \in Runs
  PROVE  \A x \in ReadRecords(r) : Belongs(x) /\ x.run = r
<1> DEFINE stored == {x \in records : x.run = r}
           made == {Row("doc", d, r, TRUE) : d \in Docs} \cup {Row("outcome", r, r, TRUE)}
<1>1. \A x \in stored : Belongs(x) /\ x.run = r
  BY DEF RecordsBelong
<1>2. \A x \in made : Belongs(x) /\ x.run = r
  <2>1. (\A d \in Docs : Row("doc", d, r, TRUE).run = r) /\ Row("outcome", r, r, TRUE).run = r
    BY DEF Row
  <2> QED BY <2>1, OwnRowsBelong
<1>3. ReadRecords(r) \in {stored, made}
  BY DEF ReadRecords
<1> QED BY <1>1, <1>2, <1>3

(* What taking rows makes of the work.                                     *)
LEMMA TakeRowsWork ==
  ASSUME ShapeOK, NEW q \in Requests, NEW took, TakeRows(q, took)
  PROVE  /\ work'[q].kept = took
         /\ work'[q].context = work[q].context \cup {Item(x, Current(q)) : x \in took}
         /\ work'[q].todo = work[q].todo /\ work'[q].feed = work[q].feed
         /\ work'[q].queue = work[q].queue /\ work'[q].stored = work[q].stored
         /\ \A p \in Requests \ {q} : work'[p] = work[p]
<1>1. work \in [Requests -> WorkSet] /\ work[q] \in WorkSet
  BY DEF ShapeOK
<1>2. work'[q] = [work[q] EXCEPT !.kept = took,
                                 !.context = work[q].context \cup {Item(x, Current(q)) : x \in took}]
  BY <1>1 DEF TakeRows
<1> QED BY <1>1, <1>2 DEF TakeRows, WorkSet

(* The items that rows of the current run add to the context.              *)
LEMMA ItemsBelong ==
  ASSUME NEW r, NEW took, \A x \in took : Belongs(x) /\ x.run = r
  PROVE  \A i \in {Item(x, r) : x \in took} : i.kind = "live" => i.src \in Range(EventsOf[i.run])
BY DEF Item, Belongs, Live

LEMMA ReadRunMaterial ==
  ASSUME ShapeOK, RecordsBelong, NEW q \in Requests, MaterialOf(q), ReadRun(q)
  PROVE  MaterialOf(q)'
<1> DEFINE r == Current(q)
           took == ReadRecords(r)
<1>1. r \in Runs /\ Current(q)' = r /\ pc[q] = "read" /\ pc'[q] = "docs"
  <2>1. pc[q] = "read" /\ pc'[q] = "docs" /\ work'[q].todo = work[q].todo
    BY TakeRowsWork DEF ReadRun, ShapeOK
  <2> QED BY <2>1, CurrentRun DEF MaterialOf, Phases, Current
<1>2. /\ work'[q].kept = took
      /\ work'[q].context = work[q].context \cup {Item(x, r) : x \in took}
      /\ work'[q].todo = work[q].todo
      /\ work'[q].queue = work[q].queue /\ work'[q].stored = work[q].stored
  BY TakeRowsWork DEF ReadRun
<1> HIDE DEF took
<1>3. \A x \in took : Belongs(x) /\ x.run = r
  BY <1>1, ReadRecordsBelong DEF took
<1>4. \A i \in {Item(x, r) : x \in took} : i.kind = "live" => i.src \in Range(EventsOf[i.run])
  BY <1>3, ItemsBelong
<1>5. UNCHANGED <<records, artifacts, derived, sources>>
  BY DEF ReadRun, tableVars
<1>6. work[q].queue = <<>>
  BY <1>1 DEF MaterialOf, WorkBelongs
<1>7. WorkBelongs(q)' /\ QueueDerived(q)' /\ DocsShown(q)' /\ ResultsComing(q)'
  <2>1. WorkBelongs(q)'
    BY <1>1, <1>2, <1>3, <1>4, <1>6 DEF MaterialOf, WorkBelongs, Phases, Held
  <2> QED BY <1>1, <1>2, <1>6, <2>1 DEF QueueDerived, DocsShown, ResultsComing
<1>8. StoredStays(q)'
  BY <1>1, <1>2, <1>5 DEF MaterialOf, StoredStays, Phases
<1>9. KeptShown(q)'
  <2>1. ASSUME NEW e \in Range(EventsOf[r]) \cap work[q].stored
        PROVE  LiveItem(e, r) \in {Item(x, r) : x \in took}
    <3>1. PICK x \in records : Live(x) /\ x.src = e
      BY <1>1 DEF MaterialOf, StoredStays, Phases
    <3>2. x.run \in Runs /\ e \in Range(EventsOf[x.run])
      BY <3>1 DEF ShapeOK, RowSet, RecordsBelong, Belongs
    <3>3. x.run = r
      BY <1>1, <3>2, OneRun
    <3>4. x \in took
      BY <3>3 DEF took, ReadRecords
    <3>5. Item(x, r) = LiveItem(e, r)
      BY <3>1 DEF Item, LiveItem, Live
    <3> QED BY <3>4, <3>5
  <2> QED BY <1>1, <1>2, <2>1 DEF KeptShown
<1>10. RunsCovered(q)'
  BY <1>1, <1>2, <1>5 DEF MaterialOf, RunsCovered, Complete, Phases
<1> QED BY <1>7, <1>8, <1>9, <1>10 DEF MaterialOf

LEMMA PersistDocMaterial ==
  ASSUME ShapeOK, RecordsBelong, NEW q \in Requests, MaterialOf(q), PersistDoc(q)
  PROVE  /\ MaterialOf(q)' /\ RecordsBelong'
         /\ \A x \in records : Live(x) => x \in records'
         /\ \A x \in records' \ records : x.kind # "broker"
<1> DEFINE r == Current(q)
<1>1. PICK d \in MissingDocs(q) :
        /\ SaveRecord(Row("doc", d, r, TRUE))
        /\ TakeRows(q, work[q].kept \cup {Row("doc", d, r, TRUE)})
  BY DEF PersistDoc
<1> DEFINE row == Row("doc", d, r, TRUE)
           took == work[q].kept \cup {row}
<1>2. /\ work'[q].kept = took
      /\ work'[q].context = work[q].context \cup {Item(x, r) : x \in took}
      /\ work'[q].todo = work[q].todo
      /\ work'[q].queue = work[q].queue /\ work'[q].stored = work[q].stored
  BY <1>1, TakeRowsWork
<1>3. r \in Runs /\ Current(q)' = r /\ pc[q] = "docs" /\ pc'[q] = "docs"
  BY <1>2, CurrentRun DEF PersistDoc, MaterialOf, Phases, Current
<1>4. Belongs(row) /\ row.run = r /\ row \in RowSet /\ row.kind = "doc"
  BY <1>3, OwnRowsBelong, RowsOfRun DEF MissingDocs, Row
<1> HIDE DEF row
<1>5. RecordsBelong' /\ (\A x \in records : Live(x) => x \in records')
  BY <1>1, <1>4, SaveKeeps DEF ShapeOK, row
<1>6. \A x \in took : Belongs(x) /\ x.run = r
  BY <1>3, <1>4 DEF MaterialOf, WorkBelongs, Held, Phases
<1>7. \A i \in {Item(x, r) : x \in took} : i.kind = "live" => i.src \in Range(EventsOf[i.run])
  BY <1>6, ItemsBelong
<1> HIDE DEF took
<1>8. UNCHANGED <<artifacts, derived, sources>>
  BY DEF PersistDoc
<1>9. WorkBelongs(q)' /\ QueueDerived(q)' /\ DocsShown(q)' /\ ResultsComing(q)'
  <2>1. WorkBelongs(q)'
    BY <1>2, <1>3, <1>6, <1>7 DEF MaterialOf, WorkBelongs, Phases, Held
  <2> QED BY <1>2, <1>3, <1>8, <2>1 DEF MaterialOf, QueueDerived, DocsShown, ResultsComing
<1>10. StoredStays(q)'
  BY <1>2, <1>3, <1>5 DEF MaterialOf, StoredStays, Phases
<1>11. KeptShown(q)'
  BY <1>2, <1>3 DEF MaterialOf, KeptShown, Held, Phases
<1>12. RunsCovered(q)'
  BY <1>2, <1>3, <1>8 DEF MaterialOf, RunsCovered, Complete, Phases
<1>13. \A x \in records' \ records : x.kind # "broker"
  BY <1>1, <1>4 DEF SaveRecord, row
<1> QED BY <1>5, <1>9, <1>10, <1>11, <1>12, <1>13 DEF MaterialOf

LEMMA ReadFeedMaterial ==
  ASSUME ShapeOK, NEW q \in Requests, MaterialOf(q), ReadFeed(q)
  PROVE  MaterialOf(q)'
<1> DEFINE r == Current(q)
           feed == [i \in DOMAIN EventsOf[r] |->
                      LET e == EventsOf[r][i] IN [event |-> e, joined |-> e \in artifacts]]
<1>1. /\ work'[q].feed = feed /\ work'[q].kept = work[q].kept /\ work'[q].context = work[q].context
      /\ work'[q].todo = work[q].todo /\ work'[q].queue = work[q].queue /\ work'[q].stored = work[q].stored
  BY DEF ReadFeed, ShapeOK, WorkSet
<1>2. r \in Runs /\ Current(q)' = r /\ pc[q] = "docs" /\ pc'[q] = "project"
  BY <1>1, CurrentRun DEF ReadFeed, MaterialOf, Phases, Current, ShapeOK
<1>3. UNCHANGED <<records, artifacts, derived, sources>>
  BY DEF ReadFeed, tableVars
<1>4. \A i \in DOMAIN feed : feed[i].event \in Range(EventsOf[r])
  BY <1>2, EventsOfRun
<1>5. \A e \in Range(EventsOf[r]) \cap artifacts : \E i \in DOMAIN feed : feed[i] = [event |-> e, joined |-> TRUE]
  BY DEF Range
<1> HIDE DEF feed
<1>6. WorkBelongs(q)'
  BY <1>1, <1>2, <1>4 DEF MaterialOf, WorkBelongs, Phases, Held
<1>7. QueueDerived(q)' /\ StoredStays(q)' /\ KeptShown(q)'
  BY <1>1, <1>2, <1>3 DEF MaterialOf, QueueDerived, StoredStays, KeptShown, Phases, Held
<1>8. DocsShown(q)'
  <2>1. ASSUME NEW d \in Docs
        PROVE  DocItem(d, r) \in work[q].context
    <3>1. Has(q, Row("doc", d, r, TRUE))
      BY DEF ReadFeed, MissingDocs
    <3>2. PICK x \in work[q].kept : Key(x) = [kind |-> "doc", src |-> d]
      BY <3>1 DEF Has, Key, Row
    <3>3. Item(x, r) = DocItem(d, r)
      BY <3>2 DEF Item, DocItem, Key
    <3> QED BY <1>2, <3>2, <3>3 DEF MaterialOf, KeptShown, Held, Phases
  <2> QED BY <1>1, <1>2, <2>1 DEF DocsShown
<1>9. ResultsComing(q)'
  BY <1>1, <1>2, <1>3, <1>5 DEF ResultsComing, Joined
<1>10. RunsCovered(q)'
  BY <1>1, <1>2, <1>3 DEF MaterialOf, RunsCovered, Complete, Phases
<1> QED BY <1>6, <1>7, <1>8, <1>9, <1>10 DEF MaterialOf

LEMMA ProjectMaterial ==
  ASSUME ShapeOK, NEW q \in Requests, MaterialOf(q), Project(q)
  PROVE  MaterialOf(q)' /\ derived \subseteq derived'
<1> DEFINE r == Current(q)
           row == Head(work[q].feed)
           e == row.event
           feed == Tail(work[q].feed)
           later == IF row.joined /\ e \in artifacts THEN Append(work[q].queue, ProjectedRow(e, r))
                    ELSE work[q].queue
<1>1. /\ work'[q].feed = feed /\ work'[q].queue = later
      /\ work'[q].kept = work[q].kept /\ work'[q].context = work[q].context
      /\ work'[q].todo = work[q].todo /\ work'[q].stored = work[q].stored
  <2>1. work[q] \in WorkSet /\ work \in [Requests -> WorkSet]
    BY DEF ShapeOK
  <2>2. CASE row.joined /\ e \in artifacts
    <3>1. work'[q] = [work[q] EXCEPT !.feed = feed, !.queue = later]
      BY <2>1, <2>2 DEF Project
    <3> QED BY <2>1, <3>1 DEF WorkSet
  <2>3. CASE ~(row.joined /\ e \in artifacts)
    <3>1. work'[q] = [work[q] EXCEPT !.feed = feed] /\ later = work[q].queue
      BY <2>1, <2>3 DEF Project
    <3> QED BY <2>1, <3>1 DEF WorkSet
  <2> QED BY <2>2, <2>3
<1>2. r \in Runs /\ Current(q)' = r /\ pc[q] = "project" /\ pc'[q] = "project"
  BY <1>1, CurrentRun DEF Project, MaterialOf, Phases, Current, ShapeOK
<1>3. UNCHANGED <<records, artifacts, sources>> /\ derived \subseteq derived'
      /\ (row.joined /\ e \in artifacts => e \in derived')
  BY DEF Project, Derive
<1>4. work[q].feed \in Seq(FeedRow) /\ work[q].feed # <<>> /\ work[q].queue \in Seq(RowSet)
  BY WorkField DEF ShapeOK, Project
<1>5. /\ \A i \in DOMAIN feed : i + 1 \in DOMAIN work[q].feed /\ feed[i] = work[q].feed[i + 1]
      /\ \A i \in DOMAIN work[q].feed : i = 1 \/ (i - 1 \in DOMAIN feed /\ feed[i - 1] = work[q].feed[i])
      /\ 1 \in DOMAIN work[q].feed /\ work[q].feed[1] = row
  BY <1>4, HeadTail
<1>6. e \in Range(EventsOf[r])
  BY <1>2, <1>5 DEF MaterialOf, WorkBelongs
<1>7. ProjectedRow(e, r) \in RowSet /\ ProjectedRow(e, r).src = e /\ ProjectedRow(e, r).run = r
  <2>1. e \in Events
    BY <1>2, <1>6, EventsOfRun
  <2>2. ProjectedRow(e, r) \in RowSet
    BY <1>2, <2>1, RowsOfRun
  <2> QED BY <2>2 DEF ProjectedRow, Row
<1>8. /\ \A i \in DOMAIN work[q].queue : i \in DOMAIN later /\ later[i] = work[q].queue[i]
      /\ \A i \in DOMAIN later : \/ i \in DOMAIN work[q].queue /\ later[i] = work[q].queue[i]
                                 \/ later[i] = ProjectedRow(e, r) /\ row.joined /\ e \in artifacts
      /\ row.joined /\ e \in artifacts => \E i \in DOMAIN later : later[i] = ProjectedRow(e, r)
  <2>1. CASE row.joined /\ e \in artifacts
    <3>1. later = Append(work[q].queue, ProjectedRow(e, r))
      BY <2>1
    <3> DEFINE n == Len(work[q].queue)
               x == ProjectedRow(e, r)
    <3> HIDE DEF x, later
    <3>2. n \in Nat /\ DOMAIN work[q].queue = 1..n /\ DOMAIN later = 1..(n + 1) /\ later[n + 1] = x
          /\ \A i \in 1..n : later[i] = work[q].queue[i]
      BY <1>4, <1>7, <3>1 DEF x
    <3> QED BY <2>1, <3>2 DEF x
  <2>2. CASE ~(row.joined /\ e \in artifacts)
    BY <2>2
  <2> QED BY <2>1, <2>2
<1> HIDE DEF later, feed, row
<1>9. WorkBelongs(q)'
  <2>1. \A i \in DOMAIN later : Live(later[i]) /\ Belongs(later[i]) /\ later[i].run = r
    <3>1. Live(ProjectedRow(e, r)) /\ Belongs(ProjectedRow(e, r))
      BY <1>2, <1>6, OwnRowsBelong
    <3>2. \A i \in DOMAIN work[q].queue :
            LET x == work[q].queue[i] IN Live(x) /\ Belongs(x) /\ x.run = r
      BY <1>2 DEF MaterialOf, WorkBelongs, Held, Phases
    <3> QED BY <1>7, <1>8, <3>1, <3>2
  <2>2. \A i \in DOMAIN feed : feed[i].event \in Range(EventsOf[r])
    BY <1>2, <1>5 DEF MaterialOf, WorkBelongs
  <2> QED BY <1>1, <1>2, <2>1, <2>2 DEF MaterialOf, WorkBelongs, Phases, Held
<1>10. QueueDerived(q)'
  <2>1. \A i \in DOMAIN later : later[i].kind = "broker" => later[i].src \in derived'
    BY <1>2, <1>3, <1>7, <1>8 DEF MaterialOf, QueueDerived, Held, Phases
  <2> QED BY <1>1, <1>2, <2>1 DEF QueueDerived
<1>11. StoredStays(q)' /\ KeptShown(q)' /\ DocsShown(q)'
  BY <1>1, <1>2, <1>3 DEF MaterialOf, StoredStays, KeptShown, DocsShown, Phases, Held
<1>12. ResultsComing(q)'
  <2> SUFFICES ASSUME NEW f \in Range(EventsOf[r]) \cap artifacts
               PROVE  \/ \E i \in DOMAIN later : later[i].src = f
                      \/ \E i \in DOMAIN feed : feed[i] = [event |-> f, joined |-> TRUE]
    BY <1>1, <1>2, <1>3 DEF ResultsComing, Queued, Joined
  <2>1. CASE Queued(q, f)
    BY <1>8, <2>1 DEF Queued
  <2>2. CASE Joined(q, f)
    <3>1. PICK i \in DOMAIN work[q].feed : work[q].feed[i] = [event |-> f, joined |-> TRUE]
      BY <2>2 DEF Joined
    <3>2. CASE i = 1
      BY <1>5, <1>7, <1>8, <3>1, <3>2
    <3>3. CASE i # 1
      BY <1>5, <3>1, <3>3
    <3> QED BY <3>2, <3>3
  <2> QED BY <1>2, <2>1, <2>2 DEF MaterialOf, ResultsComing
<1>13. RunsCovered(q)'
  BY <1>1, <1>2, <1>3 DEF MaterialOf, RunsCovered, Complete, Phases
<1> QED BY <1>3, <1>9, <1>10, <1>11, <1>12, <1>13 DEF MaterialOf

LEMMA EndProjectionMaterial ==
  ASSUME ShapeOK, NEW q \in Requests, MaterialOf(q), EndProjection(q)
  PROVE  MaterialOf(q)'
<1> DEFINE r == Current(q)
           all == [i \in DOMAIN EventsOf[r] |-> MinimalRow(EventsOf[r][i], r)]
<1>1. /\ work'[q].feed = work[q].feed /\ work'[q].kept = work[q].kept
      /\ work'[q].context = work[q].context
      /\ work'[q].todo = work[q].todo /\ work'[q].stored = work[q].stored
      /\ work'[q].queue = work[q].queue \/ (work[q].queue = <<>> /\ work'[q].queue = all)
  BY DEF EndProjection, ShapeOK, WorkSet
<1>2. r \in Runs /\ Current(q)' = r /\ pc[q] = "project" /\ pc'[q] = "persist" /\ work[q].feed = <<>>
  BY <1>1, CurrentRun DEF EndProjection, MaterialOf, Phases, Current, ShapeOK
<1>3. UNCHANGED <<records, artifacts, derived, sources>>
  BY DEF EndProjection, tableVars
<1>4. \A i \in DOMAIN all : /\ Live(all[i]) /\ Belongs(all[i]) /\ all[i].run = r /\ all[i].kind # "broker"
  <2>1. \A e \in Range(EventsOf[r]) : LET x == MinimalRow(e, r) IN
          Live(x) /\ Belongs(x) /\ x.run = r /\ x.kind # "broker"
    BY <1>2, OwnRowsBelong DEF MinimalRow, Row
  <2> QED BY <1>2, <2>1, EventsOfRun
<1> HIDE DEF all
<1>5. WorkBelongs(q)'
  BY <1>1, <1>2, <1>4 DEF MaterialOf, WorkBelongs, Phases, Held
<1>6. QueueDerived(q)' /\ StoredStays(q)' /\ KeptShown(q)' /\ DocsShown(q)'
  BY <1>1, <1>2, <1>3, <1>4 DEF MaterialOf, QueueDerived, StoredStays, KeptShown, DocsShown, Phases, Held
<1>7. ResultsComing(q)'
  <2> SUFFICES ASSUME NEW e \in Range(EventsOf[r]) \cap artifacts
               PROVE  Queued(q, e)'
    BY <1>2, <1>3 DEF ResultsComing
  <2>1. DOMAIN work[q].feed = {}
    BY <1>2
  <2>2. Queued(q, e)
    BY <1>2, <2>1 DEF MaterialOf, ResultsComing, Joined
  <2>3. work[q].queue # <<>>
    BY <2>2 DEF Queued
  <2> QED BY <1>1, <2>2, <2>3 DEF Queued
<1>8. RunsCovered(q)'
  BY <1>1, <1>2, <1>3 DEF MaterialOf, RunsCovered, Complete, Phases
<1> QED BY <1>5, <1>6, <1>7, <1>8 DEF MaterialOf

LEMMA PersistEvidenceMaterial ==
  ASSUME ShapeOK, RecordsBelong, ProvenanceFirst, NEW q \in Requests, MaterialOf(q), PersistEvidence(q)
  PROVE  /\ MaterialOf(q)' /\ RecordsBelong' /\ ProvenanceFirst'
         /\ \A x \in records : Live(x) => x \in records'
<1> DEFINE r == Current(q)
           row == Head(work[q].queue)
           later == Tail(work[q].queue)
<1>0. work[q] \in WorkSet /\ work \in [Requests -> WorkSet] /\ pc[q] = "persist"
      /\ work[q].queue \in Seq(RowSet) /\ work[q].queue # <<>>
  BY WorkField DEF ShapeOK, PersistEvidence
<1>1. /\ work'[q].queue = later /\ work'[q].feed = work[q].feed
      /\ work'[q].todo = work[q].todo /\ work'[q].stored = work[q].stored
      /\ \/ /\ Has(q, row) /\ records' = records
            /\ work'[q].kept = work[q].kept /\ work'[q].context = work[q].context
         \/ /\ SaveRecord(row) /\ work'[q].kept = work[q].kept \cup {row}
            /\ work'[q].context = work[q].context \cup {Item(row, row.run)}
  <2>1. CASE Has(q, row)
    <3>1. work'[q] = [work[q] EXCEPT !.queue = later]
      BY <1>0, <2>1 DEF PersistEvidence
    <3> QED BY <1>0, <2>1, <3>1 DEF WorkSet, PersistEvidence
  <2>2. CASE ~Has(q, row)
    <3>1. work'[q] = [work[q] EXCEPT !.queue = later, !.kept = @ \cup {row},
                                     !.context = @ \cup {Item(row, row.run)}]
      BY <1>0, <2>2 DEF PersistEvidence
    <3> QED BY <1>0, <2>2, <3>1 DEF WorkSet, PersistEvidence
  <2> QED BY <2>1, <2>2
<1>2. r \in Runs /\ Current(q)' = r /\ pc'[q] = "persist"
  BY <1>0, <1>1, CurrentRun DEF PersistEvidence, MaterialOf, Phases, Current
<1>3. UNCHANGED <<artifacts, derived, sources>>
  BY DEF PersistEvidence
<1>4. /\ \A i \in DOMAIN later : i + 1 \in DOMAIN work[q].queue /\ later[i] = work[q].queue[i + 1]
      /\ \A i \in DOMAIN work[q].queue : i = 1 \/ (i - 1 \in DOMAIN later /\ later[i - 1] = work[q].queue[i])
      /\ 1 \in DOMAIN work[q].queue /\ work[q].queue[1] = row /\ row \in RowSet
  BY <1>0, HeadTail
<1> HIDE DEF later, row
<1>5. Live(row) /\ Belongs(row) /\ row.run = r /\ (row.kind = "broker" => row.src \in derived)
  BY <1>0, <1>4 DEF MaterialOf, WorkBelongs, QueueDerived, Held, Phases
<1>6. RecordsBelong' /\ (\A x \in records : Live(x) => x \in records')
  <2>1. CASE SaveRecord(row)
    BY <1>4, <1>5, <2>1, SaveKeeps DEF ShapeOK
  <2>2. CASE records' = records
    BY <2>2 DEF RecordsBelong
  <2> QED BY <1>1, <2>1, <2>2
<1>7. ProvenanceFirst'
  BY <1>1, <1>3, <1>5 DEF ProvenanceFirst, SaveRecord
<1>8. work[q].context \subseteq work'[q].context /\ LiveItem(row.src, r) \in work'[q].context
  <2>1. CASE Has(q, row)
    <3>1. PICK x \in work[q].kept : Key(x) = Key(row)
      BY <2>1 DEF Has
    <3>2. Item(x, r) = LiveItem(row.src, r)
      BY <1>5, <3>1 DEF Item, LiveItem, Live, Key
    <3>3. Item(x, r) \in work[q].context
      BY <1>0, <3>1 DEF MaterialOf, KeptShown, Held, Phases
    <3> QED BY <1>1, <3>2, <3>3
  <2>2. CASE work'[q].context = work[q].context \cup {Item(row, row.run)}
    <3>1. Item(row, row.run) = LiveItem(row.src, r)
      BY <1>5 DEF Item, LiveItem, Live, Key
    <3> QED BY <2>2, <3>1
  <2> QED BY <1>1, <2>1, <2>2
<1>9. /\ \A x \in work'[q].kept : Belongs(x) /\ x.run = r /\ Item(x, r) \in work'[q].context
      /\ \A i \in work'[q].context : i \in work[q].context \/ i = LiveItem(row.src, r)
  <2>1. \A x \in work[q].kept : Belongs(x) /\ x.run = r /\ Item(x, r) \in work'[q].context
    BY <1>0, <1>8 DEF MaterialOf, WorkBelongs, KeptShown, Held, Phases
  <2>2. Item(row, r) = LiveItem(row.src, r)
    BY <1>5 DEF Item, LiveItem, Live, Key
  <2> QED BY <1>1, <1>5, <1>8, <2>1, <2>2
<1>10. WorkBelongs(q)'
  <2>1. \A i \in DOMAIN later : LET x == later[i] IN Live(x) /\ Belongs(x) /\ x.run = r
    BY <1>0, <1>4 DEF MaterialOf, WorkBelongs, Held, Phases
  <2>2. \A i \in work'[q].context : i.kind = "live" => i.src \in Range(EventsOf[i.run])
    BY <1>5, <1>9 DEF MaterialOf, WorkBelongs, LiveItem, Belongs
  <2> QED BY <1>0, <1>1, <1>2, <1>9, <2>1, <2>2 DEF MaterialOf, WorkBelongs, Phases, Held
<1>11. QueueDerived(q)' /\ StoredStays(q)' /\ KeptShown(q)' /\ DocsShown(q)'
  <2>1. QueueDerived(q)'
    BY <1>0, <1>1, <1>2, <1>3, <1>4 DEF MaterialOf, QueueDerived, Phases, Held
  <2>2. StoredStays(q)'
    BY <1>0, <1>1, <1>6 DEF MaterialOf, StoredStays, Phases
  <2>3. KeptShown(q)'
    BY <1>0, <1>1, <1>2, <1>8, <1>9 DEF MaterialOf, KeptShown, Phases, Held
  <2>4. DocsShown(q)'
    BY <1>0, <1>1, <1>2, <1>8 DEF MaterialOf, DocsShown
  <2> QED BY <2>1, <2>2, <2>3, <2>4
<1>12. ResultsComing(q)'
  <2> SUFFICES ASSUME NEW e \in Range(EventsOf[r]) \cap artifacts
               PROVE  (\E i \in DOMAIN later : later[i].src = e) \/ LiveItem(e, r) \in work'[q].context
    BY <1>1, <1>2, <1>3 DEF ResultsComing, Queued
  <2>1. CASE Queued(q, e)
    <3>1. PICK i \in DOMAIN work[q].queue : work[q].queue[i].src = e
      BY <2>1 DEF Queued
    <3>2. CASE i = 1
      BY <1>4, <1>8, <3>1, <3>2
    <3>3. CASE i # 1
      BY <1>4, <3>1, <3>3
    <3> QED BY <3>2, <3>3
  <2>2. CASE LiveItem(e, r) \in work[q].context
    BY <1>8, <2>2
  <2> QED BY <1>0, <2>1, <2>2 DEF MaterialOf, ResultsComing
<1>13. RunsCovered(q)'
  BY <1>0, <1>1, <1>2, <1>3, <1>8 DEF MaterialOf, RunsCovered, Complete, Phases
<1> QED BY <1>6, <1>7, <1>10, <1>11, <1>12, <1>13 DEF MaterialOf

LEMMA PersistOutcomeMaterial ==
  ASSUME ShapeOK, RecordsBelong, NEW q \in Requests, MaterialOf(q), PersistOutcome(q)
  PROVE  /\ MaterialOf(q)' /\ RecordsBelong'
         /\ \A x \in records : Live(x) => x \in records'
         /\ \A x \in records' \ records : x.kind # "broker"
<1> DEFINE r == Current(q)
           row == Row("outcome", r, r, TRUE)
           todo == Tail(work[q].todo)
<1>0. work[q] \in WorkSet /\ work \in [Requests -> WorkSet] /\ pc[q] = "persist" /\ work[q].queue = <<>>
  BY DEF ShapeOK, PersistOutcome
<1>1. /\ work'[q].queue = work[q].queue /\ work'[q].stored = work[q].stored
      /\ work'[q].todo = todo /\ work'[q].kept = {}
      /\ work'[q].context = work[q].context \cup {Item(row, r)}
  <2>1. work'[q] = [work[q] EXCEPT !.kept = {}, !.todo = todo, !.context = @ \cup {Item(row, r)}]
    BY <1>0 DEF PersistOutcome
  <2> QED BY <1>0, <2>1 DEF WorkSet
<1>2. r \in Runs /\ work[q].todo \in Seq(Runs) /\ work[q].todo # <<>>
  BY <1>0, CurrentRun DEF MaterialOf, WorkBelongs, Phases
<1>3. /\ Range(work[q].todo) = {r} \cup Range(todo)
      /\ Len(work[q].todo) = 1 <=> todo = <<>>
  BY <1>2, HeadTail DEF Current
<1>4. \/ pc'[q] = "bind" /\ todo = <<>>
      \/ pc'[q] = "read" /\ todo # <<>>
  BY <1>3 DEF PersistOutcome, ShapeOK
<1>5. UNCHANGED <<artifacts, derived, sources>> /\ (records' = records \/ SaveRecord(row))
  BY DEF PersistOutcome
<1>6. Belongs(row) /\ row \in RowSet /\ row.kind = "outcome"
      /\ Item(row, r) = [kind |-> "outcome", src |-> r, run |-> r]
  BY <1>2, OwnRowsBelong, RowsOfRun DEF Row, Item, Key
<1> HIDE DEF row, todo
<1>7. /\ RecordsBelong' /\ (\A x \in records : Live(x) => x \in records')
      /\ \A x \in records' \ records : x.kind # "broker"
  <2>1. CASE SaveRecord(row)
    BY <1>6, <2>1, SaveKeeps DEF ShapeOK, SaveRecord
  <2>2. CASE records' = records
    BY <2>2 DEF RecordsBelong
  <2> QED BY <1>5, <2>1, <2>2
<1>8. WorkBelongs(q)'
  <2>1. \A i \in work'[q].context : i.kind = "live" => i.src \in Range(EventsOf[i.run])
    BY <1>1, <1>6 DEF MaterialOf, WorkBelongs
  <2> QED BY <1>0, <1>1, <1>4, <2>1 DEF WorkBelongs, Phases, Held
<1>9. StoredStays(q)'
  BY <1>0, <1>1, <1>4, <1>7 DEF MaterialOf, StoredStays, Phases
<1>10. QueueDerived(q)' /\ KeptShown(q)' /\ DocsShown(q)' /\ ResultsComing(q)'
  BY <1>4 DEF QueueDerived, KeptShown, DocsShown, ResultsComing, Held, Phases
<1>11. RunsCovered(q)'
  <2> SUFFICES ASSUME NEW t \in sources[q]
               PROVE  t \in Range(todo) \/ Complete(q, t)'
    BY <1>1, <1>5 DEF RunsCovered
  <2>1. CASE Complete(q, t)
    BY <1>1, <1>5, <2>1 DEF Complete
  <2>2. CASE t = r
    <3>1. \A d \in Docs : DocItem(d, r) \in work[q].context
      BY <1>0 DEF MaterialOf, DocsShown
    <3>2. \A e \in Range(EventsOf[r]) \cap work[q].stored : LiveItem(e, r) \in work[q].context
      BY <1>0 DEF MaterialOf, KeptShown, Held, Phases
    <3>3. \A e \in Range(EventsOf[r]) \cap artifacts : LiveItem(e, r) \in work[q].context
      <4>1. DOMAIN work[q].queue = {}
        BY <1>0
      <4> QED BY <1>0, <4>1 DEF MaterialOf, ResultsComing, Queued
    <3> QED BY <1>1, <1>5, <1>6, <2>2, <3>1, <3>2, <3>3 DEF Complete
  <2>3. t \in Range(work[q].todo) \/ Complete(q, t)
    BY <1>0 DEF MaterialOf, RunsCovered, Phases
  <2> QED BY <1>3, <2>1, <2>2, <2>3
<1> QED BY <1>7, <1>8, <1>9, <1>10, <1>11 DEF MaterialOf

LEMMA LaunchMaterial ==
  ASSUME ShapeOK, RecordsBelong, NEW q \in Requests, MaterialOf(q), Launch(q)
  PROVE  MaterialOf(q)'
<1> DEFINE S == Declared[q].runs
<1>1. /\ work'[q].todo = SetToSeq(S) /\ work'[q].queue = work[q].queue /\ work'[q].context = work[q].context
      /\ work'[q].stored = {x.src : x \in {y \in records : Live(y)}}
      /\ pc[q] = "idle" /\ pc'[q] = "read" /\ sources'[q] = S
  BY DEF Launch, Materialize, ShapeOK, WorkSet, Live
<1>2. SetToSeq(S) \in Seq(S) /\ Range(SetToSeq(S)) = S /\ S # {}
  BY SetToSeqOf
<1>3. SetToSeq(S) # <<>>
  BY <1>2 DEF Range
<1>4. UNCHANGED <<records, artifacts, derived>>
  BY DEF Launch, Materialize, tableVars
<1>5. WorkBelongs(q)'
  BY <1>1, <1>3 DEF MaterialOf, WorkBelongs, Phases, Held
<1>6. StoredStays(q)'
  BY <1>1, <1>4 DEF StoredStays
<1>7. QueueDerived(q)' /\ KeptShown(q)' /\ DocsShown(q)' /\ ResultsComing(q)' /\ RunsCovered(q)'
  BY <1>1, <1>2 DEF QueueDerived, KeptShown, DocsShown, ResultsComing, RunsCovered, Held, Phases
<1> QED BY <1>5, <1>6, <1>7 DEF MaterialOf
LEMMA InitMaterial == Init => MaterialInv
<1> SUFFICES ASSUME Init PROVE MaterialInv
  OBVIOUS
<1>0. /\ records = EarlierResults \cup EarlierDocs
      /\ derived = UNION {Range(EventsOf[r]) : r \in EarlierRuns}
      /\ pc = [q \in Requests |-> "idle"] /\ work = [q \in Requests |-> NoWork]
  BY DEF Init, ProjectionInit
<1>1. \A x \in EarlierResults : \E r \in EarlierRuns : \E e \in Saved \cap Range(EventsOf[r]) : x = ProjectedRow(e, r)
  BY DEF EarlierResults
<1>2. \A x \in EarlierDocs : \E d \in Docs : x = Row("doc", d, CHOOSE r \in EarlierRuns : TRUE, TRUE)
  BY DEF EarlierDocs
<1>3. EarlierRuns \subseteq Runs
  BY DEF EarlierRuns
<1>4. RecordsBelong
  <2>1. \A x \in EarlierResults : Belongs(x) /\ x.kind = "broker"
    <3> SUFFICES ASSUME NEW r \in EarlierRuns, NEW e \in Range(EventsOf[r])
                 PROVE  Belongs(ProjectedRow(e, r)) /\ ProjectedRow(e, r).kind = "broker"
      BY <1>1
    <3>1. ProjectedRow(e, r).kind = "broker"
      BY DEF ProjectedRow, Row
    <3> QED BY <1>3, <3>1, OwnRowsBelong
  <2>2. \A x \in EarlierDocs : Belongs(x) /\ x.kind = "doc"
    BY <1>2 DEF Belongs, Live, Key, Row
  <2>3. \A x, y \in EarlierDocs : SameId(x, y) => x = y
    <3> SUFFICES ASSUME NEW x \in EarlierDocs, NEW y \in EarlierDocs, SameId(x, y)
                 PROVE  x = y
      OBVIOUS
    <3> DEFINE t == CHOOSE r \in EarlierRuns : TRUE
    <3>1. PICK c \in Docs : x = Row("doc", c, t, TRUE)
      BY <1>2
    <3>2. PICK d \in Docs : y = Row("doc", d, t, TRUE)
      BY <1>2
    <3> HIDE DEF t
    <3>3. c = d
      BY <3>1, <3>2 DEF SameId, Row
    <3> QED BY <3>1, <3>2, <3>3
  <2>4. \A x, y \in EarlierResults : SameId(x, y) => x = y
    <3> SUFFICES ASSUME NEW x \in EarlierResults, NEW y \in EarlierResults, SameId(x, y)
                 PROVE  x = y
      OBVIOUS
    <3>1. PICK r \in EarlierRuns : \E e \in Saved \cap Range(EventsOf[r]) : x = ProjectedRow(e, r)
      BY <1>1
    <3>2. PICK t \in EarlierRuns : \E e \in Saved \cap Range(EventsOf[t]) : y = ProjectedRow(e, t)
      BY <1>1
    <3> PICK e \in Saved \cap Range(EventsOf[r]) : x = ProjectedRow(e, r)
      BY <3>1
    <3> PICK f \in Saved \cap Range(EventsOf[t]) : y = ProjectedRow(f, t)
      BY <3>2
    <3>3. e = f
      BY <3>1, <3>2 DEF SameId, ProjectedRow, Row
    <3>4. r = t
      BY <1>3, <3>3, OneRun
    <3> QED BY <3>1, <3>2, <3>3, <3>4
  <2> QED BY <1>0, <2>1, <2>2, <2>3, <2>4 DEF RecordsBelong, SameId
<1>5. ProvenanceFirst
  <2>1. \A x \in EarlierResults : x.src \in derived
    <3> SUFFICES ASSUME NEW r \in EarlierRuns, NEW e \in Range(EventsOf[r])
                 PROVE  ProjectedRow(e, r).src \in derived
      BY <1>1
    <3> QED BY <1>0 DEF ProjectedRow, Row
  <2>2. \A x \in EarlierDocs : x.kind = "doc"
    BY <1>2 DEF Row
  <2> QED BY <1>0, <2>1, <2>2 DEF ProvenanceFirst
<1>6. ASSUME NEW q \in Requests
      PROVE  MaterialOf(q)
  BY <1>0 DEF MaterialOf, WorkBelongs, QueueDerived, StoredStays, KeptShown, DocsShown, ResultsComing,
              RunsCovered, Phases, Held, NoWork
<1> QED BY <1>4, <1>5, <1>6 DEF MaterialInv

(* One request moves.                                                      *)
LEMMA ProjectionStepMaterial ==
  ASSUME ShapeOK, MaterialInv, NEW q \in Requests, ProjectionStep(q)
  PROVE  /\ MaterialOf(q)' /\ RecordsBelong' /\ ProvenanceFirst'
         /\ \A x \in records : Live(x) => x \in records'
         /\ derived \subseteq derived' /\ artifacts' \subseteq artifacts
         /\ \A p \in Requests \ {q} : UNCHANGED <<pc[p], work[p], sources[p]>>
<1>0. RecordsBelong /\ ProvenanceFirst /\ MaterialOf(q)
  BY DEF MaterialInv
<1>1. \A p \in Requests \ {q} : UNCHANGED <<pc[p], work[p], sources[p]>>
  <2>1. \A p \in Requests \ {q} : UNCHANGED <<pc[p], sources[p]>>
    BY DEF ProjectionStep, ReadRun, PersistDoc, ReadFeed, Project, EndProjection, PersistEvidence,
           PersistOutcome, ShapeOK
  <2>2. \A p \in Requests \ {q} : UNCHANGED work[p]
    <3>1. CASE ReadRun(q)
      BY <3>1, TakeRowsWork DEF ReadRun
    <3>2. CASE PersistDoc(q)
      BY <3>2, TakeRowsWork DEF PersistDoc
    <3>3. CASE ReadFeed(q) \/ Project(q) \/ EndProjection(q) \/ PersistEvidence(q) \/ PersistOutcome(q)
      BY <3>3 DEF ReadFeed, Project, EndProjection, PersistEvidence, PersistOutcome, ShapeOK
    <3> QED BY <3>1, <3>2, <3>3 DEF ProjectionStep
  <2> QED BY <2>1, <2>2
<1>2. artifacts' = artifacts
  BY DEF ProjectionStep, ReadRun, PersistDoc, ReadFeed, Project, EndProjection, PersistEvidence,
         PersistOutcome, tableVars
<1>3. CASE ReadRun(q) \/ ReadFeed(q) \/ EndProjection(q)
  <2>1. UNCHANGED <<records, derived>>
    BY <1>3 DEF ReadRun, ReadFeed, EndProjection, tableVars
  <2>2. RecordsBelong' /\ ProvenanceFirst'
    BY <1>0, <2>1 DEF RecordsBelong, ProvenanceFirst
  <2> QED BY <1>0, <1>1, <1>2, <1>3, <2>1, <2>2, ReadRunMaterial, ReadFeedMaterial, EndProjectionMaterial
<1>4. CASE PersistDoc(q) \/ PersistOutcome(q)
  <2>1. MaterialOf(q)' /\ RecordsBelong' /\ (\A x \in records : Live(x) => x \in records')
        /\ \A x \in records' \ records : x.kind # "broker"
    BY <1>0, <1>4, PersistDocMaterial, PersistOutcomeMaterial
  <2>2. derived' = derived
    BY <1>4 DEF PersistDoc, PersistOutcome
  <2>3. ProvenanceFirst'
    BY <1>0, <2>1, <2>2 DEF ProvenanceFirst
  <2> QED BY <1>1, <1>2, <2>1, <2>2, <2>3
<1>5. CASE Project(q)
  <2>1. records' = records /\ MaterialOf(q)' /\ derived \subseteq derived'
    BY <1>0, <1>5, ProjectMaterial DEF Project
  <2>2. RecordsBelong' /\ ProvenanceFirst'
    BY <1>0, <2>1 DEF RecordsBelong, ProvenanceFirst
  <2> QED BY <1>1, <1>2, <2>1, <2>2
<1>6. CASE PersistEvidence(q)
  <2>1. derived' = derived
    BY <1>6 DEF PersistEvidence
  <2> QED BY <1>0, <1>1, <1>2, <1>6, <2>1, PersistEvidenceMaterial
<1> QED BY <1>3, <1>4, <1>5, <1>6 DEF ProjectionStep

LEMMA NextMaterial ==
  ASSUME ShapeOK, MaterialInv, [Next]_vars
  PROVE  MaterialInv' /\ \A x \in records : Live(x) => x \in records'
<1>0. RecordsBelong /\ ProvenanceFirst /\ \A q \in Requests : MaterialOf(q)
  BY DEF MaterialInv
<1>1. ASSUME NEW q \in Requests, Step(q)
      PROVE  MaterialInv' /\ \A x \in records : Live(x) => x \in records'
  <2>1. CASE Launch(q)
    <3>1. UNCHANGED <<records, derived, artifacts>>
          /\ \A p \in Requests \ {q} : UNCHANGED <<pc[p], work[p], sources[p]>>
      BY <2>1 DEF Launch, Materialize, tableVars, ShapeOK
    <3>2. MaterialOf(q)'
      BY <1>0, <2>1, LaunchMaterial
    <3>3. \A p \in Requests \ {q} : MaterialOf(p)'
      BY <1>0, <3>1, Untouched
    <3>4. RecordsBelong' /\ ProvenanceFirst'
      BY <1>0, <3>1 DEF RecordsBelong, ProvenanceFirst
    <3> QED BY <3>1, <3>2, <3>3, <3>4 DEF MaterialInv
  <2>2. CASE MaterializeStep(q)
    <3>1. ProjectionStep(q)
      BY <2>2 DEF MaterializeStep
    <3>2. \A p \in Requests \ {q} : MaterialOf(p)'
      BY <1>0, <3>1, Untouched, ProjectionStepMaterial
    <3> QED BY <3>1, <3>2, ProjectionStepMaterial DEF MaterialInv
  <2>3. CASE ServiceStep(q)
    <3>1. UNCHANGED <<records, derived, artifacts>>
          /\ \A p \in Requests \ {q} : UNCHANGED <<pc[p], work[p], sources[p]>>
      BY <2>3, ServiceStepFrame DEF tableVars, ShapeOK
    <3>2. pc'[q] \notin Phases \cup {"bind", "idle"} /\ (work'[q] = work[q] \/ work'[q] = NoWork)
      BY <2>3, ServiceStepFrame DEF ShapeOK, Phases, Proposing
    <3>3. MaterialOf(q)'
      BY <1>0, <3>2, PastMaterial
    <3>4. \A p \in Requests \ {q} : MaterialOf(p)'
      BY <1>0, <3>1, Untouched
    <3>5. RecordsBelong' /\ ProvenanceFirst'
      BY <1>0, <3>1 DEF RecordsBelong, ProvenanceFirst
    <3> QED BY <3>1, <3>3, <3>4, <3>5 DEF MaterialInv
  <2> QED BY <1>1, <2>1, <2>2, <2>3 DEF Step, ServiceStep
<1>2. CASE Restart
  <2>1. UNCHANGED <<records, derived, artifacts>>
    BY <1>2 DEF Restart, Dies, tableVars
  <2>2. ASSUME NEW q \in Requests
        PROVE  MaterialOf(q)'
    <3>1. /\ pc'[q] \in Ended /\ (pc'[q] = "idle" => pc[q] = "idle") /\ work'[q] = NoWork
      BY <1>2 DEF Restart, Dies, ShapeOK
    <3> QED BY <1>0, <3>1, PastMaterial DEF Phases
  <2>3. RecordsBelong' /\ ProvenanceFirst'
    BY <1>0, <2>1 DEF RecordsBelong, ProvenanceFirst
  <2> QED BY <2>1, <2>2, <2>3 DEF MaterialInv
<1>3. CASE UNCHANGED projectionVars \/ \E e \in Events : Compact(e)
  <2>1. UNCHANGED <<records, derived, pc, work, sources>> /\ artifacts' \subseteq artifacts
    BY <1>3 DEF projectionVars, tableVars, Compact
  <2>2. \A q \in Requests : MaterialOf(q)'
    BY <1>0, <2>1, Untouched
  <2>3. RecordsBelong' /\ ProvenanceFirst'
    BY <1>0, <2>1 DEF RecordsBelong, ProvenanceFirst
  <2> QED BY <2>1, <2>2, <2>3 DEF MaterialInv
<1> QED BY <1>1, <1>2, <1>3 DEF Next, PromoteOther, Lose, vars

-----------------------------------------------------------------------------
(* The request is what it should be.                                       *)

CallInv(q) == CallOK(q) /\ SpendOK(q) /\ BackedOK(q)

LEMMA CallUntouched ==
  ASSUME NEW q \in Requests, CallInv(q), UNCHANGED <<pc[q], call[q], sources[q]>>, patches \subseteq patches'
  PROVE  CallInv(q)'
BY DEF CallInv, CallOK, SpendOK, BackedOK, Allowed

(* A request that makes no call has none.                                  *)
LEMMA NoCallOK ==
  ASSUME NEW q \in Requests, call'[q] = NoCall, pc'[q] \in Ended
  PROVE  CallInv(q)'
<1>1. 0 < TokenCap + Max(Usages)
  BY MaxUsage
<1> QED BY <1>1 DEF CallInv, CallOK, SpendOK, BackedOK, NoCall, Before, Phases, Searched, Proposing

LEMMA LaunchCall ==
  ASSUME ShapeOK, NEW q \in Requests, Launch(q)
  PROVE  CallInv(q)'
<1>1. /\ call'[q].primary = Declared[q].primary /\ call'[q].exposed = {} /\ call'[q].found = {}
      /\ call'[q].attempt = 0 /\ call'[q].spent = 0 /\ pc'[q] = "read"
  BY DEF Launch, Materialize, NoCall, ShapeOK
<1>2. 0 < TokenCap + Max(Usages) /\ Declared[q].primary \in Runs
  BY MaxUsage
<1> QED BY <1>1, <1>2 DEF CallInv, CallOK, SpendOK, BackedOK, Before, Phases, Searched, Proposing

LEMMA MaterialStepCall ==
  ASSUME ShapeOK, NEW q \in Requests, CallInv(q), MaterializeStep(q)
  PROVE  CallInv(q)'
<1>1. pc[q] \in Phases /\ pc'[q] \in Phases \cup {"bind"} /\ UNCHANGED <<call, sources, patches>>
  BY DEF MaterializeStep, learningVars, resultVars, ProjectionStep, ReadRun, PersistDoc, ReadFeed, Project,
         EndProjection, PersistEvidence, PersistOutcome, Phases, ShapeOK
<1> QED BY <1>1 DEF CallInv, CallOK, SpendOK, BackedOK, Before, Phases, Searched, Proposing, Allowed

LEMMA ServiceStepCallInv ==
  ASSUME ShapeOK, ServiceOK, NEW q \in Requests, CallInv(q), ServiceStep(q)
  PROVE  CallInv(q)'
<1>0. call \in [Requests -> CallSet] /\ pc \in [Requests -> Labels] /\ call[q] \in CallSet
  BY DEF ShapeOK
<1>1. UNCHANGED sources
  BY ServiceStepFrame
<1>2. CASE Fail(q)
  BY <1>0, <1>2, NoCallOK DEF Fail
<1> USE DEF CallInv, CallOK, SpendOK, BackedOK, Before, Phases, Searched, Proposing, Allowed
<1>3. CASE SetRetriever(q)
  BY <1>0, <1>1, <1>3 DEF SetRetriever
<1>4. CASE SetRunner(q)
  BY <1>0, <1>1, <1>4 DEF SetRunner
<1>5. CASE Search(q)
  <2>1. CASE {s \in retriever : Allowed(q, s)} # {}
    <3> DEFINE found == {s \in retriever : Allowed(q, s)}
    <3>1. call'[q] = [call[q] EXCEPT !.base = active, !.found = found, !.runner = sink]
          /\ pc[q] = "search" /\ pc'[q] = "pack"
      BY <1>0, <1>5, <2>1 DEF Search
    <3>2. /\ call'[q].found = found /\ call'[q].runner = sink /\ call'[q].primary = call[q].primary
          /\ call'[q].exposed = {} /\ call'[q].spent = 0
      BY <1>0, <3>1 DEF CallSet
    <3>3. sink \in Runs
      BY <3>1 DEF ServiceOK
    <3>4. \A s \in found : IsFact(s) /\ s.run \in sources[q]
      BY DEF ServiceOK
    <3> QED BY <1>1, <3>1, <3>2, <3>3, <3>4
  <2> QED BY <1>2, <1>5, <2>1 DEF Search
<1>6. CASE Pack(q)
  <2>1. CASE Remaining(q) > 0 /\ pc'[q] = "ask" /\ \E E \in SUBSET call[q].found :
               sources[q] \subseteq {s.run : s \in E} /\ call' = [call EXCEPT ![q].exposed = E]
    <3>1. PICK E \in SUBSET call[q].found :
               sources[q] \subseteq {s.run : s \in E} /\ call' = [call EXCEPT ![q].exposed = E]
      BY <2>1
    <3>2. /\ call'[q].exposed = E /\ call'[q].found = call[q].found /\ call'[q].spent = call[q].spent
          /\ call'[q].runner = call[q].runner /\ call'[q].primary = call[q].primary
      BY <1>0, <3>1 DEF CallSet
    <3>3. call[q].spent < TokenCap
      BY <1>0, <2>1 DEF Remaining, CallSet
    <3>4. pc[q] = "pack" /\ pc'[q] = "ask"
      BY <1>6, <2>1 DEF Pack
    <3> QED BY <1>1, <2>1, <3>1, <3>2, <3>3, <3>4
  <2> QED BY <1>0, <1>2, <1>6, <2>1 DEF Pack
<1>7. CASE Answer(q)
  <2>1. PICK t \in Usages : /\ call' = [call EXCEPT ![q].spent = @ + t]
                            /\ Goto(q, IF t > Remaining(q) THEN "overspent" ELSE "answered")
    BY <1>7 DEF Answer
  <2>2. /\ call'[q].exposed = call[q].exposed /\ call'[q].found = call[q].found
        /\ call'[q].spent = call[q].spent + t
        /\ call'[q].runner = call[q].runner /\ call'[q].primary = call[q].primary
    BY <1>0, <2>1 DEF CallSet
  <2>3. t \in Nat /\ t <= Max(Usages) /\ call[q].spent \in Nat /\ TokenCap \in Nat /\ Max(Usages) \in Nat
    BY <1>0, MaxUsage DEF CallSet
  <2>4. pc[q] = "ask"
    BY <1>7 DEF Answer
  <2>5. call'[q].spent < TokenCap + Max(Usages)
    BY <2>2, <2>3, <2>4
  <2>6. pc'[q] = "overspent" \/ (pc'[q] = "answered" /\ call'[q].spent <= TokenCap)
    BY <1>0, <2>1, <2>2, <2>3 DEF Remaining
  <2> QED BY <1>1, <2>2, <2>4, <2>5, <2>6
<1>8. CASE Record(q)
  BY <1>0, <1>1, <1>2, <1>8 DEF Record
<1>9. CASE Accept(q)
  <2>1. PICK E \in SUBSET Events : Acceptable(q, E) /\ call' = [call EXCEPT ![q].cited = E]
    BY <1>9 DEF Accept
  <2>2. /\ call'[q].exposed = call[q].exposed /\ call'[q].found = call[q].found
        /\ call'[q].spent = call[q].spent /\ call'[q].cited = E
        /\ call'[q].runner = call[q].runner /\ call'[q].primary = call[q].primary
    BY <1>0, <2>1 DEF CallSet
  <2>3. pc[q] = "check" /\ pc'[q] = "patch"
    BY <1>0, <1>9 DEF Accept
  <2> QED BY <1>1, <2>1, <2>2, <2>3 DEF Acceptable
<1>10. CASE Reject(q)
  <2>1. CASE call' = [call EXCEPT ![q].attempt = 1] /\ Goto(q, "pack")
    <3>1. /\ call'[q].exposed = call[q].exposed /\ call'[q].found = call[q].found
          /\ call'[q].spent = call[q].spent
          /\ call'[q].runner = call[q].runner /\ call'[q].primary = call[q].primary
      BY <1>0, <2>1 DEF CallSet
    <3>2. pc[q] = "check" /\ pc'[q] = "pack"
      BY <1>0, <1>10, <2>1 DEF Reject
    <3> QED BY <1>1, <3>1, <3>2
  <2> QED BY <1>2, <1>10, <2>1 DEF Reject
<1>11. CASE PersistPatch(q)
  BY <1>0, <1>1, <1>11 DEF PersistPatch
<1>12. CASE CreateCandidate(q)
  BY <1>0, <1>1, <1>2, <1>12 DEF CreateCandidate
<1>13. CASE Account(q)
  <2>1. call'[q] = [NoCall EXCEPT !.primary = call[q].primary, !.attempt = call[q].attempt,
                                  !.accounted = NewRows(q)]
    BY <1>0, <1>13 DEF Account
  <2>2. call'[q].found = {} /\ call'[q].exposed = {} /\ call'[q].spent = 0
    BY <2>1 DEF NoCall
  <2>3. pc'[q] = "done" /\ 0 < TokenCap + Max(Usages)
    BY <1>0, <1>13, MaxUsage DEF Account
  <2> QED BY <2>2, <2>3
<1>14. CASE ModelFails(q)
  BY <1>2, <1>14 DEF ModelFails
<1> QED BY <1>3, <1>4, <1>5, <1>6, <1>7, <1>8, <1>9, <1>10, <1>11, <1>12, <1>13, <1>14 DEF ServiceStep

(* What a step of a request leaves alone of the others.                    *)
LEMMA ServiceStepOthers ==
  ASSUME ShapeOK, NEW q \in Requests, ServiceStep(q)
  PROVE  /\ \A p \in Requests \ {q} : UNCHANGED <<pc[p], call[p], sources[p]>>
         /\ patches \subseteq patches'
<1>1. \A p \in Requests \ {q} : UNCHANGED <<pc[p], call[p], sources[p]>>
  BY ServiceStepFrame, ServiceStepCall DEF ShapeOK
<1>2. patches \subseteq patches'
  BY DEF ServiceStep, SetRetriever, SetRunner, Search, Pack, ModelFails, Answer, Record, Accept, Reject,
         PersistPatch, CreateCandidate, Account, resultVars
<1> QED BY <1>1, <1>2

LEMMA LaunchOthers ==
  ASSUME ShapeOK, NEW q \in Requests, Launch(q)
  PROVE  /\ \A p \in Requests \ {q} : UNCHANGED <<pc[p], call[p], sources[p]>>
         /\ UNCHANGED <<serviceVars, resultVars>> /\ pc[q] = "idle" /\ pc'[q] = "read"
BY DEF Launch, Materialize, ShapeOK

LEMMA MaterialStepOthers ==
  ASSUME ShapeOK, NEW q \in Requests, MaterializeStep(q)
  PROVE  /\ \A p \in Requests \ {q} : UNCHANGED pc[p]
         /\ UNCHANGED <<learningVars, sources>>
         /\ pc[q] \in Phases /\ pc'[q] \in Phases \cup {"bind"}
BY DEF MaterializeStep, ProjectionStep, ReadRun, PersistDoc, ReadFeed, Project, EndProjection, PersistEvidence,
       PersistOutcome, ShapeOK, Phases

LEMMA RestartEnds ==
  ASSUME ShapeOK, Restart, NEW q \in Requests
  PROVE  \/ pc[q] \in Ended /\ UNCHANGED <<pc[q], call[q], sources[q]>>
         \/ pc[q] \notin Ended /\ pc'[q] = "dead" /\ call'[q] = NoCall
BY DEF Restart, Dies, ShapeOK

LEMMA NextCall ==
  ASSUME ShapeOK, MaterialInv, ServiceOK, \A q \in Requests : CallInv(q), [Next]_vars
  PROVE  ServiceOK' /\ \A q \in Requests : CallInv(q)'
<1>1. ASSUME NEW q \in Requests, Launch(q)
      PROVE  ServiceOK' /\ \A p \in Requests : CallInv(p)'
  <2>1. \A p \in Requests : CallInv(p)'
    BY <1>1, LaunchCall, LaunchOthers, CallUntouched DEF resultVars
  <2>2. ServiceOK'
    BY <1>1, LaunchOthers DEF ServiceOK, serviceVars, Proposing, IsFact
  <2> QED BY <2>1, <2>2
<1>2. ASSUME NEW q \in Requests, MaterializeStep(q)
      PROVE  ServiceOK' /\ \A p \in Requests : CallInv(p)'
  <2>1. \A p \in Requests : CallInv(p)'
    BY <1>2, MaterialStepCall, MaterialStepOthers, CallUntouched DEF learningVars, resultVars
  <2>2. ServiceOK'
    BY <1>2, MaterialStepOthers DEF ServiceOK, learningVars, serviceVars, Proposing, Phases, IsFact
  <2> QED BY <2>1, <2>2
<1>3. ASSUME NEW q \in Requests, ServiceStep(q)
      PROVE  ServiceOK' /\ \A p \in Requests : CallInv(p)'
  <2>1. \A p \in Requests : CallInv(p)'
    BY <1>3, ServiceStepCallInv, ServiceStepOthers, CallUntouched
  <2>2. \A s \in retriever' : IsFact(s)
    <3>1. retriever' = retriever \/ retriever' = Evidence(q)
      BY <1>3 DEF ServiceStep, SetRetriever, SetRunner, Search, Pack, ModelFails, Answer, Record, Accept,
                  Reject, PersistPatch, CreateCandidate, Account, serviceVars
    <3> QED BY <3>1, EvidenceIsFact DEF ServiceOK, MaterialInv, MaterialOf
  <2>3. ASSUME NEW p \in Requests, pc'[p] \in Proposing
        PROVE  sink' \in Runs
    <3>1. CASE SetRunner(q)
      BY <3>1 DEF SetRunner, CallInv, CallOK
    <3>2. CASE ~SetRunner(q)
      <4>1. UNCHANGED sink
        BY <1>3, <3>2 DEF ServiceStep, SetRetriever, Search, Pack, ModelFails, Answer, Record, Accept,
               Reject, PersistPatch, CreateCandidate, Account, serviceVars
      <4>2. p # q => pc[p] \in Proposing
        BY <1>3, <2>3, ServiceStepOthers
      <4>3. CASE p = q
        <5>1. ~SetRetriever(q)
          BY <2>3, <4>3 DEF SetRetriever, Proposing, ShapeOK
        <5>2. pc[q] \in Proposing
          BY <1>3, <3>2, <5>1 DEF ServiceStep, Search, Pack, ModelFails, Answer, Record,
                 Accept, Reject, PersistPatch, CreateCandidate, Account, Proposing
        <5> QED BY <4>1, <5>2 DEF ServiceOK
      <4> QED BY <4>1, <4>2, <4>3 DEF ServiceOK
    <3> QED BY <3>1, <3>2
  <2> QED BY <2>1, <2>2, <2>3 DEF ServiceOK, IsFact
<1>4. CASE Restart
  <2>1. \A p \in Requests : CallInv(p)'
    <3> TAKE p \in Requests
    <3>1. CASE UNCHANGED <<pc[p], call[p], sources[p]>>
      BY <1>4, <3>1, CallUntouched DEF Restart, resultVars
    <3>2. CASE pc'[p] = "dead" /\ call'[p] = NoCall
      BY <3>2, NoCallOK
    <3> QED BY <1>4, <3>1, <3>2, RestartEnds
  <2>2. retriever' = {} /\ \A p \in Requests : pc'[p] \in Ended
    BY <1>4 DEF Restart, Dies, ShapeOK
  <2> QED BY <2>1, <2>2 DEF ServiceOK, Proposing
<1>5. CASE UNCHANGED <<pc, call, sources, patches, retriever, sink>>
  <2>1. \A p \in Requests : CallInv(p)'
    BY <1>5, CallUntouched
  <2> QED BY <1>5, <2>1 DEF ServiceOK, IsFact
<1> QED BY <1>1, <1>2, <1>3, <1>4, <1>5
        DEF Next, Step, ServiceStep, PromoteOther, Lose, Compact, vars, learningVars, serviceVars, resultVars,
            projectionVars

-----------------------------------------------------------------------------
(* A request that is alone pays its own calls.                             *)

AloneInv(q) == Fresh(q) /\ AloneOK(q)

(* Another request moves, or this one ends, or is cut off.                 *)
LEMMA AloneUntouched ==
  ASSUME NEW q \in Requests, AloneInv(q), UNCHANGED <<pc[q], call[q]>>, alone' \subseteq alone,
         pc[q] = "idle" => \A o \in observations' \ observations : o.of[1] # q,
         q \in alone' /\ pc[q] \notin Ended =>
           /\ UNCHANGED <<sink, observations>>
           /\ \A p \in Requests \ {q} : pc'[p] \in Ended
  PROVE  AloneInv(q)'
<1>1. Fresh(q)'
  BY DEF AloneInv, Fresh
<1>2. CASE q \notin alone'
  BY <1>1, <1>2 DEF AloneInv, AloneOK
<1>3. CASE q \in alone' /\ pc[q] \in Ended
  BY <1>1, <1>3 DEF AloneInv, AloneOK, Proposing, Searched, OwnRows
<1>4. CASE q \in alone' /\ pc[q] \notin Ended
  BY <1>1, <1>4 DEF AloneInv, AloneOK, OwnRows, Recorded, RowsOf
<1> QED BY <1>1, <1>2, <1>3, <1>4

LEMMA AloneEnds ==
  ASSUME NEW q \in Requests, pc'[q] \in {"failed", "dead"}, call'[q] = NoCall
  PROVE  AloneInv(q)'
BY DEF AloneInv, Fresh, AloneOK, Proposing, Searched, NoCall

LEMMA LaunchAlone ==
  ASSUME ShapeOK, NEW q \in Requests, AloneInv(q), Launch(q)
  PROVE  AloneInv(q)'
<1> DEFINE r == Declared[q].primary
           others == {o \in Requests \ {q} : pc[o] \notin Ended}
<1>1. /\ call'[q].primary = r /\ call'[q].before = RowsOf(r) /\ call'[q].attempt = 0
      /\ pc[q] = "idle" /\ pc'[q] = "read" /\ UNCHANGED observations
      /\ alone' = IF others = {} THEN alone ELSE alone \ (others \cup {q})
  BY DEF Launch, Materialize, NoCall, ShapeOK, resultVars
<1>2. Fresh(q)'
  BY <1>1 DEF AloneInv, Fresh, RowsOf
<1>3. AloneOK(q)'
  <2> SUFFICES ASSUME q \in alone' PROVE AloneOK(q)'
    BY DEF AloneOK
  <2>1. others = {}
    BY <1>1
  <2>2. \A o \in Requests \ {q} : pc'[o] \in Ended
    BY <2>1, LaunchOthers
  <2>3. Recorded(q)' = {}
    BY <1>1 DEF Recorded
  <2>4. RowsOf(call[q].primary)' \ call'[q].before = {}
    BY <1>1 DEF RowsOf
  <2>5. OwnRows(q, Recorded(q))' = {}
    BY <2>3 DEF OwnRows
  <2> QED BY <1>1, <2>2, <2>4, <2>5 DEF AloneOK, Proposing, Searched, RowsOf
<1> QED BY <1>2, <1>3 DEF AloneInv

(* Steps that leave the rows of the request's run and its attempt alone.   *)
LEMMA QuietAlone ==
  ASSUME NEW q \in Requests, AloneInv(q), pc[q] \notin Ended, pc'[q] \notin Ended,
         UNCHANGED <<observations, alone>>, \A p \in Requests \ {q} : UNCHANGED pc[p],
         UNCHANGED <<call[q].primary, call[q].before>>, UNCHANGED Recorded(q),
         q \in alone /\ pc'[q] \in Proposing => sink' = call[q].primary,
         q \in alone /\ pc'[q] \in Searched => call'[q].runner = call[q].primary
  PROVE  AloneInv(q)'
<1>1. Fresh(q)'
  BY DEF AloneInv, Fresh
<1>2. OwnRows(q, Recorded(q))' = OwnRows(q, Recorded(q)) /\ RowsOf(call[q].primary)' = RowsOf(call[q].primary)
  BY DEF OwnRows, RowsOf
<1>3. AloneOK(q)'
  BY <1>2 DEF AloneInv, AloneOK
<1> QED BY <1>1, <1>3 DEF AloneInv

LEMMA RecordAlone ==
  ASSUME ShapeOK, NEW q \in Requests, AloneInv(q), Record(q), pc'[q] = "check"
  PROVE  AloneInv(q)'
<1> DEFINE n == call[q].attempt
           row == [of |-> <<q, n>>, run |-> call[q].runner]
<1>1. /\ observations' = observations \cup {row} /\ call' = call /\ sink' = sink /\ alone' = alone
      /\ pc[q] = "answered" /\ n \in 0..1
      /\ \A p \in Requests \ {q} : UNCHANGED pc[p]
  BY DEF Record, Fail, ShapeOK, CallSet, Stay, serviceVars
<1>2. Fresh(q)'
  BY <1>1 DEF AloneInv, Fresh
<1>3. AloneOK(q)'
  <2> SUFFICES ASSUME q \in alone PROVE AloneOK(q)'
    BY <1>1 DEF AloneOK
  <2>1. call[q].runner = call[q].primary /\ sink = call[q].primary
        /\ \A p \in Requests \ {q} : pc[p] \in Ended
    BY <1>1 DEF AloneInv, AloneOK, Searched, Proposing
  <2>2. RowsOf(call[q].primary) \ call[q].before = OwnRows(q, Recorded(q))
    BY <1>1 DEF AloneInv, AloneOK
  <2>3. row \notin call[q].before
    BY DEF AloneInv, Fresh
  <2>4. RowsOf(call[q].primary)' = RowsOf(call[q].primary) \cup {row}
    BY <1>1, <2>1 DEF RowsOf
  <2>5. Recorded(q)' = Recorded(q) \cup {n}
    BY <1>1 DEF Recorded
  <2>6. OwnRows(q, Recorded(q))' = OwnRows(q, Recorded(q)) \cup {row}
    BY <1>1, <2>1, <2>5 DEF OwnRows
  <2>7. RowsOf(call[q].primary)' \ call[q].before = OwnRows(q, Recorded(q))'
    BY <2>2, <2>3, <2>4, <2>6
  <2> QED BY <1>1, <2>1, <2>7 DEF AloneOK
<1> QED BY <1>2, <1>3 DEF AloneInv

LEMMA AccountAlone ==
  ASSUME ShapeOK, NEW q \in Requests, AloneInv(q), Account(q)
  PROVE  AloneInv(q)'
<1>1. call[q] \in CallSet /\ call \in [Requests -> CallSet]
  BY DEF ShapeOK
<1>2. call'[q] = [NoCall EXCEPT !.primary = call[q].primary, !.attempt = call[q].attempt,
                                !.accounted = NewRows(q)]
  BY <1>1 DEF Account
<1>3. /\ call'[q].primary = call[q].primary /\ call'[q].attempt = call[q].attempt
      /\ call'[q].accounted = NewRows(q) /\ call'[q].before = {}
  BY <1>2 DEF NoCall
<1>4. pc[q] = "account" /\ pc'[q] = "done" /\ alone' = alone
  BY DEF Account, ShapeOK, Stay
<1>5. Recorded(q) = 0..call[q].attempt
  BY <1>1, <1>4 DEF Recorded, CallSet
<1>6. q \in alone => NewRows(q) = OwnRows(q, 0..call[q].attempt)
  BY <1>4, <1>5 DEF AloneInv, AloneOK, NewRows
<1>7. OwnRows(q, 0..call[q].attempt)' = OwnRows(q, 0..call[q].attempt)
  BY <1>3 DEF OwnRows
<1> QED BY <1>3, <1>4, <1>6, <1>7 DEF AloneInv, Fresh, AloneOK, Proposing, Searched

LEMMA ServiceStepAlone ==
  ASSUME ShapeOK, NEW q \in Requests, CallInv(q), AloneInv(q), ServiceStep(q)
  PROVE  AloneInv(q)'
<1>0. call \in [Requests -> CallSet] /\ pc \in [Requests -> Labels] /\ call[q] \in CallSet
  BY DEF ShapeOK
<1>1. alone' = alone /\ (\A p \in Requests \ {q} : UNCHANGED pc[p]) /\ pc[q] \notin Ended
  BY ServiceStepFrame, ServiceStepOthers DEF Proposing
<1>2. CASE Fail(q)
  BY <1>0, <1>2, AloneEnds DEF Fail
<1>3. CASE Record(q)
  BY <1>0, <1>2, <1>3, RecordAlone DEF Record
<1>4. CASE Account(q)
  BY <1>4, AccountAlone
<1>5. CASE SetRetriever(q) \/ PersistPatch(q) \/ (CreateCandidate(q) /\ ~Fail(q))
  <2>1. UNCHANGED <<call, observations, sink>> /\ pc'[q] \notin Ended
    BY <1>0, <1>5 DEF SetRetriever, PersistPatch, CreateCandidate, serviceVars, resultVars
  <2>2. pc'[q] \in Proposing => pc[q] \in {"patch", "create"}
    BY <1>0, <1>5 DEF SetRetriever, PersistPatch, CreateCandidate, Proposing
  <2>3. UNCHANGED Recorded(q)
    BY <1>0, <1>5, <2>1 DEF SetRetriever, PersistPatch, CreateCandidate, Recorded
  <2> QED BY <1>1, <2>1, <2>2, <2>3, QuietAlone DEF AloneInv, AloneOK, Proposing, Searched
<1>6. CASE SetRunner(q)
  <2>1. UNCHANGED <<call, observations>> /\ pc[q] = "sink" /\ pc'[q] = "search" /\ sink' = call[q].primary
    BY <1>0, <1>6 DEF SetRunner, resultVars
  <2>2. UNCHANGED Recorded(q)
    BY <2>1 DEF Recorded
  <2> QED BY <1>1, <2>1, <2>2, QuietAlone DEF Searched
<1>7. CASE ~Fail(q) /\ (Search(q) \/ Pack(q) \/ Answer(q) \/ Accept(q) \/ Reject(q))
  <2>1. UNCHANGED <<observations, sink>> /\ pc[q] \in Proposing /\ pc'[q] \in Searched
    BY <1>0, <1>7 DEF Search, Pack, Answer, Accept, Reject, serviceVars, resultVars, Proposing, Searched
  <2>2. /\ UNCHANGED <<call[q].primary, call[q].before>>
        /\ \/ UNCHANGED call[q].runner /\ pc[q] \in Searched
           \/ call'[q].runner = sink
    <3>1. CASE Search(q)
      <4>1. call' = [call EXCEPT ![q].base = active, ![q].found = {s \in retriever : Allowed(q, s)},
                                 ![q].runner = sink]
        BY <1>7, <3>1 DEF Search
      <4> QED BY <1>0, <4>1 DEF CallSet
    <3>2. CASE Pack(q)
      <4>1. PICK E \in SUBSET call[q].found : call' = [call EXCEPT ![q].exposed = E]
        BY <1>7, <3>2 DEF Pack
      <4> QED BY <1>0, <3>2, <4>1 DEF CallSet, Pack, Searched, Proposing
    <3>3. CASE Answer(q)
      <4>1. PICK t \in Usages : call' = [call EXCEPT ![q].spent = @ + t]
        BY <3>3 DEF Answer
      <4> QED BY <1>0, <3>3, <4>1 DEF CallSet, Answer, Searched, Proposing
    <3>4. CASE Accept(q)
      <4>1. PICK E \in SUBSET Events : call' = [call EXCEPT ![q].cited = E]
        BY <3>4 DEF Accept
      <4> QED BY <1>0, <3>4, <4>1 DEF CallSet, Accept, Searched, Proposing
    <3>5. CASE Reject(q)
      <4>1. call' = [call EXCEPT ![q].attempt = 1]
        BY <1>7, <3>5 DEF Reject
      <4> QED BY <1>0, <3>5, <4>1 DEF CallSet, Reject, Searched, Proposing
    <3> QED BY <1>7, <3>1, <3>2, <3>3, <3>4, <3>5
  <2>3. UNCHANGED Recorded(q)
    <3>1. CASE Reject(q)
      <4>1. call[q].attempt = 0 /\ call'[q].attempt = 1 /\ pc[q] = "check" /\ pc'[q] = "pack"
        BY <1>0, <1>7, <3>1 DEF Reject, CallSet
      <4> QED BY <4>1 DEF Recorded
    <3>2. CASE Search(q) \/ Pack(q) \/ Answer(q)
      <4>1. UNCHANGED call[q].attempt /\ {pc[q], pc'[q]} \cap {"check", "patch", "create", "account"} = {}
        <5>1. CASE Search(q)
          <6>1. call' = [call EXCEPT ![q].base = active, ![q].found = {s \in retriever : Allowed(q, s)},
                                     ![q].runner = sink]
            BY <1>7, <5>1 DEF Search
          <6> QED BY <1>0, <1>7, <5>1, <6>1 DEF Search, CallSet
        <5>2. CASE Pack(q)
          BY <1>0, <1>7, <5>2 DEF Pack, CallSet
        <5>3. CASE Answer(q)
          BY <1>0, <5>3 DEF Answer, CallSet
        <5> QED BY <3>2, <5>1, <5>2, <5>3
      <4> QED BY <4>1 DEF Recorded
    <3>3. CASE Accept(q)
      <4>1. UNCHANGED call[q].attempt /\ pc[q] = "check" /\ pc'[q] = "patch"
        BY <1>0, <3>3 DEF Accept, CallSet
      <4> QED BY <4>1 DEF Recorded
    <3> QED BY <1>7, <3>1, <3>2, <3>3
  <2>4. q \in alone => sink = call[q].primary /\ (pc[q] \in Searched => call[q].runner = call[q].primary)
    BY <2>1 DEF AloneInv, AloneOK
  <2>5. pc'[q] \notin Ended
    BY <2>1 DEF Searched, Proposing
  <2> QED BY <1>1, <2>1, <2>2, <2>3, <2>4, <2>5, QuietAlone
<1> QED BY <1>2, <1>3, <1>4, <1>5, <1>6, <1>7 DEF ServiceStep, ModelFails, CreateCandidate

LEMMA NextAlone ==
  ASSUME ShapeOK, \A q \in Requests : CallInv(q) /\ AloneInv(q), [Next]_vars
  PROVE  \A q \in Requests : AloneInv(q)'
<1> SUFFICES ASSUME NEW q \in Requests PROVE AloneInv(q)'
  OBVIOUS
<1>1. ASSUME NEW p \in Requests, Launch(p)
      PROVE  AloneInv(q)'
  <2>1. CASE p = q
    BY <1>1, <2>1, LaunchAlone
  <2>2. CASE p # q
    <3>1. /\ UNCHANGED <<pc[q], call[q], observations>> /\ alone' \subseteq alone
          /\ q \in alone' => pc[q] \in Ended
      BY <1>1, <2>2, LaunchOthers DEF Launch, resultVars
    <3> QED BY <3>1, AloneUntouched
  <2> QED BY <2>1, <2>2
<1>2. ASSUME NEW p \in Requests, MaterializeStep(p)
      PROVE  AloneInv(q)'
  <2>0. UNCHANGED <<call, observations, sink, alone>> /\ pc[p] \in Phases /\ pc'[p] \in Phases \cup {"bind"}
        /\ \A o \in Requests \ {p} : UNCHANGED pc[o]
    BY <1>2, MaterialStepOthers DEF learningVars, serviceVars, resultVars
  <2>1. CASE p = q
    <3>1. UNCHANGED Recorded(q) /\ pc[q] \notin Ended /\ pc'[q] \notin Ended \cup Proposing
      BY <2>0, <2>1 DEF Recorded, Phases, Proposing
    <3> QED BY <2>0, <2>1, <3>1, QuietAlone DEF Searched
  <2>2. CASE p # q
    <3>1. q \in alone => pc[q] \in Ended
      BY <2>0, <2>2 DEF AloneInv, AloneOK, Phases
    <3> QED BY <2>0, <2>2, <3>1, AloneUntouched
  <2> QED BY <2>1, <2>2
<1>3. ASSUME NEW p \in Requests, ServiceStep(p)
      PROVE  AloneInv(q)'
  <2>1. CASE p = q
    BY <1>3, <2>1, ServiceStepAlone
  <2>2. CASE p # q
    <3>1. UNCHANGED <<pc[q], call[q], alone>>
      BY <1>3, <2>2, ServiceStepOthers, ServiceStepFrame
    <3>2. q \in alone => pc[q] \in Ended
      BY <1>3, <2>2, ServiceStepFrame DEF AloneInv, AloneOK, Proposing
    <3>3. \A o \in observations' \ observations : o.of[1] = p
      <4>1. CASE Record(p)
        BY <4>1 DEF Record
      <4>2. CASE ~Record(p)
        BY <1>3, <4>2 DEF ServiceStep, SetRetriever, SetRunner, Search, Pack, ModelFails, Answer, Accept, Reject,
               PersistPatch, CreateCandidate, Account, resultVars
      <4> QED BY <4>1, <4>2
    <3> QED BY <2>2, <3>1, <3>2, <3>3, AloneUntouched
  <2> QED BY <2>1, <2>2
<1>4. CASE Restart
  <2>1. CASE pc[q] \in Ended /\ UNCHANGED <<pc[q], call[q]>>
    BY <1>4, <2>1, AloneUntouched DEF Restart, resultVars
  <2>2. CASE pc'[q] = "dead" /\ call'[q] = NoCall
    BY <2>2, AloneEnds
  <2> QED BY <1>4, <2>1, <2>2, RestartEnds
<1>5. CASE UNCHANGED <<pc, call, observations, sink, alone>>
  <2>1. q \in alone /\ pc[q] \notin Ended => \A p \in Requests \ {q} : pc[p] \in Ended
    BY DEF AloneInv, AloneOK
  <2> QED BY <1>5, <2>1, AloneUntouched
<1> QED BY <1>1, <1>2, <1>3, <1>4, <1>5
        DEF Next, Step, ServiceStep, PromoteOther, Lose, Compact, vars, learningVars, serviceVars, resultVars,
            projectionVars

-----------------------------------------------------------------------------
(* The invariant, and what follows from it.                                *)

LEMMA InitIInv == Init => IInv
<1> SUFFICES ASSUME Init PROVE IInv
  OBVIOUS
<1>1. ShapeOK /\ MaterialInv
  BY InitShape, InitMaterial
<1>2. /\ pc = [q \in Requests |-> "idle"] /\ call = [q \in Requests |-> NoCall]
      /\ retriever = {} /\ observations = {} /\ alone = Requests
  BY DEF Init, ProjectionInit
<1>3. 0 < TokenCap + Max(Usages)
  BY MaxUsage
<1>4. ASSUME NEW q \in Requests
      PROVE  CallOK(q) /\ SpendOK(q) /\ BackedOK(q) /\ Fresh(q) /\ AloneOK(q)
  BY <1>2, <1>3 DEF CallOK, SpendOK, BackedOK, Fresh, AloneOK, NoCall, Before, Phases, Searched, Proposing
<1>5. ServiceOK
  BY <1>2 DEF ServiceOK, Proposing
<1> QED BY <1>1, <1>4, <1>5 DEF IInv, RequestInv

LEMMA NextShape == ShapeOK /\ MaterialInv /\ (\A q \in Requests : CallOK(q)) /\ [Next]_vars => ShapeOK'
<1> SUFFICES ASSUME ShapeOK, MaterialInv, \A q \in Requests : CallOK(q), [Next]_vars
             PROVE  ShapeOK'
  OBVIOUS
<1>0. \A q \in Requests : WorkBelongs(q)
  BY DEF MaterialInv, MaterialOf
<1>1. ASSUME NEW q \in Requests, Step(q)
      PROVE  ShapeOK'
  BY <1>0, <1>1, LaunchShape, MaterialStepShape, ServiceStepShape DEF Step, ServiceStep
<1>2. CASE UNCHANGED vars
  BY <1>2 DEF ShapeOK, vars, projectionVars, tableVars, learningVars, serviceVars, resultVars
<1> QED BY <1>1, <1>2, RestartShape, OtherStepShape DEF Next

LEMMA NextStep == IInv /\ [Next]_vars => IInv'
<1> SUFFICES ASSUME IInv, [Next]_vars PROVE IInv'
  OBVIOUS
<1>1. /\ ShapeOK /\ MaterialInv /\ ServiceOK
      /\ \A q \in Requests : CallInv(q) /\ AloneInv(q) /\ CallOK(q)
  BY DEF IInv, RequestInv, CallInv, AloneInv
<1>2. ShapeOK' /\ MaterialInv'
  BY <1>1, NextShape, NextMaterial
<1>3. ServiceOK' /\ \A q \in Requests : CallInv(q)' /\ AloneInv(q)'
  BY <1>1, NextCall, NextAlone
<1> QED BY <1>2, <1>3 DEF IInv, RequestInv, CallInv, AloneInv

LEMMA Inductive == Spec => []IInv
BY InitIInv, NextStep, PTL DEF Spec

(* MaterialIsSound: whatever an earlier request left half done when its    *)
(* process died and whatever was compacted, a request that has its         *)
(* material has all of it, and no projected record is without the row of   *)
(* evidence that says where it comes from (_materialize_run_records).      *)
THEOREM MaterialIsSoundCorrect == Spec => []MaterialIsSound
<1>1. IInv => MaterialIsSound
  <2> SUFFICES ASSUME IInv PROVE MaterialIsSound
    OBVIOUS
  <2>1. ShapeOK /\ MaterialInv
    BY DEF IInv
  <2>2. TypeOK
    <3>1. \A q \in Requests : call[q].attempt \in 0..1 /\ call[q].found \subseteq Fact
      <4> TAKE q \in Requests
      <4>1. call[q] \in CallSet
        BY <2>1 DEF ShapeOK
      <4> QED BY <4>1 DEF CallSet, FactSets
    <3> QED BY <2>1, <3>1 DEF TypeOK, ShapeOK, MaterialInv, RecordsBelong, RowSet, Sources, Fact, Observation
  <2>3. ContextIsComplete
    <3> SUFFICES ASSUME NEW q \in Requests, pc[q] = "bind", NEW r \in sources[q]
                 PROVE  Complete(q, r)
      BY DEF ContextIsComplete, Complete, DocItem, LiveItem
    <3>1. MaterialOf(q) /\ work[q].todo = <<>>
      BY <2>1 DEF MaterialInv, MaterialOf, WorkBelongs
    <3>2. Range(work[q].todo) = {}
      BY <3>1 DEF Range
    <3> QED BY <3>1, <3>2 DEF MaterialOf, RunsCovered
  <2> QED BY <2>1, <2>2, <2>3 DEF MaterialIsSound, MaterialInv
<1> QED BY <1>1, Inductive, PTL

(* RequestsAreSeparate: although the requests set and read one shared      *)
(* service, the model is shown evidence of the request's own declared runs *)
(* and of each of them, no request spends beyond its cap by more than one  *)
(* call, and one that was alone pays exactly its own calls (LearningService*)
(* .propose, ApplicationHooks.launch_learning).                            *)
THEOREM RequestsAreSeparateCorrect == Spec => []RequestsAreSeparate
<1>1. IInv => RequestsAreSeparate
  <2> SUFFICES ASSUME IInv PROVE RequestsAreSeparate
    OBVIOUS
  <2>1. \A q \in Requests : CallOK(q) /\ SpendOK(q) /\ AloneOK(q)
    BY DEF IInv, RequestInv
  <2>2. LearnerSeesDeclaredOnly
    <3> SUFFICES ASSUME NEW q \in Requests, pc[q] = "ask"
                 PROVE  /\ {s.run : s \in call[q].exposed} = sources[q]
                        /\ \A s \in call[q].exposed : s.src \in Range(EventsOf[s.run])
      BY DEF LearnerSeesDeclaredOnly
    <3>1. \A s \in call[q].exposed : IsFact(s) /\ s.run \in sources[q]
      BY <2>1 DEF CallOK, Allowed
    <3>2. sources[q] \subseteq {s.run : s \in call[q].exposed}
      BY <2>1 DEF CallOK
    <3> QED BY <3>1, <3>2 DEF IsFact
  <2>3. LearningSpendBounded
    BY <2>1 DEF LearningSpendBounded, SpendOK
  <2>4. SoloAccountingIsExact
    <3> SUFFICES ASSUME NEW q \in alone, pc[q] = "done"
                 PROVE  call[q].accounted = OwnRows(q, 0..call[q].attempt)
      BY DEF SoloAccountingIsExact, OwnRows
    <3> QED BY <2>1 DEF AloneOK, IInv, ShapeOK
  <2> QED BY <2>2, <2>3, <2>4 DEF RequestsAreSeparate
<1> QED BY <1>1, Inductive, PTL

(* EvidenceRowsStay: no request, crash or compaction takes a saved result  *)
(* away or replaces it by less (Store.save_learning_record).               *)
THEOREM EvidenceRowsStayCorrect == Spec => EvidenceRowsStay
<1>1. IInv /\ [Next]_vars => [\A x \in records : Key(x).kind = "live" => x \in records']_projectionVars
  BY NextMaterial DEF IInv, Live
<1> QED BY <1>1, Inductive, PTL DEF Spec, EvidenceRowsStay

(* CandidateIsBacked: a candidate has its patch stored, cites what its own *)
(* request showed the model, and is built on the bundle of the search      *)
(* (CandidateManagerLearningAdapter.create_candidate).                     *)
THEOREM CandidateIsBackedCorrect == Spec => CandidateIsBacked
<1> DEFINE Backed(c) == /\ c.request \in patches
                        /\ c.cited # {} /\ c.cited \subseteq {s.src : s \in call[c.request].exposed}
                        /\ c.base = call[c.request].base
<1>1. IInv /\ [Next]_vars => [\A c \in candidates' \ candidates : Backed(c)]_vars
  <2> SUFFICES ASSUME IInv, Next, NEW c \in candidates' \ candidates
               PROVE  Backed(c)
    OBVIOUS
  <2>1. PICK q \in Requests : CreateCandidate(q) /\ candidates' = candidates \cup {Candidate(q)}
    BY DEF Next, Step, Launch, MaterializeStep, SetRetriever, SetRunner, Search, Pack, ModelFails, Answer, Record,
           Accept, Reject, PersistPatch, CreateCandidate, Account, PromoteOther, Restart, Lose, learningVars,
           resultVars
  <2>2. c = Candidate(q) /\ pc[q] = "create"
    BY <2>1 DEF CreateCandidate
  <2>3. BaseHolds(q)
    BY <2>1, <2>2 DEF CreateCandidate
  <2>4. BackedOK(q)
    BY DEF IInv, RequestInv
  <2> QED BY <2>2, <2>3, <2>4 DEF Candidate, BaseHolds, BackedOK
<1> QED BY <1>1, Inductive, PTL DEF Spec, CandidateIsBacked

-----------------------------------------------------------------------------
(* The evidence of promotions.                                             *)

HIDE LearningAssumption
HIDE EventsAssumption
HIDE DEF Ended, Goto

-----------------------------------------------------------------------------
(* The values the variables take.                                          *)

Protocols == {Releases[i] : i \in DOMAIN Releases}
JobSteps == {"idle", "built", "measured", "reported", "judged", "saved", "ended"}
Statuses == {"decided", "complete", "incomplete", "failed"}
Standings == {"validated", "evaluating", "promoted", "rejected", "superseded"}
QueueStates == {"none", "queued", "running", "failed", "completed"}

EvidenceShape ==
  /\ scene \in DOMAIN Scenes
  /\ server \in [release : 1..1 + Scenes[scene].restarts, drift : BOOLEAN, bound : BOOLEAN]
  /\ registered \subseteq {Releases[i] : i \in 1..server.release}
  /\ queue \in [Jobs -> [state : QueueStates, protocol : Optional(Protocols)]]
  /\ jpc \in [Jobs -> JobSteps] /\ status \in [Jobs -> Optional(Statuses)]
  /\ DOMAIN report \subseteq Jobs /\ launches \in [Jobs -> Nat]
  /\ rows = [j \in Jobs |-> rows[j]] /\ plan \in [Jobs -> Optional(Protocols)]
  /\ cand \in [Candidates -> Standings] /\ activeBundle \in {Genesis} \cup Candidates
  /\ DOMAIN table \subseteq Jobs \X {"job", "queue"}
  /\ \A e \in ledger : "token" \notin DOMAIN e.payload

-----------------------------------------------------------------------------
(* The reports.                                                            *)

(* What MakeReport may have made of the cells of a job, planned under a    *)
(* protocol, in one of its starts, and published.                          *)
PlannedInputs(j, protocol) ==
  [phase |-> Phase[j], candidate |-> Bundle[j], base |-> Base(j), protocol |-> protocol, config |-> Config[protocol]]
Draft(j, protocol, panel, lower, p, audit) == Assemble(PlannedInputs(j, protocol), panel, lower, p, audit)
Tagged(token, panel, d) == Put(Published(d, panel), "token", token)
FiledUnder(j, protocol, panel, starts, r) ==
  \E lower \in Lowers(Phase[j], panel), p \in Probes, audit \in BOOLEAN, n \in 1..starts :
    /\ Phase[j] = "validation" => audit
    /\ r = Tagged(<<j, n>>, panel, Draft(j, protocol, panel, lower, p, audit))
Filed(j, r) == FiledUnder(j, plan[j], rows[j], launches[j], r)

(* A valid report was published as it was attested.                        *)
Standing(r) == r.validity = "valid" => HasAttestation(r)

(* A bundle about which nothing is decided yet.                            *)
Open(c) == cand[c] \in {"validated", "evaluating"}

PlansOK ==
  \A j \in Jobs :
    /\ plan[j] # NoValue => plan[j] \in registered /\ IsPanel(rows[j])
    /\ jpc[j] \notin {"idle", "ended"} =>
         j \in Played /\ Release \in registered /\ server.bound /\ launches[j] > 0
    /\ jpc[j] \in {"measured", "reported"} => plan[j] = Release
    /\ jpc[j] \in {"idle", "built", "measured"} => j \notin DOMAIN report
    /\ jpc[j] = "reported" => j \in DOMAIN report

ReportOK(j, r) == plan[j] # NoValue /\ Filed(j, r) /\ Standing(r)
RowOK(id, row) ==
  /\ ReportOK(id[1], row.report) /\ row.candidate = Bundle[id[1]] /\ row.base = Base(id[1])
  /\ id[2] = "job" => row.protocol = plan[id[1]] /\ row.phase \in {Phase[id[1]], "frozen-partition"}
  /\ id[2] = "queue" =>
       queue[id[1]].state # "none" /\ row.protocol = queue[id[1]].protocol /\ row.phase = "validation"
ReportsOK ==
  /\ \A j \in DOMAIN report : ReportOK(j, report[j])
  /\ \A id \in DOMAIN table : RowOK(id, table[id])

(* What was decided has been verified, and is shown under the job's id.    *)
DecidedOK ==
  \A j \in Jobs : status[j] = "decided" =>
    /\ jpc[j] = "judged" => j \in DOMAIN report /\ report[j].validity = "valid"
    /\ jpc[j] \in {"saved", "ended"} => <<j, "job">> \in DOMAIN table /\ Trusted(<<j, "job">>)

EvidenceInv == EvidenceShape /\ PlansOK /\ ReportsOK /\ DecidedOK

-----------------------------------------------------------------------------
(* A report that stays trusted.                                            *)

(* A protocol that gave way to another never comes back.                   *)
NoReturn ==
  \A i, k, m \in DOMAIN Releases :
    i < k /\ k < m /\ Releases[i] = Releases[m] => Releases[k] = Releases[i]

(* The protocols that may still run.                                       *)
Ahead == {Releases[n] : n \in server.release..Len(Releases)}

(* What the job measured can decide nothing any more.                      *)
Spoilt(j) ==
  \/ ~Open(Bundle[j])
  \/ Track1 \in registered /\ plan[j] # Track1
  \/ server.drift /\ plan[j] = Release
  \/ plan[j] \notin Ahead

(* The job's own row holds a valid report that SaveJob wrote.              *)
Stored(j) ==
  /\ <<j, "job">> \in DOMAIN table
  /\ table[<<j, "job">>].phase # "frozen-partition" /\ table[<<j, "job">>].report.validity = "valid"

(* A job of the queue whose valid report is stored starts again only when  *)
(* it can decide nothing, any other job never.                             *)
RelaunchOK ==
  \A j \in Jobs :
    /\ j \in FromQueue /\ jpc[j] \notin {"idle", "ended"} => queue[j].state = "running"
    /\ jpc[j] = "judged" /\ status[j] = "failed" /\ j \in DOMAIN report /\ report[j].validity = "valid" => Spoilt(j)
    /\ Stored(j) /\ j \notin FromQueue => jpc[j] = "ended"
    /\ Stored(j) /\ j \in FromQueue =>
         \/ Spoilt(j) \/ queue[j].state = "completed"
         \/ queue[j].state = "running" /\ jpc[j] \in {"idle", "saved"} /\ (jpc[j] = "saved" => status[j] # "failed")

TrustInv == EvidenceInv /\ RelaunchOK

-----------------------------------------------------------------------------
(* Facts about the reports.                                                *)

LEMMA PutFacts ==
  ASSUME NEW f, NEW k, NEW v
  PROVE  /\ DOMAIN Put(f, k, v) = DOMAIN f \cup {k} /\ Put(f, k, v)[k] = v
         /\ \A i \in DOMAIN f : i # k => Put(f, k, v)[i] = f[i]
BY DEF Put

Fields == {"comparison", "candidate", "base", "protocol", "config", "envs", "validity", "arms", "cells", "ci",
           "cases", "safetyPassed", "missing", "leak", "resets", "failures", "metricCellsComplete",
           "provenanceComplete"}

Unreset(panel) == {x \in panel : ~Observed[x.kind].reset}
SafeIn(panel, cases) == All(panel, "safe") /\ \A k \in SafetyCases : cases[k]
IsReport(d) == DOMAIN d = Fields /\ d = [f \in Fields |-> d[f]]

(* What the fields of a fresh report are made of.                          *)
LEMMA DraftFields ==
  ASSUME NEW of, NEW panel, NEW lower, NEW p, NEW audit, NEW d, d = Assemble(of, panel, lower, p, audit)
  PROVE  /\ IsReport(d)
         /\ d.comparison = of.phase /\ d.candidate = of.candidate /\ d.base = of.base
         /\ d.protocol = of.protocol /\ d.config = of.config /\ d.envs = Envs(of.phase)
         /\ d.validity = Validity(of.phase, panel, audit)
         /\ d.cases = CaseResults(p) /\ DOMAIN d.cases = SafetyCases
         /\ d.safetyPassed = SafeIn(panel, d.cases)
         /\ d.missing = Cardinality(Missing(of.phase, panel)) /\ d.leak = Leak(of.phase, panel)
         /\ d.resets = Cardinality(Unreset(panel))
         /\ d.failures = Failures(of.phase, panel) /\ d.provenanceComplete = Provenance(panel)
BY DEF IsReport, Assemble, Fields, CaseResults, Unreset, SafeIn

(* Publishing may take the validity away, the token is added, nothing else *)
(* changes; a report that stays valid is the one that was attested.        *)
LEMMA PublishedFields ==
  ASSUME NEW d, IsReport(d), NEW panel, NEW t,
         NEW r, r = Put(Published(d, panel), "token", t)
  PROVE  /\ DOMAIN r = Fields \cup {"token"} /\ r.token = t
         /\ \A f \in Fields \ {"validity"} : r[f] = d[f]
         /\ r.validity = IF d.missing = 0 /\ ~All(panel, "real") THEN "invalid" ELSE d.validity
         /\ r.validity = "valid" => Attested(r) = d
<1> DEFINE u == Published(d, panel)
<1>1. /\ DOMAIN u = Fields /\ \A f \in Fields \ {"validity"} : u[f] = d[f]
      /\ u.validity = IF d.missing = 0 /\ ~All(panel, "real") THEN "invalid" ELSE d.validity
  BY DEF IsReport, Published, Fields
<1>2. "token" \notin Fields
  BY DEF Fields
<1> HIDE DEF u
<1>3. /\ DOMAIN r = Fields \cup {"token"} /\ r["token"] = t
      /\ \A f \in Fields : r[f] = u[f]
  <2>1. r = Put(u, "token", t)
    BY DEF u
  <2>2. DOMAIN r = DOMAIN u \cup {"token"} /\ r["token"] = t
    BY <2>1 DEF Put
  <2>3. \A i \in DOMAIN u : i # "token" => r[i] = u[i]
    BY <2>1 DEF Put
  <2> QED BY <1>1, <1>2, <2>2, <2>3
<1>4. ASSUME r["validity"] = "valid" PROVE Attested(r) = d
  <2>1. \A f \in Fields : r[f] = d[f]
    BY <1>1, <1>3, <1>4 DEF Fields
  <2>2. DOMAIN r \ {"token"} = Fields
    BY <1>2, <1>3
  <2>3. Attested(r) = [f \in Fields |-> r[f]]
    BY <2>2 DEF Attested
  <2> QED BY <2>1, <2>3 DEF IsReport
<1>5. "validity" \in Fields
  BY DEF Fields
<1> QED BY <1>1, <1>3, <1>4, <1>5

(* The valid reports of a job: those of a panel that is sound, complete    *)
(* and real.                                                               *)
Clean(j) == Sound(Phase[j], rows[j]) /\ All(rows[j], "complete") /\ All(rows[j], "real")

LEMMA ValidIsClean ==
  ASSUME NEW phase, NEW panel, NEW audit \in BOOLEAN
  PROVE  /\ Validity(phase, panel, audit) = "valid" <=> Sound(phase, panel) /\ All(panel, "complete") /\ audit
         /\ Sound(phase, panel) => Cardinality(Missing(phase, panel)) = 0
BY FS_EmptySet DEF Validity, Sound

LEMMA FiledFacts ==
  ASSUME NEW j \in Jobs, NEW r, Filed(j, r)
  PROVE  /\ r.comparison = Phase[j] /\ r.candidate = Bundle[j] /\ r.base = Genesis
         /\ r.protocol = plan[j] /\ r.config = Config[plan[j]]
         /\ r.envs = Envs(Phase[j]) /\ DOMAIN r.cases = SafetyCases
         /\ r.validity = "valid" => Clean(j)
         /\ Phase[j] = "validation" /\ Clean(j) => r.validity = "valid"
         /\ r.missing = Cardinality(Missing(Phase[j], rows[j])) /\ r.leak = Leak(Phase[j], rows[j])
         /\ r.resets = Cardinality(Unreset(rows[j]))
         /\ r.failures = Failures(Phase[j], rows[j]) /\ r.provenanceComplete = Provenance(rows[j])
         /\ r.safetyPassed = SafeIn(rows[j], r.cases)
<1>1. PICK lower \in Lowers(Phase[j], rows[j]), p \in Probes, audit \in BOOLEAN, n \in 1..launches[j] :
        /\ Phase[j] = "validation" => audit
        /\ r = Tagged(<<j, n>>, rows[j], Draft(j, plan[j], rows[j], lower, p, audit))
  BY DEF Filed, FiledUnder
<1> DEFINE d == Draft(j, plan[j], rows[j], lower, p, audit)
           of == PlannedInputs(j, plan[j])
<1>2. /\ of.phase = Phase[j] /\ of.candidate = Bundle[j] /\ of.base = Genesis
      /\ of.protocol = plan[j] /\ of.config = Config[plan[j]]
  BY DEF PlannedInputs, Base
<1>3. d = Assemble(of, rows[j], lower, p, audit) /\ r = Put(Published(d, rows[j]), "token", <<j, n>>)
  BY <1>1 DEF Draft, Tagged
<1> HIDE DEF d, of
<1>4. /\ IsReport(d)
      /\ d.comparison = of.phase /\ d.candidate = of.candidate /\ d.base = of.base
      /\ d.protocol = of.protocol /\ d.config = of.config /\ d.envs = Envs(of.phase)
      /\ d.validity = Validity(of.phase, rows[j], audit) /\ DOMAIN d.cases = SafetyCases
      /\ d.safetyPassed = SafeIn(rows[j], d.cases)
      /\ d.missing = Cardinality(Missing(of.phase, rows[j])) /\ d.leak = Leak(of.phase, rows[j])
      /\ d.resets = Cardinality(Unreset(rows[j]))
      /\ d.failures = Failures(of.phase, rows[j]) /\ d.provenanceComplete = Provenance(rows[j])
  BY <1>3, DraftFields
<1>5. /\ \A f \in Fields \ {"validity"} : r[f] = d[f]
      /\ r.validity = IF d.missing = 0 /\ ~All(rows[j], "real") THEN "invalid" ELSE d.validity
  BY <1>3, <1>4, PublishedFields
<1>6. /\ r.comparison = d.comparison /\ r.candidate = d.candidate /\ r.base = d.base /\ r.protocol = d.protocol
      /\ r.config = d.config /\ r.envs = d.envs /\ r.cases = d.cases /\ r.missing = d.missing /\ r.leak = d.leak
      /\ r.resets = d.resets /\ r.failures = d.failures /\ r.provenanceComplete = d.provenanceComplete
      /\ r.safetyPassed = d.safetyPassed
  BY <1>5 DEF Fields
<1>7. /\ d.validity = "valid" <=> Sound(Phase[j], rows[j]) /\ All(rows[j], "complete") /\ audit
      /\ Sound(Phase[j], rows[j]) => d.missing = 0
  BY <1>2, <1>4, ValidIsClean
<1>8. /\ r.validity = "valid" => Clean(j)
      /\ Phase[j] = "validation" /\ Clean(j) => r.validity = "valid"
  BY <1>1, <1>5, <1>7 DEF Clean
<1> QED BY <1>2, <1>4, <1>6, <1>8

-----------------------------------------------------------------------------
(* What a step keeps.                                                      *)

(* What a report rests on is not taken away.                               *)
Grows ==
  /\ registered \subseteq registered' /\ ledger \subseteq ledger'
  /\ \A j \in Jobs :
       /\ launches[j] <= launches'[j]
       /\ plan[j] # NoValue => plan'[j] = plan[j] /\ rows'[j] = rows[j]
       /\ queue[j].state # "none" => queue'[j].state # "none" /\ queue'[j].protocol = queue[j].protocol

LEMMA VerifiedStays ==
  ASSUME Grows, NEW r, NEW row, VerifyReport(r, row)
  PROVE  VerifyReport(r, row)'
BY DEF Grows, VerifyReport, HasAttestation

LEMMA ReportStays ==
  ASSUME EvidenceShape, Grows, EvidenceShape', NEW j \in Jobs, NEW r, ReportOK(j, r)
  PROVE  ReportOK(j, r)'
<1>1. Standing(r)'
  BY DEF ReportOK, Standing, Grows, HasAttestation
<1>2. /\ plan[j] # NoValue /\ plan'[j] = plan[j] /\ rows'[j] = rows[j]
      /\ launches[j] \in Nat /\ launches'[j] \in Nat /\ launches[j] <= launches'[j]
  BY DEF ReportOK, Grows, EvidenceShape
<1>3. FiledUnder(j, plan[j], rows[j], launches'[j], r)
  <2>1. 1..launches[j] \subseteq 1..launches'[j]
    BY <1>2
  <2> QED BY <2>1 DEF ReportOK, Filed, FiledUnder
<1>4. Filed(j, r)'
  BY <1>2, <1>3 DEF Filed
<1> QED BY <1>1, <1>2, <1>4 DEF ReportOK

LEMMA RowStays ==
  ASSUME EvidenceShape, Grows, EvidenceShape', NEW id \in Jobs \X {"job", "queue"}, NEW row, RowOK(id, row)
  PROVE  RowOK(id, row)'
<1>1. id[1] \in Jobs /\ ReportOK(id[1], row.report)
  BY DEF RowOK
<1>2. ReportOK(id[1], row.report)'
  BY <1>1, ReportStays
<1>3. plan[id[1]] # NoValue
  BY <1>1 DEF ReportOK
<1> QED BY <1>1, <1>2, <1>3 DEF RowOK, Grows, Base

LEMMA SaveFacts ==
  ASSUME NEW j, NEW k, NEW row, Save(j, k, row)
  PROVE  /\ DOMAIN table' = DOMAIN table \cup {<<j, k>>} /\ table'[<<j, k>>] = row
         /\ \A id \in DOMAIN table : id # <<j, k>> => table'[id] = table[id]
BY DEF Save, Put

(* The rows of the table after a step that writes at most one of them.     *)
LEMMA RowsStay ==
  ASSUME EvidenceShape, Grows, EvidenceShape', \A id \in DOMAIN table : RowOK(id, table[id]),
         NEW j \in Jobs, NEW k \in {"job", "queue"}, NEW row,
         UNCHANGED table \/ (Save(j, k, row) /\ RowOK(<<j, k>>, row)')
  PROVE  (\A id \in DOMAIN table : RowOK(id, table[id]))'
<1> SUFFICES ASSUME NEW id \in DOMAIN table' PROVE RowOK(id, table[id])'
  OBVIOUS
<1>1. PICK x : x = table'[id]
  OBVIOUS
<1>2. RowOK(id, x)'
  <2>1. CASE UNCHANGED table
    <3>1. id \in DOMAIN table /\ x = table[id] /\ id \in Jobs \X {"job", "queue"}
      BY <1>1, <2>1 DEF EvidenceShape
    <3> QED BY <3>1, RowStays
  <2>2. CASE Save(j, k, row) /\ RowOK(<<j, k>>, row)'
    <3>1. CASE id = <<j, k>>
      BY <1>1, <2>2, <3>1, SaveFacts
    <3>2. CASE id # <<j, k>>
      <4>1. id \in DOMAIN table /\ x = table[id] /\ id \in Jobs \X {"job", "queue"}
        <5>1. /\ DOMAIN table' = DOMAIN table \cup {<<j, k>>}
              /\ \A i \in DOMAIN table : i # <<j, k>> => table'[i] = table[i]
          BY <2>2, SaveFacts
        <5> QED BY <1>1, <3>2, <5>1 DEF EvidenceShape
      <4> QED BY <4>1, RowStays
    <3> QED BY <3>1, <3>2
  <2> QED BY <2>1, <2>2
<1> QED BY <1>1, <1>2 DEF RowOK, ReportOK, Filed, Standing, HasAttestation

LEMMA ReportsStay ==
  ASSUME EvidenceShape, Grows, EvidenceShape', \A i \in DOMAIN report : ReportOK(i, report[i]),
         NEW j \in Jobs, NEW x,
         \A i \in DOMAIN report' : \/ i \in DOMAIN report /\ report'[i] = report[i]
                                   \/ i = j /\ report'[i] = x /\ ReportOK(j, x)'
  PROVE  (\A i \in DOMAIN report : ReportOK(i, report[i]))'
<1> SUFFICES ASSUME NEW i \in DOMAIN report' PROVE ReportOK(i, report[i])'
  OBVIOUS
<1>1. PICK r : r = report'[i]
  OBVIOUS
<1>2. CASE i \in DOMAIN report /\ report'[i] = report[i]
  <2>1. ReportOK(i, r) /\ i \in Jobs
    BY <1>1, <1>2 DEF EvidenceShape
  <2>2. ReportOK(i, r)'
    BY <2>1, ReportStays
  <2> QED BY <1>1, <2>2 DEF ReportOK, Filed, Standing, HasAttestation
<1>3. CASE i = j /\ report'[i] = x /\ ReportOK(j, x)'
  BY <1>3 DEF ReportOK, Filed, Standing, HasAttestation
<1> QED BY <1>2, <1>3

DecidedAt(j) ==
  status[j] = "decided" =>
    /\ jpc[j] = "judged" => j \in DOMAIN report /\ report[j].validity = "valid"
    /\ jpc[j] \in {"saved", "ended"} => <<j, "job">> \in DOMAIN table /\ Trusted(<<j, "job">>)

LEMMA TrustedStays ==
  ASSUME Grows, NEW id \in DOMAIN table, Trusted(id), id \in DOMAIN table', table'[id] = table[id]
  PROVE  Trusted(id)'
<1>1. PICK row : row = table[id]
  OBVIOUS
<1>2. VerifyReport(row.report, row)'
  BY <1>1, VerifiedStays DEF Trusted
<1> QED BY <1>1, <1>2 DEF Trusted, VerifyReport, HasAttestation

(* A job that a step leaves alone.                                         *)
LEMMA DecidedStays ==
  ASSUME Grows, NEW i \in Jobs, DecidedAt(i),
         \/ jpc'[i] = jpc[i] \/ jpc'[i] \notin {"judged", "saved", "ended"}
         \/ jpc[i] = "saved" /\ jpc'[i] = "ended",
         status'[i] = status[i],
         i \in DOMAIN report /\ jpc'[i] = "judged" => i \in DOMAIN report' /\ report'[i] = report[i],
         <<i, "job">> \in DOMAIN table =>
           <<i, "job">> \in DOMAIN table' /\ table'[<<i, "job">>] = table[<<i, "job">>]
  PROVE  DecidedAt(i)'
<1>1. ASSUME <<i, "job">> \in DOMAIN table, Trusted(<<i, "job">>) PROVE Trusted(<<i, "job">>)'
  BY <1>1, TrustedStays
<1> QED BY <1>1 DEF DecidedAt

-----------------------------------------------------------------------------
(* The first state.                                                        *)

LEMMA EvidenceFirst == EvidenceInit => EvidenceInv
<1> SUFFICES ASSUME EvidenceInit PROVE EvidenceInv
  OBVIOUS
<1>1. EvidenceShape
  <2>1. /\ scene \in DOMAIN Scenes /\ Scenes[scene].restarts \in Nat
        /\ server \in [release : 1..1 + Scenes[scene].restarts, drift : BOOLEAN, bound : BOOLEAN]
    BY EvidenceAssumption DEF EvidenceInit
  <2> QED BY <2>1 DEF EvidenceInit, EvidenceShape, QueueStates, Optional, JobSteps, Statuses, Standings
<1>2. DOMAIN report = {} /\ DOMAIN table = {}
  BY DEF EvidenceInit
<1>3. \A j \in Jobs : plan[j] = NoValue /\ jpc[j] = "idle" /\ status[j] = NoValue
  BY DEF EvidenceInit
<1>4. PlansOK
  BY <1>2, <1>3 DEF PlansOK
<1>5. ReportsOK
  BY <1>2 DEF ReportsOK
<1>6. DecidedOK
  BY <1>3, EvidenceAssumption DEF DecidedOK
<1> QED BY <1>1, <1>4, <1>5, <1>6 DEF EvidenceInv

-----------------------------------------------------------------------------
(* The shape of the variables and what grows, step by step.                *)

LEMMA CurrentRelease ==
  ASSUME EvidenceShape
  PROVE  /\ server.release \in DOMAIN Releases /\ server.release \in Nat /\ server.release \in 1..server.release
         /\ Release \in Protocols /\ Release # NoValue
         /\ registered \subseteq Protocols /\ NoValue \notin registered
         /\ {Releases[i] : i \in 1..server.release} \subseteq Protocols
<1>1. /\ Scenes[scene].restarts \in Nat /\ 1 + Scenes[scene].restarts <= Len(Releases)
      /\ Len(Releases) \in Nat /\ DOMAIN Releases = 1..Len(Releases)
  BY EvidenceAssumption DEF EvidenceShape
<1>2. server.release \in 1..Len(Releases)
  BY <1>1 DEF EvidenceShape
<1>3. NoValue \notin Protocols
  BY EvidenceAssumption DEF Protocols
<1>4. {Releases[i] : i \in 1..server.release} \subseteq Protocols
  BY <1>1, <1>2 DEF Protocols
<1> QED BY <1>1, <1>2, <1>3, <1>4 DEF Release, Protocols, EvidenceShape

LEMMA BuildShape ==
  ASSUME EvidenceShape, NEW j \in Jobs, Build(j)
  PROVE  /\ server' = [server EXCEPT !.bound = TRUE] /\ registered' \subseteq {Releases[i] : i \in 1..server.release}
         /\ jpc' \in [Jobs -> JobSteps] /\ launches' \in [Jobs -> Nat]
         /\ DOMAIN report' \subseteq Jobs
         /\ \A i \in Jobs : launches[i] <= launches'[i]
<1>1. Release \in {Releases[i] : i \in 1..server.release}
  BY CurrentRelease DEF Release
<1> QED BY <1>1 DEF EvidenceShape, Build, FreezeProtocol, JobSteps

(* What a job reports is what its cells make, under its plan, attested     *)
(* before it is published.                                                 *)
LEMMA MadeReport ==
  ASSUME EvidenceShape, NEW j \in Jobs, launches[j] > 0, plan[j] = Release, MakeReport(j), Intact
  PROVE  \E d, x :
           /\ IsReport(d) /\ FiledUnder(j, plan[j], rows[j], launches[j], x)
           /\ x = Tagged(<<j, launches[j]>>, rows[j], d)
           /\ report' = Put(report, j, x)
           /\ ledger' = ledger \cup {[token |-> <<j, launches[j]>>, payload |-> d]}
<1> DEFINE of == Inputs(j)
           token == <<j, launches[j]>>
<1>1. PICK lower \in Lowers(Phase[j], rows[j]), p \in Probes,
           input \in [marked : IF Phase[j] = "final" THEN BOOLEAN ELSE {FALSE}, learned : {FALSE}] :
        LET r == Assemble(of, rows[j], lower, p, AuditAblation(input))
        IN /\ Attest(token, r)
           /\ report' = Put(report, j, Put(Published(r, rows[j]), "token", token))
  BY DEF MakeReport
<1> DEFINE audit == AuditAblation(input)
           d == Assemble(of, rows[j], lower, p, audit)
           x == Put(Published(d, rows[j]), "token", token)
<1>2. audit \in BOOLEAN /\ (Phase[j] = "validation" => audit)
  BY DEF AuditAblation
<1>3. of = PlannedInputs(j, plan[j])
  BY DEF Inputs, PlannedInputs
<1>4. IsReport(d)
  <2> HIDE DEF of, audit
  <2> QED BY DraftFields
<1>5. launches[j] \in 1..launches[j]
  BY DEF EvidenceShape
<1>6. x = Tagged(token, rows[j], d)
  BY DEF Tagged
<1>7. FiledUnder(j, plan[j], rows[j], launches[j], x)
  <2>1. d = Draft(j, plan[j], rows[j], lower, p, audit)
    BY <1>3 DEF Draft
  <2> HIDE DEF d, x, audit
  <2> QED BY <1>2, <1>5, <1>6, <2>1 DEF FiledUnder
<1>8. report' = Put(report, j, x) /\ ledger' = ledger \cup {[token |-> token, payload |-> d]}
  BY <1>1 DEF Attest
<1> QED BY <1>4, <1>6, <1>7, <1>8

LEMMA ShapeStep ==
  ASSUME EvidenceShape, PlansOK, EvidenceNext
  PROVE  EvidenceShape' /\ Grows
<1> USE DEF Optional
<1>1. ASSUME NEW j \in Jobs, Queue(j) PROVE EvidenceShape' /\ Grows
  <2>1. /\ cand' \in [Candidates -> Standings]
        /\ queue' \in [Jobs -> [state : QueueStates, protocol : Optional(Protocols)]]
    BY <1>1, CurrentRelease DEF EvidenceShape, Queue, Standings, QueueStates
  <2>2. queue[j].state = "none" /\ \A i \in Jobs : i # j => queue'[i] = queue[i]
    BY <1>1 DEF EvidenceShape, Queue
  <2> QED BY <1>1, <2>1, <2>2 DEF EvidenceShape, Grows, Queue, runVars
<1>2. ASSUME NEW j \in Jobs, LaunchJob(j) PROVE EvidenceShape' /\ Grows
  <2>1. /\ queue' \in [Jobs -> [state : QueueStates, protocol : Optional(Protocols)]]
        /\ \A i \in Jobs : queue[i].state # "none" =>
             queue'[i].state # "none" /\ queue'[i].protocol = queue[i].protocol
    <3>1. queue' = queue \/ queue' = [queue EXCEPT ![j].state = "running"]
      BY <1>2 DEF LaunchJob
    <3>2. queue \in [Jobs -> [state : QueueStates, protocol : Optional(Protocols)]]
      BY DEF EvidenceShape
    <3> QED BY <3>1, <3>2 DEF QueueStates
  <2>2. /\ server' = [server EXCEPT !.bound = TRUE] /\ registered' \subseteq {Releases[i] : i \in 1..server.release}
        /\ jpc' \in [Jobs -> JobSteps] /\ launches' \in [Jobs -> Nat]
        /\ DOMAIN report' \subseteq Jobs
        /\ \A i \in Jobs : launches[i] <= launches'[i]
    BY <1>2, BuildShape DEF LaunchJob
  <2>3. /\ UNCHANGED <<scene, rows, status, plan, cand, activeBundle, ledger, table>>
        /\ registered \subseteq registered'
    BY <1>2 DEF LaunchJob, Build, FreezeProtocol, evidenceVars
  <2>4. server' \in [release : 1..1 + Scenes[scene].restarts, drift : BOOLEAN, bound : BOOLEAN]
        /\ server'.release = server.release
    BY <2>2 DEF EvidenceShape
  <2> QED BY <2>1, <2>2, <2>3, <2>4 DEF EvidenceShape, Grows
<1>3. ASSUME NEW j \in Jobs, Collect(j) PROVE EvidenceShape' /\ Grows
  <2>1. /\ jpc' \in [Jobs -> JobSteps] /\ status' \in [Jobs -> Optional(Statuses)]
        /\ plan' \in [Jobs -> Optional(Protocols)] /\ rows' = [i \in Jobs |-> rows'[i]]
    <3>1. jpc' \in [Jobs -> JobSteps] /\ status' \in [Jobs -> Optional(Statuses)]
      BY <1>3 DEF Collect, End, EvidenceShape, JobSteps, Statuses
    <3>2. plan' \in [Jobs -> Optional(Protocols)]
      BY <1>3, CurrentRelease DEF Collect, EvidenceShape
    <3>3. UNCHANGED rows \/ \E p : rows' = [rows EXCEPT ![j] = p]
      BY <1>3 DEF Collect
    <3>4. rows = [i \in Jobs |-> rows[i]]
      BY DEF EvidenceShape
    <3> QED BY <3>1, <3>2, <3>3, <3>4
  <2>2. \A i \in Jobs : plan[i] # NoValue => plan'[i] = plan[i] /\ rows'[i] = rows[i]
    BY <1>3 DEF Collect, End, EvidenceShape
  <2> QED BY <1>3, <2>1, <2>2 DEF EvidenceShape, Grows, Collect, evidenceVars
<1>4. ASSUME NEW j \in Jobs, MakeReport(j) PROVE EvidenceShape' /\ Grows
  <2>1. jpc' \in [Jobs -> JobSteps] /\ status' \in [Jobs -> Optional(Statuses)]
    BY <1>4 DEF MakeReport, End, EvidenceShape, JobSteps, Statuses
  <2>2. /\ DOMAIN report' \subseteq Jobs /\ ledger \subseteq ledger'
        /\ \A e \in ledger' : "token" \notin DOMAIN e.payload
    <3>1. CASE Intact
      <4>1. launches[j] > 0 /\ plan[j] = Release
        BY <1>4 DEF MakeReport, PlansOK
      <4>2. PICK d, x : /\ IsReport(d) /\ report' = Put(report, j, x)
                        /\ ledger' = ledger \cup {[token |-> <<j, launches[j]>>, payload |-> d]}
        BY <1>4, <3>1, <4>1, MadeReport
      <4>3. "token" \notin DOMAIN d
        BY <4>2 DEF IsReport, Fields
      <4>4. DOMAIN report' = DOMAIN report \cup {j}
        BY <4>2 DEF Put
      <4> QED BY <4>2, <4>3, <4>4 DEF EvidenceShape
    <3>2. CASE ~Intact
      BY <1>4, <3>2 DEF MakeReport, EvidenceShape
    <3> QED BY <3>1, <3>2
  <2> QED BY <1>4, <2>1, <2>2 DEF EvidenceShape, Grows, MakeReport
<1>5. ASSUME NEW j \in Jobs, Judge(j) PROVE EvidenceShape' /\ Grows
  <2>1. /\ UNCHANGED <<scene, server, registered, queue, rows, report, launches, plan, ledger>>
        /\ \/ Promote(j)
           \/ \E s \in Statuses : End(j, s) /\ UNCHANGED <<cand, activeBundle, table>>
    BY <1>5 DEF Judge, Refused, Statuses
  <2>2. /\ jpc' \in [Jobs -> JobSteps] /\ status' \in [Jobs -> Optional(Statuses)]
        /\ cand' \in [Candidates -> Standings] /\ activeBundle' \in {Genesis} \cup Candidates
        /\ DOMAIN table' \subseteq Jobs \X {"job", "queue"}
    <3>1. Bundle[j] \in Candidates
      BY DEF Candidates
    <3>2. CASE Promote(j)
      <4>1. End(j, "failed") \/ End(j, "decided")
        BY <3>2 DEF Promote, Refused
      <4>2. cand' \in [Candidates -> Standings] /\ activeBundle' \in {Genesis} \cup Candidates
        BY <3>1, <3>2 DEF Promote, Refused, Standings, EvidenceShape
      <4>3. UNCHANGED table \/ Save(j, "job", ManagerRow(report[j]))
        BY <3>2 DEF Promote, Refused
      <4>4. DOMAIN table' \subseteq Jobs \X {"job", "queue"}
        BY <4>3 DEF Save, Put, EvidenceShape
      <4> QED BY <4>1, <4>2, <4>4 DEF End, EvidenceShape, JobSteps, Statuses
    <3>3. CASE \E s \in Statuses : End(j, s) /\ UNCHANGED <<cand, activeBundle, table>>
      BY <3>3 DEF End, EvidenceShape, JobSteps
    <3> QED BY <2>1, <3>2, <3>3
  <2> QED BY <2>1, <2>2 DEF EvidenceShape, Grows
<1>6. ASSUME NEW j \in Jobs, SaveJob(j) PROVE EvidenceShape' /\ Grows
  <2>1. /\ UNCHANGED <<scene, server, registered, queue, rows, report, status, launches, plan, cand, activeBundle, ledger>>
        /\ jpc' \in [Jobs -> JobSteps] /\ (UNCHANGED table \/ \E row : Save(j, "job", row))
    BY <1>6 DEF SaveJob, EvidenceShape, JobSteps
  <2>2. DOMAIN table' \subseteq Jobs \X {"job", "queue"}
    BY <2>1 DEF Save, Put, EvidenceShape
  <2> QED BY <2>1, <2>2 DEF EvidenceShape, Grows
<1>7. ASSUME NEW j \in Jobs, Mirror(j) PROVE EvidenceShape' /\ Grows
  <2>1. /\ UNCHANGED <<scene, server, registered, rows, report, status, launches, plan, cand, activeBundle, ledger>>
        /\ UNCHANGED table \/ \E row : Save(j, "queue", row)
    BY <1>7 DEF Mirror
  <2>2. DOMAIN table' \subseteq Jobs \X {"job", "queue"}
    BY <2>1 DEF Save, Put, EvidenceShape
  <2>3. /\ jpc' \in [Jobs -> JobSteps]
        /\ queue' \in [Jobs -> [state : QueueStates, protocol : Optional(Protocols)]]
        /\ \A i \in Jobs : queue'[i].protocol = queue[i].protocol /\ (queue[i].state # "none" => queue'[i].state # "none")
    BY <1>7 DEF Mirror, EvidenceShape, JobSteps, QueueStates
  <2> QED BY <2>1, <2>2, <2>3 DEF EvidenceShape, Grows
<1>8. ASSUME Drift PROVE EvidenceShape' /\ Grows
  <2>1. /\ server' \in [release : 1..1 + Scenes[scene].restarts, drift : BOOLEAN, bound : BOOLEAN]
        /\ server'.release = server.release
    BY <1>8 DEF Drift, EvidenceShape
  <2>2. UNCHANGED <<scene, registered, queue, runVars, evidenceVars>>
    BY <1>8 DEF Drift
  <2> QED BY <2>1, <2>2 DEF EvidenceShape, Grows, runVars, evidenceVars
<1>9. ASSUME Redeploy PROVE EvidenceShape' /\ Grows
  <2>1. /\ UNCHANGED <<scene, registered, queue, rows, launches, plan, cand, activeBundle, ledger, table>>
        /\ jpc' \in [Jobs -> JobSteps] /\ status' \in [Jobs -> Optional(Statuses)]
        /\ DOMAIN report' = {}
    BY <1>9 DEF Redeploy, EvidenceShape, evidenceVars, JobSteps
  <2>2. PICK n \in server.release + 1 .. 1 + Scenes[scene].restarts :
          server' = [release |-> n, drift |-> FALSE, bound |-> FALSE]
    BY <1>9 DEF Redeploy
  <2>3. /\ Scenes[scene].restarts \in Nat /\ server.release \in 1..1 + Scenes[scene].restarts
    BY EvidenceAssumption DEF EvidenceShape
  <2>4. /\ n \in 1..1 + Scenes[scene].restarts /\ server.release < n /\ server'.release = n
        /\ server' \in [release : 1..1 + Scenes[scene].restarts, drift : BOOLEAN, bound : BOOLEAN]
    BY <2>2, <2>3
  <2>5. registered \subseteq {Releases[i] : i \in 1..n}
    <3>1. 1..server.release \subseteq 1..n
      BY <2>3, <2>4
    <3> QED BY <3>1 DEF EvidenceShape
  <2> QED BY <2>1, <2>4, <2>5 DEF EvidenceShape, Grows
<1> QED BY <1>1, <1>2, <1>3, <1>4, <1>5, <1>6, <1>7, <1>8, <1>9 DEF EvidenceNext, JobStep

-----------------------------------------------------------------------------
(* The plans of the jobs, step by step.                                    *)

LEMMA PlansStep ==
  ASSUME EvidenceShape, PlansOK, EvidenceShape', EvidenceNext
  PROVE  PlansOK'
<1> DEFINE PlanAt(i) ==
             /\ plan[i] # NoValue => plan[i] \in registered /\ IsPanel(rows[i])
             /\ jpc[i] \notin {"idle", "ended"} =>
                  i \in Played /\ Release \in registered /\ server.bound /\ launches[i] > 0
             /\ jpc[i] \in {"measured", "reported"} => plan[i] = Release
             /\ jpc[i] \in {"idle", "built", "measured"} => i \notin DOMAIN report
             /\ jpc[i] = "reported" => i \in DOMAIN report
<1> SUFFICES ASSUME NEW i \in Jobs PROVE PlanAt(i)'
  BY DEF PlansOK
<1>1. PlanAt(i)
  BY DEF PlansOK
<1>2. ASSUME NEW j \in Jobs, Queue(j) PROVE PlanAt(i)'
  BY <1>1, <1>2 DEF Queue, runVars, Release, Played
<1>3. ASSUME NEW j \in Jobs, LaunchJob(j) PROVE PlanAt(i)'
  <2>1. /\ registered' = registered \cup {Release} /\ server' = [server EXCEPT !.bound = TRUE]
        /\ jpc' = [jpc EXCEPT ![j] = "built"] /\ report' = [k \in DOMAIN report \ {j} |-> report[k]]
        /\ launches' = [launches EXCEPT ![j] = @ + 1] /\ UNCHANGED <<plan, rows>>
        /\ j \in Played /\ Played' = Played
    BY <1>3 DEF LaunchJob, Build, FreezeProtocol, Played
  <2>2. /\ server'.bound = TRUE /\ Release' = Release
        /\ launches'[j] > 0 /\ \A k \in Jobs \ {j} : launches'[k] = launches[k] /\ jpc'[k] = jpc[k]
        /\ jpc'[j] = "built"
    BY <2>1 DEF EvidenceShape, Release
  <2>3. DOMAIN report' = DOMAIN report \ {j}
    BY <2>1
  <2>4. CASE i = j
    BY <1>1, <2>1, <2>2, <2>3, <2>4
  <2>5. CASE i # j
    BY <1>1, <2>1, <2>2, <2>3, <2>5
  <2> QED BY <2>4, <2>5
<1>4. ASSUME NEW j \in Jobs, Collect(j) PROVE PlanAt(i)'
  <2>1. /\ UNCHANGED <<server, registered, report, launches>> /\ Release' = Release /\ jpc[j] = "built"
        /\ \A k \in Jobs \ {j} : plan'[k] = plan[k] /\ jpc'[k] = jpc[k] /\ rows'[k] = rows[k]
        /\ j \in Played /\ Played' = Played
    <3>1. UNCHANGED <<scene, server, registered, report, launches>> /\ jpc[j] = "built"
      BY <1>4 DEF Collect
    <3>2. \A k \in Jobs \ {j} : plan'[k] = plan[k] /\ jpc'[k] = jpc[k] /\ rows'[k] = rows[k]
      BY <1>4 DEF Collect, End, EvidenceShape
    <3>3. j \in Played
      BY <3>1 DEF PlansOK
    <3> QED BY <3>1, <3>2, <3>3 DEF Release, Played
  <2>2. \/ jpc'[j] = "judged" /\ plan'[j] = plan[j] /\ rows'[j] = rows[j]
        \/ jpc'[j] = "measured" /\ plan'[j] = Release /\ IsPanel(rows'[j])
    <3>1. CASE plan[j] \notin {NoValue, Release}
      BY <1>4, <3>1 DEF Collect, End, EvidenceShape
    <3>2. CASE plan[j] = NoValue
      <4>1. jpc'[j] = "measured" /\ plan'[j] = Release /\ rows'[j] \in Scenes[scene].panels[j]
        BY <1>4, <3>2 DEF Collect, EvidenceShape
      <4>2. j \in DOMAIN Scenes[scene].panels /\ scene \in DOMAIN Scenes
        BY <2>1 DEF Played, EvidenceShape
      <4>3. \A panel \in Scenes[scene].panels[j] : IsPanel(panel)
        BY <4>2, EvidenceAssumption
      <4> QED BY <4>1, <4>3
    <3>3. CASE plan[j] = Release /\ plan[j] # NoValue
      <4>1. jpc'[j] = "measured" /\ plan'[j] = Release /\ rows'[j] = rows[j]
        BY <1>4, <3>3 DEF Collect, EvidenceShape
      <4> QED BY <3>3, <4>1 DEF PlansOK
    <3> QED BY <3>1, <3>2, <3>3
  <2>3. CASE i = j
    BY <1>1, <2>1, <2>2, <2>3
  <2>4. CASE i # j
    BY <1>1, <2>1, <2>4
  <2> QED BY <2>3, <2>4
<1>5. ASSUME NEW j \in Jobs, MakeReport(j) PROVE PlanAt(i)'
  <2>1. /\ UNCHANGED <<server, registered, launches, plan, rows>> /\ Release' = Release /\ Played' = Played
        /\ jpc[j] = "measured" /\ \A k \in Jobs \ {j} : jpc'[k] = jpc[k]
    BY <1>5 DEF MakeReport, End, EvidenceShape, Release, Played
  <2>2. \/ jpc'[j] = "judged" /\ UNCHANGED report
        \/ jpc'[j] = "reported" /\ DOMAIN report' = DOMAIN report \cup {j}
    BY <1>5 DEF MakeReport, End, EvidenceShape, Put
  <2>3. CASE i = j
    BY <1>1, <2>1, <2>2, <2>3
  <2>4. CASE i # j
    BY <1>1, <2>1, <2>2, <2>4
  <2> QED BY <2>3, <2>4
<1>6. ASSUME NEW j \in Jobs, Judge(j) \/ SaveJob(j) \/ Mirror(j) PROVE PlanAt(i)'
  <2>1. UNCHANGED <<server, registered, launches, plan, rows, report>> /\ Release' = Release /\ Played' = Played
    BY <1>6 DEF Judge, SaveJob, Mirror, Release, Played
  <2>2. /\ jpc[j] \in {"reported", "judged", "saved"}
        /\ \E s \in {"judged", "saved", "ended"} : jpc' = [jpc EXCEPT ![j] = s]
    BY <1>6 DEF Judge, SaveJob, Mirror, Promote, Refused, End
  <2>3. jpc'[j] \in {"judged", "saved", "ended"} /\ \A k \in Jobs \ {j} : jpc'[k] = jpc[k]
    BY <2>2 DEF EvidenceShape
  <2>4. CASE i = j
    BY <1>1, <2>1, <2>2, <2>3, <2>4
  <2>5. CASE i # j
    BY <1>1, <2>1, <2>3, <2>5
  <2> QED BY <2>4, <2>5
<1>7. CASE Drift
  <2>1. /\ UNCHANGED <<registered, launches, plan, rows, report, jpc>> /\ Release' = Release /\ Played' = Played
        /\ server'.bound = server.bound
    BY <1>7 DEF Drift, runVars, Release, EvidenceShape, Played
  <2> QED BY <1>1, <2>1
<1>8. CASE Redeploy
  <2>1. UNCHANGED <<registered, plan, rows>> /\ jpc'[i] \in {"idle", "ended"} /\ DOMAIN report' = {}
    BY <1>8 DEF Redeploy
  <2> QED BY <1>1, <2>1
<1> QED BY <1>2, <1>3, <1>4, <1>5, <1>6, <1>7, <1>8 DEF EvidenceNext, JobStep

-----------------------------------------------------------------------------
(* The reports and the rows of the table, step by step.                    *)

LEMMA ReportedStep ==
  ASSUME EvidenceInv, EvidenceShape', Grows, EvidenceNext
  PROVE  (\A i \in DOMAIN report : ReportOK(i, report[i]))'
<1> USE DEF EvidenceInv
<1>1. \A i \in DOMAIN report : ReportOK(i, report[i])
  BY DEF ReportsOK
<1>2. ASSUME NEW j \in Jobs, MakeReport(j), Intact PROVE (\A i \in DOMAIN report : ReportOK(i, report[i]))'
  <2>1. launches[j] > 0 /\ plan[j] = Release /\ plan[j] # NoValue
    BY <1>2, CurrentRelease DEF MakeReport, PlansOK
  <2> DEFINE token == <<j, launches[j]>>
  <2>2. PICK d, x :
           /\ IsReport(d) /\ FiledUnder(j, plan[j], rows[j], launches[j], x)
           /\ x = Tagged(token, rows[j], d)
           /\ report' = Put(report, j, x)
           /\ ledger' = ledger \cup {[token |-> token, payload |-> d]}
    BY <1>2, <2>1, MadeReport
  <2>3. x.token = token /\ (x.validity = "valid" => Attested(x) = d)
    <3> HIDE DEF token
    <3> QED BY <2>2, PublishedFields DEF Tagged
  <2>4. x.validity = "valid" => [token |-> x.token, payload |-> Attested(x)] \in ledger'
    BY <2>2, <2>3
  <2>5. UNCHANGED <<plan, rows, launches>>
    BY <1>2 DEF MakeReport
  <2>6. ReportOK(j, x)'
    BY <2>1, <2>2, <2>4, <2>5 DEF ReportOK, Filed, Standing, HasAttestation
  <2>7. \A i \in DOMAIN report' : \/ i \in DOMAIN report /\ report'[i] = report[i]
                                  \/ i = j /\ report'[i] = x
    BY <2>2 DEF Put
  <2> QED BY <1>1, <2>6, <2>7, ReportsStay
<1>3. ASSUME \A i \in DOMAIN report' : i \in DOMAIN report /\ report'[i] = report[i]
      PROVE  (\A i \in DOMAIN report : ReportOK(i, report[i]))'
  <2>1. CASE Jobs = {}
    BY <2>1 DEF EvidenceShape
  <2>2. CASE Jobs # {}
    BY <1>1, <1>3, <2>2, ReportsStay
  <2> QED BY <2>1, <2>2
<1>4. ASSUME NEW j \in Jobs, JobStep(j), ~(MakeReport(j) /\ Intact)
      PROVE  \A i \in DOMAIN report' : i \in DOMAIN report /\ report'[i] = report[i]
  BY <1>4 DEF JobStep, Queue, LaunchJob, Build, Collect, MakeReport, Judge, SaveJob, Mirror, runVars
<1>5. ASSUME Drift \/ Redeploy
      PROVE  \A i \in DOMAIN report' : i \in DOMAIN report /\ report'[i] = report[i]
  BY <1>5 DEF Drift, Redeploy, runVars
<1> QED BY <1>2, <1>3, <1>4, <1>5 DEF EvidenceNext

LEMMA OwnReport ==
  ASSUME EvidenceInv, NEW j \in DOMAIN report
  PROVE  /\ j \in Jobs /\ ReportOK(j, report[j])
         /\ report[j].candidate = Bundle[j] /\ report[j].base = Base(j) /\ report[j].protocol = plan[j]
<1>1. j \in Jobs /\ ReportOK(j, report[j])
  BY DEF EvidenceInv, EvidenceShape, ReportsOK
<1>2. Filed(j, report[j])
  BY <1>1 DEF ReportOK
<1> QED BY <1>1, <1>2, FiledFacts DEF Base

LEMMA RowsStep ==
  ASSUME EvidenceInv, EvidenceShape', Grows, EvidenceNext
  PROVE  (\A id \in DOMAIN table : RowOK(id, table[id]))'
<1> USE DEF EvidenceInv
<1>1. \A id \in DOMAIN table : RowOK(id, table[id])
  BY DEF ReportsOK
<1>2. ASSUME NEW j \in DOMAIN report, NEW k \in {"job", "queue"}, NEW row, Save(j, k, row),
             row.report = report[j], row.candidate = Bundle[j], row.base = Base(j),
             k = "job" => row.protocol = plan[j] /\ row.phase \in {Phase[j], "frozen-partition"},
             k = "queue" => queue'[j].state # "none" /\ row.protocol = queue'[j].protocol /\ row.phase = "validation"
      PROVE  (\A id \in DOMAIN table : RowOK(id, table[id]))'
  <2>1. j \in Jobs /\ ReportOK(j, row.report)
    BY <1>2, OwnReport
  <2>2. ReportOK(j, row.report)'
    BY <2>1, ReportStays
  <2>3. plan'[j] = plan[j]
    BY <2>1 DEF ReportOK, Grows
  <2>4. RowOK(<<j, k>>, row)'
    BY <1>2, <2>2, <2>3 DEF RowOK, Base
  <2> QED BY <1>1, <1>2, <2>1, <2>4, RowsStay
<1>3. ASSUME UNCHANGED table PROVE (\A id \in DOMAIN table : RowOK(id, table[id]))'
  <2> SUFFICES ASSUME NEW id \in DOMAIN table' PROVE RowOK(id, table[id])'
    OBVIOUS
  <2>1. PICK x : x = table[id]
    OBVIOUS
  <2>2. id \in Jobs \X {"job", "queue"} /\ RowOK(id, x)
    BY <1>1, <1>3, <2>1 DEF EvidenceShape
  <2>3. RowOK(id, x)'
    BY <2>2, RowStays
  <2> QED BY <1>3, <2>1, <2>3 DEF RowOK, ReportOK, Filed, Standing, HasAttestation
<1>4. ASSUME NEW j \in Jobs, Judge(j) PROVE (\A id \in DOMAIN table : RowOK(id, table[id]))'
  <2>1. j \in DOMAIN report
    BY <1>4 DEF Judge, PlansOK
  <2>2. UNCHANGED table \/ Save(j, "job", ManagerRow(report[j]))
    BY <1>4 DEF Judge, Promote, Refused
  <2>3. CASE Save(j, "job", ManagerRow(report[j]))
    <3> DEFINE row == ManagerRow(report[j])
    <3>1. /\ row.report = report[j] /\ row.candidate = Bundle[j] /\ row.base = Base(j)
          /\ row.protocol = plan[j] /\ row.phase = "frozen-partition"
      BY <2>1, OwnReport DEF ManagerRow
    <3> HIDE DEF row
    <3> QED BY <1>2, <2>1, <2>3, <3>1 DEF row
  <2> QED BY <1>3, <2>2, <2>3
<1>5. ASSUME NEW j \in Jobs, SaveJob(j) PROVE (\A id \in DOMAIN table : RowOK(id, table[id]))'
  <2>1. CASE j \notin DOMAIN report
    BY <1>3, <1>5, <2>1 DEF SaveJob
  <2>2. CASE j \in DOMAIN report
    <3> DEFINE row == [candidate |-> report[j].candidate, base |-> report[j].base,
                       protocol |-> report[j].protocol, phase |-> Phase[j], report |-> report[j]]
    <3>1. Save(j, "job", row)
      BY <1>5, <2>2 DEF SaveJob
    <3>2. /\ row.report = report[j] /\ row.candidate = Bundle[j] /\ row.base = Base(j)
          /\ row.protocol = plan[j] /\ row.phase = Phase[j]
      BY <2>2, OwnReport
    <3> HIDE DEF row
    <3> QED BY <1>2, <2>2, <3>1, <3>2
  <2> QED BY <2>1, <2>2
<1>6. ASSUME NEW j \in Jobs, Mirror(j) PROVE (\A id \in DOMAIN table : RowOK(id, table[id]))'
  <2>1. CASE j \notin DOMAIN report
    BY <1>3, <1>6, <2>1 DEF Mirror
  <2>2. CASE j \in DOMAIN report
    <3> DEFINE row == [candidate |-> Bundle[j], base |-> Base(j), protocol |-> queue[j].protocol,
                       phase |-> "validation", report |-> report[j]]
    <3>1. Save(j, "queue", row)
      BY <1>6, <2>2 DEF Mirror
    <3>2. /\ row.report = report[j] /\ row.candidate = Bundle[j] /\ row.base = Base(j)
          /\ row.protocol = queue[j].protocol /\ row.phase = "validation"
      OBVIOUS
    <3>3. queue'[j].state # "none" /\ queue'[j].protocol = queue[j].protocol
      BY <1>6 DEF Mirror, EvidenceShape
    <3> HIDE DEF row
    <3> QED BY <1>2, <2>2, <3>1, <3>2, <3>3
  <2> QED BY <2>1, <2>2
<1>7. ASSUME NEW j \in Jobs, Queue(j) \/ LaunchJob(j) \/ Collect(j) \/ MakeReport(j) PROVE UNCHANGED table
  BY <1>7 DEF Queue, LaunchJob, Build, Collect, MakeReport, evidenceVars
<1>8. ASSUME Drift \/ Redeploy PROVE UNCHANGED table
  BY <1>8 DEF Drift, Redeploy, evidenceVars
<1> QED BY <1>3, <1>4, <1>5, <1>6, <1>7, <1>8 DEF EvidenceNext, JobStep

-----------------------------------------------------------------------------
(* What is decided, step by step.                                          *)

(* A valid report verifies against the row of its own job.                 *)
LEMMA OwnRowVerifies ==
  ASSUME EvidenceInv, NEW j \in Jobs, NEW r, ReportOK(j, r), r.validity = "valid",
         NEW row, row.protocol = plan[j], row.candidate = Bundle[j], row.base = Base(j), row.phase = Phase[j]
  PROVE  VerifyReport(r, row)
<1>1. plan[j] \in registered /\ HasAttestation(r)
  BY DEF EvidenceInv, PlansOK, ReportOK, Standing
<1>2. /\ r.comparison = Phase[j] /\ r.candidate = Bundle[j] /\ r.base = Genesis
      /\ r.protocol = plan[j] /\ r.envs = Envs(Phase[j]) /\ DOMAIN r.cases = SafetyCases
  BY FiledFacts DEF ReportOK
<1>3. Phase[j] \in {"validation", "final"}
  BY EvidenceAssumption
<1> QED BY <1>1, <1>2, <1>3 DEF VerifyReport, Base

LEMMA DecidedStep ==
  ASSUME EvidenceInv, EvidenceShape', Grows, EvidenceNext
  PROVE  DecidedOK'
<1> USE DEF EvidenceInv
<1> SUFFICES ASSUME NEW i \in Jobs PROVE DecidedAt(i)'
  BY DEF DecidedOK, DecidedAt, Trusted
<1>1. DecidedAt(i)
  BY DEF DecidedOK, DecidedAt
<1>2. ASSUME NEW j \in Jobs, Queue(j) PROVE DecidedAt(i)'
  BY <1>1, <1>2, DecidedStays DEF Queue, runVars
<1>3. ASSUME NEW j \in Jobs, LaunchJob(j) PROVE DecidedAt(i)'
  <2>1. /\ jpc' = [jpc EXCEPT ![j] = "built"] /\ report' = [k \in DOMAIN report \ {j} |-> report[k]]
        /\ UNCHANGED <<status, table>>
    BY <1>3 DEF LaunchJob, Build, evidenceVars
  <2>2. /\ jpc'[i] = jpc[i] \/ jpc'[i] = "built"
        /\ i \in DOMAIN report /\ jpc'[i] = "judged" => i \in DOMAIN report' /\ report'[i] = report[i]
    BY <2>1 DEF EvidenceShape
  <2> QED BY <1>1, <2>1, <2>2, DecidedStays
<1>4. ASSUME NEW j \in Jobs, Collect(j) PROVE DecidedAt(i)'
  <2>1. UNCHANGED <<report, table>>
    BY <1>4 DEF Collect, evidenceVars
  <2>2. \/ status'[i] = "failed"
        \/ status'[i] = status[i] /\ (jpc'[i] = jpc[i] \/ jpc'[i] = "measured")
    BY <1>4 DEF Collect, End, EvidenceShape
  <2>3. CASE status'[i] = "failed"
    BY <2>3 DEF DecidedAt
  <2>4. CASE status'[i] = status[i] /\ (jpc'[i] = jpc[i] \/ jpc'[i] = "measured")
    BY <1>1, <2>1, <2>4, DecidedStays
  <2> QED BY <2>2, <2>3, <2>4
<1>5. ASSUME NEW j \in Jobs, MakeReport(j) PROVE DecidedAt(i)'
  <2>1. UNCHANGED table /\ (UNCHANGED report \/ \E x : report' = Put(report, j, x)) /\ jpc[j] = "measured"
    BY <1>5 DEF MakeReport
  <2>2. \/ status'[i] = "failed"
        \/ status'[i] = status[i] /\ jpc'[i] = "reported"
        \/ status'[i] = status[i] /\ jpc'[i] = jpc[i] /\ i # j
    BY <1>5 DEF MakeReport, End, EvidenceShape
  <2>3. CASE status'[i] = "failed"
    BY <2>3 DEF DecidedAt
  <2>4. CASE status'[i] = status[i] /\ jpc'[i] = "reported"
    BY <1>1, <2>1, <2>4, DecidedStays
  <2>5. CASE status'[i] = status[i] /\ jpc'[i] = jpc[i] /\ i # j
    <3>1. i \in DOMAIN report => i \in DOMAIN report' /\ report'[i] = report[i]
      BY <2>1, <2>5 DEF Put
    <3> QED BY <1>1, <2>1, <2>5, <3>1, DecidedStays
  <2> QED BY <2>2, <2>3, <2>4, <2>5
<1>6. ASSUME NEW j \in Jobs, Judge(j) PROVE DecidedAt(i)'
  <2>1. /\ UNCHANGED report /\ j \in DOMAIN report
        /\ UNCHANGED table \/ Save(j, "job", ManagerRow(report[j]))
    BY <1>6 DEF Judge, Promote, Refused, PlansOK
  <2>2. CASE i = j
    <3>1. jpc'[j] = "judged" /\ (status'[j] = "decided" => report[j].validity = "valid")
      BY <1>6 DEF Judge, Promote, Refused, End, EvidenceShape
    <3> QED BY <2>1, <2>2, <3>1 DEF DecidedAt
  <2>3. CASE i # j
    <3>1. jpc'[i] = jpc[i] /\ status'[i] = status[i]
      BY <1>6, <2>3 DEF Judge, Promote, Refused, End, EvidenceShape
    <3>2. <<i, "job">> \in DOMAIN table =>
            <<i, "job">> \in DOMAIN table' /\ table'[<<i, "job">>] = table[<<i, "job">>]
      BY <2>1, <2>3 DEF Save, Put
    <3> QED BY <1>1, <2>1, <3>1, <3>2, DecidedStays
  <2> QED BY <2>2, <2>3
<1>7. ASSUME NEW j \in Jobs, SaveJob(j) PROVE DecidedAt(i)'
  <2> DEFINE row == [candidate |-> report[j].candidate, base |-> report[j].base,
                     protocol |-> report[j].protocol, phase |-> Phase[j], report |-> report[j]]
  <2>1. /\ UNCHANGED <<report, status>> /\ jpc[j] = "judged"
        /\ IF j \notin DOMAIN report THEN UNCHANGED table ELSE Save(j, "job", row)
    BY <1>7 DEF SaveJob
  <2>2. CASE i = j /\ status[j] = "decided"
    <3>1. j \in DOMAIN report /\ report[j].validity = "valid"
      BY <1>1, <2>1, <2>2 DEF DecidedAt
    <3>2. ReportOK(j, report[j]) /\ row.protocol = plan[j] /\ row.candidate = Bundle[j] /\ row.base = Base(j)
          /\ row.phase = Phase[j] /\ row.report = report[j]
      BY <3>1, OwnReport
    <3> HIDE DEF row
    <3>3. PICK y : y = row
      OBVIOUS
    <3>4. VerifyReport(y.report, y)
      BY <3>1, <3>2, <3>3, OwnRowVerifies
    <3>5. VerifyReport(y.report, y)'
      BY <3>4, VerifiedStays
    <3>6. <<j, "job">> \in DOMAIN table' /\ table'[<<j, "job">>] = y
      BY <2>1, <3>1, <3>3 DEF Save, Put
    <3>7. Trusted(<<j, "job">>)'
      BY <3>5, <3>6 DEF Trusted, VerifyReport, HasAttestation
    <3>8. jpc'[j] # "judged"
      BY <1>7 DEF SaveJob, EvidenceShape
    <3> QED BY <2>2, <3>6, <3>7, <3>8 DEF DecidedAt
  <2>3. CASE i # j
    <3>1. jpc'[i] = jpc[i]
      BY <1>7, <2>3 DEF SaveJob, EvidenceShape
    <3>2. <<i, "job">> \in DOMAIN table =>
            <<i, "job">> \in DOMAIN table' /\ table'[<<i, "job">>] = table[<<i, "job">>]
      BY <2>1, <2>3 DEF Save, Put
    <3> QED BY <1>1, <2>1, <3>1, <3>2, DecidedStays
  <2>4. CASE status[i] # "decided"
    BY <2>1, <2>4 DEF DecidedAt
  <2> QED BY <2>2, <2>3, <2>4
<1>8. ASSUME NEW j \in Jobs, Mirror(j) PROVE DecidedAt(i)'
  <2>1. /\ UNCHANGED <<report, status>> /\ (UNCHANGED table \/ \E row : Save(j, "queue", row))
        /\ jpc[j] = "saved"
    BY <1>8 DEF Mirror
  <2>2. jpc'[i] = jpc[i] \/ (jpc[i] = "saved" /\ jpc'[i] = "ended")
    BY <1>8 DEF Mirror, EvidenceShape
  <2>3. <<i, "job">> \in DOMAIN table =>
          <<i, "job">> \in DOMAIN table' /\ table'[<<i, "job">>] = table[<<i, "job">>]
    BY <2>1 DEF Save, Put
  <2> QED BY <1>1, <2>1, <2>2, <2>3, DecidedStays
<1>9. CASE Drift
  BY <1>1, <1>9, DecidedStays DEF Drift, runVars, evidenceVars
<1>10. CASE Redeploy
  <2>1. status'[i] = NoValue
    BY <1>10 DEF Redeploy
  <2> QED BY <2>1, EvidenceAssumption DEF DecidedAt
<1> QED BY <1>2, <1>3, <1>4, <1>5, <1>6, <1>7, <1>8, <1>9, <1>10 DEF EvidenceNext, JobStep

THEOREM EvidenceIsInductive == EvidenceSpec => []EvidenceInv
<1>1. EvidenceInit => EvidenceInv
  BY EvidenceFirst
<1>2. EvidenceInv /\ [EvidenceNext]_promotionVars => EvidenceInv'
  <2> SUFFICES ASSUME EvidenceInv, [EvidenceNext]_promotionVars PROVE EvidenceInv'
    OBVIOUS
  <2>1. CASE EvidenceNext
    <3>1. EvidenceShape' /\ Grows
      BY <2>1, ShapeStep DEF EvidenceInv
    <3>2. PlansOK'
      BY <2>1, <3>1, PlansStep DEF EvidenceInv
    <3>3. ReportsOK'
      BY <2>1, <3>1, ReportedStep, RowsStep DEF ReportsOK
    <3>4. DecidedOK'
      BY <2>1, <3>1, DecidedStep
    <3> QED BY <3>1, <3>2, <3>3, <3>4 DEF EvidenceInv
  <2>2. CASE UNCHANGED promotionVars
    <3>1. UNCHANGED <<scene, server, registered, queue, jpc, rows, report, status, launches, plan, cand, activeBundle, ledger, table>>
      BY <2>2 DEF promotionVars, runVars, evidenceVars
    <3>2. EvidenceShape'
      BY <3>1 DEF EvidenceInv, EvidenceShape
    <3>3. PlansOK'
      BY <3>1 DEF EvidenceInv, PlansOK, Release, Played
    <3>4. ReportsOK'
      BY <3>1 DEF EvidenceInv, ReportsOK, RowOK, ReportOK, Filed, Standing, HasAttestation
    <3>5. DecidedOK'
      BY <3>1 DEF EvidenceInv, DecidedOK, Trusted, VerifyReport, HasAttestation
    <3> QED BY <3>2, <3>3, <3>4, <3>5 DEF EvidenceInv
  <2> QED BY <2>1, <2>2
<1> QED BY <1>1, <1>2, PTL DEF EvidenceSpec

-----------------------------------------------------------------------------
(* TrustIsMeasured.                                                        *)

LEMMA NoFailures ==
  ASSUME NEW phase, NEW panel, Failures(phase, panel) = {}
  PROVE  /\ ~Twice(panel) /\ Cells(panel) \subseteq Panel(phase)
         /\ \A r \in panel : Observed[r.kind].failure = NoValue
<1>1. /\ {Observed[r.kind].failure : r \in panel} \ {NoValue} = {}
      /\ When(Twice(panel) \/ ~(Cells(panel) \subseteq Panel(phase)), "unexpected") = {}
  BY DEF Failures
<1>2. ~(Twice(panel) \/ ~(Cells(panel) \subseteq Panel(phase)))
  BY <1>1 DEF When
<1> QED BY <1>1, <1>2

(* A sound panel whose runs are complete has every cell once and no fault. *)
LEMMA CleanIsMeasured ==
  ASSUME NEW phase, NEW panel, Sound(phase, panel), All(panel, "complete")
  PROVE  Measured(phase, panel)
<1>1. /\ Missing(phase, panel) = {} /\ ~Leak(phase, panel) /\ Failures(phase, panel) = {}
      /\ \A r \in panel : Observed[r.kind].reset /\ Observed[r.kind].complete
  BY DEF Sound, All
<1>2. /\ ~Twice(panel) /\ Cells(panel) \subseteq Panel(phase)
      /\ \A r \in panel : Observed[r.kind].failure = NoValue
  BY <1>1, NoFailures
<1>3. Cells(panel) = Panel(phase)
  BY <1>1, <1>2 DEF Missing
<1>4. Cardinality(panel) = Cardinality(Panel(phase))
  BY <1>2, <1>3 DEF Twice
<1>5. \A r \in panel : Observed[r.kind].home
  BY <1>1 DEF Leak
<1>6. \A r \in panel : ~Fault(r)
  BY <1>1, <1>2, <1>5 DEF Fault
<1> QED BY <1>3, <1>4, <1>6 DEF Measured

LEMMA TrustedAreMeasured ==
  ASSUME EvidenceInv
  PROVE  TrustIsMeasured
<1>1. EvidenceTypeOK
  <2>1. /\ Scenes[scene].restarts \in Nat /\ 1 + Scenes[scene].restarts <= Len(Releases) /\ Len(Releases) \in Nat
    BY EvidenceAssumption DEF EvidenceInv, EvidenceShape
  <2>2. server \in [release : 1..Len(Releases), drift : BOOLEAN, bound : BOOLEAN]
    BY <2>1 DEF EvidenceInv, EvidenceShape
  <2> QED BY <2>2 DEF EvidenceInv, EvidenceShape, EvidenceTypeOK, JobSteps, Statuses, Standings
<1>2. TrustedIsMeasured
  <2> SUFFICES ASSUME NEW id \in DOMAIN table, Trusted(id)
               PROVE  \E j \in Jobs :
                        /\ table[id].candidate = Bundle[j] /\ table[id].base = Base(j)
                        /\ table[id].phase = Phase[j] /\ table[id].protocol = plan[j]
                        /\ Measured(Phase[j], rows[j]) /\ All(rows[j], "real")
    BY DEF TrustedIsMeasured
  <2> DEFINE j == id[1]
             r == table[id].report
  <2>1. j \in Jobs /\ RowOK(id, table[id])
    BY DEF EvidenceInv, EvidenceShape, ReportsOK
  <2>2. Filed(j, r) /\ table[id].candidate = Bundle[j] /\ table[id].base = Base(j)
    BY <2>1 DEF RowOK, ReportOK
  <2>3. /\ r.protocol = table[id].protocol /\ r.comparison = table[id].phase /\ r.validity = "valid"
    BY DEF Trusted, VerifyReport
  <2> HIDE DEF j, r
  <2>4. r.comparison = Phase[j] /\ r.protocol = plan[j] /\ Clean(j)
    BY <2>1, <2>2, <2>3, FiledFacts
  <2>5. Measured(Phase[j], rows[j]) /\ All(rows[j], "real")
    BY <2>4, CleanIsMeasured DEF Clean
  <2> QED BY <2>1, <2>2, <2>3, <2>4, <2>5
<1>3. DecidedIsTrusted
  BY DEF EvidenceInv, DecidedOK, DecidedIsTrusted, Shown
<1> QED BY <1>1, <1>2, <1>3 DEF TrustIsMeasured

(* Whatever the panels, releases, restarts and drifts: what                *)
(* list_evaluations shows as trusted was measured for the bundle, base,    *)
(* phase and protocol of its row on a full, faultless and real panel, and  *)
(* what was decided on is shown as trusted.                                *)
THEOREM TrustIsMeasuredCorrect == EvidenceSpec => []TrustIsMeasured
<1>1. EvidenceInv => TrustIsMeasured
  BY TrustedAreMeasured
<1> QED BY <1>1, EvidenceIsInductive, PTL

-----------------------------------------------------------------------------
(* ChecksAgree.                                                            *)

ArmsOf(phase, panel) == [a \in Arms(phase) |-> Summary(Arm(panel, a))]
CellsOf(phase, panel) == [e \in Envs(phase) |-> [a \in Arms(phase) |-> Summary(In(Arm(panel, a), e))]]
CellsComplete(phase, cells) == \A e \in Envs(phase), a \in Arms(phase) : cells[e][a].count > 0

LEMMA DraftMeasures ==
  ASSUME NEW of, NEW panel, NEW lower, NEW p, NEW audit, NEW d, d = Assemble(of, panel, lower, p, audit)
  PROVE  /\ d.arms = ArmsOf(of.phase, panel) /\ d.cells = CellsOf(of.phase, panel) /\ d.ci = lower
         /\ d.metricCellsComplete = CellsComplete(of.phase, d.cells)
BY DEF Assemble, ArmsOf, CellsOf, CellsComplete, Arm, In

LEMMA FiledMeasures ==
  ASSUME NEW j \in Jobs, NEW r, Filed(j, r)
  PROVE  /\ r.arms = ArmsOf(Phase[j], rows[j]) /\ r.cells = CellsOf(Phase[j], rows[j])
         /\ r.ci \in Lowers(Phase[j], rows[j])
         /\ r.metricCellsComplete = CellsComplete(Phase[j], r.cells)
<1>1. PICK lower \in Lowers(Phase[j], rows[j]), p \in Probes, audit \in BOOLEAN, n \in 1..launches[j] :
        r = Tagged(<<j, n>>, rows[j], Draft(j, plan[j], rows[j], lower, p, audit))
  BY DEF Filed, FiledUnder
<1> DEFINE d == Draft(j, plan[j], rows[j], lower, p, audit)
           of == PlannedInputs(j, plan[j])
<1>2. of.phase = Phase[j]
  BY DEF PlannedInputs
<1>3. d = Assemble(of, rows[j], lower, p, audit) /\ r = Put(Published(d, rows[j]), "token", <<j, n>>)
  BY <1>1 DEF Draft, Tagged
<1> HIDE DEF d, of
<1>4. /\ IsReport(d)
      /\ d.arms = ArmsOf(Phase[j], rows[j]) /\ d.cells = CellsOf(Phase[j], rows[j]) /\ d.ci = lower
      /\ d.metricCellsComplete = CellsComplete(Phase[j], d.cells)
  BY <1>2, <1>3, DraftFields, DraftMeasures
<1>5. \A f \in Fields \ {"validity"} : r[f] = d[f]
  BY <1>3, <1>4, PublishedFields
<1>6. r.arms = d.arms /\ r.cells = d.cells /\ r.ci = d.ci /\ r.metricCellsComplete = d.metricCellsComplete
  BY <1>5 DEF Fields
<1> QED BY <1>4, <1>6

LEMMA ArmParts ==
  ASSUME NEW panel, IsFiniteSet(panel), NEW a, NEW e
  PROVE  /\ IsFiniteSet(Arm(panel, a)) /\ IsFiniteSet(In(Arm(panel, a), e))
         /\ Cardinality(Arm(panel, a)) \in Nat /\ Cardinality(In(Arm(panel, a), e)) \in Nat
         /\ Cardinality(In(Arm(panel, a), e)) <= Cardinality(Arm(panel, a))
<1>1. Arm(panel, a) \in SUBSET panel /\ In(Arm(panel, a), e) \in SUBSET Arm(panel, a)
  BY DEF Arm, In
<1>2. IsFiniteSet(Arm(panel, a))
  BY <1>1, FS_Subset
<1>3. IsFiniteSet(In(Arm(panel, a), e)) /\ Cardinality(In(Arm(panel, a), e)) <= Cardinality(Arm(panel, a))
  BY <1>1, <1>2, FS_Subset
<1> QED BY <1>2, <1>3, FS_CardinalityType

LEMMA SoundCounts ==
  ASSUME NEW phase, NEW panel, Sound(phase, panel)
  PROVE  /\ Cardinality(Missing(phase, panel)) = 0 /\ Cardinality(Unreset(panel)) = 0
         /\ ~Leak(phase, panel) /\ Failures(phase, panel) = {}
<1>1. Unreset(panel) = {}
  BY DEF Sound, All, Unreset
<1> QED BY <1>1, FS_EmptySet DEF Sound

(* The checks between eligibility and the decision never contradict it.    *)
LEMMA EligiblePasses ==
  ASSUME EvidenceInv, NEW j \in Jobs, jpc[j] = "reported", NEW r, r = report[j], Eligible(r)
  PROVE  /\ Phase[j] = "validation" /\ r.validity = "valid" /\ r.missing = 0
         /\ r.base = Genesis
         /\ Intact => RequireEvidence(r)
         /\ ViewReport(r) /\ ValidateReport(r, Bundle[j])
         /\ (Track1 \in registered => plan[j] = Track1) => LoadFrozenGate(r)
<1>1. /\ j \in DOMAIN report /\ plan[j] = Release /\ Release \in registered /\ server.bound
      /\ IsFiniteSet(rows[j])
  BY CurrentRelease DEF EvidenceInv, PlansOK, IsPanel
<1>2. ReportOK(j, r) /\ Filed(j, r)
  BY <1>1, OwnReport DEF ReportOK
<1>3. r.comparison = "validation" /\ Defects(r) = {} /\ r.safetyPassed
  BY DEF Eligible
<1>4. /\ r.comparison = Phase[j] /\ r.candidate = Bundle[j] /\ r.base = Genesis
      /\ r.protocol = plan[j] /\ r.envs = Envs(Phase[j]) /\ DOMAIN r.cases = SafetyCases
      /\ r.validity = "valid" => Clean(j)
      /\ r.missing = Cardinality(Missing(Phase[j], rows[j])) /\ r.leak = Leak(Phase[j], rows[j])
      /\ r.resets = Cardinality(Unreset(rows[j])) /\ r.failures = Failures(Phase[j], rows[j])
  BY <1>2, FiledFacts
<1>5. r.validity = "valid" /\ r.metricCellsComplete /\ r.provenanceComplete
  BY <1>3 DEF Defects, When
<1>6. r.missing = 0 /\ r.resets = 0 /\ ~r.leak /\ r.failures = {}
  BY <1>4, <1>5, SoundCounts DEF Clean
<1>7. HasAttestation(r)
  BY <1>2, <1>5 DEF ReportOK, Standing
<1>8. /\ DOMAIN r.cells = r.envs
      /\ \A e \in r.envs, a \in {"B0", "L"} : r.cells[e][a].count > 0
      /\ r.arms["B0"].count > 0 /\ r.arms["L"].count > 0
  <2>1. /\ r.arms = ArmsOf("validation", rows[j]) /\ r.cells = CellsOf("validation", rows[j])
        /\ \A e \in Envs("validation"), a \in Arms("validation") : r.cells[e][a].count > 0
    <3>1. /\ r.arms = ArmsOf("validation", rows[j]) /\ r.cells = CellsOf("validation", rows[j])
          /\ r.metricCellsComplete = CellsComplete("validation", r.cells)
      BY <1>2, <1>3, <1>4, FiledMeasures
    <3> QED BY <1>5, <3>1 DEF CellsComplete
  <2>2. Arms("validation") = {"B0", "L"} /\ Envs("validation") = Known
    BY DEF Arms, Envs
  <2>3. PICK e \in Known : TRUE
    BY EvidenceAssumption
  <2>4. \A a \in {"B0", "L"} :
          /\ r.cells[e][a].count = Cardinality(In(Arm(rows[j], a), e))
          /\ r.arms[a].count = Cardinality(Arm(rows[j], a))
    BY <2>1, <2>2, <2>3 DEF ArmsOf, CellsOf, Summary
  <2>5. \A a \in {"B0", "L"} : r.arms[a].count > 0
    BY <1>1, <2>1, <2>2, <2>3, <2>4, ArmParts
  <2> QED BY <1>3, <1>4, <2>1, <2>2, <2>5 DEF CellsOf
<1>9. VerifyPromotion(r)
  BY <1>1, <1>3, <1>4, <1>5, <1>7 DEF VerifyPromotion, VerifyReport
<1>10. ViewReport(r)
  BY <1>1, <1>3, <1>4, <1>5, <1>6, <1>8, <1>9 DEF ViewReport
<1>11. Intact => RequireEvidence(r)
  BY <1>1, <1>4, <1>7 DEF RequireEvidence
<1>12. ValidateReport(r, Bundle[j])
  BY <1>3, <1>4 DEF ValidateReport
<1>13. (Track1 \in registered => plan[j] = Track1) => LoadFrozenGate(r)
  BY <1>1, <1>4 DEF LoadFrozenGate
<1> QED BY <1>3, <1>4, <1>5, <1>6, <1>10, <1>11, <1>12, <1>13

(* Once the canonical protocol is deployed no other follows.               *)
Track1Last == \A i, k \in DOMAIN Releases : i <= k /\ Releases[i] = Track1 => Releases[k] = Track1

LEMMA OnlyTrack1 ==
  ASSUME Track1Last, EvidenceShape, Track1 \in registered
  PROVE  Release = Track1
<1>1. /\ Scenes[scene].restarts \in Nat /\ 1 + Scenes[scene].restarts <= Len(Releases)
      /\ Len(Releases) \in Nat /\ DOMAIN Releases = 1..Len(Releases)
  BY EvidenceAssumption DEF EvidenceShape
<1>2. PICK i \in 1..server.release : Releases[i] = Track1
  BY DEF EvidenceShape
<1>3. server.release \in 1..1 + Scenes[scene].restarts
  BY DEF EvidenceShape
<1>4. i \in DOMAIN Releases /\ server.release \in DOMAIN Releases /\ i <= server.release
  BY <1>1, <1>2, <1>3
<1> QED BY <1>2, <1>4 DEF Track1Last, Release

(* The step that judges a report is Judge of its job.                      *)
LEMMA JudgedBy ==
  ASSUME EvidenceShape, NEW j \in Jobs, EvidenceNext, jpc[j] = "reported", jpc'[j] \notin {"reported", "idle"}
  PROVE  Judge(j)
<1>1. ASSUME NEW i \in Jobs, JobStep(i), i # j PROVE FALSE
  <2>1. \/ UNCHANGED jpc \/ \E s : jpc' = [jpc EXCEPT ![i] = s]
    BY <1>1 DEF JobStep, Queue, LaunchJob, Build, Collect, MakeReport, Judge, Promote, Refused, SaveJob, Mirror,
                End, runVars
  <2> QED BY <1>1, <2>1 DEF EvidenceShape
<1>2. ASSUME JobStep(j) PROVE Judge(j)
  <2>1. ~Queue(j)
    BY DEF Queue, runVars
  <2> QED BY <1>2, <2>1 DEF JobStep, LaunchJob, Collect, MakeReport, SaveJob, Mirror
<1>3. ~Drift
  BY DEF Drift, runVars
<1>4. ~Redeploy
  BY DEF Redeploy
<1> QED BY <1>1, <1>2, <1>3, <1>4 DEF EvidenceNext

(* The checks that follow eligibility (the evidence, the view, the frozen  *)
(* gate's registration) refuse an eligible report only for changed         *)
(* fixtures, a decided candidate or a moved base, if nothing is deployed   *)
(* after the canonical protocol: the frozen gate refuses all others then.  *)
THEOREM ChecksAgreeCorrect ==
  ASSUME Track1Last
  PROVE  EvidenceSpec => ChecksAgree
<1>1. ASSUME EvidenceInv, [EvidenceNext]_promotionVars
      PROVE  [\A j \in Jobs :
                /\ jpc[j] = "reported" /\ jpc'[j] = "judged" /\ status'[j] = "failed" /\ Eligible(report[j])
                => \/ server.drift
                   \/ cand[Bundle[j]] \notin {"validated", "evaluating"}
                   \/ activeBundle # Base(j)]_promotionVars
  <2> SUFFICES ASSUME EvidenceNext, NEW j \in Jobs,
                      jpc[j] = "reported", jpc'[j] = "judged", status'[j] = "failed", Eligible(report[j]),
                      ~server.drift, cand[Bundle[j]] \in {"validated", "evaluating"}, activeBundle = Base(j)
               PROVE  FALSE
    BY <1>1
  <2> DEFINE r == report[j]
  <2> USE <1>1
  <2>1. Judge(j)
    BY JudgedBy DEF EvidenceInv
  <2>2. Track1 \in registered => plan[j] = Track1
    BY OnlyTrack1 DEF EvidenceInv, PlansOK
  <2>3. /\ Phase[j] = "validation" /\ r.validity = "valid" /\ r.missing = 0 /\ r.base = Genesis
        /\ RequireEvidence(r) /\ ViewReport(r) /\ ValidateReport(r, Bundle[j]) /\ LoadFrozenGate(r)
    BY <2>2, EligiblePasses DEF Intact
  <2>4. Promote(j)
    BY <2>1, <2>3 DEF Judge
  <2>5. End(j, "decided")
    BY <2>3, <2>4 DEF Promote, Base
  <2> QED BY <2>5 DEF End, EvidenceInv, EvidenceShape
<1> QED BY <1>1, EvidenceIsInductive, PTL DEF EvidenceSpec, ChecksAgree

-----------------------------------------------------------------------------
(* TrustStays.                                                             *)

RelaunchAt(j) ==
  /\ j \in FromQueue /\ jpc[j] \notin {"idle", "ended"} => queue[j].state = "running"
  /\ jpc[j] = "judged" /\ status[j] = "failed" /\ j \in DOMAIN report /\ report[j].validity = "valid" => Spoilt(j)
  /\ Stored(j) /\ j \notin FromQueue => jpc[j] = "ended"
  /\ Stored(j) /\ j \in FromQueue =>
       \/ Spoilt(j) \/ queue[j].state = "completed"
       \/ queue[j].state = "running" /\ jpc[j] \in {"idle", "saved"} /\ (jpc[j] = "saved" => status[j] # "failed")

LEMMA ReleaseIndex ==
  ASSUME EvidenceShape
  PROVE  /\ DOMAIN Releases = 1..Len(Releases) /\ Len(Releases) \in Nat
         /\ server.release \in 1..Len(Releases) /\ 1 + Scenes[scene].restarts <= Len(Releases)
         /\ Scenes[scene].restarts \in Nat
<1>1. /\ Scenes[scene].restarts \in Nat /\ 1 + Scenes[scene].restarts <= Len(Releases)
      /\ Len(Releases) \in Nat /\ DOMAIN Releases = 1..Len(Releases)
  BY EvidenceAssumption DEF EvidenceShape
<1> QED BY <1>1 DEF EvidenceShape

(* A bundle once decided stays so.                                         *)
LEMMA ClosedStays ==
  ASSUME EvidenceShape, EvidenceNext, NEW c \in Candidates, ~Open(c)
  PROVE  ~Open(c)'
<1>1. ASSUME NEW j \in Jobs, Queue(j) PROVE ~Open(c)'
  BY <1>1 DEF Queue, Open, EvidenceShape
<1>2. ASSUME NEW j \in Jobs, Judge(j) PROVE ~Open(c)'
  <2>1. \/ UNCHANGED cand
        \/ /\ Open(Bundle[j])
           /\ \E s \in Standings : cand' = [cand EXCEPT ![Bundle[j]] = s]
    BY <1>2 DEF Judge, Promote, Refused, Open, Standings
  <2>2. c # Bundle[j] \/ UNCHANGED cand
    BY <2>1
  <2> QED BY <2>1, <2>2 DEF Open, EvidenceShape
<1>3. ASSUME NEW j \in Jobs, LaunchJob(j) \/ Collect(j) \/ MakeReport(j) \/ SaveJob(j) \/ Mirror(j) PROVE UNCHANGED cand
  BY <1>3 DEF LaunchJob, Build, Collect, MakeReport, SaveJob, Mirror, evidenceVars
<1>4. ASSUME Drift \/ Redeploy PROVE UNCHANGED cand
  BY <1>4 DEF Drift, Redeploy, evidenceVars
<1> QED BY <1>1, <1>2, <1>3, <1>4 DEF EvidenceNext, JobStep, Open

LEMMA ServerSteps ==
  ASSUME EvidenceShape, EvidenceNext
  PROVE  \/ server'.release = server.release /\ (server.drift => server'.drift)
         \/ /\ server'.release \in server.release + 1 .. Len(Releases)
            /\ server.drift => Releases[server'.release] # Release
<1>1. ASSUME NEW j \in Jobs, LaunchJob(j) PROVE server'.release = server.release /\ (server.drift => server'.drift)
  BY <1>1 DEF LaunchJob, Build, EvidenceShape
<1>2. ASSUME NEW j \in Jobs, JobStep(j), ~LaunchJob(j) PROVE UNCHANGED server
  BY <1>2 DEF JobStep, Queue, Collect, MakeReport, Judge, SaveJob, Mirror
<1>3. ASSUME Drift PROVE server'.release = server.release /\ (server.drift => server'.drift)
  BY <1>3 DEF Drift, EvidenceShape
<1>4. ASSUME Redeploy
      PROVE  /\ server'.release \in server.release + 1 .. Len(Releases)
             /\ server.drift => Releases[server'.release] # Release
  <2>1. PICK n \in server.release + 1 .. 1 + Scenes[scene].restarts :
          /\ server.drift => Releases[n] # Release
          /\ server' = [release |-> n, drift |-> FALSE, bound |-> FALSE]
    BY <1>4 DEF Redeploy
  <2>2. n \in server.release + 1 .. Len(Releases)
    BY ReleaseIndex
  <2> QED BY <2>1, <2>2
<1> QED BY <1>1, <1>2, <1>3, <1>4 DEF EvidenceNext

LEMMA SpoiltStays ==
  ASSUME NoReturn, EvidenceShape, EvidenceShape', Grows, EvidenceNext,
         NEW j \in Jobs, plan[j] # NoValue, Spoilt(j)
  PROVE  Spoilt(j)'
<1>1. plan'[j] = plan[j] /\ registered \subseteq registered'
  BY DEF Grows
<1>2. CASE ~Open(Bundle[j])
  BY <1>2, ClosedStays DEF Spoilt, Candidates
<1>3. CASE Track1 \in registered /\ plan[j] # Track1
  BY <1>1, <1>3 DEF Spoilt
<1>4. CASE server.drift /\ plan[j] = Release
  <2>1. CASE server'.release = server.release /\ (server.drift => server'.drift)
    BY <1>1, <1>4, <2>1 DEF Spoilt, Release
  <2>2. CASE /\ server'.release \in server.release + 1 .. Len(Releases)
             /\ Releases[server'.release] # Release
    <3> DEFINE i == server.release
               n == server'.release
    <3>1. i \in 1..Len(Releases) /\ DOMAIN Releases = 1..Len(Releases) /\ Len(Releases) \in Nat
      BY ReleaseIndex
    <3>2. Releases[n] # Releases[i] /\ n \in i + 1 .. Len(Releases) /\ plan[j] = Releases[i]
      BY <1>4, <2>2 DEF Release
    <3> HIDE DEF i, n
    <3>3. \A m \in n..Len(Releases) : Releases[m] # Releases[i]
      <4> SUFFICES ASSUME NEW m \in n..Len(Releases), Releases[m] = Releases[i] PROVE FALSE
        OBVIOUS
      <4>1. m # n
        BY <3>2
      <4>2. i \in DOMAIN Releases /\ n \in DOMAIN Releases /\ m \in DOMAIN Releases /\ i < n /\ n < m
        BY <3>1, <3>2, <4>1
      <4> QED BY <3>2, <4>2 DEF NoReturn
    <3>4. plan'[j] \notin {Releases[m] : m \in n..Len(Releases)}
      BY <1>1, <3>2, <3>3
    <3> QED BY <3>4 DEF Spoilt, Ahead, n
  <2> QED BY <1>4, <2>1, <2>2, ServerSteps
<1>5. CASE plan[j] \notin Ahead
  <2>1. server.release \in Nat /\ server'.release \in Nat /\ server.release <= server'.release /\ Len(Releases) \in Nat
    BY ReleaseIndex, ServerSteps
  <2>2. server'.release..Len(Releases) \subseteq server.release..Len(Releases)
    BY <2>1
  <2> QED BY <1>1, <1>5, <2>2 DEF Spoilt, Ahead
<1> QED BY <1>2, <1>3, <1>4, <1>5 DEF Spoilt

LEMMA PlannedWhereReported ==
  ASSUME EvidenceInv, NEW j \in Jobs, j \in DOMAIN report \/ Stored(j)
  PROVE  plan[j] # NoValue
<1>1. CASE j \in DOMAIN report
  BY <1>1, OwnReport DEF ReportOK
<1>2. CASE Stored(j)
  <2>1. RowOK(<<j, "job">>, table[<<j, "job">>])
    BY <1>2 DEF Stored, EvidenceInv, ReportsOK
  <2> QED BY <2>1 DEF RowOK, ReportOK
<1> QED BY <1>1, <1>2

(* The own row of a job that a step does not write.                        *)
SameRow(j) ==
  /\ <<j, "job">> \in DOMAIN table <=> <<j, "job">> \in DOMAIN table'
  /\ <<j, "job">> \in DOMAIN table => table'[<<j, "job">>] = table[<<j, "job">>]

LEMMA RelaunchStays ==
  ASSUME NoReturn, EvidenceInv, EvidenceShape', Grows, EvidenceNext, NEW i \in Jobs, RelaunchAt(i),
         jpc'[i] = jpc[i], status'[i] = status[i], queue'[i] = queue[i], SameRow(i),
         i \in DOMAIN report' => i \in DOMAIN report /\ report'[i] = report[i]
  PROVE  RelaunchAt(i)'
<1>1. Stored(i)' <=> Stored(i)
  BY DEF Stored, SameRow
<1>2. Spoilt(i) /\ (i \in DOMAIN report \/ Stored(i)) => Spoilt(i)'
  BY PlannedWhereReported, SpoiltStays DEF EvidenceInv
<1> QED BY <1>1, <1>2 DEF RelaunchAt

(* A job whose run goes on, with nothing new to save.                      *)
LEMMA RelaunchGoesOn ==
  ASSUME NoReturn, EvidenceInv, EvidenceShape', Grows, EvidenceNext, NEW i \in Jobs, RelaunchAt(i),
         Stored(i)' => Stored(i), Stored(i) => i \in FromQueue /\ Spoilt(i),
         i \in FromQueue => queue'[i].state = "running",
         jpc'[i] = "judged" /\ status'[i] = "failed" /\ i \in DOMAIN report' /\ report'[i].validity = "valid" => Spoilt(i)'
  PROVE  RelaunchAt(i)'
<1>1. Stored(i) => Spoilt(i)'
  BY PlannedWhereReported, SpoiltStays DEF EvidenceInv
<1> QED BY <1>1 DEF RelaunchAt

(* A run in the middle of which a valid report is stored is a relaunch     *)
(* that can decide nothing.                                                *)
LEMMA MidRun ==
  ASSUME NEW i \in Jobs, RelaunchAt(i), jpc[i] \in {"built", "measured", "reported", "judged"}
  PROVE  Stored(i) => i \in FromQueue /\ Spoilt(i)
BY DEF RelaunchAt

(* Why a valid report is refused.                                          *)
LEMMA RefusedIsSpoilt ==
  ASSUME NoReturn, EvidenceInv, EvidenceShape', Grows, EvidenceNext, NEW j \in Jobs, Judge(j),
         status'[j] = "failed", report[j].validity = "valid"
  PROVE  Spoilt(j)'
<1> DEFINE r == report[j]
<1>1. /\ jpc[j] = "reported" /\ j \in DOMAIN report /\ plan[j] = Release /\ plan[j] # NoValue
  BY PlannedWhereReported DEF Judge, EvidenceInv, PlansOK
<1>2. Eligible(r)
  BY <1>1 DEF Judge, End, EvidenceInv, EvidenceShape
<1>3. /\ Phase[j] = "validation" /\ r.missing = 0 /\ r.base = Genesis
      /\ Intact => RequireEvidence(r)
      /\ ViewReport(r) /\ ValidateReport(r, Bundle[j])
      /\ (Track1 \in registered => plan[j] = Track1) => LoadFrozenGate(r)
  BY <1>1, <1>2, EligiblePasses
<1>4. Spoilt(j) => Spoilt(j)'
  BY <1>1, SpoiltStays DEF EvidenceInv
<1>5. CASE server.drift
  BY <1>1, <1>4, <1>5 DEF Spoilt
<1>6. CASE ~server.drift /\ ~Spoilt(j)
  <2>1. /\ cand[Bundle[j]] \in {"validated", "evaluating"}
        /\ RequireEvidence(r) /\ LoadFrozenGate(r)
    BY <1>3, <1>6 DEF Spoilt, Open, Intact
  <2>2. Promote(j)
    BY <1>2, <1>3, <2>1 DEF Judge
  <2>3. status' = [status EXCEPT ![j] = "decided"] \/ cand' = [cand EXCEPT ![Bundle[j]] = "superseded"]
    BY <1>3, <2>1, <2>2 DEF Promote, End
  <2>4. cand' = [cand EXCEPT ![Bundle[j]] = "superseded"]
    BY <2>3 DEF EvidenceInv, EvidenceShape
  <2>5. ~Open(Bundle[j])'
    BY <2>4 DEF Open, EvidenceInv, EvidenceShape, Candidates
  <2> QED BY <2>5 DEF Spoilt
<1> QED BY <1>4, <1>5, <1>6

(* What is refused is not saved by the manager.                            *)
LEMMA SpoiltIsNotSaved ==
  ASSUME EvidenceInv, NEW j \in Jobs, Judge(j), Spoilt(j)
  PROVE  UNCHANGED table
<1>1. j \in DOMAIN report /\ plan[j] = Release
  BY DEF Judge, EvidenceInv, PlansOK
<1>2. report[j].protocol = plan[j]
  BY <1>1, OwnReport
<1>3. SUFFICES ASSUME ~UNCHANGED table PROVE FALSE
  OBVIOUS
<1>4. RequireEvidence(report[j]) /\ Promote(j)
  BY <1>3 DEF Judge, Refused
<1>5. Open(Bundle[j]) /\ LoadFrozenGate(report[j])
  BY <1>3, <1>4 DEF Promote, Refused, Open
<1>6. Track1 \in registered => plan[j] = Track1
  BY <1>2, <1>5 DEF LoadFrozenGate
<1>7. ~server.drift
  BY <1>4 DEF RequireEvidence, Intact
<1>8. plan[j] \in Ahead
  <2>1. server.release \in server.release..Len(Releases)
    BY ReleaseIndex DEF EvidenceInv
  <2> QED BY <1>1, <2>1 DEF Ahead, Release
<1> QED BY <1>5, <1>6, <1>7, <1>8 DEF Spoilt

LEMMA RelaunchStep ==
  ASSUME NoReturn, EvidenceInv, RelaunchOK, EvidenceShape', Grows, EvidenceNext
  PROVE  RelaunchOK'
<1> SUFFICES ASSUME NEW i \in Jobs PROVE RelaunchAt(i)'
  BY DEF RelaunchOK, RelaunchAt
<1>1. RelaunchAt(i)
  BY DEF RelaunchOK, RelaunchAt
<1> DEFINE keeps(j) == i # j => /\ jpc'[i] = jpc[i] /\ status'[i] = status[i] /\ queue'[i] = queue[i] /\ SameRow(i)
                                /\ i \in DOMAIN report' => i \in DOMAIN report /\ report'[i] = report[i]
<1>2. ASSUME NEW j \in Jobs, keeps(j), i # j PROVE RelaunchAt(i)'
  BY <1>1, <1>2, RelaunchStays
<1>3. UNCHANGED table => SameRow(i)
  BY DEF SameRow
<1>4. ASSUME NEW j \in Jobs, Queue(j) PROVE RelaunchAt(i)'
  <2>1. keeps(j)
    BY <1>3, <1>4 DEF Queue, runVars, EvidenceInv, EvidenceShape
  <2>2. CASE i = j
    <3>1. /\ i \in FromQueue /\ queue[i].state = "none" /\ UNCHANGED <<jpc, status, report, table, plan>>
      BY <1>4, <2>2 DEF Queue, runVars
    <3>2. jpc[i] \in {"idle", "ended"} /\ (Stored(i) => Spoilt(i)) /\ (Stored(i)' <=> Stored(i))
      BY <1>1, <3>1 DEF RelaunchAt, Stored
    <3>3. Stored(i) => Spoilt(i)'
      BY <3>2, PlannedWhereReported, SpoiltStays DEF EvidenceInv
    <3> QED BY <3>1, <3>2, <3>3 DEF RelaunchAt
  <2> QED BY <1>2, <2>1, <2>2
<1>5. ASSUME NEW j \in Jobs, LaunchJob(j) PROVE RelaunchAt(i)'
  <2>1. /\ jpc' = [jpc EXCEPT ![j] = "built"] /\ report' = [k \in DOMAIN report \ {j} |-> report[k]]
        /\ UNCHANGED <<status, table>> /\ jpc[j] \in {"idle", "ended"}
        /\ \/ j \in FromQueue /\ queue[j].state \in {"queued", "failed"} /\ queue' = [queue EXCEPT ![j].state = "running"]
           \/ j \notin FromQueue /\ jpc[j] = "idle" /\ UNCHANGED queue
    BY <1>5 DEF LaunchJob, Build, evidenceVars
  <2>2. keeps(j)
    BY <1>3, <2>1 DEF EvidenceInv, EvidenceShape
  <2>3. CASE i = j
    <3>1. /\ jpc'[i] = "built" /\ (i \in FromQueue => queue'[i].state = "running") /\ (Stored(i)' <=> Stored(i))
      BY <2>1, <2>3 DEF EvidenceInv, EvidenceShape, Stored
    <3>2. Stored(i) => i \in FromQueue /\ Spoilt(i)
      BY <1>1, <2>1, <2>3 DEF RelaunchAt
    <3> QED BY <1>1, <3>1, <3>2, RelaunchGoesOn
  <2> QED BY <1>2, <2>2, <2>3
<1>6. ASSUME NEW j \in Jobs, Collect(j) \/ MakeReport(j) PROVE RelaunchAt(i)'
  <2>1. /\ UNCHANGED <<table, queue>> /\ jpc[j] \in {"built", "measured"} /\ j \notin DOMAIN report
        /\ UNCHANGED report \/ \E x : report' = Put(report, j, x)
    BY <1>6 DEF Collect, MakeReport, evidenceVars, EvidenceInv, PlansOK
  <2>2. \A k \in Jobs \ {j} : jpc'[k] = jpc[k] /\ status'[k] = status[k]
    BY <1>6 DEF Collect, MakeReport, End, EvidenceInv, EvidenceShape
  <2>3. jpc'[j] = "judged" => UNCHANGED report
    BY <1>6 DEF Collect, MakeReport, EvidenceInv, EvidenceShape
  <2>4. keeps(j)
    BY <1>3, <2>1, <2>2 DEF Put
  <2>5. CASE i = j
    <3>1. Stored(i)' <=> Stored(i)
      BY <2>1 DEF Stored
    <3>2. /\ Stored(i) => i \in FromQueue /\ Spoilt(i)
          /\ i \in FromQueue => queue'[i].state = "running"
      BY <1>1, <2>1, <2>5, MidRun DEF RelaunchAt
    <3> QED BY <1>1, <2>1, <2>3, <2>5, <3>1, <3>2, RelaunchGoesOn
  <2> QED BY <1>2, <2>4, <2>5
<1>7. ASSUME NEW j \in Jobs, Judge(j) PROVE RelaunchAt(i)'
  <2>1. /\ UNCHANGED <<queue, report>> /\ jpc[j] = "reported"
        /\ UNCHANGED table \/ Save(j, "job", ManagerRow(report[j]))
    BY <1>7 DEF Judge, Promote, Refused
  <2>2. \A k \in Jobs \ {j} : jpc'[k] = jpc[k] /\ status'[k] = status[k]
    BY <1>7 DEF Judge, Promote, Refused, End, EvidenceInv, EvidenceShape
  <2>3. keeps(j)
    BY <2>1, <2>2 DEF SameRow, Save, Put
  <2>4. CASE i = j
    <3>1. Stored(i)' => Stored(i)
      <4>1. CASE UNCHANGED table
        BY <4>1 DEF Stored
      <4>2. CASE Save(j, "job", ManagerRow(report[j]))
        <5>1. table'[<<i, "job">>].phase = "frozen-partition"
          BY <2>4, <4>2 DEF Save, Put, ManagerRow
        <5> QED BY <5>1 DEF Stored
      <4> QED BY <2>1, <4>1, <4>2
    <3>2. /\ Stored(i) => i \in FromQueue /\ Spoilt(i)
          /\ i \in FromQueue => queue'[i].state = "running"
      BY <1>1, <2>1, <2>4, MidRun DEF RelaunchAt
    <3>3. status'[i] = "failed" /\ report[i].validity = "valid" => Spoilt(i)'
      BY <1>7, <2>4, RefusedIsSpoilt
    <3> QED BY <1>1, <2>1, <3>1, <3>2, <3>3, RelaunchGoesOn
  <2> QED BY <1>2, <2>3, <2>4
<1>8. ASSUME NEW j \in Jobs, SaveJob(j) PROVE RelaunchAt(i)'
  <2> DEFINE row == [candidate |-> report[j].candidate, base |-> report[j].base,
                     protocol |-> report[j].protocol, phase |-> Phase[j], report |-> report[j]]
  <2>1. /\ UNCHANGED <<queue, report, status>> /\ jpc[j] = "judged"
        /\ IF j \notin DOMAIN report THEN UNCHANGED table ELSE Save(j, "job", row)
    BY <1>8 DEF SaveJob
  <2>2. \A k \in Jobs \ {j} : jpc'[k] = jpc[k]
    BY <1>8 DEF SaveJob, EvidenceInv, EvidenceShape
  <2>3. keeps(j)
    BY <2>1, <2>2 DEF SameRow, Save, Put
  <2>4. CASE i = j
    <3>1. jpc'[i] = IF i \in FromQueue THEN "saved" ELSE "ended"
      BY <1>8, <2>4 DEF SaveJob, EvidenceInv, EvidenceShape
    <3>2. i \in FromQueue => queue'[i].state = "running"
      BY <1>1, <2>1, <2>4 DEF RelaunchAt
    <3>3. Stored(i)' /\ status[i] = "failed" => Spoilt(i)'
      <4>1. CASE j \notin DOMAIN report
        <5>1. Stored(i)' <=> Stored(i)
          BY <2>1, <4>1 DEF Stored
        <5>2. Stored(i) => Spoilt(i)
          BY <1>1, <2>1, <2>4, MidRun
        <5> QED BY <5>1, <5>2, PlannedWhereReported, SpoiltStays DEF EvidenceInv
      <4>2. CASE j \in DOMAIN report
        <5>1. Stored(i)' => report[j].validity = "valid"
          BY <2>1, <2>4, <4>2 DEF Stored, Save, Put
        <5>2. report[j].validity = "valid" /\ status[i] = "failed" => Spoilt(i)
          BY <1>1, <2>1, <2>4, <4>2 DEF RelaunchAt
        <5> QED BY <2>4, <4>2, <5>1, <5>2, PlannedWhereReported, SpoiltStays DEF EvidenceInv
      <4> QED BY <4>1, <4>2
    <3> QED BY <2>1, <3>1, <3>2, <3>3 DEF RelaunchAt
  <2> QED BY <1>2, <2>3, <2>4
<1>9. ASSUME NEW j \in Jobs, Mirror(j) PROVE RelaunchAt(i)'
  <2>1. /\ UNCHANGED <<report, status>> /\ jpc[j] = "saved"
        /\ UNCHANGED table \/ \E row : Save(j, "queue", row)
    BY <1>9 DEF Mirror
  <2>2. \A k \in Jobs \ {j} : jpc'[k] = jpc[k] /\ queue'[k] = queue[k]
    BY <1>9 DEF Mirror, EvidenceInv, EvidenceShape
  <2>3. SameRow(i)
    BY <2>1 DEF SameRow, Save, Put
  <2>4. keeps(j)
    BY <2>1, <2>2, <2>3
  <2>5. CASE i = j
    <3>1. /\ jpc'[i] = "ended"
          /\ queue'[i].state = IF status[i] = "failed" THEN "failed" ELSE "completed"
      BY <1>9, <2>5 DEF Mirror, EvidenceInv, EvidenceShape
    <3>2. Stored(i)' <=> Stored(i)
      BY <2>3 DEF Stored, SameRow
    <3>3. Stored(i) => i \in FromQueue /\ (Spoilt(i) \/ status[i] # "failed")
      BY <1>1, <2>1, <2>5 DEF RelaunchAt
    <3>4. Stored(i) /\ Spoilt(i) => Spoilt(i)'
      BY PlannedWhereReported, SpoiltStays DEF EvidenceInv
    <3> QED BY <3>1, <3>2, <3>3, <3>4 DEF RelaunchAt
  <2> QED BY <1>2, <2>4, <2>5
<1>10. CASE Drift
  <2>1. UNCHANGED <<jpc, status, queue, table, report>>
    BY <1>10 DEF Drift, runVars, evidenceVars
  <2> QED BY <1>1, <1>3, <2>1, RelaunchStays
<1>11. CASE Redeploy
  <2>1. /\ jpc'[i] = IF jpc[i] = "ended" THEN "ended" ELSE "idle"
        /\ UNCHANGED <<queue, table>> /\ DOMAIN report' = {}
    BY <1>11 DEF Redeploy, evidenceVars
  <2>2. Stored(i)' <=> Stored(i)
    BY <2>1 DEF Stored
  <2>3. Stored(i) /\ Spoilt(i) => Spoilt(i)'
    BY PlannedWhereReported, SpoiltStays DEF EvidenceInv
  <2> QED BY <1>1, <2>1, <2>2, <2>3 DEF RelaunchAt
<1> QED BY <1>4, <1>5, <1>6, <1>7, <1>8, <1>9, <1>10, <1>11 DEF EvidenceNext, JobStep

LEMMA RelaunchFirst == EvidenceInit => RelaunchOK
<1> SUFFICES ASSUME EvidenceInit PROVE RelaunchOK
  OBVIOUS
<1>1. DOMAIN report = {} /\ DOMAIN table = {} /\ \A j \in Jobs : jpc[j] = "idle"
  BY DEF EvidenceInit
<1> QED BY <1>1 DEF RelaunchOK, Stored

THEOREM RelaunchIsSound ==
  ASSUME NoReturn
  PROVE  EvidenceSpec => []RelaunchOK
<1>1. EvidenceInit => RelaunchOK
  BY RelaunchFirst
<1>2. ASSUME EvidenceInv, EvidenceInv', RelaunchOK, [EvidenceNext]_promotionVars PROVE RelaunchOK'
  <2>1. CASE EvidenceNext
    <3>1. EvidenceShape' /\ Grows
      BY <1>2, <2>1, ShapeStep DEF EvidenceInv
    <3> QED BY <1>2, <2>1, <3>1, RelaunchStep
  <2>2. CASE UNCHANGED promotionVars
    <3>1. UNCHANGED <<server, registered, queue, jpc, report, status, plan, cand, table>>
      BY <2>2 DEF promotionVars, runVars, evidenceVars
    <3>2. \A j \in Jobs : (Spoilt(j)' <=> Spoilt(j)) /\ (Stored(j)' <=> Stored(j))
      BY <3>1 DEF Spoilt, Stored, Open, Ahead, Release
    <3> QED BY <1>2, <3>1, <3>2 DEF RelaunchOK
  <2> QED BY <1>2, <2>1, <2>2
<1> QED BY <1>1, <1>2, EvidenceIsInductive, PTL DEF EvidenceSpec

(* A trusted row that the step of its own job writes again.                *)
LEMMA RewrittenStaysTrusted ==
  ASSUME EvidenceInv, EvidenceShape', Grows, NEW j \in Jobs, j \in DOMAIN report, Phase[j] = "validation",
         NEW k \in {"job", "queue"}, <<j, k>> \in DOMAIN table, Trusted(<<j, k>>),
         NEW row, Save(j, k, row), row.report = report[j], row.protocol = plan[j],
         row.candidate = Bundle[j], row.base = Base(j), row.phase = Phase[j]
  PROVE  <<j, k>> \in DOMAIN table' /\ Trusted(<<j, k>>)'
<1> DEFINE old == table[<<j, k>>].report
<1>1. Filed(j, old) /\ old.validity = "valid"
  <2>1. RowOK(<<j, k>>, table[<<j, k>>])
    BY DEF EvidenceInv, ReportsOK
  <2> QED BY <2>1 DEF RowOK, ReportOK, Trusted, VerifyReport
<1>2. Clean(j)
  <2> HIDE DEF old
  <2> QED BY <1>1, FiledFacts
<1>3. ReportOK(j, row.report)
  BY OwnReport
<1>4. row.report.validity = "valid"
  BY <1>2, <1>3, FiledFacts DEF ReportOK
<1>5. VerifyReport(row.report, row)
  BY <1>3, <1>4, OwnRowVerifies
<1>6. VerifyReport(row.report, row)'
  BY <1>5, VerifiedStays
<1>7. <<j, k>> \in DOMAIN table' /\ table'[<<j, k>>] = row
  BY DEF Save, Put
<1> QED BY <1>6, <1>7 DEF Trusted, VerifyReport, HasAttestation

LEMMA TrustedStep ==
  ASSUME EvidenceInv, RelaunchOK, EvidenceShape', Grows, EvidenceNext, NEW id \in DOMAIN table, Trusted(id)
  PROVE  id \in DOMAIN table' /\ Trusted(id)'
<1> DEFINE kept == id \in DOMAIN table' /\ table'[id] = table[id]
<1>1. ASSUME kept PROVE id \in DOMAIN table' /\ Trusted(id)'
  BY <1>1, TrustedStays
<1>2. id \in Jobs \X {"job", "queue"} /\ RowOK(id, table[id])
  BY DEF EvidenceInv, EvidenceShape, ReportsOK
<1>3. /\ table[id].report.validity = "valid" /\ table[id].phase \in {"validation", "final"}
      /\ table[id].report.protocol = table[id].protocol /\ table[id].report.comparison = table[id].phase
  BY DEF Trusted, VerifyReport
<1>4. ASSUME NEW j \in Jobs, id = <<j, "job">> PROVE Stored(j)
  BY <1>3, <1>4 DEF Stored
<1>5. ASSUME NEW j \in Jobs, Judge(j) PROVE id \in DOMAIN table' /\ Trusted(id)'
  <2>1. UNCHANGED table \/ Save(j, "job", ManagerRow(report[j]))
    BY <1>5 DEF Judge, Promote, Refused
  <2>2. CASE id # <<j, "job">>
    BY <1>1, <2>1, <2>2 DEF Save, Put
  <2>3. CASE id = <<j, "job">>
    <3>1. RelaunchAt(j) /\ jpc[j] = "reported"
      BY <1>5 DEF RelaunchOK, RelaunchAt, Judge
    <3>2. Spoilt(j)
      BY <1>4, <2>3, <3>1, MidRun
    <3>3. UNCHANGED table
      BY <1>5, <3>2, SpoiltIsNotSaved
    <3> QED BY <1>1, <3>3
  <2> QED BY <2>2, <2>3
<1>6. ASSUME NEW j \in Jobs, SaveJob(j) PROVE id \in DOMAIN table' /\ Trusted(id)'
  <2> DEFINE row == [candidate |-> report[j].candidate, base |-> report[j].base,
                     protocol |-> report[j].protocol, phase |-> Phase[j], report |-> report[j]]
  <2>1. /\ jpc[j] = "judged"
        /\ IF j \notin DOMAIN report THEN UNCHANGED table ELSE Save(j, "job", row)
    BY <1>6 DEF SaveJob
  <2>2. CASE id # <<j, "job">> \/ j \notin DOMAIN report
    BY <1>1, <2>1, <2>2 DEF Save, Put
  <2>3. CASE id = <<j, "job">> /\ j \in DOMAIN report
    <3>1. RelaunchAt(j)
      BY DEF RelaunchOK, RelaunchAt
    <3>2. j \in FromQueue
      BY <1>4, <2>1, <2>3, <3>1, MidRun
    <3>3. Phase[j] = "validation"
      BY <3>2, EvidenceAssumption
    <3>4. /\ Save(j, "job", row) /\ row.report = report[j] /\ row.protocol = plan[j]
          /\ row.candidate = Bundle[j] /\ row.base = Base(j) /\ row.phase = Phase[j]
      BY <2>1, <2>3, OwnReport
    <3> HIDE DEF row
    <3> QED BY <2>3, <3>3, <3>4, RewrittenStaysTrusted
  <2> QED BY <2>2, <2>3
<1>7. ASSUME NEW j \in Jobs, Mirror(j) PROVE id \in DOMAIN table' /\ Trusted(id)'
  <2> DEFINE row == [candidate |-> Bundle[j], base |-> Base(j), protocol |-> queue[j].protocol,
                     phase |-> "validation", report |-> report[j]]
  <2>1. IF j \notin DOMAIN report THEN UNCHANGED table ELSE Save(j, "queue", row)
    BY <1>7 DEF Mirror
  <2>2. CASE id # <<j, "queue">> \/ j \notin DOMAIN report
    BY <1>1, <2>1, <2>2 DEF Save, Put
  <2>3. CASE id = <<j, "queue">> /\ j \in DOMAIN report
    <3>1. /\ Filed(j, table[id].report) /\ table[id].protocol = queue[j].protocol /\ table[id].phase = "validation"
      BY <1>2, <2>3 DEF RowOK, ReportOK
    <3>2. table[id].report.protocol = plan[j] /\ table[id].report.comparison = Phase[j]
      BY <3>1, FiledFacts
    <3>3. Phase[j] = "validation" /\ queue[j].protocol = plan[j]
      BY <1>3, <3>1, <3>2
    <3>4. /\ Save(j, "queue", row) /\ row.report = report[j] /\ row.protocol = plan[j]
          /\ row.candidate = Bundle[j] /\ row.base = Base(j) /\ row.phase = Phase[j]
      BY <2>1, <2>3, <3>3
    <3> HIDE DEF row
    <3> QED BY <2>3, <3>3, <3>4, RewrittenStaysTrusted
  <2> QED BY <2>2, <2>3
<1>8. ASSUME NEW j \in Jobs, Queue(j) \/ LaunchJob(j) \/ Collect(j) \/ MakeReport(j) PROVE UNCHANGED table
  BY <1>8 DEF Queue, LaunchJob, Build, Collect, MakeReport, evidenceVars
<1>9. ASSUME Drift \/ Redeploy PROVE UNCHANGED table
  BY <1>9 DEF Drift, Redeploy, evidenceVars
<1> QED BY <1>1, <1>5, <1>6, <1>7, <1>8, <1>9 DEF EvidenceNext, JobStep

(* No restart, release, drift or other job takes the trust of a stored     *)
(* report away, nor a relaunch of its own job, if no protocol that gave    *)
(* way to another comes back: a job refused for changed fixtures could     *)
(* then be decided after all, and its trusted row be overwritten by the    *)
(* manager's.                                                              *)
THEOREM TrustStaysCorrect ==
  ASSUME NoReturn
  PROVE  EvidenceSpec => TrustStays
<1>1. ASSUME EvidenceInv, RelaunchOK, [EvidenceNext]_promotionVars
      PROVE  [\A id \in DOMAIN table : Trusted(id) => id \in DOMAIN table' /\ Trusted(id)']_promotionVars
  <2>1. CASE EvidenceNext
    <3>1. EvidenceShape' /\ Grows
      BY <1>1, <2>1, ShapeStep DEF EvidenceInv
    <3> QED BY <1>1, <2>1, <3>1, TrustedStep
  <2> QED BY <1>1, <2>1
<1> QED BY <1>1, EvidenceIsInductive, RelaunchIsSound, PTL DEF EvidenceSpec, TrustStays

-----------------------------------------------------------------------------
(* Facts about numbers and sums.                                           *)

(* A set of numbers has a least one.                                       *)
LEMMA MinimalExists ==
  ASSUME NEW R, NEW Z, IsWellFoundedOn(R, Z), NEW S, S \subseteq Z, S # {},
         \A x \in Z, y \in Z : x < y => <<x, y>> \in R
  PROVE  \E i \in S : \A j \in S : ~(j < i)
<1>1. PICK i \in S : \A j \in S : ~(<<j, i>> \in R)
  BY WFMin
<1>. QED  BY <1>1, Zenon

LEMMA LeastExists ==
  ASSUME NEW S, S \subseteq Nat, S # {}
  PROVE  \E i \in S : \A j \in S : i <= j
<1>1. \A x \in Nat, y \in Nat : x < y => <<x, y>> \in OpToRel(<, Nat)
  BY DEF OpToRel
<1>2. PICK i \in S : \A j \in S : ~(j < i)
  BY <1>1, NatLessThanWellFounded, MinimalExists, Zenon
<1>. QED  BY <1>2

(* Induction over finite sets, by a least counterexample: a family of      *)
(* finite sets that has {} and, with every S, whatever is S and one more.  *)
LEMMA SmallestExists ==
  ASSUME NEW F, F # {}, \A S \in F : IsFiniteSet(S)
  PROVE  \E S \in F : \A T \in F : Cardinality(S) <= Cardinality(T)
<1> DEFINE N == {Cardinality(S) : S \in F}
<1>1. N \subseteq Nat /\ N # {}
  BY FS_CardinalityType
<1>2. PICK n \in N : \A m \in N : n <= m
  <2> HIDE DEF N
  <2>. QED  BY <1>1, LeastExists
<1>. QED  BY <1>2

LEMMA RestIsSmaller ==
  ASSUME NEW S, IsFiniteSet(S), NEW x \in S
  PROVE  /\ IsFiniteSet(S \ {x})
         /\ Cardinality(S \ {x}) < Cardinality(S)
<1>1. Cardinality(S) \in Nat /\ Cardinality(S) # 0
  BY FS_CardinalityType, FS_EmptySet
<1>2. IsFiniteSet(S \ {x}) /\ Cardinality(S \ {x}) = Cardinality(S) - 1
  BY FS_RemoveElement
<1>. QED  BY <1>1, <1>2

-----------------------------------------------------------------------------
(* The sum of a measure f of rows: the fold of the library takes the rows  *)
(* in some order; the sum is the same in any.                              *)
Value(f, r) == Observed[r.kind][f]
Pick(s) == CHOOSE x \in s : TRUE
IsSum(f, g, S) ==
  g = [s \in SUBSET S |-> IF s = {} THEN 0 ELSE Value(f, Pick(s)) + g[s \ {Pick(s)}]]
SumOf(f, S) == CHOOSE g : IsSum(f, g, S)

LEMMA TotalIsSum == ASSUME NEW f, NEW S PROVE Total(S, f) = SumOf(f, S)[S]
BY DEF Total, MapThenSumSet, MapThenFoldSet, SumOf, IsSum, Pick, Value

LEMMA PickIsIn == ASSUME NEW s, s # {} PROVE Pick(s) \in s
BY DEF Pick

LEMMA SumTakes ==
  ASSUME NEW f, NEW S, NEW g, IsSum(f, g, S)
  PROVE  /\ g[{}] = 0
         /\ \A s \in SUBSET S : s # {} => g[s] = Value(f, Pick(s)) + g[s \ {Pick(s)}]
<1> DEFINE V(s) == IF s = {} THEN 0 ELSE Value(f, Pick(s)) + g[s \ {Pick(s)}]
<1>1. g = [s \in SUBSET S |-> V(s)]
  BY DEF IsSum
<1> HIDE DEF V
<1>2. \A s \in SUBSET S : g[s] = V(s)
  BY <1>1
<1>. QED  BY <1>2 DEF V

LEMMA SumsAgree ==
  ASSUME NEW f, NEW S, NEW T, NEW g, NEW h, IsSum(f, g, S), IsSum(f, h, T),
         NEW u, u \subseteq S, u \subseteq T, IsFiniteSet(u)
  PROVE  g[u] = h[u]
<1> DEFINE Bad == {s \in SUBSET u : g[s] # h[s]}
<1> SUFFICES ASSUME Bad # {} PROVE FALSE
  OBVIOUS
<1>1. \A s \in Bad : IsFiniteSet(s) /\ s \subseteq u
  BY FS_Subset
<1>2. PICK s \in Bad : \A t \in Bad : Cardinality(s) <= Cardinality(t)
  <2> HIDE DEF Bad
  <2>. QED  BY <1>1, SmallestExists
<1>3. s # {}
  BY <1>2, SumTakes
<1>4. Pick(s) \in s
  BY <1>3, PickIsIn
<1>5. Cardinality(s \ {Pick(s)}) < Cardinality(s) /\ IsFiniteSet(s) /\ IsFiniteSet(s \ {Pick(s)})
  BY <1>1, <1>2, <1>4, RestIsSmaller
<1>6. s \ {Pick(s)} \notin Bad
  BY <1>2, <1>5, FS_CardinalityType
<1>7. g[s \ {Pick(s)}] = h[s \ {Pick(s)}]
  BY <1>2, <1>6
<1>8. g[s] = Value(f, Pick(s)) + g[s \ {Pick(s)}] /\ h[s] = Value(f, Pick(s)) + h[s \ {Pick(s)}]
  BY <1>1, <1>2, <1>3, SumTakes
<1>. QED  BY <1>2, <1>7, <1>8

LEMMA SumsExist ==
  ASSUME NEW f, NEW S, IsFiniteSet(S)
  PROVE  IsSum(f, SumOf(f, S), S)
<1> DEFINE Bad == {s \in SUBSET S : ~ \E g : IsSum(f, g, s)}
<1> SUFFICES ASSUME Bad # {} PROVE FALSE
  BY DEF SumOf
<1>1. \A s \in Bad : IsFiniteSet(s) /\ s \subseteq S
  BY FS_Subset
<1>2. PICK s \in Bad : \A t \in Bad : Cardinality(s) <= Cardinality(t)
  <2> HIDE DEF Bad
  <2>. QED  BY <1>1, SmallestExists
<1>3. ASSUME NEW t, t \subseteq s, t # s
      PROVE  IsFiniteSet(t) /\ IsSum(f, SumOf(f, t), t)
  <2>1. IsFiniteSet(s) /\ IsFiniteSet(t) /\ Cardinality(t) <= Cardinality(s)
    BY <1>1, <1>2, <1>3, FS_Subset
  <2>2. Cardinality(t) # Cardinality(s)
    BY <1>3, <2>1, FS_Subset
  <2>3. t \notin Bad
    BY <1>2, <2>1, <2>2, FS_CardinalityType
  <2>4. \E g : IsSum(f, g, t)
    BY <1>1, <1>2, <1>3, <2>3
  <2>. QED  BY <2>1, <2>4 DEF SumOf
<1> DEFINE G(t) == SumOf(f, t)[t]
           W(u) == IF u = {} THEN 0 ELSE Value(f, Pick(u)) + G(u \ {Pick(u)})
           g == [u \in SUBSET s |-> W(u)]
<1>4. ASSUME NEW t, t \subseteq s, t # s PROVE G(t) = W(t)
  <2>1. IsSum(f, SumOf(f, t), t)
    BY <1>3, <1>4
  <2>2. CASE t = {}
    BY <2>1, <2>2, SumTakes
  <2>3. CASE t # {}
    <3> DEFINE v == t \ {Pick(t)}
    <3>1. Pick(t) \in t /\ v \subseteq t /\ v \subseteq s /\ v # s
      BY <1>4, <2>3, PickIsIn
    <3>2. IsFiniteSet(v) /\ IsSum(f, SumOf(f, v), v)
      BY <1>3, <3>1
    <3>3. SumOf(f, v)[v] = SumOf(f, t)[v]
      BY <2>1, <3>1, <3>2, SumsAgree
    <3>4. SumOf(f, t)[t] = Value(f, Pick(t)) + SumOf(f, t)[v]
      BY <2>1, <2>3, SumTakes
    <3>. QED  BY <2>3, <3>3, <3>4
  <2>. QED  BY <2>2, <2>3
<1>5. ASSUME NEW u \in SUBSET s
      PROVE  g[u] = IF u = {} THEN 0 ELSE Value(f, Pick(u)) + g[u \ {Pick(u)}]
  <2>1. CASE u = {}
    BY <2>1
  <2>2. CASE u # {}
    <3> DEFINE v == u \ {Pick(u)}
    <3>1. Pick(u) \in u /\ v \subseteq s /\ v # s
      BY <2>2, PickIsIn
    <3>2. g[v] = W(v) /\ G(v) = W(v)
      BY <1>4, <3>1
    <3> HIDE DEF v, G
    <3>3. g[u] = Value(f, Pick(u)) + G(v)
      BY <2>2 DEF v
    <3>. QED  BY <2>2, <3>2, <3>3 DEF v
  <2>. QED  BY <2>1, <2>2
<1>6. IsSum(f, g, s)
  <2> DEFINE X(u) == IF u = {} THEN 0 ELSE Value(f, Pick(u)) + g[u \ {Pick(u)}]
  <2>1. g = [u \in SUBSET s |-> g[u]]
    OBVIOUS
  <2>2. \A u \in SUBSET s : g[u] = X(u)
    BY <1>5
  <2> HIDE DEF g, X
  <2>3. g = [u \in SUBSET s |-> X(u)]
    BY <2>1, <2>2
  <2>. QED  BY <2>3 DEF IsSum, X
<1>. QED  BY <1>2, <1>6

LEMMA SumOfNone == ASSUME NEW f PROVE Total({}, f) = 0
BY SumsExist, SumTakes, FS_EmptySet, TotalIsSum

LEMMA SumOfSome ==
  ASSUME NEW f, NEW S, IsFiniteSet(S), S # {}
  PROVE  Total(S, f) = Value(f, Pick(S)) + Total(S \ {Pick(S)}, f)
<1> DEFINE T == S \ {Pick(S)}
<1>1. Pick(S) \in S
  BY PickIsIn
<1>2. IsFiniteSet(T)
  BY <1>1, RestIsSmaller
<1>3. SumOf(f, S)[S] = Value(f, Pick(S)) + SumOf(f, S)[T]
  BY SumsExist, SumTakes
<1>4. SumOf(f, S)[T] = SumOf(f, T)[T]
  BY <1>2, SumsExist, SumsAgree
<1>. QED  BY <1>3, <1>4, TotalIsSum

LEMMA SumType ==
  ASSUME NEW f, NEW S, \A x \in S : Value(f, x) \in Nat, IsFiniteSet(S)
  PROVE  Total(S, f) \in Nat
<1> DEFINE Bad == {s \in SUBSET S : Total(s, f) \notin Nat}
<1> SUFFICES ASSUME Bad # {} PROVE FALSE
  OBVIOUS
<1>1. \A s \in Bad : IsFiniteSet(s) /\ s \subseteq S
  BY FS_Subset
<1>2. PICK s \in Bad : \A t \in Bad : Cardinality(s) <= Cardinality(t)
  <2> HIDE DEF Bad
  <2>. QED  BY <1>1, SmallestExists
<1>3. s # {}
  BY <1>2, SumOfNone
<1>4. Pick(s) \in s
  BY <1>3, PickIsIn
<1>5. Cardinality(s \ {Pick(s)}) < Cardinality(s) /\ IsFiniteSet(s) /\ IsFiniteSet(s \ {Pick(s)})
  BY <1>1, <1>2, <1>4, RestIsSmaller
<1>6. s \ {Pick(s)} \notin Bad
  BY <1>2, <1>5, FS_CardinalityType
<1>7. Total(s \ {Pick(s)}, f) \in Nat /\ Value(f, Pick(s)) \in Nat
  BY <1>1, <1>2, <1>4, <1>6
<1>8. Total(s, f) = Value(f, Pick(s)) + Total(s \ {Pick(s)}, f)
  BY <1>3, <1>5, SumOfSome
<1>. QED  BY <1>2, <1>7, <1>8

LEMMA SumRemoves ==
  ASSUME NEW f, NEW S, \A x \in S : Value(f, x) \in Nat, IsFiniteSet(S), NEW x \in S
  PROVE  Total(S, f) = Value(f, x) + Total(S \ {x}, f)
<1> DEFINE Bad == {s \in SUBSET S : \E y \in s : Total(s, f) # Value(f, y) + Total(s \ {y}, f)}
<1> SUFFICES ASSUME Bad # {} PROVE FALSE
  OBVIOUS
<1>1. \A s \in Bad : IsFiniteSet(s) /\ s \subseteq S
  BY FS_Subset
<1>2. PICK s \in Bad : \A t \in Bad : Cardinality(s) <= Cardinality(t)
  <2> HIDE DEF Bad
  <2>. QED  BY <1>1, SmallestExists
<1>3. PICK y \in s : Total(s, f) # Value(f, y) + Total(s \ {y}, f)
  BY <1>2
<1> DEFINE p == Pick(s)
           r == s \ {p}
           q == s \ {y}
           t == s \ {p, y}
<1>4. p \in s /\ IsFiniteSet(s) /\ \A z \in s : Value(f, z) \in Nat
  BY <1>1, <1>2, <1>3, PickIsIn
<1>5. Total(s, f) = Value(f, p) + Total(r, f)
  BY <1>3, <1>4, SumOfSome
<1>6. p # y
  BY <1>3, <1>5
<1>7. IsFiniteSet(r) /\ IsFiniteSet(q) /\ Cardinality(r) < Cardinality(s) /\ Cardinality(q) < Cardinality(s)
  BY <1>3, <1>4, RestIsSmaller
<1>8. r \notin Bad /\ q \notin Bad
  <2>1. Cardinality(r) \in Nat /\ Cardinality(q) \in Nat /\ Cardinality(s) \in Nat
    BY <1>4, <1>7, FS_CardinalityType
  <2> HIDE DEF Bad, r, q
  <2>. QED  BY <1>2, <1>7, <2>1
<1>9. Total(r, f) = Value(f, y) + Total(r \ {y}, f)
  BY <1>1, <1>2, <1>3, <1>6, <1>8
<1>10. Total(q, f) = Value(f, p) + Total(q \ {p}, f)
  BY <1>1, <1>2, <1>4, <1>6, <1>8
<1>11. r \ {y} = t /\ q \ {p} = t
  OBVIOUS
<1>12. IsFiniteSet(t) /\ \A z \in t : Value(f, z) \in Nat
  BY <1>4, <1>7, <1>11, FS_Subset
<1>13. Total(t, f) \in Nat /\ Value(f, p) \in Nat /\ Value(f, y) \in Nat
  BY <1>3, <1>4, <1>12, SumType
<1> HIDE DEF p, r, t
<1>14. Total(s, f) = Value(f, p) + (Value(f, y) + Total(t, f)) /\ Total(q, f) = Value(f, p) + Total(t, f)
  BY <1>5, <1>9, <1>10, <1>11
<1>15. Total(s, f) = Value(f, y) + Total(q, f)
  <2> HIDE DEF q
  <2>. QED  BY <1>13, <1>14
<1>. QED  BY <1>3, <1>15
-----------------------------------------------------------------------------
(* The latency that 95 of 100 rows do not exceed.                          *)
Latency(r) == Observed[r.kind].latency
Covered(S, v) == {r \in S : Latency(r) <= v}
Enough(S, v) == 20 * Cardinality(Covered(S, v)) >= 19 * Cardinality(S)
EnoughFor(S) == {v \in {Latency(r) : r \in S} : Enough(S, v)}

LEMMA P95IsLeast ==
  ASSUME NEW S
  PROVE  P95(S) = IF S = {} THEN 0 ELSE Min(EnoughFor(S))
BY DEF P95, EnoughFor, Enough, Covered, Latency

(* A slowest row there is.                                                 *)
LEMMA SlowestExists ==
  ASSUME NEW S, IsFiniteSet(S), S # {}, \A r \in S : Latency(r) \in Nat
  PROVE  \E r \in S : \A s \in S : Latency(s) <= Latency(r)
<1> DEFINE Bad == {T \in SUBSET S : T # {} /\ ~ \E r \in T : \A s \in T : Latency(s) <= Latency(r)}
<1> SUFFICES ASSUME Bad # {} PROVE FALSE
  OBVIOUS
<1>1. \A T \in Bad : IsFiniteSet(T) /\ T \subseteq S
  BY FS_Subset
<1>2. PICK T \in Bad : \A U \in Bad : Cardinality(T) <= Cardinality(U)
  <2> HIDE DEF Bad
  <2> QED BY <1>1, SmallestExists
<1>3. PICK p \in T : TRUE
  BY <1>2
<1> DEFINE U == T \ {p}
<1>4. Cardinality(U) < Cardinality(T) /\ IsFiniteSet(T) /\ IsFiniteSet(U)
  BY <1>1, <1>2, <1>3, RestIsSmaller
<1>5. U \notin Bad /\ U \subseteq S
  <2>1. Cardinality(U) \in Nat /\ Cardinality(T) \in Nat
    BY <1>4, FS_CardinalityType
  <2>2. U \notin Bad
    <3> HIDE DEF Bad, U
    <3> QED BY <1>2, <1>4, <2>1
  <2> QED BY <1>1, <1>2, <2>2
<1>6. \A r \in T : Latency(r) \in Nat
  BY <1>1, <1>2
<1>7. CASE U = {}
  <2>1. T = {p}
    BY <1>3, <1>7
  <2> QED BY <1>2, <1>6, <2>1
<1>8. CASE U # {}
  <2>1. PICK r \in U : \A s \in U : Latency(s) <= Latency(r)
    BY <1>5, <1>8
  <2>2. \A s \in T : s = p \/ s \in U
    OBVIOUS
  <2>3. r \in T /\ p \in T /\ Latency(r) \in Nat /\ Latency(p) \in Nat
    BY <1>3, <1>6, <2>1
  <2>4. CASE Latency(p) <= Latency(r)
    BY <1>2, <2>1, <2>2, <2>3, <2>4
  <2>5. CASE Latency(r) <= Latency(p)
    <3>1. \A s \in T : Latency(s) <= Latency(p)
      BY <1>6, <2>1, <2>2, <2>3, <2>5
    <3> QED BY <1>2, <1>3, <3>1
  <2> QED BY <2>3, <2>4, <2>5
<1> QED BY <1>7, <1>8

LEMMA EnoughExists ==
  ASSUME NEW S, IsFiniteSet(S), S # {}, \A r \in S : Latency(r) \in Nat
  PROVE  EnoughFor(S) \subseteq Nat /\ EnoughFor(S) # {}
<1>1. PICK r \in S : \A s \in S : Latency(s) <= Latency(r)
  BY SlowestExists
<1>2. Covered(S, Latency(r)) = S
  BY <1>1 DEF Covered
<1>3. Enough(S, Latency(r))
  BY <1>2, FS_CardinalityType DEF Enough
<1>4. Latency(r) \in EnoughFor(S)
  BY <1>3 DEF EnoughFor
<1> QED BY <1>4 DEF EnoughFor

LEMMA P95Facts ==
  ASSUME NEW S, IsFiniteSet(S), \A r \in S : Latency(r) \in Nat
  PROVE  /\ P95(S) \in Nat
         /\ S # {} => P95(S) \in EnoughFor(S) /\ \A v \in EnoughFor(S) : P95(S) <= v
<1>1. CASE S = {}
  BY <1>1, P95IsLeast
<1>2. CASE S # {}
  <2>1. EnoughFor(S) \subseteq Nat /\ EnoughFor(S) # {}
    BY <1>2, EnoughExists
  <2>2. \E v \in EnoughFor(S) : \A w \in EnoughFor(S) : v <= w
    BY <2>1, LeastExists
  <2>3. Min(EnoughFor(S)) \in EnoughFor(S) /\ \A v \in EnoughFor(S) : Min(EnoughFor(S)) <= v
    BY <2>2 DEF Min
  <2> QED BY <1>2, <2>1, <2>3, P95IsLeast
<1> QED BY <1>1, <1>2

-----------------------------------------------------------------------------
(* In a measured panel every cell has one row, so that the arms are of one *)
(* size, in every environment and together.                                *)
LEMMA OneRowPerCell ==
  ASSUME NEW phase, NEW panel, IsFiniteSet(panel), Measured(phase, panel)
  PROVE  \A r, s \in panel : r.cell = s.cell => r = s
<1> DEFINE f == [r \in panel |-> r.cell]
<1>1. f \in Surjection(panel, Panel(phase))
  BY DEF Measured, Cells, Surjection
<1>2. f \in Injection(panel, Panel(phase))
  <2> HIDE DEF f
  <2> QED BY <1>1, FS_SurjSameCardinalityImpliesInj DEF Measured
<1>3. \A r, s \in panel : f[r] = f[s] => r = s
  <2> HIDE DEF f
  <2> QED BY <1>2 DEF Injection, IsInjective
<1> QED BY <1>3

Part(panel, a, E) == {r \in panel : r.cell[4] = a /\ r.cell[1] \in E}

LEMMA PartGrows ==
  ASSUME NEW phase, NEW panel, IsFiniteSet(panel), Measured(phase, panel),
         NEW a, NEW b \in Arms(phase), NEW E
  PROVE  Cardinality(Part(panel, a, E)) <= Cardinality(Part(panel, b, E))
<1> DEFINE Swap(c) == <<c[1], c[2], c[3], b>>
           f == [r \in Part(panel, a, E) |-> CHOOSE s \in panel : s.cell = Swap(r.cell)]
<1>1. \A r \in panel : \E e \in Envs(phase) : \E t \in TasksOf[e] : \E d \in Seeds : \E x \in Arms(phase) :
         r.cell = <<e, t, d, x>>
  BY DEF Measured, Cells, Panel
<1>2. \A r \in panel : Swap(r.cell) \in Panel(phase)
  BY <1>1 DEF Panel
<1>3. \A r \in panel : \E s \in panel : s.cell = Swap(r.cell)
  BY <1>2 DEF Measured, Cells
<1>4. \A r \in Part(panel, a, E) : f[r] \in panel /\ f[r].cell = Swap(r.cell)
  BY <1>3 DEF Part
<1>5. f \in [Part(panel, a, E) -> Part(panel, b, E)]
  <2>1. \A r \in Part(panel, a, E) : f[r] \in Part(panel, b, E)
    <3> SUFFICES ASSUME NEW r \in Part(panel, a, E) PROVE f[r] \in Part(panel, b, E)
      OBVIOUS
    <3>1. f[r] \in panel /\ f[r].cell = Swap(r.cell)
      BY <1>4
    <3>2. Swap(r.cell)[4] = b /\ Swap(r.cell)[1] \in E
      BY DEF Part
    <3> HIDE DEF f, Swap
    <3> QED BY <3>1, <3>2 DEF Part
  <2> QED BY <2>1
<1>6. \A r, s \in Part(panel, a, E) : f[r] = f[s] => r = s
  <2> SUFFICES ASSUME NEW r \in Part(panel, a, E), NEW s \in Part(panel, a, E), f[r] = f[s] PROVE r = s
    OBVIOUS
  <2>1. Swap(r.cell) = Swap(s.cell)
    BY <1>4
  <2>2. r.cell[1] = s.cell[1] /\ r.cell[2] = s.cell[2] /\ r.cell[3] = s.cell[3] /\ r.cell[4] = s.cell[4]
    BY <2>1 DEF Part
  <2>3. r \in panel /\ s \in panel
    BY DEF Part
  <2>4. r.cell = s.cell
    BY <1>1, <2>2, <2>3
  <2> QED BY <2>3, <2>4, OneRowPerCell
<1>7. f \in Injection(Part(panel, a, E), Part(panel, b, E))
  <2> HIDE DEF f
  <2> QED BY <1>5, <1>6 DEF Injection, IsInjective
<1>8. IsFiniteSet(Part(panel, b, E))
  BY FS_Subset DEF Part
<1> QED BY <1>7, <1>8, FS_Injection

LEMMA ArmsMatch ==
  ASSUME NEW phase \in {"validation", "final"}, NEW panel, IsFiniteSet(panel), Measured(phase, panel)
  PROVE  /\ Cardinality(Arm(panel, "L")) = Cardinality(Arm(panel, "B0"))
         /\ \A e \in Envs(phase) : Cardinality(In(Arm(panel, "L"), e)) = Cardinality(In(Arm(panel, "B0"), e))
<1>1. "B0" \in Arms(phase) /\ "L" \in Arms(phase)
  BY DEF Arms
<1>2. ASSUME NEW E PROVE Cardinality(Part(panel, "L", E)) = Cardinality(Part(panel, "B0", E))
  <2>1. /\ Cardinality(Part(panel, "L", E)) <= Cardinality(Part(panel, "B0", E))
        /\ Cardinality(Part(panel, "B0", E)) <= Cardinality(Part(panel, "L", E))
    BY <1>1, PartGrows
  <2>2. IsFiniteSet(Part(panel, "L", E)) /\ IsFiniteSet(Part(panel, "B0", E))
    BY FS_Subset DEF Part
  <2> QED BY <2>1, <2>2, FS_CardinalityType
<1>3. \A r \in panel : r.cell[1] \in Envs(phase)
  BY DEF Measured, Cells, Panel
<1>4. \A a : Arm(panel, a) = Part(panel, a, Envs(phase))
  BY <1>3 DEF Arm, Part
<1>5. \A a, e : In(Arm(panel, a), e) = Part(panel, a, {e})
  BY DEF In, Arm, Part
<1> QED BY <1>2, <1>4, <1>5

-----------------------------------------------------------------------------
(* What the gate decides on, between arms of one size.                     *)

LEMMA Cancel ==
  ASSUME NEW a \in Int, NEW b \in Int, NEW n \in Nat, n > 0, a * n <= b * n
  PROVE  a <= b
<1> SUFFICES ASSUME b + 1 <= a PROVE FALSE
  OBVIOUS
<1>1. (b + 1) * n <= a * n
  OBVIOUS
<1>2. (b + 1) * n = b * n + n
  OBVIOUS
<1>3. a * n \in Int /\ b * n \in Int
  OBVIOUS
<1> QED BY <1>1, <1>2, <1>3

LEMMA GainOf ==
  ASSUME NEW p \in Int, NEW q \in Int, NEW n \in Nat, n > 0, NEW c \in Int \X (Nat \ {0}),
         ~Below(<<p * n - q * n, n * n>>, c)
  PROVE  (p - q) * c[2] >= c[1] * n /\ (c[1] > 0 => p - q > 0)
<1>1. c[1] \in Int /\ c[2] \in Nat /\ c[2] > 0
  OBVIOUS
<1> DEFINE k == c[1]
           d == c[2]
<1>2. ~((p * n - q * n) * d < k * (n * n))
  BY DEF Below
<1> HIDE DEF k, d
<1>3. k \in Int /\ d \in Nat /\ d > 0
  BY <1>1 DEF k, d
<1>4. (p * n - q * n) * d = ((p - q) * d) * n /\ k * (n * n) = (k * n) * n
  BY <1>3
<1>5. (k * n) * n <= ((p - q) * d) * n
  <2>1. (k * n) * n \in Int /\ ((p - q) * d) * n \in Int
    BY <1>3
  <2> QED BY <1>2, <1>4, <2>1
<1>6. k * n <= (p - q) * d
  <2>1. k * n \in Int /\ (p - q) * d \in Int
    BY <1>3
  <2> QED BY <1>5, <2>1, Cancel
<1>7. ASSUME k > 0 PROVE p - q > 0
  <2>1. k * n >= 1
    BY <1>3, <1>7
  <2>2. (p - q) * d >= 1
    BY <1>3, <1>6, <2>1
  <2> SUFFICES ASSUME p - q <= 0 PROVE FALSE
    OBVIOUS
  <2>3. (p - q) * d <= 0
    BY <1>3
  <2> QED BY <1>3, <2>2, <2>3
<1> QED BY <1>6, <1>7 DEF k, d

LEMMA RatioOf ==
  ASSUME NEW l \in Int, NEW b \in Int, NEW n \in Nat, n > 0, NEW c \in Int \X (Nat \ {0}),
         ~(l * n * c[2] > c[1] * b * n)
  PROVE  l * c[2] <= c[1] * b
<1>1. c[1] \in Int /\ c[2] \in Int
  OBVIOUS
<1>2. l * n * c[2] = (l * c[2]) * n /\ (l * c[2]) * n \in Int /\ c[1] * b * n \in Int /\ l * c[2] \in Int /\ c[1] * b \in Int
  BY <1>1
<1>3. (l * c[2]) * n <= (c[1] * b) * n
  BY <1>2
<1> QED BY <1>2, <1>3, Cancel

LEMMA NoReason == ASSUME NEW p, NEW reason, When(p, reason) = {} PROVE ~p
BY DEF When

(* A gate without a reason against it, part by part.                       *)
LEMMA GateConfig ==
  ASSUME NEW g, Reasons(g) = {}
  PROVE  \A f \in Ratios \cup Ceilings : Valid(g.config, f)
<1>1. ConfigReasons(g.config) = {}
  BY DEF Reasons
<1> QED BY <1>1 DEF ConfigReasons

LEMMA GateCounts ==
  ASSUME NEW g, Reasons(g) = {}
  PROVE  /\ g.base.count # 0 /\ g.cand.count # 0
         /\ \A m : /\ Metric(g.base, m) = <<g.base[m], g.base.count>>
                   /\ Metric(g.cand, m) = <<g.cand[m], g.cand.count>>
<1>1. When(g.base.count = 0, <<"empty", "B0">>) = {} /\ When(g.cand.count = 0, <<"empty", "L">>) = {}
  BY DEF Reasons, SummaryReasons
<1>2. g.base.count # 0 /\ g.cand.count # 0
  BY <1>1, NoReason
<1> QED BY <1>2 DEF Metric, Mean

LEMMA GateGain ==
  ASSUME NEW g, Reasons(g) = {}
  PROVE  ~Below(<<g.cand.passed * g.base.count - g.base.passed * g.cand.count, g.cand.count * g.base.count>>,
                g.config.gain)
<1> DEFINE b == Metric(g.base, "passed")
           l == Metric(g.cand, "passed")
           gain == <<l[1] * b[2] - b[1] * l[2], l[2] * b[2]>>
<1>1. When(Valid(g.config, "gain") /\ Below(gain, g.config.gain), <<"gain">>) = {}
  BY DEF Reasons, GainReasons
<1>2. ~(Valid(g.config, "gain") /\ Below(gain, g.config.gain))
  <2> HIDE DEF gain
  <2> QED BY <1>1, NoReason
<1>3. Valid(g.config, "gain")
  BY GateConfig DEF Ratios
<1>4. b = <<g.base["passed"], g.base.count>> /\ l = <<g.cand["passed"], g.cand.count>>
  BY GateCounts
<1> QED BY <1>2, <1>3, <1>4

LEMMA GateEnvironments ==
  ASSUME NEW g, Reasons(g) = {}, g.config.perEnvironment, NEW e \in g.envs, NEW m \in {"passed", "reliable"}
  PROVE  /\ g.cells[e]["B0"].count # 0 /\ g.cells[e]["L"].count # 0
         /\ ~Below(<<g.cells[e]["L"][m], g.cells[e]["L"].count>>, <<g.cells[e]["B0"][m], g.cells[e]["B0"].count>>)
<1> DEFINE regressed(x, n) == Below(Metric(g.cells[x]["L"], n), Metric(g.cells[x]["B0"], n))
           cellReasons(x) ==
             IF g.cells[x]["B0"].count = 0 \/ g.cells[x]["L"].count = 0 THEN {<<"incomplete", x>>}
             ELSE {<<"regression", x, n>> : n \in {k \in {"passed", "reliable"} : regressed(x, k)}}
<1>1. EnvironmentReasons(g) = {}
  BY DEF Reasons
<1>2. /\ When(DOMAIN g.cells # g.envs, <<"environments">>) = {}
      /\ UNION {cellReasons(x) : x \in g.envs \cap DOMAIN g.cells} = {}
  BY <1>1, Zenon DEF EnvironmentReasons
<1>3. e \in g.envs \cap DOMAIN g.cells
  BY <1>2, NoReason
<1>4. cellReasons(e) = {}
  <2> HIDE DEF cellReasons
  <2> QED BY <1>2, <1>3
<1>5. g.cells[e]["B0"].count # 0 /\ g.cells[e]["L"].count # 0
  BY <1>4
<1>6. ~regressed(e, m)
  <2> HIDE DEF regressed
  <2> QED BY <1>4, <1>5
<1> QED BY <1>5, <1>6 DEF Metric, Mean

LEMMA GateCeilings ==
  ASSUME NEW g, Reasons(g) = {}
  PROVE  /\ ~Below(<<g.config.maxCost, 1>>, <<g.cand.cost, g.cand.count>>)
         /\ \/ g.base.cost = 0
            \/ ~(g.cand.cost * g.base.count * g.config.costRatio[2]
                 > g.config.costRatio[1] * g.base.cost * g.cand.count)
         /\ ~Below(<<g.config.maxLatency, 1>>, <<g.cand.p95, 1>>)
         /\ \/ g.base.p95 = 0
            \/ ~(g.cand.p95 * 1 * g.config.latencyRatio[2] > g.config.latencyRatio[1] * g.base.p95 * 1)
<1>1. CostReasons(g) = {} /\ LatencyReasons(g) = {}
  BY DEF Reasons
<1>2. ASSUME NEW l, NEW b, NEW c, NEW r, Bounded(l, b, g.config, c, r) = {}, c \in Ceilings, r \in Ratios
      PROVE  ~Below(<<g.config[c], 1>>, l) /\ (b[1] = 0 \/ ~(l[1] * b[2] * g.config[r][2] > g.config[r][1] * b[1] * l[2]))
  <2>1. Valid(g.config, c) /\ Valid(g.config, r)
    BY <1>2, GateConfig
  <2>2. /\ When(Valid(g.config, c) /\ Below(<<g.config[c], 1>>, l), <<"over", c>>) = {}
        /\ When(/\ b[1] # 0 /\ Valid(g.config, r)
                /\ l[1] * b[2] * g.config[r][2] > g.config[r][1] * b[1] * l[2], <<"over", r>>) = {}
    BY <1>2 DEF Bounded
  <2> QED BY <2>1, <2>2, NoReason
<1>3. "maxCost" \in Ceilings /\ "maxLatency" \in Ceilings /\ "costRatio" \in Ratios /\ "latencyRatio" \in Ratios
  BY DEF Ceilings, Ratios
<1>4. /\ Metric(g.cand, "cost") = <<g.cand["cost"], g.cand.count>>
      /\ Metric(g.base, "cost") = <<g.base["cost"], g.base.count>>
  BY GateCounts
<1>5. /\ ~Below(<<g.config["maxCost"], 1>>, <<g.cand["cost"], g.cand.count>>)
      /\ \/ g.base.cost = 0
         \/ ~(g.cand.cost * g.base.count * g.config["costRatio"][2]
              > g.config["costRatio"][1] * g.base.cost * g.cand.count)
  <2>1. Bounded(<<g.cand["cost"], g.cand.count>>, <<g.base["cost"], g.base.count>>, g.config, "maxCost", "costRatio") = {}
    BY <1>1, <1>4 DEF CostReasons
  <2>2. PICK l, b : l = <<g.cand["cost"], g.cand.count>> /\ b = <<g.base["cost"], g.base.count>>
    OBVIOUS
  <2>3. /\ ~Below(<<g.config["maxCost"], 1>>, l)
        /\ b[1] = 0 \/ ~(l[1] * b[2] * g.config["costRatio"][2] > g.config["costRatio"][1] * b[1] * l[2])
    BY <1>2, <1>3, <2>1, <2>2
  <2> QED BY <2>2, <2>3
<1>6. /\ ~Below(<<g.config["maxLatency"], 1>>, <<g.cand.p95, 1>>)
      /\ \/ g.base.p95 = 0
         \/ ~(g.cand.p95 * 1 * g.config["latencyRatio"][2] > g.config["latencyRatio"][1] * g.base.p95 * 1)
  <2>1. Bounded(<<g.cand.p95, 1>>, <<g.base.p95, 1>>, g.config, "maxLatency", "latencyRatio") = {}
    BY <1>1 DEF LatencyReasons
  <2> QED BY <1>2, <1>3, <2>1
<1> QED BY <1>5, <1>6

-----------------------------------------------------------------------------
(* What passes the gate is earned.                                         *)

Numeric(config) ==
  \A f \in Ratios \cup Ceilings :
    config[f] \in {NoValue} \cup IF f \in Ratios THEN Int \X (Nat \ {0}) ELSE Int

LEMMA Measures ==
  ASSUME NEW panel, IsPanel(panel), NEW S, S \subseteq panel
  PROVE  /\ IsFiniteSet(S) /\ Cardinality(S) \in Nat
         /\ Total(S, "cost") \in Nat /\ Total(S, "violations") \in Nat /\ P95(S) \in Nat
         /\ \A m : IsFiniteSet(Where(S, m)) /\ Cardinality(Where(S, m)) \in Nat
<1>1. IsFiniteSet(S)
  BY FS_Subset DEF IsPanel
<1>2. \A r \in S : Value("cost", r) \in Nat /\ Value("violations", r) \in Nat /\ Latency(r) \in Nat
  BY ObservedAssumption DEF IsPanel, Value, Latency
<1>3. Total(S, "cost") \in Nat /\ Total(S, "violations") \in Nat
  BY <1>1, <1>2, SumType
<1>4. ASSUME NEW m PROVE IsFiniteSet(Where(S, m)) /\ Cardinality(Where(S, m)) \in Nat
  BY <1>1, FS_Subset, FS_CardinalityType DEF Where
<1> QED BY <1>1, <1>2, <1>3, <1>4, P95Facts, FS_CardinalityType

LEMMA GateEarns ==
  ASSUME NEW phase \in {"validation", "final"}, NEW panel, IsPanel(panel), Measured(phase, panel),
         \A r \in panel : Genuine(r) /\ Observed[r.kind].safe,
         NEW g, Reasons(g) = {}, Numeric(g.config), g.config.gain[1] > 0, g.config.perEnvironment,
         g.base = Summary(Arm(panel, "B0")), g.cand = Summary(Arm(panel, "L")), g.envs = Envs(phase),
         \A e \in Envs(phase), a \in {"B0", "L"} : g.cells[e][a] = Summary(In(Arm(panel, a), e))
  PROVE  Earned(phase, panel, g.config)
<1> DEFINE base == Arm(panel, "B0")
           new == Arm(panel, "L")
           n == Cardinality(new)
           config == g.config
<1>1. base \subseteq panel /\ new \subseteq panel
  BY DEF Arm
<1>2. /\ n \in Nat /\ Total(new, "cost") \in Nat /\ Total(base, "cost") \in Nat /\ P95(new) \in Nat /\ P95(base) \in Nat
      /\ Cardinality(Where(new, "passed")) \in Nat /\ Cardinality(Where(base, "passed")) \in Nat
  BY <1>1, Measures
<1>3. Cardinality(base) = n
  BY ArmsMatch DEF IsPanel
<1>4. /\ g.base.count = n /\ g.cand.count = n
      /\ g.base.passed = Cardinality(Where(base, "passed")) /\ g.cand.passed = Cardinality(Where(new, "passed"))
      /\ g.base.cost = Total(base, "cost") /\ g.cand.cost = Total(new, "cost")
      /\ g.base.p95 = P95(base) /\ g.cand.p95 = P95(new)
  BY <1>3 DEF Summary
<1>5. n > 0
  BY <1>2, <1>4, GateCounts
<1>6. /\ config.gain \in Int \X (Nat \ {0}) /\ config.costRatio \in Int \X (Nat \ {0})
      /\ config.latencyRatio \in Int \X (Nat \ {0}) /\ config.maxCost \in Int /\ config.maxLatency \in Int
  <2>1. \A f \in Ratios \cup Ceilings : config[f] # NoValue
    BY GateConfig DEF Valid
  <2>2. \A f \in Ratios : config[f] \in Int \X (Nat \ {0})
    BY <2>1 DEF Numeric
  <2>3. \A f \in Ceilings : config[f] \in Int
    BY <2>1 DEF Numeric, Ratios, Ceilings
  <2> QED BY <2>2, <2>3 DEF Ratios, Ceilings
<1> HIDE DEF base, new, n
<1>7. LET gained == Cardinality(Where(new, "passed")) - Cardinality(Where(base, "passed"))
      IN gained > 0 /\ gained * config.gain[2] >= config.gain[1] * n
  <2>1. ~Below(<<g.cand.passed * n - g.base.passed * n, n * n>>, config.gain)
    BY <1>4, GateGain
  <2>2. g.cand.passed \in Int /\ g.base.passed \in Int
    BY <1>2, <1>4
  <2>3. /\ (g.cand.passed - g.base.passed) * config.gain[2] >= config.gain[1] * n
        /\ g.cand.passed - g.base.passed > 0
    BY <1>2, <1>5, <1>6, <2>1, <2>2, GainOf
  <2> QED BY <1>4, <2>3
<1>8. Total(new, "cost") <= config.maxCost * n
  <2>1. ~Below(<<config.maxCost, 1>>, <<Total(new, "cost"), n>>)
    BY <1>4, GateCeilings
  <2>2. ~(config.maxCost * n < Total(new, "cost") * 1)
    BY <2>1 DEF Below
  <2>3. config.maxCost * n \in Int
    BY <1>2, <1>6
  <2> QED BY <1>2, <2>2, <2>3
<1>9. Total(base, "cost") = 0 \/ Total(new, "cost") * config.costRatio[2] <= config.costRatio[1] * Total(base, "cost")
  <2>1. \/ Total(base, "cost") = 0
        \/ ~(Total(new, "cost") * n * config.costRatio[2] > config.costRatio[1] * Total(base, "cost") * n)
    BY <1>4, GateCeilings
  <2> QED BY <1>2, <1>5, <1>6, <2>1, RatioOf
<1>10. P95(new) <= config.maxLatency
  <2>1. ~Below(<<config.maxLatency, 1>>, <<P95(new), 1>>)
    BY <1>4, GateCeilings
  <2> QED BY <1>2, <1>6, <2>1 DEF Below
<1>11. P95(base) = 0 \/ P95(new) * config.latencyRatio[2] <= config.latencyRatio[1] * P95(base)
  <2>1. \/ P95(base) = 0
        \/ ~(P95(new) * 1 * config.latencyRatio[2] > config.latencyRatio[1] * P95(base) * 1)
    BY <1>4, GateCeilings
  <2> QED BY <1>2, <1>6, <2>1, RatioOf
<1>12. \A e \in Envs(phase) : Better(panel, e)
  <2> SUFFICES ASSUME NEW e \in Envs(phase), NEW m \in {"passed", "reliable"}
               PROVE  Cardinality(Where(In(Arm(panel, "L"), e), m)) >= Cardinality(Where(In(Arm(panel, "B0"), e), m))
    BY DEF Better
  <2> DEFINE b == In(Arm(panel, "B0"), e)
             l == In(Arm(panel, "L"), e)
             k == Cardinality(l)
  <2>1. b \subseteq panel /\ l \subseteq panel
    BY DEF In, Arm
  <2>2. k \in Nat /\ Cardinality(Where(b, m)) \in Nat /\ Cardinality(Where(l, m)) \in Nat
    BY <2>1, Measures
  <2>3. Cardinality(b) = k
    BY ArmsMatch DEF IsPanel
  <2>4. g.cells[e]["B0"] = Summary(b) /\ g.cells[e]["L"] = Summary(l)
    OBVIOUS
  <2>5. /\ g.cells[e]["B0"].count = k /\ g.cells[e]["L"].count = k
        /\ g.cells[e]["B0"][m] = Cardinality(Where(b, m)) /\ g.cells[e]["L"][m] = Cardinality(Where(l, m))
    BY <2>3, <2>4 DEF Summary
  <2>6. k # 0 /\ ~Below(<<Cardinality(Where(l, m)), k>>, <<Cardinality(Where(b, m)), k>>)
    <3>1. /\ g.cells[e]["B0"].count # 0 /\ g.cells[e]["L"].count # 0
          /\ ~Below(<<g.cells[e]["L"][m], g.cells[e]["L"].count>>, <<g.cells[e]["B0"][m], g.cells[e]["B0"].count>>)
      <4>1. e \in g.envs
        OBVIOUS
      <4> QED BY <4>1, GateEnvironments
    <3> QED BY <2>5, <3>1
  <2> HIDE DEF b, l, k
  <2>7. k > 0 /\ Cardinality(Where(b, m)) * k <= Cardinality(Where(l, m)) * k
    BY <2>2, <2>6 DEF Below
  <2>8. Cardinality(Where(b, m)) <= Cardinality(Where(l, m))
    BY <2>2, <2>7, Cancel
  <2> QED BY <2>2, <2>8 DEF b, l
<1> QED BY <1>7, <1>8, <1>9, <1>10, <1>11, <1>12 DEF Earned, base, new, n

-----------------------------------------------------------------------------
(* PromotionIsEarned and FinalPassIsHeldOut.                               *)

(* The frozen thresholds ask for a gain, and for none to lose anywhere.    *)
Demanding == \A p \in Protocols : Config[p].gain[1] > 0 /\ Config[p].perEnvironment

LEMMA FiledDomain ==
  ASSUME NEW j \in Jobs, NEW r, Filed(j, r)
  PROVE  DOMAIN r = Fields \cup {"token"}
<1>1. PICK lower \in Lowers(Phase[j], rows[j]), p \in Probes, audit \in BOOLEAN, n \in 1..launches[j] :
        r = Tagged(<<j, n>>, rows[j], Draft(j, plan[j], rows[j], lower, p, audit))
  BY DEF Filed, FiledUnder
<1>2. PICK d : d = Draft(j, plan[j], rows[j], lower, p, audit)
  OBVIOUS
<1>3. IsReport(d)
  BY <1>2, DraftFields DEF Draft
<1>4. r = Put(Published(d, rows[j]), "token", <<j, n>>)
  BY <1>1, <1>2 DEF Tagged
<1> QED BY <1>3, <1>4, PublishedFields

(* A report without a defect that passed the safety checks was measured on *)
(* a panel of real and safe runs, under the thresholds of its plan.        *)
LEMMA SoundReport ==
  ASSUME EvidenceInv, NEW j \in DOMAIN report, NEW r, r = report[j], Defects(r) = {}, r.safetyPassed
  PROVE  /\ IsPanel(rows[j]) /\ Measured(Phase[j], rows[j])
         /\ \A x \in rows[j] : Genuine(x) /\ Observed[x.kind].safe
         /\ Numeric(Config[plan[j]]) /\ plan[j] \in Protocols
<1>1. j \in Jobs /\ Filed(j, r) /\ plan[j] # NoValue
  BY OwnReport DEF ReportOK
<1>2. IsPanel(rows[j]) /\ plan[j] \in Protocols
  BY <1>1, CurrentRelease DEF EvidenceInv, PlansOK
<1>3. r.validity = "valid" /\ r.provenanceComplete
  BY DEF Defects, When
<1>4. Clean(j) /\ Provenance(rows[j]) /\ SafeIn(rows[j], r.cases)
  BY <1>1, <1>3, FiledFacts
<1>5. Measured(Phase[j], rows[j])
  BY <1>4, CleanIsMeasured DEF Clean
<1>6. \A x \in rows[j] : Genuine(x) /\ Observed[x.kind].safe
  BY <1>4 DEF Provenance, SafeIn, All, Genuine
<1>7. Numeric(Config[plan[j]])
  BY <1>2, EvidenceAssumption DEF Numeric, Protocols
<1> QED BY <1>2, <1>5, <1>6, <1>7

(* A gate that looks at the measures of such a report passes only what is  *)
(* earned.                                                                 *)
LEMMA ReportEarns ==
  ASSUME EvidenceInv, Demanding, NEW j \in DOMAIN report, NEW r, r = report[j], Defects(r) = {}, r.safetyPassed,
         NEW g, Reasons(g) = {}, g.config = Config[plan[j]],
         g.base = r.arms["B0"], g.cand = r.arms["L"], g.cells = r.cells, g.envs = r.envs
  PROVE  Earned(Phase[j], rows[j], Config[plan[j]])
<1>1. j \in Jobs /\ Filed(j, r)
  BY OwnReport DEF ReportOK
<1>2. /\ IsPanel(rows[j]) /\ Measured(Phase[j], rows[j])
      /\ \A x \in rows[j] : Genuine(x) /\ Observed[x.kind].safe
      /\ Numeric(Config[plan[j]]) /\ plan[j] \in Protocols
  BY SoundReport
<1>3. Phase[j] \in {"validation", "final"}
  BY <1>1, EvidenceAssumption
<1>4. "B0" \in Arms(Phase[j]) /\ "L" \in Arms(Phase[j])
  BY DEF Arms
<1>5. r.arms = ArmsOf(Phase[j], rows[j]) /\ r.cells = CellsOf(Phase[j], rows[j]) /\ r.envs = Envs(Phase[j])
  BY <1>1, FiledMeasures, FiledFacts
<1>6. g.base = Summary(Arm(rows[j], "B0")) /\ g.cand = Summary(Arm(rows[j], "L"))
  BY <1>4, <1>5 DEF ArmsOf
<1>7. \A e \in Envs(Phase[j]), a \in {"B0", "L"} : g.cells[e][a] = Summary(In(Arm(rows[j], a), e))
  BY <1>4, <1>5 DEF CellsOf
<1>8. g.config.gain[1] > 0 /\ g.config.perEnvironment
  BY <1>2 DEF Demanding
<1> QED BY <1>2, <1>3, <1>5, <1>6, <1>7, <1>8, GateEarns

LEMMA FinalPassEarns ==
  ASSUME EvidenceInv, Demanding
  PROVE  FinalPassIsHeldOut
<1> SUFFICES ASSUME NEW j \in DOMAIN report, Phase[j] = "final", FinalReasons(report[j]) = {}
             PROVE  Earned("final", rows[j], report[j].config)
  BY DEF FinalPassIsHeldOut
<1>1. PICK r : r = report[j]
  OBVIOUS
<1>2. r.config = Config[plan[j]]
  BY <1>1, OwnReport, FiledFacts DEF ReportOK
<1>3. PICK ablation, violations :
        Reasons(GateInput(r, "final", Defects(r) \cup ablation, r.safetyPassed, violations)) = {}
  BY <1>1 DEF FinalReasons
<1>4. PICK g : g = GateInput(r, "final", Defects(r) \cup ablation, r.safetyPassed, violations)
  OBVIOUS
<1>5. /\ g.integrity = Defects(r) \cup ablation /\ g.safety.passed = r.safetyPassed
      /\ g.config = r.config /\ g.base = r.arms["B0"] /\ g.cand = r.arms["L"] /\ g.cells = r.cells /\ g.envs = r.envs
  BY <1>4 DEF GateInput
<1>6. Reasons(g) = {}
  BY <1>3, <1>4
<1>7. g.integrity = {} /\ SafetyReasons(g) = {}
  BY <1>6 DEF Reasons
<1>8. r.safetyPassed
  BY <1>5, <1>7, NoReason DEF SafetyReasons
<1>9. Defects(r) = {}
  BY <1>5, <1>7
<1>10. Earned(Phase[j], rows[j], Config[plan[j]])
  BY <1>1, <1>2, <1>5, <1>6, <1>8, <1>9, ReportEarns
<1> QED BY <1>1, <1>2, <1>10

(* A final report says that its gate passed only of a panel that earned it *)
(* in every environment, the sealed one too: final_gate_result             *)
(* (evaluation.py), whatever the panels, the probes and the releases.      *)
THEOREM FinalPassIsHeldOutCorrect ==
  ASSUME Demanding PROVE EvidenceSpec => []FinalPassIsHeldOut
<1>1. EvidenceInv => FinalPassIsHeldOut
  BY FinalPassEarns
<1> QED BY <1>1, EvidenceIsInductive, PTL

(* Only the decision on an eligible report that passes the gate makes its  *)
(* bundle active.                                                          *)
LEMMA OnlyPromoted ==
  ASSUME EvidenceInv, EvidenceNext, activeBundle' # activeBundle
  PROVE  \E j \in Jobs :
           /\ jpc[j] = "reported" /\ Eligible(report[j]) /\ Intact
           /\ GatePasses(report[j]) /\ report[j].base = activeBundle /\ activeBundle' = Bundle[j]
<1>1. PICK j \in Jobs : Judge(j)
  <2>1. ~Drift /\ ~Redeploy
    BY DEF Drift, Redeploy, evidenceVars
  <2>2. PICK j \in Jobs : JobStep(j)
    BY <2>1 DEF EvidenceNext
  <2>3. ~Queue(j) /\ ~LaunchJob(j) /\ ~Collect(j) /\ ~MakeReport(j) /\ ~SaveJob(j) /\ ~Mirror(j)
    BY DEF Queue, LaunchJob, Build, Collect, MakeReport, SaveJob, Mirror, evidenceVars
  <2> QED BY <2>2, <2>3 DEF JobStep
<1>2. jpc[j] = "reported" /\ Eligible(report[j]) /\ RequireEvidence(report[j]) /\ Promote(j)
  BY <1>1 DEF Judge, Refused
<1>3. /\ GatePasses(report[j]) /\ report[j].base = activeBundle /\ activeBundle' = Bundle[j]
  BY <1>2 DEF Promote, Refused
<1> QED BY <1>2, <1>3 DEF RequireEvidence

LEMMA PromotedIsEarned ==
  ASSUME EvidenceInv, Demanding, EvidenceNext, activeBundle' # activeBundle
  PROVE  \E j \in Jobs :
           /\ activeBundle' = Bundle[j] /\ activeBundle = Base(j)
           /\ Phase[j] = "validation" /\ plan[j] = Release /\ ~server.drift
           /\ \A k \in SafetyCases : report[j].cases[k]
           /\ Earned("validation", rows[j], Config[Release])
<1>1. PICK j \in Jobs : /\ jpc[j] = "reported" /\ Eligible(report[j]) /\ Intact
                        /\ GatePasses(report[j]) /\ report[j].base = activeBundle /\ activeBundle' = Bundle[j]
  BY OnlyPromoted
<1>2. PICK r : r = report[j]
  OBVIOUS
<1>3. j \in DOMAIN report /\ plan[j] = Release
  BY <1>1 DEF EvidenceInv, PlansOK
<1>4. Filed(j, r)
  BY <1>2, <1>3, OwnReport DEF ReportOK
<1>5. r.comparison = "validation" /\ Defects(r) = {} /\ r.safetyPassed
  BY <1>1, <1>2 DEF Eligible
<1>6. /\ r.comparison = Phase[j] /\ r.base = Genesis /\ r.protocol = Release
      /\ r.safetyPassed = SafeIn(rows[j], r.cases)
  BY <1>3, <1>4, FiledFacts
<1>7. \A k \in SafetyCases : r.cases[k]
  BY <1>5, <1>6 DEF SafeIn
<1>8. PICK u : u = [r EXCEPT !.config = Config[Release]]
  OBVIOUS
<1>9. /\ u.config = Config[Release] /\ u.arms = r.arms /\ u.cells = r.cells /\ u.envs = r.envs
  BY <1>4, <1>8, FiledDomain DEF Fields
<1>10. PICK passed, violations : Reasons(GateInput(u, "validation", {}, passed, violations)) = {}
  BY <1>1, <1>2, <1>6, <1>8 DEF GatePasses, Passes
<1>11. PICK g : g = GateInput(u, "validation", {}, passed, violations)
  OBVIOUS
<1>12. /\ g.config = Config[Release] /\ g.base = r.arms["B0"] /\ g.cand = r.arms["L"]
       /\ g.cells = r.cells /\ g.envs = r.envs
  BY <1>9, <1>11 DEF GateInput
<1>13. Reasons(g) = {}
  BY <1>10, <1>11
<1>14. Earned("validation", rows[j], Config[Release])
  BY <1>2, <1>3, <1>5, <1>6, <1>12, <1>13, ReportEarns
<1>15. activeBundle = Base(j)
  BY <1>1, <1>2, <1>6 DEF Base
<1> QED BY <1>1, <1>2, <1>3, <1>5, <1>6, <1>7, <1>14, <1>15 DEF Intact

(* A bundle becomes active only in a validation job of this release whose  *)
(* raw cells earned it: EvaluationJob.run and CandidateManager.promote,    *)
(* for any panels, probes, releases, restarts and changed fixtures.        *)
THEOREM PromotionIsEarnedCorrect ==
  ASSUME Demanding PROVE EvidenceSpec => PromotionIsEarned
<1> DEFINE Deserved ==
      activeBundle' # activeBundle =>
        \E j \in Jobs :
          /\ activeBundle' = Bundle[j] /\ activeBundle = Base(j)
          /\ Phase[j] = "validation" /\ plan[j] = Release /\ ~server.drift
          /\ \A k \in SafetyCases : report[j].cases[k]
          /\ Earned("validation", rows[j], Config[Release])
<1>1. EvidenceInv /\ [EvidenceNext]_promotionVars => [Deserved]_promotionVars
  <2> SUFFICES ASSUME EvidenceInv, EvidenceNext PROVE Deserved
    OBVIOUS
  <2> QED BY PromotedIsEarned
<1> QED BY <1>1, EvidenceIsInductive, PTL DEF EvidenceSpec, PromotionIsEarned

-----------------------------------------------------------------------------
(* GateIsMonotone: a row r of a set S gives way to another, x.             *)

Swapped(S, r, x) == (S \ {r}) \cup {x}

LEMMA SwapKeeps ==
  ASSUME NEW S, IsFiniteSet(S), NEW r \in S, NEW x, x \notin S \ {r},
         NEW A \in SUBSET S, NEW B \in SUBSET Swapped(S, r, x),
         \A y \in A : y # r => y \in B, r \in A => x \in B
  PROVE  /\ IsFiniteSet(A) /\ IsFiniteSet(B) /\ Cardinality(A) \in Nat /\ Cardinality(B) \in Nat
         /\ Cardinality(A) <= Cardinality(B)
<1>1. IsFiniteSet(Swapped(S, r, x))
  <2>1. IsFiniteSet(S \ {r})
    BY RestIsSmaller
  <2> QED BY <2>1, FS_AddElement DEF Swapped
<1>2. IsFiniteSet(A) /\ IsFiniteSet(B)
  BY <1>1, FS_Subset
<1> DEFINE f == [y \in A |-> IF y = r THEN x ELSE y]
<1>3. f \in [A -> B] /\ \A y, z \in A : f[y] = f[z] => y = z
  OBVIOUS
<1>4. f \in Injection(A, B)
  <2> HIDE DEF f
  <2> QED BY <1>3 DEF Injection, IsInjective
<1> QED BY <1>2, <1>4, FS_Injection, FS_CardinalityType

LEMMA SwapCounts ==
  ASSUME NEW S, IsFiniteSet(S), NEW r \in S, NEW x, x \notin S \ {r}
  PROVE  IsFiniteSet(Swapped(S, r, x)) /\ Cardinality(Swapped(S, r, x)) = Cardinality(S)
<1>1. IsFiniteSet(S \ {r}) /\ Cardinality(S \ {r}) = Cardinality(S) - 1
  BY FS_RemoveElement
<1>2. /\ IsFiniteSet(Swapped(S, r, x))
      /\ Cardinality(Swapped(S, r, x)) = Cardinality(S \ {r}) + 1
  BY <1>1, FS_AddElement DEF Swapped
<1> QED BY <1>1, <1>2, FS_CardinalityType

LEMMA SwapTotals ==
  ASSUME NEW S, IsFiniteSet(S), NEW r \in S, NEW x, x \notin S \ {r}, NEW f,
         \A y \in S : Value(f, y) \in Nat, Value(f, x) \in Nat
  PROVE  /\ Total(S, f) \in Nat /\ Total(Swapped(S, r, x), f) \in Nat
         /\ Total(Swapped(S, r, x), f) - Value(f, x) = Total(S, f) - Value(f, r)
         /\ Value(f, r) <= Total(S, f)
<1> DEFINE T == Swapped(S, r, x)
           R == S \ {r}
<1>1. IsFiniteSet(T) /\ x \in T /\ T \ {x} = R /\ IsFiniteSet(R)
  BY SwapCounts, RestIsSmaller DEF Swapped
<1>2. \A y \in T : Value(f, y) \in Nat
  BY DEF Swapped
<1> HIDE DEF T, R
<1>3. Total(T, f) = Value(f, x) + Total(R, f)
  BY <1>1, <1>2, SumRemoves
<1>4. Total(S, f) = Value(f, r) + Total(R, f)
  BY SumRemoves DEF R
<1>5. Total(R, f) \in Nat
  BY <1>1, SumType DEF R
<1>6. Value(f, r) \in Nat
  OBVIOUS
<1> QED BY <1>3, <1>4, <1>5, <1>6 DEF T

LEMMA SwapP95 ==
  ASSUME NEW S, IsFiniteSet(S), NEW r \in S, NEW x, x \notin S \ {r},
         \A y \in S : Latency(y) \in Nat, Latency(x) \in Nat, Latency(x) <= Latency(r)
  PROVE  P95(S) \in Nat /\ P95(Swapped(S, r, x)) \in Nat /\ P95(Swapped(S, r, x)) <= P95(S)
<1> DEFINE T == Swapped(S, r, x)
           v == P95(S)
<1>1. IsFiniteSet(T) /\ Cardinality(T) = Cardinality(S) /\ \A y \in T : Latency(y) \in Nat
  BY SwapCounts DEF Swapped
<1>2. v \in Nat /\ v \in EnoughFor(S)
  BY P95Facts
<1>3. /\ IsFiniteSet(Covered(T, v)) /\ Cardinality(Covered(S, v)) \in Nat /\ Cardinality(Covered(T, v)) \in Nat
      /\ Cardinality(Covered(S, v)) <= Cardinality(Covered(T, v))
  <2>1. Covered(S, v) \in SUBSET S /\ Covered(T, v) \in SUBSET T
    BY DEF Covered
  <2>2. \A y \in Covered(S, v) : y # r => y \in Covered(T, v)
    BY DEF Covered, Swapped
  <2>3. r \in Covered(S, v) => x \in Covered(T, v)
    <3>1. Latency(r) <= v => Latency(x) <= v
      BY <1>2
    <3> QED BY <3>1 DEF Covered, Swapped
  <2> HIDE DEF v
  <2> QED BY <2>1, <2>2, <2>3, SwapKeeps
<1>4. Cardinality(S) \in Nat /\ Cardinality(S) # 0
  BY FS_CardinalityType, FS_EmptySet
<1>5. 20 * Cardinality(Covered(S, v)) >= 19 * Cardinality(S)
  BY <1>2 DEF EnoughFor, Enough
<1> HIDE DEF T, v
<1>6. Covered(T, v) # {}
  BY <1>3, <1>4, <1>5, FS_EmptySet
<1>7. PICK w \in Covered(T, v) : \A y \in Covered(T, v) : Latency(y) <= Latency(w)
  <2>1. \A y \in Covered(T, v) : Latency(y) \in Nat
    BY <1>1 DEF Covered
  <2> QED BY <1>3, <1>6, <2>1, SlowestExists
<1>8. w \in T /\ Latency(w) <= v /\ Latency(w) \in Nat
  BY <1>1 DEF Covered
<1>9. Covered(T, Latency(w)) = Covered(T, v)
  <2>1. \A y \in T : Latency(y) <= Latency(w) => Latency(y) <= v
    BY <1>1, <1>2, <1>8
  <2> QED BY <1>7, <2>1 DEF Covered
<1>10. Enough(T, Latency(w))
  BY <1>1, <1>3, <1>4, <1>5, <1>9 DEF Enough
<1>11. Latency(w) \in EnoughFor(T)
  BY <1>8, <1>10 DEF EnoughFor
<1>12. P95(T) \in Nat /\ P95(T) <= Latency(w)
  BY <1>1, <1>8, <1>11, P95Facts
<1> QED BY <1>2, <1>8, <1>12 DEF T, v

(* A gate keeps passing when its candidate gets better.                    *)
LEMMA NoneHolds == ASSUME NEW p, ~p, NEW reason PROVE When(p, reason) = {}
BY DEF When

LEMMA Scale ==
  ASSUME NEW a \in Int, NEW b \in Int, a <= b, NEW n \in Nat
  PROVE  a * n <= b * n /\ a * n \in Int /\ b * n \in Int
<1>1. PICK d \in Nat : b = a + d
  <2>1. b - a \in Nat /\ b = a + (b - a)
    OBVIOUS
  <2> QED BY <2>1
<1>2. (a + d) * n = a * n + d * n /\ d * n \in Nat /\ a * n \in Int
  OBVIOUS
<1> QED BY <1>1, <1>2

LEMMA BoundedKeeps ==
  ASSUME NEW config, Numeric(config), NEW c \in Ceilings, NEW f \in Ratios, Valid(config, c), Valid(config, f),
         NEW x \in Nat, NEW y \in Nat, y <= x, NEW n \in Nat, NEW m \in Nat, NEW b \in Nat,
         Bounded(<<x, n>>, <<b, m>>, config, c, f) = {}
  PROVE  Bounded(<<y, n>>, <<b, m>>, config, c, f) = {}
<1>1. config[c] \in Int
  BY DEF Numeric, Valid, Ceilings, Ratios
<1>2. config[f] \in Int \X (Nat \ {0})
  BY DEF Numeric, Valid
<1>3. config[f][1] \in Int /\ config[f][2] \in Nat
  BY <1>2
<1>4. /\ When(Valid(config, c) /\ Below(<<config[c], 1>>, <<x, n>>), <<"over", c>>) = {}
      /\ When(/\ <<b, m>>[1] # 0 /\ Valid(config, f)
              /\ <<x, n>>[1] * <<b, m>>[2] * config[f][2] > config[f][1] * <<b, m>>[1] * <<x, n>>[2],
              <<"over", f>>) = {}
  BY Zenon DEF Bounded
<1>5. ~Below(<<config[c], 1>>, <<x, n>>)
  BY <1>4, NoReason
<1>6. b = 0 \/ ~(x * m * config[f][2] > config[f][1] * b * n)
  BY <1>4, NoReason
<1>7. ~Below(<<config[c], 1>>, <<y, n>>)
  <2>1. config[c] * n \in Int
    BY <1>1
  <2> QED BY <1>5, <2>1 DEF Below
<1>8. b = 0 \/ ~(y * m * config[f][2] > config[f][1] * b * n)
  <2>1. y * m <= x * m /\ y * m \in Int /\ x * m \in Int
    BY Scale
  <2>2. (y * m) * config[f][2] <= (x * m) * config[f][2]
    BY <1>3, <2>1, Scale
  <2>3. (y * m) * config[f][2] \in Int /\ (x * m) * config[f][2] \in Int /\ config[f][1] * b * n \in Int
    BY <1>3, <2>1
  <2> QED BY <1>6, <2>2, <2>3
<1> QED BY <1>7, <1>8, NoneHolds DEF Bounded

LEMMA GainKeeps ==
  ASSUME NEW p \in Nat, NEW p2 \in Nat, p <= p2, NEW q \in Nat, NEW n \in Nat, NEW m \in Nat,
         NEW c \in Int \X (Nat \ {0}), ~Below(<<p * m - q * n, n * m>>, c)
  PROVE  ~Below(<<p2 * m - q * n, n * m>>, c)
<1>1. PICK k, d : k = c[1] /\ d = c[2]
  OBVIOUS
<1>2. k \in Int /\ d \in Nat
  BY <1>1
<1>3. p * m <= p2 * m /\ p * m \in Int /\ p2 * m \in Int /\ q * n \in Int /\ n * m \in Int
  BY Scale
<1>4. p * m - q * n <= p2 * m - q * n /\ p * m - q * n \in Int /\ p2 * m - q * n \in Int
  BY <1>3
<1>5. /\ (p * m - q * n) * d <= (p2 * m - q * n) * d
      /\ (p * m - q * n) * d \in Int /\ (p2 * m - q * n) * d \in Int
  BY <1>2, <1>4, Scale
<1>6. k * (n * m) \in Int
  BY <1>2, <1>3
<1>7. ~((p * m - q * n) * d < k * (n * m))
  BY <1>1 DEF Below
<1> QED BY <1>1, <1>5, <1>6, <1>7 DEF Below

IsSummary(s) == s.count \in Nat /\ s.passed \in Nat /\ s.reliable \in Nat /\ s.cost \in Nat /\ s.p95 \in Nat
NoWorse(s, t) ==
  /\ t.count = s.count /\ s.passed <= t.passed /\ s.reliable <= t.reliable
  /\ t.cost <= s.cost /\ t.p95 <= s.p95

LEMMA EnvironmentsKeep ==
  ASSUME NEW g, NEW h, EnvironmentReasons(g) = {}, h.config = g.config, h.envs = g.envs,
         DOMAIN h.cells = DOMAIN g.cells,
         \A e \in g.envs \cap DOMAIN g.cells :
           /\ h.cells[e]["B0"] = g.cells[e]["B0"] /\ NoWorse(g.cells[e]["L"], h.cells[e]["L"])
           /\ IsSummary(g.cells[e]["B0"]) /\ IsSummary(g.cells[e]["L"]) /\ IsSummary(h.cells[e]["L"])
  PROVE  EnvironmentReasons(h) = {}
<1> DEFINE regressed(i, e, m) == Below(Metric(i.cells[e]["L"], m), Metric(i.cells[e]["B0"], m))
           cellReasons(i, e) ==
             IF i.cells[e]["B0"].count = 0 \/ i.cells[e]["L"].count = 0 THEN {<<"incomplete", e>>}
             ELSE {<<"regression", e, m>> : m \in {n \in {"passed", "reliable"} : regressed(i, e, n)}}
<1>1. When(DOMAIN g.cells # g.envs, <<"environments">>) = {}
  BY Zenon DEF EnvironmentReasons
<1>2. ASSUME g.config.perEnvironment
      PROVE  /\ When(g.envs = {}, <<"no environments">>) = {}
             /\ {<<"missing", e>> : e \in g.envs \ DOMAIN g.cells} = {}
             /\ UNION {cellReasons(g, e) : e \in g.envs \cap DOMAIN g.cells} = {}
  BY <1>2, Zenon DEF EnvironmentReasons
<1>3. ASSUME g.config.perEnvironment, NEW e \in g.envs \cap DOMAIN g.cells PROVE cellReasons(h, e) = {}
  <2>1. cellReasons(g, e) = {}
    <3> HIDE DEF cellReasons
    <3> QED BY <1>2, <1>3
  <2>2. g.cells[e]["B0"].count # 0 /\ g.cells[e]["L"].count # 0
    BY <2>1
  <2>3. h.cells[e]["B0"].count # 0 /\ h.cells[e]["L"].count # 0
    BY <1>3, <2>2 DEF NoWorse
  <2>4. ASSUME NEW m \in {"passed", "reliable"} PROVE ~regressed(h, e, m)
    <3>1. ~regressed(g, e, m)
      <4> HIDE DEF regressed
      <4> QED BY <2>1, <2>2, <2>4
    <3>2. ~Below(<<g.cells[e]["L"][m], g.cells[e]["L"].count>>, <<g.cells[e]["B0"][m], g.cells[e]["B0"].count>>)
      BY <2>2, <3>1 DEF Metric, Mean
    <3>3. /\ h.cells[e]["B0"] = g.cells[e]["B0"] /\ h.cells[e]["L"].count = g.cells[e]["L"].count
          /\ g.cells[e]["L"][m] <= h.cells[e]["L"][m]
          /\ g.cells[e]["L"][m] \in Nat /\ h.cells[e]["L"][m] \in Nat /\ g.cells[e]["B0"][m] \in Nat
          /\ g.cells[e]["L"].count \in Nat /\ g.cells[e]["B0"].count \in Nat
      BY <1>3, <2>4 DEF NoWorse, IsSummary
    <3>4. PICK x, y, b, n, k : /\ x = g.cells[e]["L"][m] /\ y = h.cells[e]["L"][m] /\ b = g.cells[e]["B0"][m]
                               /\ n = g.cells[e]["L"].count /\ k = g.cells[e]["B0"].count
      OBVIOUS
    <3>5. x * k <= y * k /\ x * k \in Int /\ y * k \in Int /\ b * n \in Int
      BY <3>3, <3>4, Scale
    <3>6. ~(x * k < b * n)
      BY <3>2, <3>4 DEF Below
    <3>7. ~Below(<<y, n>>, <<b, k>>)
      BY <3>5, <3>6 DEF Below
    <3> QED BY <2>3, <3>3, <3>4, <3>7 DEF Metric, Mean
  <2> HIDE DEF regressed
  <2> QED BY <2>3, <2>4
<1>4. When(DOMAIN h.cells # h.envs, <<"environments">>) = {}
  BY <1>1, NoReason, NoneHolds
<1>5. ASSUME h.config.perEnvironment
      PROVE  /\ When(h.envs = {}, <<"no environments">>) = {}
             /\ {<<"missing", e>> : e \in h.envs \ DOMAIN h.cells} = {}
             /\ UNION {cellReasons(h, e) : e \in h.envs \cap DOMAIN h.cells} = {}
  <2>1. \A e \in h.envs \cap DOMAIN h.cells : cellReasons(h, e) = {}
    BY <1>3, <1>5
  <2> HIDE DEF cellReasons
  <2>2. UNION {cellReasons(h, e) : e \in h.envs \cap DOMAIN h.cells} = {}
    BY <2>1
  <2> QED BY <1>2, <1>5, <2>2
<1> QED BY <1>4, <1>5, Zenon DEF EnvironmentReasons

LEMMA GateKeeps ==
  ASSUME NEW g, NEW h, Reasons(g) = {}, Numeric(g.config),
         IsSummary(g.base), IsSummary(g.cand), IsSummary(h.cand), NoWorse(g.cand, h.cand),
         h.integrity = {}, h.config = g.config, h.comparison = g.comparison, h.expected = g.expected,
         h.base = g.base, h.ci = g.ci, h.envs = g.envs,
         h.safety.passed = g.safety.passed, h.safety.required = g.safety.required,
         DOMAIN h.safety.cases = DOMAIN g.safety.cases, \A c \in DOMAIN h.safety.cases : h.safety.cases[c],
         h.safety.violations = 0,
         DOMAIN h.cells = DOMAIN g.cells,
         \A e \in g.envs \cap DOMAIN g.cells :
           /\ h.cells[e]["B0"] = g.cells[e]["B0"] /\ NoWorse(g.cells[e]["L"], h.cells[e]["L"])
           /\ IsSummary(g.cells[e]["B0"]) /\ IsSummary(g.cells[e]["L"]) /\ IsSummary(h.cells[e]["L"])
  PROVE  Reasons(h) = {}
<1>1. /\ ConfigReasons(g.config) = {} /\ When(g.comparison # g.expected, <<"comparison">>) = {}
      /\ SummaryReasons(g) = {} /\ SafetyReasons(g) = {} /\ GainReasons(g) = {} /\ EnvironmentReasons(g) = {}
      /\ CostReasons(g) = {} /\ LatencyReasons(g) = {}
  BY DEF Reasons
<1>2. /\ ConfigReasons(h.config) = {} /\ When(h.comparison # h.expected, <<"comparison">>) = {}
  BY <1>1
<1>3. SummaryReasons(h) = {}
  BY <1>1 DEF SummaryReasons, NoWorse
<1>4. SafetyReasons(h) = {}
  <2>1. ~(h.safety.violations > 0)
    OBVIOUS
  <2>2. When(h.safety.violations > 0, <<"violations">>) = {}
    BY <2>1 DEF When
  <2>3. When(\E c \in DOMAIN h.safety.cases : ~h.safety.cases[c], <<"case">>) = {}
    BY DEF When
  <2> QED BY <1>1, <2>2, <2>3 DEF SafetyReasons
<1>5. /\ g.base.count # 0 /\ g.cand.count # 0 /\ h.base.count # 0 /\ h.cand.count # 0
      /\ \A f \in Ratios \cup Ceilings : Valid(g.config, f)
  BY GateCounts, GateConfig DEF NoWorse
<1>6. \A m : /\ Metric(g.base, m) = <<g.base[m], g.base.count>> /\ Metric(g.cand, m) = <<g.cand[m], g.cand.count>>
             /\ Metric(h.cand, m) = <<h.cand[m], g.cand.count>>
  BY <1>5 DEF Metric, Mean, NoWorse
<1>7. "gain" \in Ratios /\ "costRatio" \in Ratios /\ "latencyRatio" \in Ratios
      /\ "maxCost" \in Ceilings /\ "maxLatency" \in Ceilings
  BY DEF Ratios, Ceilings
<1>8. GainReasons(h) = {}
  <2>1. g.config.gain \in Int \X (Nat \ {0})
    BY <1>5, <1>7 DEF Numeric, Valid
  <2>2. ~Below(<<g.cand.passed * g.base.count - g.base.passed * g.cand.count, g.cand.count * g.base.count>>, g.config.gain)
    BY GateGain
  <2>3. ~Below(<<h.cand.passed * g.base.count - g.base.passed * g.cand.count, g.cand.count * g.base.count>>, g.config.gain)
    <3>1. PICK p, r, q, n, m : /\ p = g.cand.passed /\ r = h.cand.passed /\ q = g.base.passed
                               /\ n = g.cand.count /\ m = g.base.count
      OBVIOUS
    <3>2. p \in Nat /\ r \in Nat /\ p <= r /\ q \in Nat /\ n \in Nat /\ m \in Nat
      BY <3>1 DEF IsSummary, NoWorse
    <3>3. PICK c : c = g.config.gain
      OBVIOUS
    <3>4. c \in Int \X (Nat \ {0}) /\ ~Below(<<p * m - q * n, n * m>>, c)
      BY <2>1, <2>2, <3>1, <3>3
    <3>5. ~Below(<<r * m - q * n, n * m>>, c)
      BY <3>2, <3>4, GainKeeps
    <3> QED BY <3>1, <3>3, <3>5
  <2> DEFINE b == Metric(h.base, "passed")
             l == Metric(h.cand, "passed")
             gain == <<l[1] * b[2] - b[1] * l[2], l[2] * b[2]>>
  <2>4. ~Below(gain, h.config.gain)
    <3>1. b = <<g.base["passed"], g.base.count>> /\ l = <<h.cand["passed"], g.cand.count>>
      BY <1>6
    <3> QED BY <2>3, <3>1
  <2>5. When(Valid(h.config, "gain") /\ Below(gain, h.config.gain), <<"gain">>) = {}
    <3> HIDE DEF gain
    <3> QED BY <2>4, NoneHolds
  <2>6. /\ When(g.ci = NoValue, <<"no interval">>) = {}
        /\ When(g.ci # NoValue /\ Valid(g.config, "ci") /\ ~Below(g.config.ci, g.ci), <<"interval">>) = {}
    BY <1>1 DEF GainReasons
  <2> HIDE DEF gain
  <2>7. GainReasons(h) = When(Valid(h.config, "gain") /\ Below(gain, h.config.gain), <<"gain">>)
          \cup When(h.ci = NoValue, <<"no interval">>)
          \cup When(h.ci # NoValue /\ Valid(h.config, "ci") /\ ~Below(h.config.ci, h.ci), <<"interval">>)
    BY DEF GainReasons, gain
  <2> QED BY <2>5, <2>6, <2>7
<1>9. EnvironmentReasons(h) = {}
  BY <1>1, EnvironmentsKeep
<1>10. CostReasons(h) = {}
  <2>1. Bounded(<<g.cand["cost"], g.cand.count>>, <<g.base["cost"], g.base.count>>, g.config, "maxCost", "costRatio") = {}
    BY <1>1, <1>6 DEF CostReasons
  <2>2. Bounded(<<h.cand["cost"], g.cand.count>>, <<g.base["cost"], g.base.count>>, g.config, "maxCost", "costRatio") = {}
    <3>1. PICK x, y, b, n, m : /\ x = g.cand["cost"] /\ y = h.cand["cost"] /\ b = g.base["cost"]
                               /\ n = g.cand.count /\ m = g.base.count
      OBVIOUS
    <3>2. x \in Nat /\ y \in Nat /\ y <= x /\ b \in Nat /\ n \in Nat /\ m \in Nat
      BY <3>1 DEF IsSummary, NoWorse
    <3>3. PICK config : config = g.config
      OBVIOUS
    <3>4. /\ Bounded(<<x, n>>, <<b, m>>, config, "maxCost", "costRatio") = {}
          /\ Numeric(config) /\ Valid(config, "maxCost") /\ Valid(config, "costRatio")
      BY <1>5, <1>7, <2>1, <3>1, <3>3
    <3>5. Bounded(<<y, n>>, <<b, m>>, config, "maxCost", "costRatio") = {}
      BY <1>7, <3>2, <3>4, BoundedKeeps
    <3> QED BY <3>1, <3>3, <3>5
  <2> QED BY <1>6, <2>2 DEF CostReasons
<1>11. LatencyReasons(h) = {}
  <2>1. Bounded(<<g.cand.p95, 1>>, <<g.base.p95, 1>>, g.config, "maxLatency", "latencyRatio") = {}
    BY <1>1 DEF LatencyReasons
  <2>2. Bounded(<<h.cand.p95, 1>>, <<g.base.p95, 1>>, g.config, "maxLatency", "latencyRatio") = {}
    <3>1. PICK x, y, b, n : x = g.cand.p95 /\ y = h.cand.p95 /\ b = g.base.p95 /\ n = 1
      OBVIOUS
    <3>2. x \in Nat /\ y \in Nat /\ y <= x /\ b \in Nat /\ n \in Nat
      BY <3>1 DEF IsSummary, NoWorse
    <3>3. PICK config : config = g.config
      OBVIOUS
    <3>4. /\ Bounded(<<x, n>>, <<b, n>>, config, "maxLatency", "latencyRatio") = {}
          /\ Numeric(config) /\ Valid(config, "maxLatency") /\ Valid(config, "latencyRatio")
      BY <1>5, <1>7, <2>1, <3>1, <3>3
    <3>5. Bounded(<<y, n>>, <<b, n>>, config, "maxLatency", "latencyRatio") = {}
      BY <1>7, <3>2, <3>4, BoundedKeeps
    <3> QED BY <3>1, <3>3, <3>5
  <2> QED BY <2>2 DEF LatencyReasons
<1> QED BY <1>2, <1>3, <1>4, <1>8, <1>9, <1>10, <1>11 DEF Reasons

(* A row of a panel that goes better is still one row of its cell.         *)
LEMMA ImprovedRow ==
  ASSUME NEW panel, IsPanel(panel), NEW r \in panel, NEW k \in DOMAIN Observed,
         NEW x, x = [r EXCEPT !.kind = k]
  PROVE  x.cell = r.cell /\ x.kind = k /\ x \notin panel \ {r}
<1>1. DOMAIN r = {"cell", "kind", "copy"}
  BY DEF IsPanel
<1>2. x.cell = r.cell /\ x.kind = k /\ x.copy = r.copy
  BY <1>1
<1>3. ASSUME x \in panel PROVE x = r
  BY <1>2, <1>3 DEF IsPanel
<1> QED BY <1>2, <1>3

(* The summary of an arm, before and after.                                *)
LEMMA SummaryFields ==
  ASSUME NEW S
  PROVE  /\ Summary(S).count = Cardinality(S) /\ Summary(S).passed = Cardinality(Where(S, "passed"))
         /\ Summary(S).reliable = Cardinality(Where(S, "reliable")) /\ Summary(S).cost = Total(S, "cost")
         /\ Summary(S).p95 = P95(S) /\ Summary(S).violations = Total(S, "violations")
BY DEF Summary

LEMMA PanelSummary ==
  ASSUME NEW panel, IsPanel(panel), NEW S, S \subseteq panel
  PROVE  IsSummary(Summary(S)) /\ NoWorse(Summary(S), Summary(S)) /\ Summary(S).violations \in Nat
<1>1. /\ Cardinality(S) \in Nat /\ Total(S, "cost") \in Nat /\ Total(S, "violations") \in Nat /\ P95(S) \in Nat
      /\ Cardinality(Where(S, "passed")) \in Nat /\ Cardinality(Where(S, "reliable")) \in Nat
  BY Measures
<1>2. IsSummary(Summary(S)) /\ Summary(S).violations \in Nat
  BY <1>1, SummaryFields DEF IsSummary
<1> QED BY <1>2 DEF IsSummary, NoWorse

LEMMA SwapSummary ==
  ASSUME NEW panel, IsPanel(panel), NEW S, S \subseteq panel, NEW r \in S, NEW k \in DOMAIN Observed,
         AtLeast(k, r.kind), NEW x, x.kind = k, x \notin S \ {r}
  PROVE  /\ IsSummary(Summary(Swapped(S, r, x))) /\ NoWorse(Summary(S), Summary(Swapped(S, r, x)))
         /\ Summary(S).violations = 0 => Summary(Swapped(S, r, x)).violations = 0
<1> DEFINE T == Swapped(S, r, x)
<1>1. IsFiniteSet(S) /\ Cardinality(S) \in Nat
  BY Measures
<1>2. /\ \A y \in S : Value("cost", y) \in Nat /\ Value("violations", y) \in Nat /\ Latency(y) \in Nat
      /\ Value("cost", x) \in Nat /\ Value("violations", x) \in Nat /\ Latency(x) \in Nat
  BY ObservedAssumption DEF IsPanel, Value, Latency
<1>3. /\ Value("cost", x) <= Value("cost", r) /\ Latency(x) <= Latency(r)
      /\ \A f \in {"passed", "reliable", "safe"} : Observed[r.kind][f] => Observed[x.kind][f]
  BY DEF AtLeast, Value, Latency
<1>4. Cardinality(T) = Cardinality(S)
  BY <1>1, SwapCounts
<1>5. ASSUME NEW f \in {"passed", "reliable"}
      PROVE  /\ Cardinality(Where(S, f)) \in Nat /\ Cardinality(Where(T, f)) \in Nat
             /\ Cardinality(Where(S, f)) <= Cardinality(Where(T, f))
  <2>1. Where(S, f) \in SUBSET S /\ Where(T, f) \in SUBSET T
    BY DEF Where
  <2>2. \A y \in Where(S, f) : y # r => y \in Where(T, f)
    BY DEF Where, Swapped
  <2>3. r \in Where(S, f) => x \in Where(T, f)
    BY <1>3, <1>5 DEF Where, Swapped
  <2> QED BY <1>1, <2>1, <2>2, <2>3, SwapKeeps
<1>6. /\ Total(S, "cost") \in Nat /\ Total(T, "cost") \in Nat
      /\ Total(T, "cost") - Value("cost", x) = Total(S, "cost") - Value("cost", r)
  BY <1>1, <1>2, SwapTotals
<1>7. Total(T, "cost") <= Total(S, "cost")
  BY <1>2, <1>3, <1>6
<1>8. /\ Total(S, "violations") \in Nat /\ Total(T, "violations") \in Nat
      /\ Total(T, "violations") - Value("violations", x) = Total(S, "violations") - Value("violations", r)
      /\ Value("violations", r) <= Total(S, "violations")
  BY <1>1, <1>2, SwapTotals
<1>9. Total(S, "violations") = 0 => Total(T, "violations") = 0
  <2>1. /\ Observed[r.kind].safe = (Observed[r.kind].violations = 0)
        /\ Observed[x.kind].safe = (Observed[x.kind].violations = 0)
    BY ObservedAssumption DEF IsPanel
  <2>2. Value("violations", r) = 0 => Value("violations", x) = 0
    BY <1>3, <2>1 DEF Value
  <2> QED BY <1>2, <1>8, <2>2
<1>10. P95(S) \in Nat /\ P95(T) \in Nat /\ P95(T) <= P95(S)
  BY <1>1, <1>2, <1>3, SwapP95
<1> HIDE DEF T
<1>11. IsSummary(Summary(T)) /\ NoWorse(Summary(S), Summary(T))
  BY <1>1, <1>4, <1>5, <1>6, <1>7, <1>10, SummaryFields DEF IsSummary, NoWorse
<1>12. Summary(S).violations = 0 => Summary(T).violations = 0
  BY <1>9, SummaryFields
<1> QED BY <1>11, <1>12 DEF T

(* What a better run of arm L changes in the panel.                        *)
LEMMA SwappedArms ==
  ASSUME NEW panel, NEW r \in panel, r.cell[4] = "L", NEW x, x.cell = r.cell
  PROVE  /\ Arm(Swapped(panel, r, x), "B0") = Arm(panel, "B0")
         /\ Arm(Swapped(panel, r, x), "L") = Swapped(Arm(panel, "L"), r, x)
         /\ \A e : In(Arm(Swapped(panel, r, x), "L"), e) =
                     IF r.cell[1] = e THEN Swapped(In(Arm(panel, "L"), e), r, x) ELSE In(Arm(panel, "L"), e)
<1>1. /\ Arm(Swapped(panel, r, x), "B0") = Arm(panel, "B0")
      /\ Arm(Swapped(panel, r, x), "L") = Swapped(Arm(panel, "L"), r, x)
  BY DEF Arm, Swapped
<1>2. ASSUME NEW e
      PROVE  In(Arm(Swapped(panel, r, x), "L"), e) =
               IF r.cell[1] = e THEN Swapped(In(Arm(panel, "L"), e), r, x) ELSE In(Arm(panel, "L"), e)
  BY DEF Arm, Swapped, In
<1> QED BY <1>1, <1>2

(* The summaries of a report rebuilt with the better run, against those of *)
(* the panel as it was.                                                    *)
Improved(panel, better) ==
  /\ Summary(Arm(better, "B0")) = Summary(Arm(panel, "B0")) /\ IsSummary(Summary(Arm(panel, "B0")))
  /\ NoWorse(Summary(Arm(panel, "L")), Summary(Arm(better, "L")))
  /\ IsSummary(Summary(Arm(panel, "L"))) /\ IsSummary(Summary(Arm(better, "L")))
  /\ Summary(Arm(panel, "L")).violations \in Nat
  /\ Summary(Arm(panel, "L")).violations = 0 => Summary(Arm(better, "L")).violations = 0
  /\ \A e : /\ Summary(In(Arm(better, "B0"), e)) = Summary(In(Arm(panel, "B0"), e))
            /\ IsSummary(Summary(In(Arm(panel, "B0"), e)))
            /\ NoWorse(Summary(In(Arm(panel, "L"), e)), Summary(In(Arm(better, "L"), e)))
            /\ IsSummary(Summary(In(Arm(panel, "L"), e))) /\ IsSummary(Summary(In(Arm(better, "L"), e)))

LEMMA ImprovedSummaries ==
  ASSUME NEW panel, IsPanel(panel), NEW r \in Arm(panel, "L"), NEW k \in DOMAIN Observed, AtLeast(k, r.kind),
         NEW x, x.cell = r.cell, x.kind = k, x \notin panel \ {r}, NEW better, better = Swapped(panel, r, x)
  PROVE  Improved(panel, better)
<1>1. r \in panel /\ r.cell[4] = "L"
  BY DEF Arm
<1>2. x.cell = r.cell /\ x.kind = k /\ x \notin panel \ {r}
  OBVIOUS
<1>3. /\ Arm(better, "B0") = Arm(panel, "B0") /\ Arm(better, "L") = Swapped(Arm(panel, "L"), r, x)
      /\ \A e : In(Arm(better, "L"), e) =
                  IF r.cell[1] = e THEN Swapped(In(Arm(panel, "L"), e), r, x) ELSE In(Arm(panel, "L"), e)
  <2>1. /\ Arm(Swapped(panel, r, x), "B0") = Arm(panel, "B0")
        /\ Arm(Swapped(panel, r, x), "L") = Swapped(Arm(panel, "L"), r, x)
        /\ \A e : In(Arm(Swapped(panel, r, x), "L"), e) =
                    IF r.cell[1] = e THEN Swapped(In(Arm(panel, "L"), e), r, x) ELSE In(Arm(panel, "L"), e)
    BY <1>1, <1>2, SwappedArms
  <2> QED BY <2>1
<1>4. \A e : Arm(panel, "B0") \subseteq panel /\ Arm(panel, "L") \subseteq panel
             /\ In(Arm(panel, "B0"), e) \subseteq panel /\ In(Arm(panel, "L"), e) \subseteq panel
  BY DEF Arm, In
<1>5. /\ NoWorse(Summary(Arm(panel, "L")), Summary(Arm(better, "L"))) /\ IsSummary(Summary(Arm(better, "L")))
      /\ Summary(Arm(panel, "L")).violations = 0 => Summary(Arm(better, "L")).violations = 0
  <2>1. Arm(panel, "L") \subseteq panel /\ x \notin Arm(panel, "L") \ {r}
    BY <1>2, <1>4
  <2>2. PICK S : S = Arm(panel, "L")
    OBVIOUS
  <2>3. /\ NoWorse(Summary(S), Summary(Swapped(S, r, x))) /\ IsSummary(Summary(Swapped(S, r, x)))
        /\ Summary(S).violations = 0 => Summary(Swapped(S, r, x)).violations = 0
    BY <1>2, <2>1, <2>2, SwapSummary
  <2>4. Arm(better, "L") = Swapped(S, r, x)
    BY <1>3, <2>2
  <2> QED BY <2>2, <2>3, <2>4
<1>6. ASSUME NEW e
      PROVE  NoWorse(Summary(In(Arm(panel, "L"), e)), Summary(In(Arm(better, "L"), e)))
             /\ IsSummary(Summary(In(Arm(better, "L"), e)))
  <2>1. CASE r.cell[1] = e
    <3>1. r \in In(Arm(panel, "L"), e) /\ x \notin In(Arm(panel, "L"), e) \ {r}
      BY <1>2, <1>4, <2>1 DEF In
    <3>2. In(Arm(better, "L"), e) = Swapped(In(Arm(panel, "L"), e), r, x)
      BY <1>3, <2>1
    <3> QED BY <1>2, <1>4, <3>1, <3>2, SwapSummary
  <2>2. CASE r.cell[1] # e
    <3>1. In(Arm(better, "L"), e) = In(Arm(panel, "L"), e)
      BY <1>3, <2>2
    <3> QED BY <1>4, <3>1, PanelSummary
  <2> QED BY <2>1, <2>2
<1>7. \A e : /\ IsSummary(Summary(Arm(panel, "B0"))) /\ IsSummary(Summary(Arm(panel, "L")))
             /\ Summary(Arm(panel, "L")).violations \in Nat
             /\ IsSummary(Summary(In(Arm(panel, "B0"), e))) /\ IsSummary(Summary(In(Arm(panel, "L"), e)))
  BY <1>4, PanelSummary
<1> QED BY <1>3, <1>5, <1>6, <1>7 DEF Improved

(* What the manager's gate sees of a report.                               *)
AllPassed(cases) == \A c \in DOMAIN cases : cases[c]
ManagerInput(u, config) ==
  GateInput([u EXCEPT !.config = config], "validation", {}, AllPassed(u.cases), u.arms["L"].violations)

LEMMA ManagerInputFields ==
  ASSUME NEW u, Fields \subseteq DOMAIN u, NEW config, NEW g, g = ManagerInput(u, config)
  PROVE  /\ g.comparison = u.comparison /\ g.expected = "validation" /\ g.base = u.arms["B0"] /\ g.cand = u.arms["L"]
         /\ g.ci = u.ci /\ g.cells = u.cells /\ g.envs = u.envs /\ g.integrity = {} /\ g.config = config
         /\ g.safety.passed = AllPassed(u.cases)
         /\ g.safety.violations = u.arms["L"].violations
         /\ g.safety.cases = u.cases /\ g.safety.required = SafetyCases
<1>1. PICK v : v = [u EXCEPT !.config = config]
  OBVIOUS
<1>2. /\ v.comparison = u.comparison /\ v.arms = u.arms /\ v.ci = u.ci /\ v.cells = u.cells
      /\ v.envs = u.envs /\ v.config = config /\ v.cases = u.cases
  BY <1>1 DEF Fields
<1>3. PICK s : s = AllPassed(u.cases)
  OBVIOUS
<1>4. g = GateInput(v, "validation", {}, s, u.arms["L"].violations)
  BY <1>1, <1>3 DEF ManagerInput
<1>5. /\ g.comparison = v.comparison /\ g.expected = "validation" /\ g.base = v.arms["B0"] /\ g.cand = v.arms["L"]
      /\ g.ci = v.ci /\ g.cells = v.cells /\ g.envs = v.envs /\ g.integrity = {} /\ g.config = v.config
      /\ g.safety.passed = s /\ g.safety.violations = u.arms["L"].violations
      /\ g.safety.cases = v.cases /\ g.safety.required = SafetyCases
  BY <1>4 DEF GateInput
<1> QED BY <1>2, <1>3, <1>5

(* The gate sees a report of the planned panel, and the one rebuilt from   *)
(* another, in the same way.                                               *)
LEMMA FiledInput ==
  ASSUME NEW j \in Jobs, NEW r, Filed(j, r), NEW phase, phase = Phase[j], NEW panel, panel = rows[j],
         NEW config, NEW g, g = ManagerInput(r, config)
  PROVE  /\ g.comparison = phase /\ g.expected = "validation"
         /\ g.base = ArmsOf(phase, panel)["B0"] /\ g.cand = ArmsOf(phase, panel)["L"] /\ g.ci = r.ci
         /\ g.cells = CellsOf(phase, panel) /\ g.envs = Envs(phase) /\ g.config = config
         /\ g.safety.passed = AllPassed(r.cases)
         /\ g.safety.violations = ArmsOf(phase, panel)["L"].violations
         /\ g.safety.cases = r.cases /\ g.safety.required = SafetyCases /\ DOMAIN r.cases = SafetyCases
<1>1. Fields \subseteq DOMAIN r
  BY FiledDomain
<1>2. /\ g.comparison = r.comparison /\ g.expected = "validation" /\ g.base = r.arms["B0"] /\ g.cand = r.arms["L"]
      /\ g.ci = r.ci /\ g.cells = r.cells /\ g.envs = r.envs /\ g.config = config
      /\ g.safety.passed = AllPassed(r.cases)
      /\ g.safety.violations = r.arms["L"].violations
      /\ g.safety.cases = r.cases /\ g.safety.required = SafetyCases
  BY <1>1, ManagerInputFields
<1>3. r.comparison = phase /\ r.envs = Envs(phase) /\ DOMAIN r.cases = SafetyCases
  BY FiledFacts
<1>4. r.arms = ArmsOf(phase, panel) /\ r.cells = CellsOf(phase, panel)
  BY FiledMeasures
<1> QED BY <1>2, <1>3, <1>4

LEMMA RebuiltInput ==
  ASSUME NEW of, NEW panel, NEW lower, NEW p, NEW audit, NEW r, r = Assemble(of, panel, lower, p, audit),
         NEW config, NEW g, g = ManagerInput(r, config)
  PROVE  /\ r.protocol = of.protocol
         /\ g.comparison = of.phase /\ g.expected = "validation" /\ g.integrity = {}
         /\ g.base = ArmsOf(of.phase, panel)["B0"] /\ g.cand = ArmsOf(of.phase, panel)["L"] /\ g.ci = lower
         /\ g.cells = CellsOf(of.phase, panel) /\ g.envs = Envs(of.phase) /\ g.config = config
         /\ g.safety.passed = AllPassed(CaseResults(p))
         /\ g.safety.violations = ArmsOf(of.phase, panel)["L"].violations
         /\ g.safety.cases = CaseResults(p) /\ g.safety.required = SafetyCases
<1>1. /\ IsReport(r) /\ r.comparison = of.phase /\ r.protocol = of.protocol /\ r.envs = Envs(of.phase)
      /\ r.cases = CaseResults(p) /\ DOMAIN r.cases = SafetyCases
  BY DraftFields
<1>2. r.arms = ArmsOf(of.phase, panel) /\ r.cells = CellsOf(of.phase, panel) /\ r.ci = lower
  BY DraftMeasures
<1>3. Fields \subseteq DOMAIN r
  BY <1>1 DEF IsReport
<1>4. /\ g.comparison = r.comparison /\ g.expected = "validation" /\ g.base = r.arms["B0"] /\ g.cand = r.arms["L"]
      /\ g.ci = r.ci /\ g.cells = r.cells /\ g.envs = r.envs /\ g.integrity = {} /\ g.config = config
      /\ g.safety.passed = AllPassed(r.cases)
      /\ g.safety.violations = r.arms["L"].violations
      /\ g.safety.cases = r.cases /\ g.safety.required = SafetyCases
  BY <1>3, ManagerInputFields
<1> QED BY <1>1, <1>2, <1>4

LEMMA GateIsKept ==
  ASSUME EvidenceInv, NEW j \in DOMAIN report, jpc[j] = "reported", Phase[j] = "validation", GatePasses(report[j]),
         NEW r \in Arm(rows[j], "L"), NEW k \in DOMAIN Observed, AtLeast(k, r.kind),
         NEW better, better = (rows[j] \ {r}) \cup {[r EXCEPT !.kind = k]},
         NEW probes, probes = [c \in SafetyCases |-> IF report[j].cases[c] THEN "passed" ELSE "failed"]
  PROVE  GatePasses(Assemble(Inputs(j), better, report[j].ci, probes, TRUE))
<1>1. j \in Jobs /\ Filed(j, report[j]) /\ plan[j] # NoValue
  BY OwnReport DEF ReportOK
<1>2. plan[j] = Release /\ IsPanel(rows[j]) /\ plan[j] \in Protocols
  BY <1>1, CurrentRelease DEF EvidenceInv, PlansOK
<1>3. PICK old : old = report[j]
  OBVIOUS
<1>4. PICK new : new = Assemble(Inputs(j), better, report[j].ci, probes, TRUE)
  OBVIOUS
<1>5. PICK panel : panel = rows[j]
  OBVIOUS
<1>6. PICK config : config = Config[Release]
  OBVIOUS
<1>7. PICK audit : audit = TRUE
  OBVIOUS
<1>8. PICK of : of = Inputs(j)
  OBVIOUS
<1>9. old.protocol = Release /\ of.phase = "validation" /\ of.protocol = Release
  BY <1>1, <1>2, <1>3, <1>8, FiledFacts DEF Inputs
<1>10. PICK g, h : g = ManagerInput(old, config) /\ h = ManagerInput(new, config)
  OBVIOUS
<1>11. Reasons(g) = {}
  BY <1>3, <1>6, <1>9, <1>10 DEF GatePasses, Passes, ManagerInput, AllPassed
<1>12. /\ g.comparison = "validation" /\ g.expected = "validation"
       /\ g.base = ArmsOf("validation", panel)["B0"] /\ g.cand = ArmsOf("validation", panel)["L"] /\ g.ci = old.ci
       /\ g.cells = CellsOf("validation", panel) /\ g.envs = Envs("validation") /\ g.config = config
       /\ g.safety.passed = AllPassed(old.cases)
       /\ g.safety.violations = ArmsOf("validation", panel)["L"].violations
       /\ g.safety.cases = old.cases /\ g.safety.required = SafetyCases /\ DOMAIN old.cases = SafetyCases
  BY <1>1, <1>3, <1>5, <1>10, FiledInput
<1>13. new = Assemble(of, better, old.ci, probes, audit)
  BY <1>3, <1>4, <1>7, <1>8
<1>14. /\ new.protocol = of.protocol
       /\ h.comparison = of.phase /\ h.expected = "validation" /\ h.integrity = {}
       /\ h.base = ArmsOf(of.phase, better)["B0"] /\ h.cand = ArmsOf(of.phase, better)["L"] /\ h.ci = old.ci
       /\ h.cells = CellsOf(of.phase, better) /\ h.envs = Envs(of.phase) /\ h.config = config
       /\ h.safety.passed = AllPassed(CaseResults(probes))
       /\ h.safety.violations = ArmsOf(of.phase, better)["L"].violations
       /\ h.safety.cases = CaseResults(probes) /\ h.safety.required = SafetyCases
  BY <1>10, <1>13, RebuiltInput
<1>15. SafetyReasons(g) = {}
  BY <1>11 DEF Reasons
<1>16. /\ g.safety.passed /\ ~(g.safety.violations > 0)
       /\ ~(\E c \in DOMAIN g.safety.cases : ~g.safety.cases[c])
  BY <1>15, NoReason DEF SafetyReasons
<1>17. \A c \in SafetyCases : old.cases[c]
  BY <1>12, <1>16
<1>18. AllPassed(CaseResults(probes)) /\ AllPassed(old.cases)
  BY <1>3, <1>12, <1>17 DEF CaseResults, AllPassed
<1>19. h.safety.passed = g.safety.passed
  BY <1>12, <1>14, <1>18
<1>20. PICK x : x = [r EXCEPT !.kind = k]
  OBVIOUS
<1>21. x.cell = r.cell /\ x.kind = k /\ x \notin panel \ {r} /\ better = Swapped(panel, r, x)
  <2>1. r \in panel
    BY <1>5 DEF Arm
  <2>2. x.cell = r.cell /\ x.kind = k /\ x \notin panel \ {r}
    BY <1>2, <1>5, <1>20, <2>1, ImprovedRow
  <2> QED BY <1>5, <1>20, <2>2 DEF Swapped
<1>22. IsPanel(panel) /\ r \in Arm(panel, "L")
  BY <1>2, <1>5
<1>23. Improved(panel, better)
  BY <1>21, <1>22, ImprovedSummaries
<1>24. "B0" \in Arms("validation") /\ "L" \in Arms("validation")
  BY DEF Arms
<1>25. /\ g.base = Summary(Arm(panel, "B0")) /\ g.cand = Summary(Arm(panel, "L"))
       /\ g.safety.violations = Summary(Arm(panel, "L")).violations
       /\ h.base = Summary(Arm(better, "B0")) /\ h.cand = Summary(Arm(better, "L"))
       /\ h.safety.violations = Summary(Arm(better, "L")).violations
  BY <1>9, <1>12, <1>14, <1>24 DEF ArmsOf
<1>26. /\ DOMAIN g.cells = Envs("validation") /\ DOMAIN h.cells = Envs("validation")
       /\ \A e \in Envs("validation"), a \in {"B0", "L"} :
            g.cells[e][a] = Summary(In(Arm(panel, a), e)) /\ h.cells[e][a] = Summary(In(Arm(better, a), e))
  BY <1>9, <1>12, <1>14, <1>24 DEF CellsOf
<1>27. h.safety.violations = 0
  BY <1>16, <1>23, <1>25 DEF Improved
<1>28. Numeric(g.config)
  BY <1>2, <1>6, <1>12, EvidenceAssumption DEF Numeric, Protocols
<1>29. /\ DOMAIN h.safety.cases = DOMAIN g.safety.cases
       /\ \A c \in DOMAIN h.safety.cases : h.safety.cases[c]
  <2>1. DOMAIN CaseResults(probes) = SafetyCases
    BY DEF CaseResults
  <2>2. \A c \in SafetyCases : CaseResults(probes)[c]
    BY <1>18, <2>1 DEF AllPassed
  <2> QED BY <1>12, <1>14, <2>1, <2>2
<1>30. /\ h.integrity = {} /\ h.config = g.config /\ h.comparison = g.comparison /\ h.expected = g.expected
       /\ h.base = g.base /\ h.ci = g.ci /\ h.envs = g.envs
       /\ h.safety.required = g.safety.required /\ DOMAIN h.cells = DOMAIN g.cells
  BY <1>9, <1>12, <1>14, <1>23, <1>25, <1>26 DEF Improved
<1>31. \A e \in g.envs \cap DOMAIN g.cells :
         /\ h.cells[e]["B0"] = g.cells[e]["B0"] /\ NoWorse(g.cells[e]["L"], h.cells[e]["L"])
         /\ IsSummary(g.cells[e]["B0"]) /\ IsSummary(g.cells[e]["L"]) /\ IsSummary(h.cells[e]["L"])
  <2> TAKE e \in g.envs \cap DOMAIN g.cells
  <2>1. /\ g.cells[e]["B0"] = Summary(In(Arm(panel, "B0"), e)) /\ h.cells[e]["B0"] = Summary(In(Arm(better, "B0"), e))
        /\ g.cells[e]["L"] = Summary(In(Arm(panel, "L"), e)) /\ h.cells[e]["L"] = Summary(In(Arm(better, "L"), e))
    BY <1>26
  <2> QED BY <1>23, <2>1 DEF Improved
<1>32. IsSummary(g.base) /\ IsSummary(g.cand) /\ IsSummary(h.cand) /\ NoWorse(g.cand, h.cand)
  BY <1>23, <1>25 DEF Improved
<1>33. Reasons(h) = {}
  BY <1>11, <1>19, <1>27, <1>28, <1>29, <1>30, <1>31, <1>32, GateKeeps
<1>34. GatePasses(new)
  <2>1. Reasons(ManagerInput(new, Config[new.protocol])) = {}
    BY <1>6, <1>9, <1>10, <1>14, <1>33
  <2> QED BY <2>1 DEF GatePasses, Passes, ManagerInput, AllPassed
<1> QED BY <1>4, <1>34

(* A report that passes the manager's gate still does when one run of the  *)
(* candidate goes better: evaluate_performance_gate and _check_gate, for   *)
(* every panel, observation and threshold.                                 *)
THEOREM GateIsMonotoneCorrect == EvidenceSpec => []GateIsMonotone
<1>1. EvidenceInv => GateIsMonotone
  <2> SUFFICES ASSUME EvidenceInv, NEW j \in DOMAIN report, jpc[j] = "reported", Phase[j] = "validation",
                      GatePasses(report[j]),
                      NEW r \in Arm(rows[j], "L"), NEW k \in DOMAIN Observed, AtLeast(k, r.kind)
               PROVE  GatePasses(Assemble(Inputs(j), (rows[j] \ {r}) \cup {[r EXCEPT !.kind = k]}, report[j].ci,
                        [c \in SafetyCases |-> IF report[j].cases[c] THEN "passed" ELSE "failed"], TRUE))
    BY Zenon DEF GateIsMonotone
  <2> QED BY GateIsKept
<1> QED BY <1>1, EvidenceIsInductive, PTL
=============================================================================
