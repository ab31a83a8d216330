------------------------ MODULE CellExecution_proofs ------------------------
(***************************************************************************)
(* The safety of creating a run under an idempotency key and of executing  *)
(* an evaluation cell under it, for any number of requests, executors,     *)
(* responses and crashes.                                                  *)
(***************************************************************************)
EXTENDS CellExecution, FiniteSetTheorems, TLAPS

(* A run that has been in the table was made by a request that did not     *)
(* find the key taken.                                                     *)
Made(r) == pc[r] \in {"created", "done"} /\ found[r] = "none"

(* Every answer and the row of the key are runs that were made, with the   *)
(* pins of their request.                                                  *)
RunsAreMade ==
  /\ row # None => Made(row.run) /\ row.payload = payload[row.run]
  /\ \A r \in Requests :
       /\ pc[r] # "idle" => payload[r] \in Payloads
       /\ pc[r] \in {"idle", "checked", "saving", "created"} =>
            found[r] = "none" /\ answer[r] = None
       /\ pc[r] = "created" => row # None
       /\ pc[r] = "done" => answer[r] # None
       /\ answer[r] \in Requests => Made(answer[r])

Creation == TypeOK /\ RunsAreMade /\ LateAnswersAreCompared

(* The key is the clients' or the executors'; those have no conflicts.     *)
KeyIsShared ==
  /\ cells = {} => \A r \in Requests : stage[r] = "idle" /\ models[r] = <<>>
  /\ cells # {} => \A r \in Requests : answer[r] # "conflict"

(* What an executor has at each place.                                     *)
Holding == {"identifying", "binding", "binding accounting", "binding once"}
Early   == {"creating", "identifying", "launching", "claimed"}

PlacedAt(x) ==
  /\ stage[x] = "creating" => pc[x] # "idle"
  /\ stage[x] \notin Over \cup {"creating"} => pc[x] = "done" /\ answer[x] \in Requests
  /\ stage[x] = "accepted" => answer[x] \in Requests
  /\ held[x] # None <=> stage[x] \in Holding
  /\ stage[x] \in {"binding accounting", "publishing", "binding once", "observing"}
       => seal[x] # None
  /\ view[x] # None <=> stage[x] \in {"accounting", "publishing", "binding once",
                                      "observing"}
  /\ ledger[x] # {} => stage[x] \notin Over \cup Early \cup {"binding"}
  /\ stage[x] = "recording" => verdicts[answer[x]] # <<>>

Placed == \A x \in Requests : PlacedAt(x)

(* Before the first overlap, only one executor is active.                  *)
Alone == ~overlapped => \A x, y \in Active : x = y

(* The responses a run was charged for.                                    *)
Paid(r) == {models[r][i].response : i \in DOMAIN models[r]}

(* Before the first overlap and after the first accepted observation, what *)
(* an active executor believes in is true.                                 *)
Quiet == settled # {} \/ ~overlapped

Claimed == {"claimed", "binding", "driving", "recording", "ending", "sealing",
            "binding accounting"}

(* Its run has the key.                                                    *)
KeepsKey(x) ==
  /\ stage[x] = "creating" =>
       /\ pc[x] = "saving" => row = None
       /\ pc[x] = "created" => row.run = x
       /\ pc[x] = "done" => Exists(x)
  /\ stage[x] # "creating" => Exists(x)

(* What it read of the row and of the events is still so.                  *)
ReadsLast(x) ==
  /\ stage[x] \in Holding => held[x] = content
  /\ stage[x] \in Claimed => content.status # "queued"
  /\ view[x] # None =>
       models[answer[x]] # <<>> /\ view[x].model = Final(models[answer[x]])

(* What it remembers is what it paid for, and nobody else paid.            *)
PaysAlone(x) ==
  /\ stage[x] \in {"claimed", "binding"} => models[answer[x]] = <<>>
  /\ stage[x] = "driving" =>
       /\ \A i \in DOMAIN models[answer[x]] : models[answer[x]][i].response.by = x
       /\ IF ledger[x] = {} THEN models[answer[x]] = <<>>
                              ELSE ledger[x] = Paid(answer[x])

Believed == Quiet => \A x \in Active : KeepsKey(x) /\ ReadsLast(x) /\ PaysAlone(x)

(* Responses are charged to the run of the key once it is claimed, and the *)
(* last event of a run has the receipts of all.                            *)
Charges ==
  Quiet =>
    /\ \A r \in Requests : models[r] # <<>> =>
         /\ row # None /\ row.run = r /\ content.status # "queued"
         /\ Final(models[r]).receipts = Paid(r)
    /\ CellIsPaidOnce

(* After an accepted observation nobody claims, replaces or seals the run  *)
(* again.                                                                  *)
Harmless == {"creating", "identifying", "launching", "measuring", "accounting", "observing"}

Settled ==
  settled # {} =>
    /\ row # None /\ content.status # "queued" /\ content.identity
    /\ content.final # None
    /\ \A x \in Active :
         stage[x] \in Harmless /\ (stage[x] = "creating" => pc[x] \in {"checked", "done"})
    /\ \A x \in settled :
         /\ stage[x] = "accepted" /\ answer[x] = row.run
         /\ obs[x].accounting = content.final
         /\ obs[x].passed = obs[x].outcome.passed
         /\ obs[x].accounting.receipts = Paid(answer[x])

Shape == Creation /\ CellTypeOK /\ KeyIsShared /\ Placed
IInv  == Shape /\ Alone /\ Believed /\ Charges /\ Settled

-----------------------------------------------------------------------------
USE CreationAssumption, CellAssumption, NoneAssumption
USE DEF At, To, Goto, Answer, Pass, Hold, WriteBack, Raise, Forget, Exists, Final,
        events, tables, locals, fixed, create

(***************************************************************************)
(* The creation of runs.                                                   *)
(***************************************************************************)
LEMMA CreationKept == ASSUME Creation, UNCHANGED <<row, create>> PROVE Creation'
BY DEF Creation, TypeOK, RunsAreMade, LateAnswersAreCompared, Made

LEMMA CreationWrites ==
  ASSUME Creation, NEW x \in Requests, answer[x] \in Requests,
         row' = [run |-> answer[x], payload |-> payload[answer[x]]], UNCHANGED create
  PROVE  Creation'
<1>1. TypeOK'
  BY DEF Creation, TypeOK, RunsAreMade, Made, Row
<1>2. RunsAreMade'
  BY DEF Creation, RunsAreMade, Made, Row
<1>3. LateAnswersAreCompared'
  BY DEF Creation, LateAnswersAreCompared
<1>. QED  BY <1>1, <1>2, <1>3 DEF Creation

LEMMA ArriveCreates ==
  ASSUME Creation, NEW r \in Requests, NEW p \in Payloads, Arrive(r, p) PROVE Creation'
<1>1. TypeOK'
  BY DEF Creation, TypeOK, Row, Arrive, Compared
<1>2. RunsAreMade'
  BY DEF Creation, TypeOK, RunsAreMade, Made, Row, Arrive, Compared
<1>3. LateAnswersAreCompared'
  BY DEF Creation, TypeOK, RunsAreMade, Made, Arrive, Compared, LateAnswersAreCompared
<1>. QED  BY <1>1, <1>2, <1>3 DEF Creation

LEMMA EnterCreates ==
  ASSUME Creation, NEW r \in Requests, NEW p \in Payloads, pc[r] = "idle",
         Goto(r, "checked"), payload' = [payload EXCEPT ![r] = p],
         UNCHANGED <<row, found, answer>>
  PROVE  Creation'
<1>1. TypeOK'
  BY DEF Creation, TypeOK
<1>2. RunsAreMade'
  BY DEF Creation, TypeOK, RunsAreMade, Made
<1>3. LateAnswersAreCompared'
  BY DEF Creation, RunsAreMade, Made, LateAnswersAreCompared
<1>. QED  BY <1>1, <1>2, <1>3 DEF Creation

LEMMA RecheckCreates ==
  ASSUME Creation, NEW r \in Requests, Recheck(r) PROVE Creation'
<1>1. TypeOK'
  BY DEF Creation, TypeOK, Row, Recheck
<1>2. RunsAreMade'
  BY DEF Creation, TypeOK, RunsAreMade, Made, Row, Recheck
<1>3. LateAnswersAreCompared'
  BY DEF Creation, TypeOK, Recheck, LateAnswersAreCompared
<1>. QED  BY <1>1, <1>2, <1>3 DEF Creation

LEMMA SaveCreates ==
  ASSUME Creation, NEW r \in Requests, Save(r) PROVE Creation'
<1>1. TypeOK'
  BY DEF Creation, TypeOK, RunsAreMade, Row, Save
<1>2. RunsAreMade'
  BY DEF Creation, TypeOK, RunsAreMade, Made, Row, Save
<1>3. LateAnswersAreCompared'
  BY DEF Creation, LateAnswersAreCompared, Save
<1>. QED  BY <1>1, <1>2, <1>3 DEF Creation

LEMMA AppendCreates ==
  ASSUME Creation, NEW r \in Requests, AppendCreated(r) PROVE Creation'
<1>1. TypeOK'
  BY DEF Creation, TypeOK, AppendCreated
<1>2. RunsAreMade'
  BY DEF Creation, TypeOK, RunsAreMade, Made, AppendCreated
<1>3. LateAnswersAreCompared'
  BY DEF Creation, AppendCreated, LateAnswersAreCompared
<1>. QED  BY <1>1, <1>2, <1>3 DEF Creation

(***************************************************************************)
(* What the executors hold.                                                *)
(***************************************************************************)
TableTypes ==
  /\ cells \in {{}, Requests}
  /\ content \in Content
  /\ models \in [Requests -> Seq(ModelEvent)]
  /\ verdicts \in [Requests -> Seq(OutcomeEvent)]
  /\ outcomes \in [Requests -> BOOLEAN \cup {None}]

LocalTypes ==
  /\ stage \in [Requests -> Stages]
  /\ held \in [Requests -> Content \cup {None}]
  /\ seal \in [Requests -> Accounting \cup {None}]
  /\ ledger \in [Requests -> SUBSET Response]
  /\ view \in [Requests -> View \cup {None}]
  /\ obs \in [Requests -> Observation \cup {None}]

RestsAt(x) ==
  /\ stage[x] \in Over => held[x] = None /\ seal[x] = None /\ view[x] = None
  /\ obs[x] # None <=> stage[x] = "accepted"

CountTypes ==
  /\ crashes \in 0..MaxCrashes /\ overlapped \in BOOLEAN /\ settled \subseteq cells

LEMMA CellTypes ==
  CellTypeOK <=> TableTypes /\ LocalTypes /\ (\A x \in Requests : RestsAt(x)) /\ CountTypes
BY DEF CellTypeOK, TableTypes, LocalTypes, RestsAt, CountTypes

(* A step changes what one executor holds.                                 *)
Moves(x) ==
  /\ stage' = [stage EXCEPT ![x] = stage'[x]] /\ stage'[x] \in Stages
  /\ held' = [held EXCEPT ![x] = held'[x]] /\ held'[x] \in Content \cup {None}
  /\ seal' = [seal EXCEPT ![x] = seal'[x]] /\ seal'[x] \in Accounting \cup {None}
  /\ ledger' = [ledger EXCEPT ![x] = ledger'[x]] /\ ledger'[x] \in SUBSET Response
  /\ view' = [view EXCEPT ![x] = view'[x]] /\ view'[x] \in View \cup {None}
  /\ obs' = [obs EXCEPT ![x] = obs'[x]] /\ obs'[x] \in Observation \cup {None}

LEMMA MovesTypes ==
  ASSUME LocalTypes, NEW x \in Requests, Moves(x) PROVE LocalTypes'
BY DEF LocalTypes, Moves

LEMMA MovesOne ==
  ASSUME LocalTypes, NEW x \in Requests, Moves(x), NEW y \in Requests, y # x
  PROVE  /\ stage'[y] = stage[y] /\ held'[y] = held[y] /\ seal'[y] = seal[y]
         /\ ledger'[y] = ledger[y] /\ view'[y] = view[y] /\ obs'[y] = obs[y]
BY DEF LocalTypes, Moves

LEMMA MovesPlaced ==
  ASSUME LocalTypes, \A y \in Requests : RestsAt(y), Placed,
         NEW x \in Requests, Moves(x), RestsAt(x)', PlacedAt(x)',
         \A y \in Requests : y # x => pc'[y] = pc[y] /\ answer'[y] = answer[y],
         \A r \in Requests : verdicts[r] # <<>> => verdicts'[r] # <<>>
  PROVE  (\A y \in Requests : RestsAt(y)') /\ Placed'
<1>1. ASSUME NEW y \in Requests, y # x PROVE RestsAt(y)' /\ PlacedAt(y)'
  <2>1. RestsAt(y) /\ PlacedAt(y)
    BY DEF Placed
  <2>2. /\ stage'[y] = stage[y] /\ held'[y] = held[y] /\ seal'[y] = seal[y]
        /\ ledger'[y] = ledger[y] /\ view'[y] = view[y] /\ obs'[y] = obs[y]
    BY <1>1, MovesOne
  <2>3. RestsAt(y)'
    BY <2>1, <2>2 DEF RestsAt
  <2>4. PlacedAt(y)'
    BY <2>1, <2>2, <1>1 DEF PlacedAt, Over
  <2>. QED  BY <2>3, <2>4
<1>. QED  BY <1>1 DEF Placed

LEMMA FinalIn ==
  ASSUME NEW S, NEW s \in Seq(S), s # <<>> PROVE Final(s) \in S
OBVIOUS

LEMMA AppendLast ==
  ASSUME NEW S, NEW s \in Seq(S), NEW e \in S
  PROVE  /\ Append(s, e) \in Seq(S) /\ Append(s, e) # <<>>
         /\ Final(Append(s, e)) = e /\ Len(Append(s, e)) = Len(s) + 1
         /\ \A i \in 1..Len(s) : Append(s, e)[i] = s[i]
OBVIOUS

LEMMA CellTypesNow == CellTypeOK' => TableTypes'
BY DEF CellTypeOK, TableTypes

(* The next response and its receipts.                                     *)
NewResponse(x, c) == [by |-> x, turn |-> Turns(x) + 1, price |-> c]

LEMMA ResponseIsNew ==
  ASSUME TableTypes, LocalTypes, NEW x \in Requests, NEW c \in Prices,
         answer[x] \in Requests, Turns(x) < MaxResponses
  PROVE  /\ NewResponse(x, c) \in Response
         /\ Charged(x, NewResponse(x, c)) \in SUBSET Response
<1> DEFINE s == models[answer[x]]
<1>1. s \in Seq(ModelEvent)
  BY DEF TableTypes
<1>2. Turns(x) \in Nat
  <2> DEFINE T == {i \in DOMAIN s : s[i].response.by = x}
  <2>1. IsFiniteSet(1..Len(s)) /\ T \subseteq 1..Len(s)
    BY <1>1, FS_Interval
  <2>2. IsFiniteSet(T)
    BY <2>1, FS_Subset
  <2>3. Cardinality(T) \in Nat
    BY <2>2, FS_CardinalityType
  <2>. QED  BY <2>3 DEF Turns
<1>3. NewResponse(x, c) \in Response
  BY <1>2 DEF NewResponse, Response
<1>4. ASSUME NEW i \in DOMAIN s PROVE s[i].receipts \subseteq Response
  <2>1. s[i] \in ModelEvent
    BY <1>1
  <2>. QED  BY <2>1 DEF ModelEvent
<1>5. Remembered(x) \subseteq Response
  BY <1>4 DEF Remembered, LocalTypes
<1>. QED  BY <1>3, <1>5 DEF Charged

LEMMA CellTypesNext ==
  TableTypes' /\ LocalTypes' /\ (\A x \in Requests : RestsAt(x)') /\ CountTypes' => CellTypeOK'
BY DEF CellTypeOK, TableTypes, LocalTypes, RestsAt, CountTypes

LEMMA ReadIdentityShape ==
  ASSUME Shape, NEW x \in Requests, ReadIdentity(x)
  PROVE  Shape' /\ Moves(x)
<1>. TableTypes /\ LocalTypes /\ (\A y \in Requests : RestsAt(y)) /\ CountTypes
  BY CellTypes DEF Shape
<1>. RestsAt(x) /\ PlacedAt(x)
  BY DEF Shape, Placed
<1>0. stage[x] = "creating" /\ x \in cells
  BY DEF ReadIdentity
<1>f. answer[x] # "error" => pc[x] = "done" /\ answer[x] \in Requests
  BY <1>0 DEF ReadIdentity, Shape, Creation, TypeOK, RunsAreMade, KeyIsShared
<1>1. Creation'
  BY CreationKept DEF Shape, ReadIdentity
<1>2. TableTypes'
  BY DEF TableTypes, ReadIdentity
<1>3. CountTypes'
  BY DEF CountTypes, ReadIdentity
<1>a. ASSUME answer[x] = "error" /\ Raise(x)
     PROVE  Moves(x) /\ RestsAt(x)' /\ PlacedAt(x)'
  <2>1. /\ stage'[x] = "failed" /\ held'[x] = None /\ seal'[x] = None
        /\ ledger'[x] = {} /\ view'[x] = None
        /\ obs'[x] = obs[x]
    BY <1>a, <1>0 DEF LocalTypes
  <2>2. Moves(x)
    BY <1>a, <1>f, <1>0, <2>1 DEF Moves, LocalTypes, Over, Stages
  <2>3. UNCHANGED create
    BY <1>a, <1>0
  <2>4. RestsAt(x)' /\ PlacedAt(x)'
    BY <1>a, <1>f, <1>0, <2>1, <2>2, <2>3 DEF RestsAt, PlacedAt, Over, Holding
  <2>. QED  BY <2>2, <2>4
<1>b. ASSUME answer[x] # "error" /\ Exists(x) /\ Hold(x, "identifying")
     PROVE  Moves(x) /\ RestsAt(x)' /\ PlacedAt(x)'
  <2>1. /\ stage'[x] = "identifying" /\ held'[x] = content /\ seal'[x] = seal[x]
        /\ ledger'[x] = ledger[x] /\ view'[x] = view[x]
        /\ obs'[x] = obs[x]
    BY <1>b, <1>0 DEF LocalTypes
  <2>2. Moves(x)
    BY <1>b, <1>f, <1>0, <2>1 DEF Moves, LocalTypes, TableTypes, Stages
  <2>3. UNCHANGED create
    BY <1>b, <1>0
  <2>4. RestsAt(x)' /\ PlacedAt(x)'
    BY <1>b, <1>f, <1>0, <2>1, <2>2, <2>3 DEF TableTypes, RestsAt, PlacedAt, Over, Holding, Early
  <2>. QED  BY <2>2, <2>4
<1>c. ASSUME answer[x] # "error" /\ ~Exists(x) /\ Pass(x, "launching")
     PROVE  Moves(x) /\ RestsAt(x)' /\ PlacedAt(x)'
  <2>1. /\ stage'[x] = "launching" /\ held'[x] = held[x] /\ seal'[x] = seal[x]
        /\ ledger'[x] = ledger[x] /\ view'[x] = view[x]
        /\ obs'[x] = obs[x]
    BY <1>c, <1>0 DEF LocalTypes
  <2>2. Moves(x)
    BY <1>c, <1>f, <1>0, <2>1 DEF Moves, LocalTypes, Stages
  <2>3. UNCHANGED create
    BY <1>c, <1>0
  <2>4. RestsAt(x)' /\ PlacedAt(x)'
    BY <1>c, <1>f, <1>0, <2>1, <2>2, <2>3 DEF RestsAt, PlacedAt, Over, Holding, Early
  <2>. QED  BY <2>2, <2>4
<1>4. Moves(x) /\ RestsAt(x)' /\ PlacedAt(x)'
  BY <1>a, <1>b, <1>c DEF ReadIdentity
<1>6. KeyIsShared'
  BY <1>0 DEF Shape, KeyIsShared, ReadIdentity
<1>7. \A r \in Requests : verdicts[r] # <<>> => verdicts'[r] # <<>>
  BY DEF TableTypes, ReadIdentity
<1>8. UNCHANGED create
  BY DEF ReadIdentity
<1>9. LocalTypes' /\ (\A y \in Requests : RestsAt(y)') /\ Placed'
  BY <1>4, <1>7, <1>8, MovesTypes, MovesPlaced DEF Shape
<1>. QED  BY <1>1, <1>2, <1>3, <1>6, <1>4, <1>9, CellTypesNext DEF Shape

LEMMA WriteIdentityShape ==
  ASSUME Shape, NEW x \in Requests, WriteIdentity(x)
  PROVE  Shape' /\ Moves(x)
<1>. TableTypes /\ LocalTypes /\ (\A y \in Requests : RestsAt(y)) /\ CountTypes
  BY CellTypes DEF Shape
<1>. RestsAt(x) /\ PlacedAt(x)
  BY DEF Shape, Placed
<1>0. stage[x] = "identifying" /\ x \in cells
  BY DEF WriteIdentity
<1>1. Creation'
  BY CreationWrites DEF Shape, PlacedAt, WriteIdentity, Over
<1>2. TableTypes'
  BY DEF TableTypes, LocalTypes, Content, PlacedAt, Holding, WriteIdentity
<1>3. CountTypes'
  BY DEF CountTypes, WriteIdentity
<1>a. Moves(x) /\ RestsAt(x)' /\ PlacedAt(x)'
  <2>1. /\ stage'[x] = "launching" /\ held'[x] = None /\ seal'[x] = seal[x]
        /\ ledger'[x] = ledger[x] /\ view'[x] = view[x]
        /\ obs'[x] = obs[x]
    BY <1>0 DEF LocalTypes, WriteIdentity
  <2>2. Moves(x)
    BY <1>0, <2>1 DEF Moves, LocalTypes, Stages, WriteIdentity
  <2>3. UNCHANGED create
    BY <1>0 DEF WriteIdentity
  <2>4. RestsAt(x)' /\ PlacedAt(x)'
    BY <1>0, <2>1, <2>2, <2>3 DEF RestsAt, PlacedAt, Over, Holding, Early
  <2>. QED  BY <2>2, <2>4
<1>6. KeyIsShared'
  BY <1>0 DEF Shape, KeyIsShared, WriteIdentity
<1>7. \A r \in Requests : verdicts[r] # <<>> => verdicts'[r] # <<>>
  BY DEF TableTypes, WriteIdentity
<1>8. UNCHANGED create
  BY DEF WriteIdentity
<1>9. LocalTypes' /\ (\A y \in Requests : RestsAt(y)') /\ Placed'
  BY <1>a, <1>7, <1>8, MovesTypes, MovesPlaced DEF Shape
<1>. QED  BY <1>1, <1>2, <1>3, <1>6, <1>a, <1>9, CellTypesNext DEF Shape

LEMMA ClaimShape ==
  ASSUME Shape, NEW x \in Requests, Claim(x)
  PROVE  Shape' /\ Moves(x)
<1>. TableTypes /\ LocalTypes /\ (\A y \in Requests : RestsAt(y)) /\ CountTypes
  BY CellTypes DEF Shape
<1>. RestsAt(x) /\ PlacedAt(x)
  BY DEF Shape, Placed
<1>0. stage[x] = "launching" /\ x \in cells
  BY DEF Claim
<1>1. Creation'
  BY CreationKept DEF Shape, Claim
<1>2. TableTypes'
  BY DEF TableTypes, Content, Statuses, Claim
<1>3. CountTypes'
  BY DEF CountTypes, Claim
<1>a. ASSUME Raise(x)
     PROVE  Moves(x) /\ RestsAt(x)' /\ PlacedAt(x)'
  <2>1. /\ stage'[x] = "failed" /\ held'[x] = None /\ seal'[x] = None
        /\ ledger'[x] = {} /\ view'[x] = None
        /\ obs'[x] = obs[x]
    BY <1>a, <1>0 DEF LocalTypes
  <2>2. Moves(x)
    BY <1>a, <1>0, <2>1 DEF Moves, LocalTypes, Over, Stages
  <2>3. UNCHANGED create
    BY <1>a, <1>0
  <2>4. RestsAt(x)' /\ PlacedAt(x)'
    BY <1>a, <1>0, <2>1, <2>2, <2>3 DEF RestsAt, PlacedAt, Over, Holding
  <2>. QED  BY <2>2, <2>4
<1>b. ASSUME Pass(x, "measuring")
     PROVE  Moves(x) /\ RestsAt(x)' /\ PlacedAt(x)'
  <2>1. /\ stage'[x] = "measuring" /\ held'[x] = held[x] /\ seal'[x] = seal[x]
        /\ ledger'[x] = ledger[x] /\ view'[x] = view[x]
        /\ obs'[x] = obs[x]
    BY <1>b, <1>0 DEF LocalTypes
  <2>2. Moves(x)
    BY <1>b, <1>0, <2>1 DEF Moves, LocalTypes, Stages
  <2>3. UNCHANGED create
    BY <1>b, <1>0
  <2>4. RestsAt(x)' /\ PlacedAt(x)'
    BY <1>b, <1>0, <2>1, <2>2, <2>3 DEF RestsAt, PlacedAt, Over, Holding, Early
  <2>. QED  BY <2>2, <2>4
<1>c. ASSUME To(x, "claimed") /\ UNCHANGED <<row, events, outcomes, locals, fixed, create>>
     PROVE  Moves(x) /\ RestsAt(x)' /\ PlacedAt(x)'
  <2>1. /\ stage'[x] = "claimed" /\ held'[x] = held[x] /\ seal'[x] = seal[x]
        /\ ledger'[x] = ledger[x] /\ view'[x] = view[x]
        /\ obs'[x] = obs[x]
    BY <1>c, <1>0 DEF LocalTypes
  <2>2. Moves(x)
    BY <1>c, <1>0, <2>1 DEF Moves, LocalTypes, Stages
  <2>3. UNCHANGED create
    BY <1>c, <1>0
  <2>4. RestsAt(x)' /\ PlacedAt(x)'
    BY <1>c, <1>0, <2>1, <2>2, <2>3 DEF RestsAt, PlacedAt, Over, Holding, Early
  <2>. QED  BY <2>2, <2>4
<1>4. Moves(x) /\ RestsAt(x)' /\ PlacedAt(x)'
  BY <1>a, <1>b, <1>c DEF Claim
<1>6. KeyIsShared'
  BY <1>0 DEF Shape, KeyIsShared, Claim
<1>7. \A r \in Requests : verdicts[r] # <<>> => verdicts'[r] # <<>>
  BY DEF TableTypes, Claim
<1>8. UNCHANGED create
  BY DEF Claim
<1>9. LocalTypes' /\ (\A y \in Requests : RestsAt(y)') /\ Placed'
  BY <1>4, <1>7, <1>8, MovesTypes, MovesPlaced DEF Shape
<1>. QED  BY <1>1, <1>2, <1>3, <1>6, <1>4, <1>9, CellTypesNext DEF Shape

LEMMA ReadLaunchShape ==
  ASSUME Shape, NEW x \in Requests, ReadLaunch(x)
  PROVE  Shape' /\ Moves(x)
<1>. TableTypes /\ LocalTypes /\ (\A y \in Requests : RestsAt(y)) /\ CountTypes
  BY CellTypes DEF Shape
<1>. RestsAt(x) /\ PlacedAt(x)
  BY DEF Shape, Placed
<1>0. stage[x] = "claimed" /\ x \in cells
  BY DEF ReadLaunch
<1>1. Creation'
  BY CreationKept DEF Shape, ReadLaunch
<1>2. TableTypes'
  BY DEF TableTypes, ReadLaunch
<1>3. CountTypes'
  BY DEF CountTypes, ReadLaunch
<1>a. ASSUME Hold(x, "binding")
     PROVE  Moves(x) /\ RestsAt(x)' /\ PlacedAt(x)'
  <2>1. /\ stage'[x] = "binding" /\ held'[x] = content /\ seal'[x] = seal[x]
        /\ ledger'[x] = ledger[x] /\ view'[x] = view[x]
        /\ obs'[x] = obs[x]
    BY <1>a, <1>0 DEF LocalTypes
  <2>2. Moves(x)
    BY <1>a, <1>0, <2>1 DEF Moves, LocalTypes, TableTypes, Stages
  <2>3. UNCHANGED create
    BY <1>a, <1>0
  <2>4. RestsAt(x)' /\ PlacedAt(x)'
    BY <1>a, <1>0, <2>1, <2>2, <2>3 DEF TableTypes, RestsAt, PlacedAt, Over, Holding, Early
  <2>. QED  BY <2>2, <2>4
<1>b. ASSUME Raise(x)
     PROVE  Moves(x) /\ RestsAt(x)' /\ PlacedAt(x)'
  <2>1. /\ stage'[x] = "failed" /\ held'[x] = None /\ seal'[x] = None
        /\ ledger'[x] = {} /\ view'[x] = None
        /\ obs'[x] = obs[x]
    BY <1>b, <1>0 DEF LocalTypes
  <2>2. Moves(x)
    BY <1>b, <1>0, <2>1 DEF Moves, LocalTypes, Over, Stages
  <2>3. UNCHANGED create
    BY <1>b, <1>0
  <2>4. RestsAt(x)' /\ PlacedAt(x)'
    BY <1>b, <1>0, <2>1, <2>2, <2>3 DEF RestsAt, PlacedAt, Over, Holding
  <2>. QED  BY <2>2, <2>4
<1>4. Moves(x) /\ RestsAt(x)' /\ PlacedAt(x)'
  BY <1>a, <1>b DEF ReadLaunch
<1>6. KeyIsShared'
  BY <1>0 DEF Shape, KeyIsShared, ReadLaunch
<1>7. \A r \in Requests : verdicts[r] # <<>> => verdicts'[r] # <<>>
  BY DEF TableTypes, ReadLaunch
<1>8. UNCHANGED create
  BY DEF ReadLaunch
<1>9. LocalTypes' /\ (\A y \in Requests : RestsAt(y)') /\ Placed'
  BY <1>4, <1>7, <1>8, MovesTypes, MovesPlaced DEF Shape
<1>. QED  BY <1>1, <1>2, <1>3, <1>6, <1>4, <1>9, CellTypesNext DEF Shape

LEMMA BindLaunchShape ==
  ASSUME Shape, NEW x \in Requests, BindLaunch(x)
  PROVE  Shape' /\ Moves(x)
<1>. TableTypes /\ LocalTypes /\ (\A y \in Requests : RestsAt(y)) /\ CountTypes
  BY CellTypes DEF Shape
<1>. RestsAt(x) /\ PlacedAt(x)
  BY DEF Shape, Placed
<1>0. stage[x] = "binding" /\ x \in cells
  BY DEF BindLaunch
<1>1. Creation'
  BY CreationWrites DEF Shape, PlacedAt, BindLaunch, Over
<1>2. TableTypes'
  BY ZenonT(40) DEF TableTypes, LocalTypes, Content, PlacedAt, Holding, BindLaunch
<1>3. CountTypes'
  BY DEF CountTypes, BindLaunch
<1>a. Moves(x) /\ RestsAt(x)' /\ PlacedAt(x)'
  <2>1. /\ stage'[x] = "driving" /\ held'[x] = None /\ seal'[x] = seal[x]
        /\ ledger'[x] = ledger[x] /\ view'[x] = view[x]
        /\ obs'[x] = obs[x]
    BY <1>0 DEF LocalTypes, BindLaunch
  <2>2. Moves(x)
    BY <1>0, <2>1 DEF Moves, LocalTypes, Stages, BindLaunch
  <2>3. UNCHANGED create
    BY <1>0 DEF BindLaunch
  <2>4. RestsAt(x)' /\ PlacedAt(x)'
    BY <1>0, <2>1, <2>2, <2>3 DEF RestsAt, PlacedAt, Over, Holding
  <2>. QED  BY <2>2, <2>4
<1>6. KeyIsShared'
  BY <1>0 DEF Shape, KeyIsShared, BindLaunch
<1>7. \A r \in Requests : verdicts[r] # <<>> => verdicts'[r] # <<>>
  BY DEF TableTypes, BindLaunch
<1>8. UNCHANGED create
  BY DEF BindLaunch
<1>9. LocalTypes' /\ (\A y \in Requests : RestsAt(y)') /\ Placed'
  BY <1>a, <1>7, <1>8, MovesTypes, MovesPlaced DEF Shape
<1>. QED  BY <1>1, <1>2, <1>3, <1>6, <1>a, <1>9, CellTypesNext DEF Shape

LEMMA RespondShape ==
  ASSUME Shape, NEW x \in Requests, NEW c \in Prices, Respond(x, c)
  PROVE  Shape' /\ Moves(x)
<1>. TableTypes /\ LocalTypes /\ (\A y \in Requests : RestsAt(y)) /\ CountTypes
  BY CellTypes DEF Shape
<1>. RestsAt(x) /\ PlacedAt(x)
  BY DEF Shape, Placed
<1>0. stage[x] = "driving" /\ x \in cells
  BY DEF Respond
<1>f. /\ answer[x] \in Requests
      /\ models[answer[x]] # <<>> => Final(models[answer[x]]) \in ModelEvent
      /\ verdicts[answer[x]] # <<>> => Final(verdicts[answer[x]]) \in OutcomeEvent
  <2>1. answer[x] \in Requests
    BY <1>0 DEF PlacedAt, Over
  <2>2. models[answer[x]] \in Seq(ModelEvent) /\ verdicts[answer[x]] \in Seq(OutcomeEvent)
    BY <2>1 DEF TableTypes
  <2>3. models[answer[x]] # <<>> => Final(models[answer[x]]) \in ModelEvent
    BY <2>2, FinalIn
  <2>4. verdicts[answer[x]] # <<>> => Final(verdicts[answer[x]]) \in OutcomeEvent
    BY <2>2, FinalIn
  <2>. QED  BY <2>1, <2>3, <2>4
<1>1. Creation'
  BY CreationKept DEF Shape, Respond
<1> DEFINE new == NewResponse(x, c)
<1>r. /\ new \in Response /\ Charged(x, new) \in SUBSET Response /\ new \in Charged(x, new)
      /\ ledger' = [ledger EXCEPT ![x] = Charged(x, new)]
      /\ models' = [models EXCEPT ![answer[x]] = Append(@, [response |-> new,
                                                          receipts |-> Charged(x, new)])]
  BY <1>0, <1>f, ResponseIsNew DEF Respond, NewResponse, Charged
<1> HIDE DEF new
<1>2. TableTypes'
  <2>1. Append(models[answer[x]], [response |-> new, receipts |-> Charged(x, new)])
          \in Seq(ModelEvent)
    BY <1>f, <1>r, AppendLast DEF TableTypes, ModelEvent
  <2>. QED  BY <2>1, <1>r, ZenonT(80) DEF TableTypes, Respond
<1>3. CountTypes'
  BY DEF CountTypes, Respond
<1>4. Moves(x) /\ RestsAt(x)' /\ PlacedAt(x)'
  <2>1. /\ stage' = stage /\ held' = held /\ seal' = seal /\ view' = view /\ obs' = obs
        /\ verdicts' = verdicts /\ UNCHANGED create
    BY DEF Respond
  <2>2. ledger'[x] = Charged(x, new)
    BY <1>r DEF LocalTypes
  <2>3. Moves(x)
    BY <1>r, <2>1, <2>2 DEF Moves, LocalTypes
  <2>4. RestsAt(x)'
    BY <2>1 DEF RestsAt
  <2>5. PlacedAt(x)'
    BY <1>0, <2>1 DEF PlacedAt, Over, Early
  <2>. QED  BY <2>3, <2>4, <2>5
<1>6. KeyIsShared'
  BY <1>0 DEF Shape, KeyIsShared, Respond
<1>7. \A r \in Requests : verdicts[r] # <<>> => verdicts'[r] # <<>>
  BY DEF TableTypes, Respond
<1>8. UNCHANGED create
  BY DEF Respond
<1>9. LocalTypes' /\ (\A y \in Requests : RestsAt(y)') /\ Placed'
  BY <1>4, <1>7, <1>8, MovesTypes, MovesPlaced DEF Shape
<1>. QED  BY <1>1, <1>2, <1>3, <1>6, <1>4, <1>9, CellTypesNext DEF Shape

LEMMA EvaluateShape ==
  ASSUME Shape, NEW x \in Requests, NEW v \in BOOLEAN, Evaluate(x, v)
  PROVE  Shape' /\ Moves(x)
<1>. TableTypes /\ LocalTypes /\ (\A y \in Requests : RestsAt(y)) /\ CountTypes
  BY CellTypes DEF Shape
<1>. RestsAt(x) /\ PlacedAt(x)
  BY DEF Shape, Placed
<1>0. stage[x] = "driving" /\ x \in cells
  BY DEF Evaluate
<1>f. /\ answer[x] \in Requests
      /\ models[answer[x]] # <<>> => Final(models[answer[x]]) \in ModelEvent
      /\ verdicts[answer[x]] # <<>> => Final(verdicts[answer[x]]) \in OutcomeEvent
  <2>1. answer[x] \in Requests
    BY <1>0 DEF PlacedAt, Over
  <2>2. models[answer[x]] \in Seq(ModelEvent) /\ verdicts[answer[x]] \in Seq(OutcomeEvent)
    BY <2>1 DEF TableTypes
  <2>3. models[answer[x]] # <<>> => Final(models[answer[x]]) \in ModelEvent
    BY <2>2, FinalIn
  <2>4. verdicts[answer[x]] # <<>> => Final(verdicts[answer[x]]) \in OutcomeEvent
    BY <2>2, FinalIn
  <2>. QED  BY <2>1, <2>3, <2>4
<1>p. PICK e \in OutcomeEvent : verdicts' = [verdicts EXCEPT ![answer[x]] = Append(@, e)]
  BY <1>f DEF Evaluate, OutcomeEvent, ModelEvent
<1>e. verdicts'[answer[x]] # <<>>
  <2>1. verdicts[answer[x]] \in Seq(OutcomeEvent)
    BY <1>f DEF TableTypes
  <2>2. Append(verdicts[answer[x]], e) # <<>>
    BY <2>1, AppendLast
  <2>. QED  BY <1>p, <1>f, <2>2 DEF TableTypes
<1>1. Creation'
  BY CreationKept DEF Shape, Evaluate
<1>2. TableTypes'
  <2>1. Append(verdicts[answer[x]], e) \in Seq(OutcomeEvent)
    BY <1>f, AppendLast DEF TableTypes
  <2>. QED  BY <2>1, <1>p, ZenonT(40) DEF TableTypes, Evaluate
<1>3. CountTypes'
  BY DEF CountTypes, Evaluate
<1>a. Moves(x) /\ RestsAt(x)' /\ PlacedAt(x)'
  <2>1. /\ stage'[x] = "recording" /\ held'[x] = held[x] /\ seal'[x] = seal[x]
        /\ ledger'[x] = ledger[x] /\ view'[x] = view[x]
        /\ obs'[x] = obs[x]
    BY <1>0 DEF LocalTypes, Evaluate
  <2>2. Moves(x)
    BY <1>0, <2>1 DEF Moves, LocalTypes, Stages, Evaluate
  <2>3. UNCHANGED create
    BY <1>0 DEF Evaluate
  <2>4. RestsAt(x)' /\ PlacedAt(x)'
    BY <1>e, <1>f, <1>0, <2>1, <2>2, <2>3 DEF RestsAt, PlacedAt, Over, Holding, Early
  <2>. QED  BY <2>2, <2>4
<1>6. KeyIsShared'
  BY <1>0 DEF Shape, KeyIsShared, Evaluate
<1>7. \A r \in Requests : verdicts[r] # <<>> => verdicts'[r] # <<>>
  BY <1>e, <1>p, <1>f DEF TableTypes
<1>8. UNCHANGED create
  BY DEF Evaluate
<1>9. LocalTypes' /\ (\A y \in Requests : RestsAt(y)') /\ Placed'
  BY <1>a, <1>7, <1>8, MovesTypes, MovesPlaced DEF Shape
<1>. QED  BY <1>1, <1>2, <1>3, <1>6, <1>a, <1>9, CellTypesNext DEF Shape

LEMMA RecordOutcomeShape ==
  ASSUME Shape, NEW x \in Requests, RecordOutcome(x)
  PROVE  Shape' /\ Moves(x)
<1>. TableTypes /\ LocalTypes /\ (\A y \in Requests : RestsAt(y)) /\ CountTypes
  BY CellTypes DEF Shape
<1>. RestsAt(x) /\ PlacedAt(x)
  BY DEF Shape, Placed
<1>0. stage[x] = "recording" /\ x \in cells
  BY DEF RecordOutcome
<1>f. /\ answer[x] \in Requests
      /\ models[answer[x]] # <<>> => Final(models[answer[x]]) \in ModelEvent
      /\ verdicts[answer[x]] # <<>> => Final(verdicts[answer[x]]) \in OutcomeEvent
  <2>1. answer[x] \in Requests
    BY <1>0 DEF PlacedAt, Over
  <2>2. models[answer[x]] \in Seq(ModelEvent) /\ verdicts[answer[x]] \in Seq(OutcomeEvent)
    BY <2>1 DEF TableTypes
  <2>3. models[answer[x]] # <<>> => Final(models[answer[x]]) \in ModelEvent
    BY <2>2, FinalIn
  <2>4. verdicts[answer[x]] # <<>> => Final(verdicts[answer[x]]) \in OutcomeEvent
    BY <2>2, FinalIn
  <2>. QED  BY <2>1, <2>3, <2>4
<1>1. Creation'
  BY CreationKept DEF Shape, RecordOutcome
<1>2. TableTypes'
  <2>1. Final(verdicts[answer[x]]).passed \in BOOLEAN
    BY <1>0, <1>f DEF PlacedAt, OutcomeEvent
  <2>. QED  BY <2>1, <1>f DEF TableTypes, RecordOutcome
<1>3. CountTypes'
  BY DEF CountTypes, RecordOutcome
<1>a. Moves(x) /\ RestsAt(x)' /\ PlacedAt(x)'
  <2>1. /\ stage'[x] = "ending" /\ held'[x] = held[x] /\ seal'[x] = seal[x]
        /\ ledger'[x] = ledger[x] /\ view'[x] = view[x]
        /\ obs'[x] = obs[x]
    BY <1>0 DEF LocalTypes, RecordOutcome
  <2>2. Moves(x)
    BY <1>0, <2>1 DEF Moves, LocalTypes, Stages, RecordOutcome
  <2>3. UNCHANGED create
    BY <1>0 DEF RecordOutcome
  <2>4. RestsAt(x)' /\ PlacedAt(x)'
    BY <1>0, <2>1, <2>2, <2>3 DEF RestsAt, PlacedAt, Over, Holding, Early
  <2>. QED  BY <2>2, <2>4
<1>6. KeyIsShared'
  BY <1>0 DEF Shape, KeyIsShared, RecordOutcome
<1>7. \A r \in Requests : verdicts[r] # <<>> => verdicts'[r] # <<>>
  BY DEF TableTypes, RecordOutcome
<1>8. UNCHANGED create
  BY DEF RecordOutcome
<1>9. LocalTypes' /\ (\A y \in Requests : RestsAt(y)') /\ Placed'
  BY <1>a, <1>7, <1>8, MovesTypes, MovesPlaced DEF Shape
<1>. QED  BY <1>1, <1>2, <1>3, <1>6, <1>a, <1>9, CellTypesNext DEF Shape

LEMMA EndRunShape ==
  ASSUME Shape, NEW x \in Requests, EndRun(x)
  PROVE  Shape' /\ Moves(x)
<1>. TableTypes /\ LocalTypes /\ (\A y \in Requests : RestsAt(y)) /\ CountTypes
  BY CellTypes DEF Shape
<1>. RestsAt(x) /\ PlacedAt(x)
  BY DEF Shape, Placed
<1>0. stage[x] = "ending" /\ x \in cells
  BY DEF EndRun
<1>1. Creation'
  BY CreationKept DEF Shape, EndRun
<1>2. TableTypes'
  BY ZenonT(40) DEF TableTypes, Content, Statuses, EndRun
<1>3. CountTypes'
  BY DEF CountTypes, EndRun
<1>a. ASSUME To(x, "sealing") /\ UNCHANGED <<row, events, outcomes, locals, fixed, create>>
     PROVE  Moves(x) /\ RestsAt(x)' /\ PlacedAt(x)'
  <2>1. /\ stage'[x] = "sealing" /\ held'[x] = held[x] /\ seal'[x] = seal[x]
        /\ ledger'[x] = ledger[x] /\ view'[x] = view[x]
        /\ obs'[x] = obs[x]
    BY <1>a, <1>0 DEF LocalTypes
  <2>2. Moves(x)
    BY <1>a, <1>0, <2>1 DEF Moves, LocalTypes, Stages
  <2>3. UNCHANGED create
    BY <1>a, <1>0
  <2>4. RestsAt(x)' /\ PlacedAt(x)'
    BY <1>a, <1>0, <2>1, <2>2, <2>3 DEF RestsAt, PlacedAt, Over, Holding, Early
  <2>. QED  BY <2>2, <2>4
<1>4. Moves(x) /\ RestsAt(x)' /\ PlacedAt(x)'
  BY <1>a DEF EndRun
<1>6. KeyIsShared'
  BY <1>0 DEF Shape, KeyIsShared, EndRun
<1>7. \A r \in Requests : verdicts[r] # <<>> => verdicts'[r] # <<>>
  BY DEF TableTypes, EndRun
<1>8. UNCHANGED create
  BY DEF EndRun
<1>9. LocalTypes' /\ (\A y \in Requests : RestsAt(y)') /\ Placed'
  BY <1>4, <1>7, <1>8, MovesTypes, MovesPlaced DEF Shape
<1>. QED  BY <1>1, <1>2, <1>3, <1>6, <1>4, <1>9, CellTypesNext DEF Shape

LEMMA FailRunShape ==
  ASSUME Shape, NEW x \in Requests, FailRun(x)
  PROVE  Shape' /\ Moves(x)
<1>. TableTypes /\ LocalTypes /\ (\A y \in Requests : RestsAt(y)) /\ CountTypes
  BY CellTypes DEF Shape
<1>. RestsAt(x) /\ PlacedAt(x)
  BY DEF Shape, Placed
<1>0. stage[x] = "driving" /\ x \in cells
  BY DEF FailRun
<1>1. Creation'
  BY CreationKept DEF Shape, FailRun
<1>2. TableTypes'
  BY ZenonT(40) DEF TableTypes, Content, Statuses, FailRun
<1>3. CountTypes'
  BY DEF CountTypes, FailRun
<1>a. ASSUME To(x, "sealing") /\ UNCHANGED <<row, events, outcomes, locals, fixed, create>>
     PROVE  Moves(x) /\ RestsAt(x)' /\ PlacedAt(x)'
  <2>1. /\ stage'[x] = "sealing" /\ held'[x] = held[x] /\ seal'[x] = seal[x]
        /\ ledger'[x] = ledger[x] /\ view'[x] = view[x]
        /\ obs'[x] = obs[x]
    BY <1>a, <1>0 DEF LocalTypes
  <2>2. Moves(x)
    BY <1>a, <1>0, <2>1 DEF Moves, LocalTypes, Stages
  <2>3. UNCHANGED create
    BY <1>a, <1>0
  <2>4. RestsAt(x)' /\ PlacedAt(x)'
    BY <1>a, <1>0, <2>1, <2>2, <2>3 DEF RestsAt, PlacedAt, Over, Holding, Early
  <2>. QED  BY <2>2, <2>4
<1>4. Moves(x) /\ RestsAt(x)' /\ PlacedAt(x)'
  BY <1>a DEF FailRun
<1>6. KeyIsShared'
  BY <1>0 DEF Shape, KeyIsShared, FailRun
<1>7. \A r \in Requests : verdicts[r] # <<>> => verdicts'[r] # <<>>
  BY DEF TableTypes, FailRun
<1>8. UNCHANGED create
  BY DEF FailRun
<1>9. LocalTypes' /\ (\A y \in Requests : RestsAt(y)') /\ Placed'
  BY <1>4, <1>7, <1>8, MovesTypes, MovesPlaced DEF Shape
<1>. QED  BY <1>1, <1>2, <1>3, <1>6, <1>4, <1>9, CellTypesNext DEF Shape

LEMMA ReadSealShape ==
  ASSUME Shape, NEW x \in Requests, ReadSeal(x)
  PROVE  Shape' /\ Moves(x)
<1>. TableTypes /\ LocalTypes /\ (\A y \in Requests : RestsAt(y)) /\ CountTypes
  BY CellTypes DEF Shape
<1>. RestsAt(x) /\ PlacedAt(x)
  BY DEF Shape, Placed
<1>0. stage[x] = "sealing" /\ x \in cells
  BY DEF ReadSeal
<1>f. /\ answer[x] \in Requests
      /\ models[answer[x]] # <<>> => Final(models[answer[x]]) \in ModelEvent
      /\ verdicts[answer[x]] # <<>> => Final(verdicts[answer[x]]) \in OutcomeEvent
  <2>1. answer[x] \in Requests
    BY <1>0 DEF PlacedAt, Over
  <2>2. models[answer[x]] \in Seq(ModelEvent) /\ verdicts[answer[x]] \in Seq(OutcomeEvent)
    BY <2>1 DEF TableTypes
  <2>3. models[answer[x]] # <<>> => Final(models[answer[x]]) \in ModelEvent
    BY <2>2, FinalIn
  <2>4. verdicts[answer[x]] # <<>> => Final(verdicts[answer[x]]) \in OutcomeEvent
    BY <2>2, FinalIn
  <2>. QED  BY <2>1, <2>3, <2>4
<1>1. Creation'
  BY CreationKept DEF Shape, ReadSeal
<1>2. TableTypes'
  BY DEF TableTypes, ReadSeal
<1>3. CountTypes'
  BY DEF CountTypes, ReadSeal
<1>a. ASSUME Pass(x, "measuring")
     PROVE  Moves(x) /\ RestsAt(x)' /\ PlacedAt(x)'
  <2>1. /\ stage'[x] = "measuring" /\ held'[x] = held[x] /\ seal'[x] = seal[x]
        /\ ledger'[x] = ledger[x] /\ view'[x] = view[x]
        /\ obs'[x] = obs[x]
    BY <1>a, <1>0 DEF LocalTypes
  <2>2. Moves(x)
    BY <1>a, <1>f, <1>0, <2>1 DEF Moves, LocalTypes, Stages
  <2>3. UNCHANGED create
    BY <1>a, <1>0
  <2>4. RestsAt(x)' /\ PlacedAt(x)'
    BY <1>a, <1>f, <1>0, <2>1, <2>2, <2>3 DEF RestsAt, PlacedAt, Over, Holding, Early
  <2>. QED  BY <2>2, <2>4
<1>b. ASSUME /\ models[answer[x]] # <<>>
           /\ held' = [held EXCEPT ![x] = content]
           /\ seal' = [seal EXCEPT ![x] = Sealed(x, Final(models[answer[x]]))]
           /\ To(x, "binding accounting")
           /\ UNCHANGED <<tables, ledger, view, obs, fixed, create>>
     PROVE  Moves(x) /\ RestsAt(x)' /\ PlacedAt(x)'
  <2>1. /\ stage'[x] = "binding accounting" /\ held'[x] = content /\ seal'[x] = Sealed(x, Final(models[answer[x]]))
        /\ ledger'[x] = ledger[x] /\ view'[x] = view[x]
        /\ obs'[x] = obs[x]
    BY <1>b, <1>0 DEF LocalTypes
  <2>2. Moves(x) /\ seal'[x] \in Accounting
    BY <1>b, <1>f, <1>0, <2>1 DEF Moves, LocalTypes, TableTypes, Stages, Sealed, Accounting, ModelEvent
  <2>3. UNCHANGED create
    BY <1>b, <1>0
  <2>4. RestsAt(x)' /\ PlacedAt(x)'
    BY <1>b, <1>f, <1>0, <2>1, <2>2, <2>3, ZenonT(40) DEF TableTypes, RestsAt, PlacedAt, Over, Holding, Early
  <2>. QED  BY <2>2, <2>4
<1>4. Moves(x) /\ RestsAt(x)' /\ PlacedAt(x)'
  BY <1>a, <1>b DEF ReadSeal
<1>6. KeyIsShared'
  BY <1>0 DEF Shape, KeyIsShared, ReadSeal
<1>7. \A r \in Requests : verdicts[r] # <<>> => verdicts'[r] # <<>>
  BY DEF TableTypes, ReadSeal
<1>8. UNCHANGED create
  BY DEF ReadSeal
<1>9. LocalTypes' /\ (\A y \in Requests : RestsAt(y)') /\ Placed'
  BY <1>4, <1>7, <1>8, MovesTypes, MovesPlaced DEF Shape
<1>. QED  BY <1>1, <1>2, <1>3, <1>6, <1>4, <1>9, CellTypesNext DEF Shape

LEMMA WriteSealShape ==
  ASSUME Shape, NEW x \in Requests, WriteSeal(x)
  PROVE  Shape' /\ Moves(x)
<1>. TableTypes /\ LocalTypes /\ (\A y \in Requests : RestsAt(y)) /\ CountTypes
  BY CellTypes DEF Shape
<1>. RestsAt(x) /\ PlacedAt(x)
  BY DEF Shape, Placed
<1>0. stage[x] = "binding accounting" /\ x \in cells
  BY DEF WriteSeal
<1>1. Creation'
  BY CreationWrites DEF Shape, PlacedAt, WriteSeal, Over
<1>2. TableTypes'
  BY DEF TableTypes, LocalTypes, Content, PlacedAt, Holding, WriteSeal
<1>3. CountTypes'
  BY DEF CountTypes, WriteSeal
<1>a. Moves(x) /\ RestsAt(x)' /\ PlacedAt(x)'
  <2>1. /\ stage'[x] = "measuring" /\ held'[x] = None /\ seal'[x] = seal[x]
        /\ ledger'[x] = ledger[x] /\ view'[x] = view[x]
        /\ obs'[x] = obs[x]
    BY <1>0 DEF LocalTypes, WriteSeal
  <2>2. Moves(x)
    BY <1>0, <2>1 DEF Moves, LocalTypes, Stages, WriteSeal
  <2>3. UNCHANGED create
    BY <1>0 DEF WriteSeal
  <2>4. RestsAt(x)' /\ PlacedAt(x)'
    BY <1>0, <2>1, <2>2, <2>3 DEF RestsAt, PlacedAt, Over, Holding, Early
  <2>. QED  BY <2>2, <2>4
<1>6. KeyIsShared'
  BY <1>0 DEF Shape, KeyIsShared, WriteSeal
<1>7. \A r \in Requests : verdicts[r] # <<>> => verdicts'[r] # <<>>
  BY DEF TableTypes, WriteSeal
<1>8. UNCHANGED create
  BY DEF WriteSeal
<1>9. LocalTypes' /\ (\A y \in Requests : RestsAt(y)') /\ Placed'
  BY <1>a, <1>7, <1>8, MovesTypes, MovesPlaced DEF Shape
<1>. QED  BY <1>1, <1>2, <1>3, <1>6, <1>a, <1>9, CellTypesNext DEF Shape

LEMMA ReadEvidenceShape ==
  ASSUME Shape, NEW x \in Requests, ReadEvidence(x)
  PROVE  Shape' /\ Moves(x)
<1>. TableTypes /\ LocalTypes /\ (\A y \in Requests : RestsAt(y)) /\ CountTypes
  BY CellTypes DEF Shape
<1>. RestsAt(x) /\ PlacedAt(x)
  BY DEF Shape, Placed
<1>0. stage[x] = "measuring" /\ x \in cells
  BY DEF ReadEvidence
<1>f. /\ answer[x] \in Requests
      /\ models[answer[x]] # <<>> => Final(models[answer[x]]) \in ModelEvent
      /\ verdicts[answer[x]] # <<>> => Final(verdicts[answer[x]]) \in OutcomeEvent
  <2>1. answer[x] \in Requests
    BY <1>0 DEF PlacedAt, Over
  <2>2. models[answer[x]] \in Seq(ModelEvent) /\ verdicts[answer[x]] \in Seq(OutcomeEvent)
    BY <2>1 DEF TableTypes
  <2>3. models[answer[x]] # <<>> => Final(models[answer[x]]) \in ModelEvent
    BY <2>2, FinalIn
  <2>4. verdicts[answer[x]] # <<>> => Final(verdicts[answer[x]]) \in OutcomeEvent
    BY <2>2, FinalIn
  <2>. QED  BY <2>1, <2>3, <2>4
<1>1. Creation'
  BY CreationKept DEF Shape, ReadEvidence
<1>2. TableTypes'
  BY DEF TableTypes, ReadEvidence
<1>3. CountTypes'
  BY DEF CountTypes, ReadEvidence
<1>a. ASSUME Raise(x)
     PROVE  Moves(x) /\ RestsAt(x)' /\ PlacedAt(x)'
  <2>1. /\ stage'[x] = "failed" /\ held'[x] = None /\ seal'[x] = None
        /\ ledger'[x] = {} /\ view'[x] = None
        /\ obs'[x] = obs[x]
    BY <1>a, <1>0 DEF LocalTypes
  <2>2. Moves(x)
    BY <1>a, <1>f, <1>0, <2>1 DEF Moves, LocalTypes, Over, Stages
  <2>3. UNCHANGED create
    BY <1>a, <1>0
  <2>4. RestsAt(x)' /\ PlacedAt(x)'
    BY <1>a, <1>f, <1>0, <2>1, <2>2, <2>3 DEF RestsAt, PlacedAt, Over, Holding
  <2>. QED  BY <2>2, <2>4
<1>b. ASSUME /\ models[answer[x]] # <<>> /\ verdicts[answer[x]] # <<>>
           /\ view' = [view EXCEPT ![x] = [model |-> Final(models[answer[x]]),
                                          outcome |-> Final(verdicts[answer[x]])]]
           /\ To(x, "accounting")
           /\ UNCHANGED <<tables, held, seal, ledger, obs, fixed, create>>
     PROVE  Moves(x) /\ RestsAt(x)' /\ PlacedAt(x)'
  <2>1. /\ stage'[x] = "accounting" /\ held'[x] = held[x] /\ seal'[x] = seal[x]
        /\ ledger'[x] = ledger[x] /\ view'[x] = [model |-> Final(models[answer[x]]),
                    outcome |-> Final(verdicts[answer[x]])]
        /\ obs'[x] = obs[x]
    BY <1>b, <1>0 DEF LocalTypes
  <2>2. Moves(x) /\ view'[x] \in View
    BY <1>b, <1>f, <1>0, <2>1 DEF Moves, LocalTypes, Stages, View
  <2>3. UNCHANGED create
    BY <1>b, <1>0
  <2>4. RestsAt(x)' /\ PlacedAt(x)'
    BY <1>b, <1>f, <1>0, <2>1, <2>2, <2>3 DEF RestsAt, PlacedAt, Over, Holding, Early
  <2>. QED  BY <2>2, <2>4
<1>4. Moves(x) /\ RestsAt(x)' /\ PlacedAt(x)'
  BY <1>a, <1>b DEF ReadEvidence
<1>6. KeyIsShared'
  BY <1>0 DEF Shape, KeyIsShared, ReadEvidence
<1>7. \A r \in Requests : verdicts[r] # <<>> => verdicts'[r] # <<>>
  BY DEF TableTypes, ReadEvidence
<1>8. UNCHANGED create
  BY DEF ReadEvidence
<1>9. LocalTypes' /\ (\A y \in Requests : RestsAt(y)') /\ Placed'
  BY <1>4, <1>7, <1>8, MovesTypes, MovesPlaced DEF Shape
<1>. QED  BY <1>1, <1>2, <1>3, <1>6, <1>4, <1>9, CellTypesNext DEF Shape

LEMMA ChooseAccountingShape ==
  ASSUME Shape, NEW x \in Requests, ChooseAccounting(x)
  PROVE  Shape' /\ Moves(x)
<1>. TableTypes /\ LocalTypes /\ (\A y \in Requests : RestsAt(y)) /\ CountTypes
  BY CellTypes DEF Shape
<1>. RestsAt(x) /\ PlacedAt(x)
  BY DEF Shape, Placed
<1>0. stage[x] = "accounting" /\ x \in cells
  BY DEF ChooseAccounting
<1>1. Creation'
  BY CreationKept DEF Shape, ChooseAccounting
<1>2. TableTypes'
  BY DEF TableTypes, ChooseAccounting
<1>3. CountTypes'
  BY DEF CountTypes, ChooseAccounting
<1>a. ASSUME /\ content.final # None
           /\ seal' = [seal EXCEPT ![x] = content.final] /\ To(x, "observing")
           /\ UNCHANGED <<tables, held, ledger, view, obs, fixed, create>>
     PROVE  Moves(x) /\ RestsAt(x)' /\ PlacedAt(x)'
  <2>1. /\ stage'[x] = "observing" /\ held'[x] = held[x] /\ seal'[x] = content.final
        /\ ledger'[x] = ledger[x] /\ view'[x] = view[x]
        /\ obs'[x] = obs[x]
    BY <1>a, <1>0 DEF LocalTypes
  <2>2. Moves(x)
    BY <1>a, <1>0, <2>1 DEF Moves, LocalTypes, TableTypes, Stages, Content
  <2>3. UNCHANGED create
    BY <1>a, <1>0
  <2>4. RestsAt(x)' /\ PlacedAt(x)'
    BY <1>a, <1>0, <2>1, <2>2, <2>3 DEF RestsAt, PlacedAt, Over, Holding, Early
  <2>. QED  BY <2>2, <2>4
<1>b. ASSUME /\ seal' = [seal EXCEPT ![x] = Sealed(x, view[x].model)] /\ To(x, "publishing")
           /\ UNCHANGED <<tables, held, ledger, view, obs, fixed, create>>
     PROVE  Moves(x) /\ RestsAt(x)' /\ PlacedAt(x)'
  <2>1. /\ stage'[x] = "publishing" /\ held'[x] = held[x] /\ seal'[x] = Sealed(x, view[x].model)
        /\ ledger'[x] = ledger[x] /\ view'[x] = view[x]
        /\ obs'[x] = obs[x]
    BY <1>b, <1>0 DEF LocalTypes
  <2>2. Moves(x) /\ seal'[x] \in Accounting
    BY <1>b, <1>0, <2>1 DEF Moves, LocalTypes, PlacedAt, Stages, Sealed, Accounting, ModelEvent, View
  <2>3. UNCHANGED create
    BY <1>b, <1>0
  <2>4. RestsAt(x)' /\ PlacedAt(x)'
    BY <1>b, <1>0, <2>1, <2>2, <2>3 DEF RestsAt, PlacedAt, Over, Holding, Early
  <2>. QED  BY <2>2, <2>4
<1>4. Moves(x) /\ RestsAt(x)' /\ PlacedAt(x)'
  BY <1>a, <1>b DEF ChooseAccounting
<1>6. KeyIsShared'
  BY <1>0 DEF Shape, KeyIsShared, ChooseAccounting
<1>7. \A r \in Requests : verdicts[r] # <<>> => verdicts'[r] # <<>>
  BY DEF TableTypes, ChooseAccounting
<1>8. UNCHANGED create
  BY DEF ChooseAccounting
<1>9. LocalTypes' /\ (\A y \in Requests : RestsAt(y)') /\ Placed'
  BY <1>4, <1>7, <1>8, MovesTypes, MovesPlaced DEF Shape
<1>. QED  BY <1>1, <1>2, <1>3, <1>6, <1>4, <1>9, CellTypesNext DEF Shape

LEMMA ReadPublishShape ==
  ASSUME Shape, NEW x \in Requests, ReadPublish(x)
  PROVE  Shape' /\ Moves(x)
<1>. TableTypes /\ LocalTypes /\ (\A y \in Requests : RestsAt(y)) /\ CountTypes
  BY CellTypes DEF Shape
<1>. RestsAt(x) /\ PlacedAt(x)
  BY DEF Shape, Placed
<1>0. stage[x] = "publishing" /\ x \in cells
  BY DEF ReadPublish
<1>1. Creation'
  BY CreationKept DEF Shape, ReadPublish
<1>2. TableTypes'
  BY DEF TableTypes, ReadPublish
<1>3. CountTypes'
  BY DEF CountTypes, ReadPublish
<1>a. ASSUME Hold(x, "binding once")
     PROVE  Moves(x) /\ RestsAt(x)' /\ PlacedAt(x)'
  <2>1. /\ stage'[x] = "binding once" /\ held'[x] = content /\ seal'[x] = seal[x]
        /\ ledger'[x] = ledger[x] /\ view'[x] = view[x]
        /\ obs'[x] = obs[x]
    BY <1>a, <1>0 DEF LocalTypes
  <2>2. Moves(x)
    BY <1>a, <1>0, <2>1 DEF Moves, LocalTypes, TableTypes, Stages
  <2>3. UNCHANGED create
    BY <1>a, <1>0
  <2>4. RestsAt(x)' /\ PlacedAt(x)'
    BY <1>a, <1>0, <2>1, <2>2, <2>3 DEF TableTypes, RestsAt, PlacedAt, Over, Holding, Early
  <2>. QED  BY <2>2, <2>4
<1>b. ASSUME Pass(x, "observing")
     PROVE  Moves(x) /\ RestsAt(x)' /\ PlacedAt(x)'
  <2>1. /\ stage'[x] = "observing" /\ held'[x] = held[x] /\ seal'[x] = seal[x]
        /\ ledger'[x] = ledger[x] /\ view'[x] = view[x]
        /\ obs'[x] = obs[x]
    BY <1>b, <1>0 DEF LocalTypes
  <2>2. Moves(x)
    BY <1>b, <1>0, <2>1 DEF Moves, LocalTypes, Stages
  <2>3. UNCHANGED create
    BY <1>b, <1>0
  <2>4. RestsAt(x)' /\ PlacedAt(x)'
    BY <1>b, <1>0, <2>1, <2>2, <2>3 DEF RestsAt, PlacedAt, Over, Holding, Early
  <2>. QED  BY <2>2, <2>4
<1>4. Moves(x) /\ RestsAt(x)' /\ PlacedAt(x)'
  BY <1>a, <1>b DEF ReadPublish
<1>6. KeyIsShared'
  BY <1>0 DEF Shape, KeyIsShared, ReadPublish
<1>7. \A r \in Requests : verdicts[r] # <<>> => verdicts'[r] # <<>>
  BY DEF TableTypes, ReadPublish
<1>8. UNCHANGED create
  BY DEF ReadPublish
<1>9. LocalTypes' /\ (\A y \in Requests : RestsAt(y)') /\ Placed'
  BY <1>4, <1>7, <1>8, MovesTypes, MovesPlaced DEF Shape
<1>. QED  BY <1>1, <1>2, <1>3, <1>6, <1>4, <1>9, CellTypesNext DEF Shape

LEMMA WritePublishShape ==
  ASSUME Shape, NEW x \in Requests, WritePublish(x)
  PROVE  Shape' /\ Moves(x)
<1>. TableTypes /\ LocalTypes /\ (\A y \in Requests : RestsAt(y)) /\ CountTypes
  BY CellTypes DEF Shape
<1>. RestsAt(x) /\ PlacedAt(x)
  BY DEF Shape, Placed
<1>0. stage[x] = "binding once" /\ x \in cells
  BY DEF WritePublish
<1>1. Creation'
  BY CreationWrites DEF Shape, PlacedAt, WritePublish, Over
<1>2. TableTypes'
  BY DEF TableTypes, LocalTypes, Content, PlacedAt, Holding, WritePublish
<1>3. CountTypes'
  BY DEF CountTypes, WritePublish
<1>a. Moves(x) /\ RestsAt(x)' /\ PlacedAt(x)'
  <2>1. /\ stage'[x] = "observing" /\ held'[x] = None /\ seal'[x] = seal[x]
        /\ ledger'[x] = ledger[x] /\ view'[x] = view[x]
        /\ obs'[x] = obs[x]
    BY <1>0 DEF LocalTypes, WritePublish
  <2>2. Moves(x)
    BY <1>0, <2>1 DEF Moves, LocalTypes, Stages, WritePublish
  <2>3. UNCHANGED create
    BY <1>0 DEF WritePublish
  <2>4. RestsAt(x)' /\ PlacedAt(x)'
    BY <1>0, <2>1, <2>2, <2>3 DEF RestsAt, PlacedAt, Over, Holding, Early
  <2>. QED  BY <2>2, <2>4
<1>6. KeyIsShared'
  BY <1>0 DEF Shape, KeyIsShared, WritePublish
<1>7. \A r \in Requests : verdicts[r] # <<>> => verdicts'[r] # <<>>
  BY DEF TableTypes, WritePublish
<1>8. UNCHANGED create
  BY DEF WritePublish
<1>9. LocalTypes' /\ (\A y \in Requests : RestsAt(y)') /\ Placed'
  BY <1>a, <1>7, <1>8, MovesTypes, MovesPlaced DEF Shape
<1>. QED  BY <1>1, <1>2, <1>3, <1>6, <1>a, <1>9, CellTypesNext DEF Shape

LEMMA ObserveShape ==
  ASSUME Shape, NEW x \in Requests, Observe(x)
  PROVE  Shape' /\ Moves(x)
<1>. TableTypes /\ LocalTypes /\ (\A y \in Requests : RestsAt(y)) /\ CountTypes
  BY CellTypes DEF Shape
<1>. RestsAt(x) /\ PlacedAt(x)
  BY DEF Shape, Placed
<1>0. stage[x] = "observing" /\ x \in cells
  BY DEF Observe
<1>1. Creation'
  BY CreationKept DEF Shape, Observe
<1>2. TableTypes'
  BY DEF TableTypes, Observe
<1>3. CountTypes'
  BY DEF CountTypes, Observe
<1>a. ASSUME /\ To(x, "accepted") /\ obs' = [obs EXCEPT ![x] = Measured(x)] /\ Forget(x)
           /\ UNCHANGED <<tables, cells, crashes, overlapped, create>>
     PROVE  Moves(x) /\ RestsAt(x)' /\ PlacedAt(x)'
  <2>1. /\ stage'[x] = "accepted" /\ held'[x] = None /\ seal'[x] = None
        /\ ledger'[x] = {} /\ view'[x] = None
        /\ obs'[x] = Measured(x)
    BY <1>a, <1>0 DEF LocalTypes
  <2>2. Moves(x) /\ obs'[x] \in Observation
    BY <1>a, <1>0, <2>1 DEF Moves, LocalTypes, PlacedAt, Over, Stages, Measured, Observation, View
  <2>3. UNCHANGED create
    BY <1>a, <1>0
  <2>4. RestsAt(x)' /\ PlacedAt(x)'
    BY <1>a, <1>0, <2>1, <2>2, <2>3 DEF RestsAt, PlacedAt, Holding
  <2>. QED  BY <2>2, <2>4
<1>b. ASSUME /\ To(x, "failed") /\ Forget(x)
           /\ UNCHANGED <<tables, obs, cells, crashes, overlapped, create>>
     PROVE  Moves(x) /\ RestsAt(x)' /\ PlacedAt(x)'
  <2>1. /\ stage'[x] = "failed" /\ held'[x] = None /\ seal'[x] = None
        /\ ledger'[x] = {} /\ view'[x] = None
        /\ obs'[x] = obs[x]
    BY <1>b, <1>0 DEF LocalTypes
  <2>2. Moves(x)
    BY <1>b, <1>0, <2>1 DEF Moves, LocalTypes, Over, Stages
  <2>3. UNCHANGED create
    BY <1>b, <1>0
  <2>4. RestsAt(x)' /\ PlacedAt(x)'
    BY <1>b, <1>0, <2>1, <2>2, <2>3 DEF RestsAt, PlacedAt, Holding
  <2>. QED  BY <2>2, <2>4
<1>4. Moves(x) /\ RestsAt(x)' /\ PlacedAt(x)'
  BY <1>a, <1>b DEF Observe
<1>6. KeyIsShared'
  BY <1>0 DEF Shape, KeyIsShared, Observe
<1>7. \A r \in Requests : verdicts[r] # <<>> => verdicts'[r] # <<>>
  BY DEF TableTypes, Observe
<1>8. UNCHANGED create
  BY DEF Observe
<1>9. LocalTypes' /\ (\A y \in Requests : RestsAt(y)') /\ Placed'
  BY <1>4, <1>7, <1>8, MovesTypes, MovesPlaced DEF Shape
<1>. QED  BY <1>1, <1>2, <1>3, <1>6, <1>4, <1>9, CellTypesNext DEF Shape

LEMMA CrashShape ==
  ASSUME Shape, NEW x \in Requests, Crash(x)
  PROVE  Shape' /\ Moves(x)
<1>. TableTypes /\ LocalTypes /\ (\A y \in Requests : RestsAt(y)) /\ CountTypes
  BY CellTypes DEF Shape
<1>. RestsAt(x) /\ PlacedAt(x)
  BY DEF Shape, Placed
<1>0. stage[x] \notin Over /\ x \in cells
  BY DEF Crash, Active
<1>1. Creation'
  BY CreationKept DEF Shape, Crash
<1>2. TableTypes'
  BY DEF TableTypes, Crash
<1>3. CountTypes'
  BY DEF CountTypes, Crash
<1>a. ASSUME To(x, "dead") /\ Forget(x) /\ UNCHANGED <<tables, obs, create>>
     PROVE  Moves(x) /\ RestsAt(x)' /\ PlacedAt(x)'
  <2>1. /\ stage'[x] = "dead" /\ held'[x] = None /\ seal'[x] = None
        /\ ledger'[x] = {} /\ view'[x] = None
        /\ obs'[x] = obs[x]
    BY <1>a, <1>0 DEF LocalTypes
  <2>2. Moves(x)
    BY <1>a, <1>0, <2>1 DEF Moves, LocalTypes, Over, Stages
  <2>3. UNCHANGED create
    BY <1>a, <1>0
  <2>4. RestsAt(x)' /\ PlacedAt(x)'
    BY <1>a, <1>0, <2>1, <2>2, <2>3 DEF RestsAt, PlacedAt, Over, Holding
  <2>. QED  BY <2>2, <2>4
<1>4. Moves(x) /\ RestsAt(x)' /\ PlacedAt(x)'
  BY <1>a DEF Crash
<1>6. KeyIsShared'
  BY <1>0 DEF Shape, KeyIsShared, Crash
<1>7. \A r \in Requests : verdicts[r] # <<>> => verdicts'[r] # <<>>
  BY DEF TableTypes, Crash
<1>8. UNCHANGED create
  BY DEF Crash
<1>9. LocalTypes' /\ (\A y \in Requests : RestsAt(y)') /\ Placed'
  BY <1>4, <1>7, <1>8, MovesTypes, MovesPlaced DEF Shape
<1>. QED  BY <1>1, <1>2, <1>3, <1>6, <1>4, <1>9, CellTypesNext DEF Shape

LEMMA RecheckShape ==
  ASSUME Shape, NEW x \in Requests, At(x, "creating"), Recheck(x),
         content' = IF row' # row THEN Fresh ELSE content,
         UNCHANGED <<events, outcomes, stage, locals, fixed>>
  PROVE  Shape'
<1>. TableTypes /\ LocalTypes /\ (\A y \in Requests : RestsAt(y)) /\ CountTypes
  BY CellTypes DEF Shape
<1>1. Creation'
  BY RecheckCreates DEF Shape
<1>2. TableTypes'
  BY DEF TableTypes, Fresh, Content, Statuses
<1>3. CountTypes' /\ LocalTypes' /\ \A y \in Requests : RestsAt(y)'
  BY DEF CountTypes, LocalTypes, RestsAt
<1>4. /\ \A y \in Requests : y # x => pc'[y] = pc[y] /\ answer'[y] = answer[y]
      /\ pc'[x] # "idle" /\ answer'[x] # "conflict"
  BY DEF Recheck, Shape, KeyIsShared, Creation, TypeOK, Row
<1>5. ASSUME NEW y \in Requests PROVE PlacedAt(y)'
  <2>1. CASE y = x
    BY <1>4, <2>1 DEF Shape, Placed, PlacedAt, Over
  <2>2. CASE y # x
    BY <1>4, <2>2 DEF Shape, Placed, PlacedAt
  <2>. QED  BY <2>1, <2>2
<1>6. KeyIsShared'
  BY <1>4 DEF Shape, KeyIsShared
<1>. QED  BY <1>1, <1>2, <1>3, <1>5, <1>6, CellTypesNext DEF Shape, Placed

LEMMA SaveShape ==
  ASSUME Shape, NEW x \in Requests, At(x, "creating"), Save(x),
         content' = IF row' # row THEN Fresh ELSE content,
         UNCHANGED <<events, outcomes, stage, locals, fixed>>
  PROVE  Shape'
<1>. TableTypes /\ LocalTypes /\ (\A y \in Requests : RestsAt(y)) /\ CountTypes
  BY CellTypes DEF Shape
<1>1. Creation'
  BY SaveCreates DEF Shape
<1>2. TableTypes'
  BY DEF TableTypes, Fresh, Content, Statuses
<1>3. CountTypes' /\ LocalTypes' /\ \A y \in Requests : RestsAt(y)'
  BY DEF CountTypes, LocalTypes, RestsAt
<1>4. /\ \A y \in Requests : y # x => pc'[y] = pc[y] /\ answer'[y] = answer[y]
      /\ pc'[x] # "idle" /\ answer'[x] # "conflict"
  BY DEF Save, Shape, KeyIsShared
<1>5. ASSUME NEW y \in Requests PROVE PlacedAt(y)'
  <2>1. CASE y = x
    BY <1>4, <2>1 DEF Shape, Placed, PlacedAt, Over
  <2>2. CASE y # x
    BY <1>4, <2>2 DEF Shape, Placed, PlacedAt
  <2>. QED  BY <2>1, <2>2
<1>6. KeyIsShared'
  BY <1>4 DEF Shape, KeyIsShared
<1>. QED  BY <1>1, <1>2, <1>3, <1>5, <1>6, CellTypesNext DEF Shape, Placed

LEMMA AppendShape ==
  ASSUME Shape, NEW x \in Requests, At(x, "creating"), AppendCreated(x),
         content' = IF row' # row THEN Fresh ELSE content,
         UNCHANGED <<events, outcomes, stage, locals, fixed>>
  PROVE  Shape'
<1>. TableTypes /\ LocalTypes /\ (\A y \in Requests : RestsAt(y)) /\ CountTypes
  BY CellTypes DEF Shape
<1>1. Creation'
  BY AppendCreates DEF Shape
<1>2. TableTypes'
  BY DEF TableTypes, Fresh, Content, Statuses
<1>3. CountTypes' /\ LocalTypes' /\ \A y \in Requests : RestsAt(y)'
  BY DEF CountTypes, LocalTypes, RestsAt
<1>4. /\ \A y \in Requests : y # x => pc'[y] = pc[y] /\ answer'[y] = answer[y]
      /\ pc'[x] # "idle" /\ answer'[x] # "conflict"
  BY DEF AppendCreated, Shape, KeyIsShared
<1>5. ASSUME NEW y \in Requests PROVE PlacedAt(y)'
  <2>1. CASE y = x
    BY <1>4, <2>1 DEF Shape, Placed, PlacedAt, Over
  <2>2. CASE y # x
    BY <1>4, <2>2 DEF Shape, Placed, PlacedAt
  <2>. QED  BY <2>1, <2>2
<1>6. KeyIsShared'
  BY <1>4 DEF Shape, KeyIsShared
<1>. QED  BY <1>1, <1>2, <1>3, <1>5, <1>6, CellTypesNext DEF Shape, Placed

LEMMA CreateCases ==
  ASSUME NEW x, Create(x)
  PROVE  /\ At(x, "creating") /\ content' = IF row' # row THEN Fresh ELSE content
         /\ UNCHANGED <<events, outcomes, stage, locals, fixed>>
         /\ Recheck(x) \/ Save(x) \/ AppendCreated(x)
BY DEF Create

LEMMA CreateShape == ASSUME Shape, NEW x \in Requests, Create(x) PROVE Shape'
BY CreateCases, RecheckShape, SaveShape, AppendShape

LEMMA EnterShape ==
  ASSUME Shape, NEW x \in Requests, NEW p \in Payloads, Enter(x, p) PROVE Shape'
<1>. TableTypes /\ LocalTypes /\ (\A y \in Requests : RestsAt(y)) /\ CountTypes
  BY CellTypes DEF Shape
<1>. PlacedAt(x) /\ RestsAt(x)
  BY DEF Shape, Placed
<1>0. stage[x] = "idle" /\ x \in cells
  BY DEF Enter
<1>1. Creation'
  BY EnterCreates DEF Shape, Enter
<1>2. TableTypes'
  BY DEF TableTypes, Enter
<1>3. CountTypes'
  BY DEF CountTypes, Enter
<1>4. /\ stage'[x] = "creating" /\ pc'[x] = "checked"
      /\ UNCHANGED <<held, seal, ledger, view, obs, verdicts, answer>>
      /\ \A y \in Requests : y # x => pc'[y] = pc[y] /\ answer'[y] = answer[y]
  BY DEF Enter, LocalTypes, Shape, Creation, TypeOK
<1>5. Moves(x)
  BY <1>4 DEF Enter, Moves, LocalTypes, Stages
<1>6. RestsAt(x)' /\ PlacedAt(x)'
  BY <1>0, <1>4 DEF RestsAt, PlacedAt, Over, Holding
<1>7. KeyIsShared'
  BY <1>0, <1>4 DEF Shape, KeyIsShared, Enter
<1>8. LocalTypes' /\ (\A y \in Requests : RestsAt(y)') /\ Placed'
  BY <1>4, <1>5, <1>6, MovesTypes, MovesPlaced DEF Shape
<1>. QED  BY <1>1, <1>2, <1>3, <1>7, <1>8, CellTypesNext DEF Shape

(* A request of a client leaves the executors, of which there are none.    *)
LEMMA ApiCreates ==
  ASSUME Creation, Next PROVE Creation'
<1>1. PICK r \in Requests :
        (\E p \in Payloads : Arrive(r, p)) \/ Recheck(r) \/ Save(r) \/ AppendCreated(r)
  BY DEF Next
<1>. QED  BY <1>1, ArriveCreates, RecheckCreates, SaveCreates, AppendCreates

LEMMA ApiShape == ASSUME Shape, Api PROVE Shape'
<1>1. /\ UNCHANGED cellVars /\ cells = {} /\ Next
      /\ \A x \in Requests : stage[x] = "idle" /\ models[x] = <<>>
  BY DEF Api, Shape, KeyIsShared
<1>2. Creation'
  BY <1>1, ApiCreates DEF Shape
<1>3. CellTypeOK' /\ KeyIsShared'
  BY <1>1 DEF Shape, CellTypeOK, KeyIsShared, cellVars
<1>4. Placed'
  BY <1>1 DEF Shape, Placed, PlacedAt, Over, cellVars
<1>. QED  BY <1>2, <1>3, <1>4 DEF Shape

LEMMA StutterShape == ASSUME Shape, UNCHANGED allVars PROVE Shape'
<1>1. UNCHANGED vars /\ UNCHANGED cellVars
  BY DEF allVars
<1>2. Creation'
  BY <1>1, CreationKept DEF Shape, vars
<1>3. CellTypeOK' /\ KeyIsShared'
  BY <1>1 DEF Shape, CellTypeOK, KeyIsShared, cellVars, vars
<1>4. Placed'
  BY <1>1 DEF Shape, Placed, PlacedAt, cellVars, vars
<1>. QED  BY <1>2, <1>3, <1>4 DEF Shape

LEMMA InitShape == CellInit => Shape
<1>1. CellInit => Creation
  BY DEF CellInit, Init, Creation, TypeOK, RunsAreMade, LateAnswersAreCompared
<1>2. ASSUME CellInit PROVE CellTypeOK
  <2>1. <<>> \in Seq(ModelEvent) /\ <<>> \in Seq(OutcomeEvent)
    OBVIOUS
  <2>2. TableTypes
    BY <1>2, <2>1 DEF CellInit, TableTypes, Fresh, Content, Statuses
  <2>3. LocalTypes
    BY <1>2 DEF CellInit, LocalTypes, Stages, Over
  <2>4. CountTypes
    <3>1. crashes = 0 /\ overlapped = FALSE /\ settled = {}
      BY <1>2 DEF CellInit
    <3>2. crashes \in 0..MaxCrashes
      BY <3>1
    <3>. QED  BY <3>1, <3>2 DEF CountTypes
  <2>5. \A x \in Requests : RestsAt(x)
    BY <1>2 DEF CellInit, RestsAt, Over
  <2>. QED  BY <2>2, <2>3, <2>4, <2>5, CellTypes
<1>3. CellInit => KeyIsShared /\ Placed
  BY DEF CellInit, Init, KeyIsShared, Placed, PlacedAt, Over, Holding
<1>. QED  BY <1>1, <1>2, <1>3 DEF Shape

(***************************************************************************)
(* What the executors believe.                                             *)
(***************************************************************************)

(* A step of an active executor that leaves to the others what they        *)
(* believe in.                                                             *)
Faithful(x) ==
  /\ settled # {} =>
       UNCHANGED <<row, content, models>> /\ stage'[x] \in Harmless \cup {"failed", "dead"}
  /\ Quiet =>
       /\ UNCHANGED <<row, models>>
       /\ content.status # "queued" => content'.status # "queued"
       /\ stage'[x] \notin Over => KeepsKey(x)' /\ ReadsLast(x)' /\ PaysAlone(x)'

LEMMA ActiveKept ==
  ASSUME CellTypeOK, NEW x \in Active, Moves(x), UNCHANGED cells
  PROVE  /\ x \in Requests /\ Active' \subseteq Active
         /\ \A y \in Active' : y # x =>
              /\ y \in Active /\ y \in Requests /\ stage'[y] = stage[y] /\ held'[y] = held[y]
              /\ view'[y] = view[y] /\ ledger'[y] = ledger[y]
         /\ x \in Active' <=> stage'[x] \notin Over
<1>1. cells \subseteq Requests /\ LocalTypes
  BY CellTypes DEF TableTypes
<1>2. x \in Requests /\ x \in cells
  BY <1>1 DEF Active
<1>3. \A y \in Requests : y # x =>
        /\ stage'[y] = stage[y] /\ held'[y] = held[y]
        /\ view'[y] = view[y] /\ ledger'[y] = ledger[y]
  BY <1>1, <1>2, MovesOne
<1>. QED  BY <1>1, <1>2, <1>3 DEF Active

LEMMA AloneKept ==
  ASSUME Alone, Active' \subseteq Active, UNCHANGED overlapped PROVE Alone'
BY DEF Alone

LEMMA BelievedKept ==
  ASSUME CellTypeOK, Alone, Believed, NEW x \in Active, Moves(x), UNCHANGED <<cells, overlapped>>,
         \A y \in Requests : y # x => pc'[y] = pc[y] /\ answer'[y] = answer[y],
         overlapped => settled' = settled,
         settled # {} => UNCHANGED <<row, content, models>>,
         Quiet /\ stage'[x] \notin Over => KeepsKey(x)' /\ ReadsLast(x)' /\ PaysAlone(x)'
  PROVE  Believed'
<1>1. ASSUME NEW y \in Active', Quiet' PROVE KeepsKey(y)' /\ ReadsLast(y)' /\ PaysAlone(y)'
  <2>1. Quiet /\ (~overlapped \/ settled # {})
    BY <1>1 DEF Quiet
  <2>2. CASE y = x
    BY <2>1, <2>2, ActiveKept
  <2>3. CASE y # x
    <3>1. /\ y \in Active /\ y \in Requests /\ stage'[y] = stage[y] /\ held'[y] = held[y]
          /\ view'[y] = view[y] /\ ledger'[y] = ledger[y]
      BY <2>3, ActiveKept
    <3>2. settled # {}
      BY <2>1, <2>3, <3>1 DEF Alone
    <3>3. /\ row' = row /\ content' = content /\ models' = models
          /\ pc'[y] = pc[y] /\ answer'[y] = answer[y]
      BY <2>3, <3>1, <3>2
    <3>4. KeepsKey(y) /\ ReadsLast(y) /\ PaysAlone(y)
      BY <2>1, <3>1 DEF Believed
    <3>5. KeepsKey(y)'
      BY <3>1, <3>3, <3>4 DEF KeepsKey
    <3>6. ReadsLast(y)'
      BY <3>1, <3>3, <3>4 DEF ReadsLast
    <3>7. PaysAlone(y)'
      BY <3>1, <3>3, <3>4 DEF PaysAlone, Paid
    <3>. QED  BY <3>5, <3>6, <3>7
  <2>. QED  BY <2>2, <2>3
<1>. QED  BY <1>1 DEF Believed

LEMMA ChargesKept ==
  ASSUME Charges, Quiet' => Quiet,
         Quiet => /\ UNCHANGED <<row, models>>
                  /\ content.status # "queued" => content'.status # "queued"
  PROVE  Charges'
BY DEF Charges, CellIsPaidOnce, Paid, Quiet

LEMMA SettledKept ==
  ASSUME CellTypeOK, Settled, NEW x \in Active, Moves(x), UNCHANGED <<cells, settled, create>>,
         settled # {} =>
           UNCHANGED <<row, content, models>> /\ stage'[x] \in Harmless \cup Over,
         stage'[x] # "creating"
  PROVE  Settled'
<1>1. ASSUME settled # {}, NEW y \in Active'
      PROVE  stage'[y] \in Harmless /\ (stage'[y] = "creating" => pc'[y] \in {"checked", "done"})
  <2>1. CASE y = x
    BY <1>1, <2>1, ActiveKept DEF Over
  <2>2. CASE y # x
    BY <1>1, <2>2, ActiveKept DEF Settled
  <2>. QED  BY <2>1, <2>2
<1>2. ASSUME NEW y \in settled
      PROVE  y # x /\ y \in Requests /\ stage'[y] = stage[y] /\ obs'[y] = obs[y]
  <2>1. y \in Requests /\ LocalTypes /\ x \in Requests
    BY <1>2, ActiveKept, CellTypes DEF TableTypes, CountTypes
  <2>2. y # x
    BY <1>2 DEF Settled, Active, Over
  <2>. QED  BY <2>1, <2>2, MovesOne
<1>. QED  BY <1>1, <1>2 DEF Settled, Paid

LEMMA FaithfulStep ==
  ASSUME IInv, NEW x \in Active, Moves(x), Faithful(x), stage'[x] # "creating",
         UNCHANGED <<cells, overlapped, settled, create>>
  PROVE  Alone' /\ Believed' /\ Charges' /\ Settled'
<1>. CellTypeOK /\ Alone /\ Believed /\ Charges /\ Settled
  BY DEF IInv, Shape
<1>1. Alone'
  BY ActiveKept, AloneKept
<1>2. Believed'
  BY BelievedKept DEF Faithful
<1>3. Charges'
  BY ChargesKept DEF Faithful, Quiet
<1>4. Settled'
  BY SettledKept DEF Faithful, Over
<1>. QED  BY <1>1, <1>2, <1>3, <1>4

(* Nothing of what is written back is new but what the step is for.        *)
LEMMA WritesNoRow ==
  ASSUME Creation, NEW x \in Requests, answer[x] \in Requests, Exists(x)
  PROVE  [run |-> answer[x], payload |-> payload[answer[x]]] = row
BY DEF Creation, TypeOK, RunsAreMade, Row

LEMMA FromActive ==
  ASSUME IInv, NEW x \in cells, stage[x] \notin Over
  PROVE  /\ x \in Active /\ x \in Requests /\ TableTypes /\ LocalTypes /\ PlacedAt(x)
         /\ stage[x] # "creating" => answer[x] \in Requests
         /\ Quiet => KeepsKey(x) /\ ReadsLast(x) /\ PaysAlone(x)
         /\ settled # {} => /\ stage[x] \in Harmless /\ content.status # "queued"
                            /\ content.identity /\ content.final # None /\ row # None
<1>1. x \in Active /\ TableTypes /\ LocalTypes
  BY CellTypes DEF Active, IInv, Shape
<1>2. x \in Requests
  BY <1>1 DEF TableTypes
<1>3. PlacedAt(x)
  BY <1>2 DEF IInv, Shape, Placed
<1>4. Quiet => KeepsKey(x) /\ ReadsLast(x) /\ PaysAlone(x)
  BY <1>1 DEF IInv, Believed
<1>5. settled # {} => /\ stage[x] \in Harmless /\ content.status # "queued"
                      /\ content.identity /\ content.final # None /\ row # None
  BY <1>1 DEF IInv, Settled
<1>. QED  BY <1>1, <1>2, <1>3, <1>4, <1>5 DEF PlacedAt

LEMMA ReadIdentityStep ==
  ASSUME IInv, NEW x \in Requests, ReadIdentity(x) PROVE IInv'
<1>1. Shape' /\ Moves(x)
  BY ReadIdentityShape DEF IInv
<1>2. stage[x] = "creating" /\ x \in cells /\ stage[x] \notin Over
  BY DEF ReadIdentity, Over
<1>3. /\ x \in Active /\ x \in Requests /\ TableTypes /\ LocalTypes /\ PlacedAt(x)
      /\ stage[x] # "creating" => answer[x] \in Requests
      /\ Quiet => KeepsKey(x) /\ ReadsLast(x) /\ PaysAlone(x)
      /\ settled # {} => /\ stage[x] \in Harmless /\ content.status # "queued"
                         /\ content.identity /\ content.final # None /\ row # None
  BY <1>2, FromActive
<1>a. ASSUME Raise(x)
     PROVE  Faithful(x) /\ stage'[x] # "creating"
  <2>1. stage'[x] = "failed"
    BY <1>a, <1>3 DEF LocalTypes
  <2>2. UNCHANGED <<row, content, models>>
    BY <1>a, <1>3
  <2>. QED  BY <2>1, <2>2 DEF Faithful, Over
<1>b. ASSUME Exists(x) /\ Hold(x, "identifying")
     PROVE  Faithful(x) /\ stage'[x] # "creating"
  <2>1. stage'[x] = "identifying"
    BY <1>b, <1>3 DEF LocalTypes
  <2>3. settled # {} => UNCHANGED <<row, content, models>> /\ stage'[x] \in Harmless
    BY <1>b, <1>2, <1>3, <2>1 DEF Harmless, Quiet, KeepsKey
  <2>4. Quiet => /\ UNCHANGED <<row, models>>
                 /\ content.status # "queued" => content'.status # "queued"
    BY <1>b, <1>2, <1>3 DEF TableTypes, Content
  <2>5. Quiet => KeepsKey(x)'
    BY <1>b, <1>2, <1>3, <2>1, <2>4 DEF KeepsKey
  <2>6. Quiet => ReadsLast(x)'
    BY <1>b, <1>2, <1>3, <2>1, <2>4 DEF ReadsLast, Claimed, LocalTypes
  <2>7. Quiet => PaysAlone(x)'
    BY <1>b, <1>2, <1>3, <2>1, <2>4 DEF PaysAlone
  <2>. QED  BY <2>1, <2>3, <2>4, <2>5, <2>6, <2>7 DEF Faithful
<1>c. ASSUME pc[x] = "done" /\ ~Exists(x) /\ Pass(x, "launching")
     PROVE  Faithful(x) /\ stage'[x] # "creating"
  <2>1. stage'[x] = "launching"
    BY <1>c, <1>3 DEF LocalTypes
  <2>3. settled # {} => UNCHANGED <<row, content, models>> /\ stage'[x] \in Harmless
    BY <1>c, <1>2, <1>3, <2>1 DEF Harmless, Quiet, KeepsKey
  <2>4. Quiet => /\ UNCHANGED <<row, models>>
                 /\ content.status # "queued" => content'.status # "queued"
    BY <1>c, <1>2, <1>3 DEF TableTypes, Content
  <2>5. Quiet => KeepsKey(x)'
    BY <1>c, <1>2, <1>3, <2>1, <2>4 DEF KeepsKey
  <2>6. Quiet => ReadsLast(x)'
    BY <1>c, <1>2, <1>3, <2>1, <2>4 DEF ReadsLast, Holding, Claimed
  <2>7. Quiet => PaysAlone(x)'
    BY <1>c, <1>2, <1>3, <2>1, <2>4 DEF PaysAlone
  <2>. QED  BY <2>1, <2>3, <2>4, <2>5, <2>6, <2>7 DEF Faithful
<1>4. Faithful(x) /\ stage'[x] # "creating"
  BY <1>a, <1>b, <1>c, <1>2 DEF ReadIdentity
<1>5. UNCHANGED <<cells, overlapped, settled, create>>
  BY DEF ReadIdentity
<1>. QED  BY <1>1, <1>3, <1>4, <1>5, FaithfulStep DEF IInv

LEMMA WriteIdentityStep ==
  ASSUME IInv, NEW x \in Requests, WriteIdentity(x) PROVE IInv'
<1>1. Shape' /\ Moves(x)
  BY WriteIdentityShape DEF IInv
<1>2. stage[x] = "identifying" /\ x \in cells /\ stage[x] \notin Over
  BY DEF WriteIdentity, Over
<1>3. /\ x \in Active /\ x \in Requests /\ TableTypes /\ LocalTypes /\ PlacedAt(x)
      /\ stage[x] # "creating" => answer[x] \in Requests
      /\ Quiet => KeepsKey(x) /\ ReadsLast(x) /\ PaysAlone(x)
      /\ settled # {} => /\ stage[x] \in Harmless /\ content.status # "queued"
                         /\ content.identity /\ content.final # None /\ row # None
  BY <1>2, FromActive
<1>a. Faithful(x) /\ stage'[x] # "creating"
  <2>1. stage'[x] = "launching"
    BY <1>3 DEF LocalTypes, WriteIdentity
  <2>2. settled # {} \/ Quiet => row' = row
    BY <1>2, <1>3, WritesNoRow DEF IInv, Shape, WriteIdentity, KeepsKey, Quiet
  <2>3. settled # {} => UNCHANGED <<row, content, models>> /\ stage'[x] \in Harmless
    BY <1>2, <1>3, <2>1, <2>2 DEF WriteIdentity, ReadsLast, Holding, Harmless, TableTypes, Content, Quiet
  <2>4. Quiet => /\ UNCHANGED <<row, models>>
                 /\ content.status # "queued" => content'.status # "queued"
    BY <1>2, <1>3, <2>2 DEF WriteIdentity, ReadsLast, Holding
  <2>5. Quiet => KeepsKey(x)'
    BY <1>2, <1>3, <2>1, <2>4 DEF KeepsKey, WriteIdentity
  <2>6. Quiet => ReadsLast(x)'
    BY <1>2, <1>3, <2>1, <2>4 DEF ReadsLast, Holding, Claimed, WriteIdentity
  <2>7. Quiet => PaysAlone(x)'
    BY <1>2, <1>3, <2>1, <2>4 DEF PaysAlone
  <2>. QED  BY <2>1, <2>3, <2>4, <2>5, <2>6, <2>7 DEF Faithful
<1>5. UNCHANGED <<cells, overlapped, settled, create>>
  BY DEF WriteIdentity
<1>. QED  BY <1>1, <1>3, <1>a, <1>5, FaithfulStep DEF IInv

LEMMA ClaimStep ==
  ASSUME IInv, NEW x \in Requests, Claim(x) PROVE IInv'
<1>1. Shape' /\ Moves(x)
  BY ClaimShape DEF IInv
<1>2. stage[x] = "launching" /\ x \in cells /\ stage[x] \notin Over
  BY DEF Claim, Over
<1>3. /\ x \in Active /\ x \in Requests /\ TableTypes /\ LocalTypes /\ PlacedAt(x)
      /\ stage[x] # "creating" => answer[x] \in Requests
      /\ Quiet => KeepsKey(x) /\ ReadsLast(x) /\ PaysAlone(x)
      /\ settled # {} => /\ stage[x] \in Harmless /\ content.status # "queued"
                         /\ content.identity /\ content.final # None /\ row # None
  BY <1>2, FromActive
<1>a. ASSUME Raise(x)
     PROVE  Faithful(x) /\ stage'[x] # "creating"
  <2>1. stage'[x] = "failed"
    BY <1>a, <1>3 DEF LocalTypes
  <2>2. UNCHANGED <<row, content, models>>
    BY <1>a, <1>3
  <2>. QED  BY <2>1, <2>2 DEF Faithful, Over
<1>b. ASSUME Exists(x) /\ content.status # "queued" /\ Pass(x, "measuring")
     PROVE  Faithful(x) /\ stage'[x] # "creating"
  <2>1. stage'[x] = "measuring"
    BY <1>b, <1>3 DEF LocalTypes
  <2>3. settled # {} => UNCHANGED <<row, content, models>> /\ stage'[x] \in Harmless
    BY <1>b, <1>2, <1>3, <2>1 DEF Harmless, Quiet, KeepsKey
  <2>4. Quiet => /\ UNCHANGED <<row, models>>
                 /\ content.status # "queued" => content'.status # "queued"
    BY <1>b, <1>2, <1>3 DEF TableTypes, Content
  <2>5. Quiet => KeepsKey(x)'
    BY <1>b, <1>2, <1>3, <2>1, <2>4 DEF KeepsKey
  <2>6. Quiet => ReadsLast(x)'
    BY <1>b, <1>2, <1>3, <2>1, <2>4 DEF ReadsLast, Holding
  <2>7. Quiet => PaysAlone(x)'
    BY <1>b, <1>2, <1>3, <2>1, <2>4 DEF PaysAlone
  <2>. QED  BY <2>1, <2>3, <2>4, <2>5, <2>6, <2>7 DEF Faithful
<1>c. ASSUME /\ Exists(x) /\ content.status = "queued"
            /\ content' = [content EXCEPT !.status = "running"]
            /\ To(x, "claimed")
            /\ UNCHANGED <<row, events, outcomes, locals, fixed, create>>
     PROVE  Faithful(x) /\ stage'[x] # "creating"
  <2>1. stage'[x] = "claimed"
    BY <1>c, <1>3 DEF LocalTypes
  <2>3. settled # {} => UNCHANGED <<row, content, models>> /\ stage'[x] \in Harmless
    BY <1>c, <1>2, <1>3, <2>1 DEF Harmless, Quiet, KeepsKey
  <2>4. Quiet => /\ UNCHANGED <<row, models>>
                 /\ content.status # "queued" => content'.status # "queued"
    BY <1>c, <1>2, <1>3 DEF TableTypes, Content
  <2>5. Quiet => KeepsKey(x)'
    BY <1>c, <1>2, <1>3, <2>1, <2>4 DEF KeepsKey
  <2>6. Quiet => ReadsLast(x)'
    BY <1>c, <1>2, <1>3, <2>1, <2>4 DEF ReadsLast, Holding, TableTypes, Content
  <2>7. Quiet => PaysAlone(x)'
    BY <1>c, <1>2, <1>3, <2>1, <2>4 DEF PaysAlone, Charges, IInv
  <2>. QED  BY <2>1, <2>3, <2>4, <2>5, <2>6, <2>7 DEF Faithful
<1>4. Faithful(x) /\ stage'[x] # "creating"
  BY <1>a, <1>b, <1>c DEF Claim
<1>5. UNCHANGED <<cells, overlapped, settled, create>>
  BY DEF Claim
<1>. QED  BY <1>1, <1>3, <1>4, <1>5, FaithfulStep DEF IInv

LEMMA ReadLaunchStep ==
  ASSUME IInv, NEW x \in Requests, ReadLaunch(x) PROVE IInv'
<1>1. Shape' /\ Moves(x)
  BY ReadLaunchShape DEF IInv
<1>2. stage[x] = "claimed" /\ x \in cells /\ stage[x] \notin Over
  BY DEF ReadLaunch, Over
<1>3. /\ x \in Active /\ x \in Requests /\ TableTypes /\ LocalTypes /\ PlacedAt(x)
      /\ stage[x] # "creating" => answer[x] \in Requests
      /\ Quiet => KeepsKey(x) /\ ReadsLast(x) /\ PaysAlone(x)
      /\ settled # {} => /\ stage[x] \in Harmless /\ content.status # "queued"
                         /\ content.identity /\ content.final # None /\ row # None
  BY <1>2, FromActive
<1>a. ASSUME Exists(x) /\ Hold(x, "binding")
     PROVE  Faithful(x) /\ stage'[x] # "creating"
  <2>1. stage'[x] = "binding"
    BY <1>a, <1>3 DEF LocalTypes
  <2>3. settled # {} => UNCHANGED <<row, content, models>> /\ stage'[x] \in Harmless
    BY <1>a, <1>2, <1>3, <2>1 DEF Harmless, Quiet, KeepsKey
  <2>4. Quiet => /\ UNCHANGED <<row, models>>
                 /\ content.status # "queued" => content'.status # "queued"
    BY <1>a, <1>2, <1>3 DEF TableTypes, Content
  <2>5. Quiet => KeepsKey(x)'
    BY <1>a, <1>2, <1>3, <2>1, <2>4 DEF KeepsKey
  <2>6. Quiet => ReadsLast(x)'
    BY <1>a, <1>2, <1>3, <2>1, <2>4 DEF ReadsLast, Claimed, LocalTypes
  <2>7. Quiet => PaysAlone(x)'
    BY <1>a, <1>2, <1>3, <2>1, <2>4 DEF PaysAlone
  <2>. QED  BY <2>1, <2>3, <2>4, <2>5, <2>6, <2>7 DEF Faithful
<1>b. ASSUME Raise(x)
     PROVE  Faithful(x) /\ stage'[x] # "creating"
  <2>1. stage'[x] = "failed"
    BY <1>b, <1>3 DEF LocalTypes
  <2>2. UNCHANGED <<row, content, models>>
    BY <1>b, <1>3
  <2>. QED  BY <2>1, <2>2 DEF Faithful, Over
<1>4. Faithful(x) /\ stage'[x] # "creating"
  BY <1>a, <1>b DEF ReadLaunch
<1>5. UNCHANGED <<cells, overlapped, settled, create>>
  BY DEF ReadLaunch
<1>. QED  BY <1>1, <1>3, <1>4, <1>5, FaithfulStep DEF IInv

LEMMA BindLaunchStep ==
  ASSUME IInv, NEW x \in Requests, BindLaunch(x) PROVE IInv'
<1>1. Shape' /\ Moves(x)
  BY BindLaunchShape DEF IInv
<1>2. stage[x] = "binding" /\ x \in cells /\ stage[x] \notin Over
  BY DEF BindLaunch, Over
<1>3. /\ x \in Active /\ x \in Requests /\ TableTypes /\ LocalTypes /\ PlacedAt(x)
      /\ stage[x] # "creating" => answer[x] \in Requests
      /\ Quiet => KeepsKey(x) /\ ReadsLast(x) /\ PaysAlone(x)
      /\ settled # {} => /\ stage[x] \in Harmless /\ content.status # "queued"
                         /\ content.identity /\ content.final # None /\ row # None
  BY <1>2, FromActive
<1>a. Faithful(x) /\ stage'[x] # "creating"
  <2>1. stage'[x] = "driving"
    BY <1>3 DEF LocalTypes, BindLaunch
  <2>2. settled # {} \/ Quiet => row' = row
    BY <1>2, <1>3, WritesNoRow DEF IInv, Shape, BindLaunch, KeepsKey, Quiet
  <2>3. settled # {} => UNCHANGED <<row, content, models>> /\ stage'[x] \in Harmless
    BY <1>2, <1>3, <2>1, <2>2 DEF Harmless
  <2>4. Quiet => /\ UNCHANGED <<row, models>>
                 /\ content.status # "queued" => content'.status # "queued"
    BY <1>2, <1>3, <2>2 DEF BindLaunch, ReadsLast, Holding
  <2>5. Quiet => KeepsKey(x)'
    BY <1>2, <1>3, <2>1, <2>4 DEF KeepsKey, BindLaunch
  <2>6. Quiet => ReadsLast(x)'
    BY <1>2, <1>3, <2>1, <2>4 DEF ReadsLast, Holding, Claimed, BindLaunch
  <2>7. Quiet => PaysAlone(x)'
    BY <1>2, <1>3, <2>1, <2>4 DEF PaysAlone, PlacedAt, BindLaunch
  <2>. QED  BY <2>1, <2>3, <2>4, <2>5, <2>6, <2>7 DEF Faithful
<1>5. UNCHANGED <<cells, overlapped, settled, create>>
  BY DEF BindLaunch
<1>. QED  BY <1>1, <1>3, <1>a, <1>5, FaithfulStep DEF IInv

LEMMA EvaluateStep ==
  ASSUME IInv, NEW x \in Requests, NEW v \in BOOLEAN, Evaluate(x, v) PROVE IInv'
<1>1. Shape' /\ Moves(x)
  BY EvaluateShape DEF IInv
<1>2. stage[x] = "driving" /\ x \in cells /\ stage[x] \notin Over
  BY DEF Evaluate, Over
<1>3. /\ x \in Active /\ x \in Requests /\ TableTypes /\ LocalTypes /\ PlacedAt(x)
      /\ stage[x] # "creating" => answer[x] \in Requests
      /\ Quiet => KeepsKey(x) /\ ReadsLast(x) /\ PaysAlone(x)
      /\ settled # {} => /\ stage[x] \in Harmless /\ content.status # "queued"
                         /\ content.identity /\ content.final # None /\ row # None
  BY <1>2, FromActive
<1>a. Faithful(x) /\ stage'[x] # "creating"
  <2>1. stage'[x] = "recording"
    BY <1>3 DEF LocalTypes, Evaluate
  <2>3. settled # {} => UNCHANGED <<row, content, models>> /\ stage'[x] \in Harmless
    BY <1>2, <1>3, <2>1 DEF Harmless, Quiet, KeepsKey, Evaluate
  <2>4. Quiet => /\ UNCHANGED <<row, models>>
                 /\ content.status # "queued" => content'.status # "queued"
    BY <1>2, <1>3 DEF TableTypes, Content, Evaluate
  <2>5. Quiet => KeepsKey(x)'
    BY <1>2, <1>3, <2>1, <2>4 DEF KeepsKey, Evaluate
  <2>6. Quiet => ReadsLast(x)'
    BY <1>2, <1>3, <2>1, <2>4 DEF ReadsLast, Holding, Claimed, Evaluate
  <2>7. Quiet => PaysAlone(x)'
    BY <1>2, <1>3, <2>1, <2>4 DEF PaysAlone
  <2>. QED  BY <2>1, <2>3, <2>4, <2>5, <2>6, <2>7 DEF Faithful
<1>5. UNCHANGED <<cells, overlapped, settled, create>>
  BY DEF Evaluate
<1>. QED  BY <1>1, <1>3, <1>a, <1>5, FaithfulStep DEF IInv

LEMMA RecordOutcomeStep ==
  ASSUME IInv, NEW x \in Requests, RecordOutcome(x) PROVE IInv'
<1>1. Shape' /\ Moves(x)
  BY RecordOutcomeShape DEF IInv
<1>2. stage[x] = "recording" /\ x \in cells /\ stage[x] \notin Over
  BY DEF RecordOutcome, Over
<1>3. /\ x \in Active /\ x \in Requests /\ TableTypes /\ LocalTypes /\ PlacedAt(x)
      /\ stage[x] # "creating" => answer[x] \in Requests
      /\ Quiet => KeepsKey(x) /\ ReadsLast(x) /\ PaysAlone(x)
      /\ settled # {} => /\ stage[x] \in Harmless /\ content.status # "queued"
                         /\ content.identity /\ content.final # None /\ row # None
  BY <1>2, FromActive
<1>a. Faithful(x) /\ stage'[x] # "creating"
  <2>1. stage'[x] = "ending"
    BY <1>3 DEF LocalTypes, RecordOutcome
  <2>3. settled # {} => UNCHANGED <<row, content, models>> /\ stage'[x] \in Harmless
    BY <1>2, <1>3, <2>1 DEF Harmless, Quiet, KeepsKey, RecordOutcome
  <2>4. Quiet => /\ UNCHANGED <<row, models>>
                 /\ content.status # "queued" => content'.status # "queued"
    BY <1>2, <1>3 DEF TableTypes, Content, RecordOutcome
  <2>5. Quiet => KeepsKey(x)'
    BY <1>2, <1>3, <2>1, <2>4 DEF KeepsKey, RecordOutcome
  <2>6. Quiet => ReadsLast(x)'
    BY <1>2, <1>3, <2>1, <2>4 DEF ReadsLast, Holding, Claimed, RecordOutcome
  <2>7. Quiet => PaysAlone(x)'
    BY <1>2, <1>3, <2>1, <2>4 DEF PaysAlone
  <2>. QED  BY <2>1, <2>3, <2>4, <2>5, <2>6, <2>7 DEF Faithful
<1>5. UNCHANGED <<cells, overlapped, settled, create>>
  BY DEF RecordOutcome
<1>. QED  BY <1>1, <1>3, <1>a, <1>5, FaithfulStep DEF IInv

LEMMA EndRunStep ==
  ASSUME IInv, NEW x \in Requests, EndRun(x) PROVE IInv'
<1>1. Shape' /\ Moves(x)
  BY EndRunShape DEF IInv
<1>2. stage[x] = "ending" /\ x \in cells /\ stage[x] \notin Over
  BY DEF EndRun, Over
<1>3. /\ x \in Active /\ x \in Requests /\ TableTypes /\ LocalTypes /\ PlacedAt(x)
      /\ stage[x] # "creating" => answer[x] \in Requests
      /\ Quiet => KeepsKey(x) /\ ReadsLast(x) /\ PaysAlone(x)
      /\ settled # {} => /\ stage[x] \in Harmless /\ content.status # "queued"
                         /\ content.identity /\ content.final # None /\ row # None
  BY <1>2, FromActive
<1>a. Faithful(x) /\ stage'[x] # "creating"
  <2>1. stage'[x] = "sealing"
    BY <1>3 DEF LocalTypes, EndRun
  <2>3. settled # {} => UNCHANGED <<row, content, models>> /\ stage'[x] \in Harmless
    BY <1>2, <1>3, <2>1 DEF Harmless, Quiet, KeepsKey, EndRun
  <2>4. Quiet => /\ UNCHANGED <<row, models>>
                 /\ content.status # "queued" => content'.status # "queued"
    BY <1>2, <1>3 DEF TableTypes, Content, EndRun
  <2>5. Quiet => KeepsKey(x)'
    BY <1>2, <1>3, <2>1, <2>4 DEF KeepsKey, EndRun
  <2>6. Quiet => ReadsLast(x)'
    BY <1>2, <1>3, <2>1, <2>4 DEF ReadsLast, Holding, Claimed, EndRun
  <2>7. Quiet => PaysAlone(x)'
    BY <1>2, <1>3, <2>1, <2>4 DEF PaysAlone
  <2>. QED  BY <2>1, <2>3, <2>4, <2>5, <2>6, <2>7 DEF Faithful
<1>5. UNCHANGED <<cells, overlapped, settled, create>>
  BY DEF EndRun
<1>. QED  BY <1>1, <1>3, <1>a, <1>5, FaithfulStep DEF IInv

LEMMA FailRunStep ==
  ASSUME IInv, NEW x \in Requests, FailRun(x) PROVE IInv'
<1>1. Shape' /\ Moves(x)
  BY FailRunShape DEF IInv
<1>2. stage[x] = "driving" /\ x \in cells /\ stage[x] \notin Over
  BY DEF FailRun, Over
<1>3. /\ x \in Active /\ x \in Requests /\ TableTypes /\ LocalTypes /\ PlacedAt(x)
      /\ stage[x] # "creating" => answer[x] \in Requests
      /\ Quiet => KeepsKey(x) /\ ReadsLast(x) /\ PaysAlone(x)
      /\ settled # {} => /\ stage[x] \in Harmless /\ content.status # "queued"
                         /\ content.identity /\ content.final # None /\ row # None
  BY <1>2, FromActive
<1>a. Faithful(x) /\ stage'[x] # "creating"
  <2>1. stage'[x] = "sealing"
    BY <1>3 DEF LocalTypes, FailRun
  <2>3. settled # {} => UNCHANGED <<row, content, models>> /\ stage'[x] \in Harmless
    BY <1>2, <1>3, <2>1 DEF Harmless, Quiet, KeepsKey, FailRun
  <2>4. Quiet => /\ UNCHANGED <<row, models>>
                 /\ content.status # "queued" => content'.status # "queued"
    BY <1>2, <1>3 DEF TableTypes, Content, FailRun
  <2>5. Quiet => KeepsKey(x)'
    BY <1>2, <1>3, <2>1, <2>4 DEF KeepsKey, FailRun
  <2>6. Quiet => ReadsLast(x)'
    BY <1>2, <1>3, <2>1, <2>4 DEF ReadsLast, Holding, Claimed, FailRun
  <2>7. Quiet => PaysAlone(x)'
    BY <1>2, <1>3, <2>1, <2>4 DEF PaysAlone
  <2>. QED  BY <2>1, <2>3, <2>4, <2>5, <2>6, <2>7 DEF Faithful
<1>5. UNCHANGED <<cells, overlapped, settled, create>>
  BY DEF FailRun
<1>. QED  BY <1>1, <1>3, <1>a, <1>5, FaithfulStep DEF IInv

LEMMA ReadSealStep ==
  ASSUME IInv, NEW x \in Requests, ReadSeal(x) PROVE IInv'
<1>1. Shape' /\ Moves(x)
  BY ReadSealShape DEF IInv
<1>2. stage[x] = "sealing" /\ x \in cells /\ stage[x] \notin Over
  BY DEF ReadSeal, Over
<1>3. /\ x \in Active /\ x \in Requests /\ TableTypes /\ LocalTypes /\ PlacedAt(x)
      /\ stage[x] # "creating" => answer[x] \in Requests
      /\ Quiet => KeepsKey(x) /\ ReadsLast(x) /\ PaysAlone(x)
      /\ settled # {} => /\ stage[x] \in Harmless /\ content.status # "queued"
                         /\ content.identity /\ content.final # None /\ row # None
  BY <1>2, FromActive
<1>a. ASSUME Pass(x, "measuring")
     PROVE  Faithful(x) /\ stage'[x] # "creating"
  <2>1. stage'[x] = "measuring"
    BY <1>a, <1>3 DEF LocalTypes
  <2>3. settled # {} => UNCHANGED <<row, content, models>> /\ stage'[x] \in Harmless
    BY <1>a, <1>2, <1>3, <2>1 DEF Harmless, Quiet, KeepsKey
  <2>4. Quiet => /\ UNCHANGED <<row, models>>
                 /\ content.status # "queued" => content'.status # "queued"
    BY <1>a, <1>2, <1>3 DEF TableTypes, Content
  <2>5. Quiet => KeepsKey(x)'
    BY <1>a, <1>2, <1>3, <2>1, <2>4 DEF KeepsKey
  <2>6. Quiet => ReadsLast(x)'
    BY <1>a, <1>2, <1>3, <2>1, <2>4 DEF ReadsLast, Holding, Claimed
  <2>7. Quiet => PaysAlone(x)'
    BY <1>a, <1>2, <1>3, <2>1, <2>4 DEF PaysAlone
  <2>. QED  BY <2>1, <2>3, <2>4, <2>5, <2>6, <2>7 DEF Faithful
<1>b. ASSUME /\ held' = [held EXCEPT ![x] = content]
            /\ To(x, "binding accounting")
            /\ UNCHANGED <<tables, ledger, view, obs, fixed, create>>
     PROVE  Faithful(x) /\ stage'[x] # "creating"
  <2>1. stage'[x] = "binding accounting"
    BY <1>b, <1>3 DEF LocalTypes
  <2>3. settled # {} => UNCHANGED <<row, content, models>> /\ stage'[x] \in Harmless
    BY <1>b, <1>2, <1>3, <2>1 DEF Harmless, Quiet, KeepsKey
  <2>4. Quiet => /\ UNCHANGED <<row, models>>
                 /\ content.status # "queued" => content'.status # "queued"
    BY <1>b, <1>2, <1>3 DEF TableTypes, Content
  <2>5. Quiet => KeepsKey(x)'
    BY <1>b, <1>2, <1>3, <2>1, <2>4 DEF KeepsKey
  <2>6. Quiet => ReadsLast(x)'
    BY <1>b, <1>2, <1>3, <2>1, <2>4 DEF ReadsLast, Claimed, LocalTypes
  <2>7. Quiet => PaysAlone(x)'
    BY <1>b, <1>2, <1>3, <2>1, <2>4 DEF PaysAlone
  <2>. QED  BY <2>1, <2>3, <2>4, <2>5, <2>6, <2>7 DEF Faithful
<1>4. Faithful(x) /\ stage'[x] # "creating"
  BY <1>a, <1>b DEF ReadSeal
<1>5. UNCHANGED <<cells, overlapped, settled, create>>
  BY DEF ReadSeal
<1>. QED  BY <1>1, <1>3, <1>4, <1>5, FaithfulStep DEF IInv

LEMMA WriteSealStep ==
  ASSUME IInv, NEW x \in Requests, WriteSeal(x) PROVE IInv'
<1>1. Shape' /\ Moves(x)
  BY WriteSealShape DEF IInv
<1>2. stage[x] = "binding accounting" /\ x \in cells /\ stage[x] \notin Over
  BY DEF WriteSeal, Over
<1>3. /\ x \in Active /\ x \in Requests /\ TableTypes /\ LocalTypes /\ PlacedAt(x)
      /\ stage[x] # "creating" => answer[x] \in Requests
      /\ Quiet => KeepsKey(x) /\ ReadsLast(x) /\ PaysAlone(x)
      /\ settled # {} => /\ stage[x] \in Harmless /\ content.status # "queued"
                         /\ content.identity /\ content.final # None /\ row # None
  BY <1>2, FromActive
<1>a. Faithful(x) /\ stage'[x] # "creating"
  <2>1. stage'[x] = "measuring"
    BY <1>3 DEF LocalTypes, WriteSeal
  <2>2. settled # {} \/ Quiet => row' = row
    BY <1>2, <1>3, WritesNoRow DEF IInv, Shape, WriteSeal, KeepsKey, Quiet
  <2>3. settled # {} => UNCHANGED <<row, content, models>> /\ stage'[x] \in Harmless
    BY <1>2, <1>3, <2>1, <2>2 DEF Harmless
  <2>4. Quiet => /\ UNCHANGED <<row, models>>
                 /\ content.status # "queued" => content'.status # "queued"
    BY <1>2, <1>3, <2>2 DEF WriteSeal, ReadsLast, Holding, TableTypes, Content
  <2>5. Quiet => KeepsKey(x)'
    BY <1>2, <1>3, <2>1, <2>4 DEF KeepsKey, WriteSeal
  <2>6. Quiet => ReadsLast(x)'
    BY <1>2, <1>3, <2>1, <2>4 DEF ReadsLast, Holding, Claimed, WriteSeal
  <2>7. Quiet => PaysAlone(x)'
    BY <1>2, <1>3, <2>1, <2>4 DEF PaysAlone
  <2>. QED  BY <2>1, <2>3, <2>4, <2>5, <2>6, <2>7 DEF Faithful
<1>5. UNCHANGED <<cells, overlapped, settled, create>>
  BY DEF WriteSeal
<1>. QED  BY <1>1, <1>3, <1>a, <1>5, FaithfulStep DEF IInv

LEMMA ReadEvidenceStep ==
  ASSUME IInv, NEW x \in Requests, ReadEvidence(x) PROVE IInv'
<1>1. Shape' /\ Moves(x)
  BY ReadEvidenceShape DEF IInv
<1>2. stage[x] = "measuring" /\ x \in cells /\ stage[x] \notin Over
  BY DEF ReadEvidence, Over
<1>3. /\ x \in Active /\ x \in Requests /\ TableTypes /\ LocalTypes /\ PlacedAt(x)
      /\ stage[x] # "creating" => answer[x] \in Requests
      /\ Quiet => KeepsKey(x) /\ ReadsLast(x) /\ PaysAlone(x)
      /\ settled # {} => /\ stage[x] \in Harmless /\ content.status # "queued"
                         /\ content.identity /\ content.final # None /\ row # None
  BY <1>2, FromActive
<1>a. ASSUME Raise(x)
     PROVE  Faithful(x) /\ stage'[x] # "creating"
  <2>1. stage'[x] = "failed"
    BY <1>a, <1>3 DEF LocalTypes
  <2>2. UNCHANGED <<row, content, models>>
    BY <1>a, <1>3
  <2>. QED  BY <2>1, <2>2 DEF Faithful, Over
<1>b. ASSUME /\ models[answer[x]] # <<>>
            /\ view' = [view EXCEPT ![x] = [model |-> Final(models[answer[x]]),
                                           outcome |-> Final(verdicts[answer[x]])]]
            /\ To(x, "accounting")
            /\ UNCHANGED <<tables, held, seal, ledger, obs, fixed, create>>
     PROVE  Faithful(x) /\ stage'[x] # "creating"
  <2>1. stage'[x] = "accounting"
    BY <1>b, <1>3 DEF LocalTypes
  <2>3. settled # {} => UNCHANGED <<row, content, models>> /\ stage'[x] \in Harmless
    BY <1>b, <1>2, <1>3, <2>1 DEF Harmless, Quiet, KeepsKey
  <2>4. Quiet => /\ UNCHANGED <<row, models>>
                 /\ content.status # "queued" => content'.status # "queued"
    BY <1>b, <1>2, <1>3 DEF TableTypes, Content
  <2>5. Quiet => KeepsKey(x)'
    BY <1>b, <1>2, <1>3, <2>1, <2>4 DEF KeepsKey
  <2>6. Quiet => ReadsLast(x)'
    BY <1>b, <1>2, <1>3, <2>1, <2>4 DEF ReadsLast, Holding, Claimed, LocalTypes
  <2>7. Quiet => PaysAlone(x)'
    BY <1>b, <1>2, <1>3, <2>1, <2>4 DEF PaysAlone
  <2>. QED  BY <2>1, <2>3, <2>4, <2>5, <2>6, <2>7 DEF Faithful
<1>4. Faithful(x) /\ stage'[x] # "creating"
  BY <1>a, <1>b DEF ReadEvidence
<1>5. UNCHANGED <<cells, overlapped, settled, create>>
  BY DEF ReadEvidence
<1>. QED  BY <1>1, <1>3, <1>4, <1>5, FaithfulStep DEF IInv

LEMMA ChooseAccountingStep ==
  ASSUME IInv, NEW x \in Requests, ChooseAccounting(x) PROVE IInv'
<1>1. Shape' /\ Moves(x)
  BY ChooseAccountingShape DEF IInv
<1>2. stage[x] = "accounting" /\ x \in cells /\ stage[x] \notin Over
  BY DEF ChooseAccounting, Over
<1>3. /\ x \in Active /\ x \in Requests /\ TableTypes /\ LocalTypes /\ PlacedAt(x)
      /\ stage[x] # "creating" => answer[x] \in Requests
      /\ Quiet => KeepsKey(x) /\ ReadsLast(x) /\ PaysAlone(x)
      /\ settled # {} => /\ stage[x] \in Harmless /\ content.status # "queued"
                         /\ content.identity /\ content.final # None /\ row # None
  BY <1>2, FromActive
<1>a. ASSUME /\ To(x, "observing")
            /\ UNCHANGED <<tables, held, ledger, view, obs, fixed, create>>
     PROVE  Faithful(x) /\ stage'[x] # "creating"
  <2>1. stage'[x] = "observing"
    BY <1>a, <1>3 DEF LocalTypes
  <2>3. settled # {} => UNCHANGED <<row, content, models>> /\ stage'[x] \in Harmless
    BY <1>a, <1>2, <1>3, <2>1 DEF Harmless, Quiet, KeepsKey
  <2>4. Quiet => /\ UNCHANGED <<row, models>>
                 /\ content.status # "queued" => content'.status # "queued"
    BY <1>a, <1>2, <1>3 DEF TableTypes, Content
  <2>5. Quiet => KeepsKey(x)'
    BY <1>a, <1>2, <1>3, <2>1, <2>4 DEF KeepsKey
  <2>6. Quiet => ReadsLast(x)'
    BY <1>a, <1>2, <1>3, <2>1, <2>4 DEF ReadsLast, Holding, Claimed
  <2>7. Quiet => PaysAlone(x)'
    BY <1>a, <1>2, <1>3, <2>1, <2>4 DEF PaysAlone
  <2>. QED  BY <2>1, <2>3, <2>4, <2>5, <2>6, <2>7 DEF Faithful
<1>b. ASSUME /\ ~(Exists(x) /\ content.final # None) /\ To(x, "publishing")
            /\ UNCHANGED <<tables, held, ledger, view, obs, fixed, create>>
     PROVE  Faithful(x) /\ stage'[x] # "creating"
  <2>1. stage'[x] = "publishing"
    BY <1>b, <1>3 DEF LocalTypes
  <2>3. settled # {} => UNCHANGED <<row, content, models>> /\ stage'[x] \in Harmless
    BY <1>b, <1>2, <1>3, <2>1 DEF Harmless, Quiet, KeepsKey
  <2>4. Quiet => /\ UNCHANGED <<row, models>>
                 /\ content.status # "queued" => content'.status # "queued"
    BY <1>b, <1>2, <1>3 DEF TableTypes, Content
  <2>5. Quiet => KeepsKey(x)'
    BY <1>b, <1>2, <1>3, <2>1, <2>4 DEF KeepsKey
  <2>6. Quiet => ReadsLast(x)'
    BY <1>b, <1>2, <1>3, <2>1, <2>4 DEF ReadsLast, Holding, Claimed
  <2>7. Quiet => PaysAlone(x)'
    BY <1>b, <1>2, <1>3, <2>1, <2>4 DEF PaysAlone
  <2>. QED  BY <2>1, <2>3, <2>4, <2>5, <2>6, <2>7 DEF Faithful
<1>4. Faithful(x) /\ stage'[x] # "creating"
  BY <1>a, <1>b DEF ChooseAccounting
<1>5. UNCHANGED <<cells, overlapped, settled, create>>
  BY DEF ChooseAccounting
<1>. QED  BY <1>1, <1>3, <1>4, <1>5, FaithfulStep DEF IInv

LEMMA ReadPublishStep ==
  ASSUME IInv, NEW x \in Requests, ReadPublish(x) PROVE IInv'
<1>1. Shape' /\ Moves(x)
  BY ReadPublishShape DEF IInv
<1>2. stage[x] = "publishing" /\ x \in cells /\ stage[x] \notin Over
  BY DEF ReadPublish, Over
<1>3. /\ x \in Active /\ x \in Requests /\ TableTypes /\ LocalTypes /\ PlacedAt(x)
      /\ stage[x] # "creating" => answer[x] \in Requests
      /\ Quiet => KeepsKey(x) /\ ReadsLast(x) /\ PaysAlone(x)
      /\ settled # {} => /\ stage[x] \in Harmless /\ content.status # "queued"
                         /\ content.identity /\ content.final # None /\ row # None
  BY <1>2, FromActive
<1>a. ASSUME Hold(x, "binding once")
     PROVE  Faithful(x) /\ stage'[x] # "creating"
  <2>1. stage'[x] = "binding once"
    BY <1>a, <1>3 DEF LocalTypes
  <2>3. settled # {} => UNCHANGED <<row, content, models>> /\ stage'[x] \in Harmless
    BY <1>a, <1>2, <1>3, <2>1 DEF Harmless, Quiet, KeepsKey
  <2>4. Quiet => /\ UNCHANGED <<row, models>>
                 /\ content.status # "queued" => content'.status # "queued"
    BY <1>a, <1>2, <1>3 DEF TableTypes, Content
  <2>5. Quiet => KeepsKey(x)'
    BY <1>a, <1>2, <1>3, <2>1, <2>4 DEF KeepsKey
  <2>6. Quiet => ReadsLast(x)'
    BY <1>a, <1>2, <1>3, <2>1, <2>4 DEF ReadsLast, Claimed, LocalTypes
  <2>7. Quiet => PaysAlone(x)'
    BY <1>a, <1>2, <1>3, <2>1, <2>4 DEF PaysAlone
  <2>. QED  BY <2>1, <2>3, <2>4, <2>5, <2>6, <2>7 DEF Faithful
<1>b. ASSUME Pass(x, "observing")
     PROVE  Faithful(x) /\ stage'[x] # "creating"
  <2>1. stage'[x] = "observing"
    BY <1>b, <1>3 DEF LocalTypes
  <2>3. settled # {} => UNCHANGED <<row, content, models>> /\ stage'[x] \in Harmless
    BY <1>b, <1>2, <1>3, <2>1 DEF Harmless, Quiet, KeepsKey
  <2>4. Quiet => /\ UNCHANGED <<row, models>>
                 /\ content.status # "queued" => content'.status # "queued"
    BY <1>b, <1>2, <1>3 DEF TableTypes, Content
  <2>5. Quiet => KeepsKey(x)'
    BY <1>b, <1>2, <1>3, <2>1, <2>4 DEF KeepsKey
  <2>6. Quiet => ReadsLast(x)'
    BY <1>b, <1>2, <1>3, <2>1, <2>4 DEF ReadsLast, Holding, Claimed
  <2>7. Quiet => PaysAlone(x)'
    BY <1>b, <1>2, <1>3, <2>1, <2>4 DEF PaysAlone
  <2>. QED  BY <2>1, <2>3, <2>4, <2>5, <2>6, <2>7 DEF Faithful
<1>4. Faithful(x) /\ stage'[x] # "creating"
  BY <1>a, <1>b DEF ReadPublish
<1>5. UNCHANGED <<cells, overlapped, settled, create>>
  BY DEF ReadPublish
<1>. QED  BY <1>1, <1>3, <1>4, <1>5, FaithfulStep DEF IInv

LEMMA WritePublishStep ==
  ASSUME IInv, NEW x \in Requests, WritePublish(x) PROVE IInv'
<1>1. Shape' /\ Moves(x)
  BY WritePublishShape DEF IInv
<1>2. stage[x] = "binding once" /\ x \in cells /\ stage[x] \notin Over
  BY DEF WritePublish, Over
<1>3. /\ x \in Active /\ x \in Requests /\ TableTypes /\ LocalTypes /\ PlacedAt(x)
      /\ stage[x] # "creating" => answer[x] \in Requests
      /\ Quiet => KeepsKey(x) /\ ReadsLast(x) /\ PaysAlone(x)
      /\ settled # {} => /\ stage[x] \in Harmless /\ content.status # "queued"
                         /\ content.identity /\ content.final # None /\ row # None
  BY <1>2, FromActive
<1>a. Faithful(x) /\ stage'[x] # "creating"
  <2>1. stage'[x] = "observing"
    BY <1>3 DEF LocalTypes, WritePublish
  <2>2. settled # {} \/ Quiet => row' = row
    BY <1>2, <1>3, WritesNoRow DEF IInv, Shape, WritePublish, KeepsKey, Quiet
  <2>3. settled # {} => UNCHANGED <<row, content, models>> /\ stage'[x] \in Harmless
    BY <1>2, <1>3, <2>1, <2>2 DEF Harmless
  <2>4. Quiet => /\ UNCHANGED <<row, models>>
                 /\ content.status # "queued" => content'.status # "queued"
    BY <1>2, <1>3, <2>2 DEF WritePublish, ReadsLast, Holding, TableTypes, Content
  <2>5. Quiet => KeepsKey(x)'
    BY <1>2, <1>3, <2>1, <2>4 DEF KeepsKey, WritePublish
  <2>6. Quiet => ReadsLast(x)'
    BY <1>2, <1>3, <2>1, <2>4 DEF ReadsLast, Holding, Claimed, WritePublish
  <2>7. Quiet => PaysAlone(x)'
    BY <1>2, <1>3, <2>1, <2>4 DEF PaysAlone
  <2>. QED  BY <2>1, <2>3, <2>4, <2>5, <2>6, <2>7 DEF Faithful
<1>5. UNCHANGED <<cells, overlapped, settled, create>>
  BY DEF WritePublish
<1>. QED  BY <1>1, <1>3, <1>a, <1>5, FaithfulStep DEF IInv

LEMMA CrashStep ==
  ASSUME IInv, NEW x \in Requests, Crash(x) PROVE IInv'
<1>1. Shape' /\ Moves(x)
  BY CrashShape DEF IInv
<1>2. x \in cells /\ stage[x] \notin Over
  BY DEF Crash, Active
<1>3. /\ x \in Active /\ x \in Requests /\ TableTypes /\ LocalTypes /\ PlacedAt(x)
      /\ stage[x] # "creating" => answer[x] \in Requests
      /\ Quiet => KeepsKey(x) /\ ReadsLast(x) /\ PaysAlone(x)
      /\ settled # {} => /\ stage[x] \in Harmless /\ content.status # "queued"
                         /\ content.identity /\ content.final # None /\ row # None
  BY <1>2, FromActive
<1>a. ASSUME To(x, "dead") /\ UNCHANGED <<tables, create>>
     PROVE  Faithful(x) /\ stage'[x] # "creating"
  <2>1. stage'[x] = "dead"
    BY <1>a, <1>3 DEF LocalTypes
  <2>2. UNCHANGED <<row, content, models>>
    BY <1>a, <1>3
  <2>. QED  BY <2>1, <2>2 DEF Faithful, Over
<1>4. Faithful(x) /\ stage'[x] # "creating"
  BY <1>a DEF Crash
<1>5. UNCHANGED <<cells, overlapped, settled, create>>
  BY DEF Crash
<1>. QED  BY <1>1, <1>3, <1>4, <1>5, FaithfulStep DEF IInv
(***************************************************************************)
(* A response, the answer, and the steps of a creation.                    *)
(***************************************************************************)
LEMMA PaidGrows ==
  ASSUME TableTypes, NEW r \in Requests, NEW e \in ModelEvent,
         models' = [models EXCEPT ![r] = Append(@, e)]
  PROVE  /\ models'[r] # <<>> /\ Final(models'[r]) = e
         /\ Paid(r)' = Paid(r) \cup {e.response}
         /\ \A i \in DOMAIN models'[r] :
              (i \in DOMAIN models[r] /\ models'[r][i] = models[r][i]) \/ models'[r][i] = e
         /\ \A s \in Requests : s # r => models'[s] = models[s]
<1> DEFINE m == models[r]
           a == Append(m, e)
<1>1. m \in Seq(ModelEvent) /\ models'[r] = a
  BY DEF TableTypes
<1>2. a \in Seq(ModelEvent) /\ a # <<>> /\ Final(a) = e /\ Len(a) = Len(m) + 1
      /\ \A i \in 1..Len(m) : a[i] = m[i]
  BY <1>1, AppendLast
<1>3. DOMAIN m = 1..Len(m) /\ DOMAIN a = 1..Len(m) + 1 /\ Len(m) \in Nat /\ a[Len(m) + 1] = e
  BY <1>1, <1>2
<1> HIDE DEF m, a
<1>4. \A i \in DOMAIN a : (i \in DOMAIN m /\ a[i] = m[i]) \/ a[i] = e
  BY <1>2, <1>3
<1>5. {a[i].response : i \in DOMAIN a} = {m[i].response : i \in DOMAIN m} \cup {e.response}
  <2>1. \A i \in DOMAIN m : i \in DOMAIN a /\ a[i] = m[i]
    BY <1>2, <1>3
  <2>2. Len(m) + 1 \in DOMAIN a
    BY <1>3
  <2>. QED  BY <1>3, <1>4, <2>1, <2>2
<1>6. Paid(r)' = {a[i].response : i \in DOMAIN a}
  BY <1>1 DEF Paid
<1>7. Paid(r) = {m[i].response : i \in DOMAIN m}
  BY DEF Paid, m
<1>8. \A s \in Requests : s # r => models'[s] = models[s]
  BY DEF TableTypes
<1>. QED  BY <1>1, <1>2, <1>4, <1>5, <1>6, <1>7, <1>8 DEF m

LEMMA RespondStep ==
  ASSUME IInv, NEW x \in Requests, NEW c \in Prices, Respond(x, c) PROVE IInv'
<1>1. Shape' /\ Moves(x)
  BY RespondShape DEF IInv
<1>2. stage[x] = "driving" /\ x \in cells /\ stage[x] \notin Over /\ Exists(x)
  BY DEF Respond, Over
<1>3. /\ x \in Active /\ TableTypes /\ LocalTypes /\ PlacedAt(x) /\ answer[x] \in Requests
      /\ Quiet => KeepsKey(x) /\ ReadsLast(x) /\ PaysAlone(x)
      /\ settled # {} => stage[x] \in Harmless
  BY <1>2, FromActive
<1>4. settled = {}
  BY <1>2, <1>3 DEF Harmless
<1> DEFINE new == NewResponse(x, c)
           e == [response |-> new, receipts |-> Charged(x, new)]
<1>5. /\ new \in Response /\ Charged(x, new) \in SUBSET Response
      /\ ledger' = [ledger EXCEPT ![x] = Charged(x, new)]
      /\ models' = [models EXCEPT ![answer[x]] = Append(@, e)]
      /\ UNCHANGED <<row, content, stage, held, view, cells, overlapped, settled, create>>
  BY <1>2, <1>3, ResponseIsNew DEF Respond, NewResponse
<1>6. e \in ModelEvent /\ e.response = new /\ e.receipts = Charged(x, new)
  BY <1>5 DEF ModelEvent
<1>7. new.by = x
  BY DEF NewResponse
<1> HIDE DEF new, e
<1>8. /\ models'[answer[x]] # <<>> /\ Final(models'[answer[x]]) = e
      /\ Paid(answer[x])' = Paid(answer[x]) \cup {new}
      /\ \A i \in DOMAIN models'[answer[x]] :
           \/ i \in DOMAIN models[answer[x]] /\ models'[answer[x]][i] = models[answer[x]][i]
           \/ models'[answer[x]][i] = e
      /\ \A s \in Requests : s # answer[x] => models'[s] = models[s]
  <2>1. /\ models'[answer[x]] # <<>> /\ Final(models'[answer[x]]) = e
        /\ Paid(answer[x])' = Paid(answer[x]) \cup {e.response}
    BY <1>3, <1>5, <1>6, PaidGrows
  <2>2. /\ \A i \in DOMAIN models'[answer[x]] :
             \/ i \in DOMAIN models[answer[x]] /\ models'[answer[x]][i] = models[answer[x]][i]
             \/ models'[answer[x]][i] = e
        /\ \A s \in Requests : s # answer[x] => models'[s] = models[s]
    BY <1>3, <1>5, <1>6, PaidGrows
  <2>. QED  BY <1>6, <2>1, <2>2
<1>9. Quiet => Charged(x, new) = Paid(answer[x]) \cup {new}
  BY <1>2, <1>3 DEF Charged, Remembered, PaysAlone, Paid
<1>10. Quiet => \A i \in DOMAIN models'[answer[x]] : models'[answer[x]][i].response.by = x
  BY <1>2, <1>3, <1>6, <1>7, <1>8 DEF PaysAlone
<1>11. Quiet' <=> Quiet
  BY <1>5 DEF Quiet
<1>12. Alone'
  BY <1>1, <1>3, <1>5, ActiveKept, AloneKept DEF IInv, Shape
<1>13. ASSUME Quiet PROVE KeepsKey(x)' /\ ReadsLast(x)' /\ PaysAlone(x)'
  <2>1. KeepsKey(x)'
    BY <1>2, <1>3, <1>5, <1>13 DEF KeepsKey
  <2>2. ReadsLast(x)'
    BY <1>2, <1>3, <1>5, <1>13 DEF ReadsLast, Holding, Claimed, PlacedAt
  <2>3. ledger'[x] = Charged(x, new)
    BY <1>5, <1>3 DEF LocalTypes
  <2>4. ledger'[x] # {} /\ ledger'[x] = Paid(answer[x])'
    BY <1>8, <1>9, <1>13, <2>3
  <2>5. answer'[x] = answer[x] /\ stage'[x] = "driving"
    BY <1>2, <1>5
  <2>6. PaysAlone(x)'
    BY <1>10, <1>13, <2>4, <2>5 DEF PaysAlone, Paid
  <2>. QED  BY <2>1, <2>2, <2>6
<1>14. Believed'
  <2>1. /\ \A y \in Requests : y # x => pc'[y] = pc[y] /\ answer'[y] = answer[y]
        /\ overlapped => settled' = settled
        /\ UNCHANGED <<cells, overlapped>>
        /\ settled # {} => UNCHANGED <<row, content, models>>
    BY <1>4, <1>5
  <2>. QED  BY <1>1, <1>3, <1>13, <2>1, BelievedKept DEF IInv, Shape
<1>15. ASSUME Quiet PROVE /\ \A r \in Requests : models'[r] # <<>> => r = answer[x]
                          /\ row # None /\ row.run = answer[x] /\ content.status # "queued"
  <2>1. KeepsKey(x) /\ ReadsLast(x)
    BY <1>3, <1>15
  <2>2. row # None /\ row.run = answer[x] /\ content.status # "queued"
    BY <2>1, <1>2 DEF KeepsKey, ReadsLast, Claimed
  <2>. QED  BY <1>8, <1>15, <2>2 DEF IInv, Charges
<1>16. Charges'
  <2>1. ASSUME Quiet, NEW r \in Requests, models'[r] # <<>>
        PROVE  /\ row' # None /\ row'.run = r /\ content'.status # "queued"
               /\ Final(models'[r]).receipts = Paid(r)'
    BY <1>5, <1>6, <1>8, <1>9, <1>15, <2>1
  <2>2. ASSUME Quiet, NEW r \in Requests, NEW s \in Requests,
               NEW i \in DOMAIN models'[r], NEW j \in DOMAIN models'[s]
        PROVE  models'[r][i].response.by = models'[s][j].response.by
    <3>1. \A q \in Requests : models'[q] \in Seq(ModelEvent)
      BY <1>1, CellTypesNow DEF Shape, TableTypes
    <3>2. models'[r] # <<>> /\ models'[s] # <<>>
      BY <3>1
    <3>. QED  BY <1>10, <1>15, <2>2, <3>2
  <2>. QED  BY <1>11, <2>1, <2>2 DEF Charges, CellIsPaidOnce
<1>17. Settled'
  BY <1>4, <1>5 DEF Settled
<1>. QED  BY <1>1, <1>12, <1>14, <1>16, <1>17 DEF IInv

LEMMA ObserveStep == ASSUME IInv, NEW x \in Requests, Observe(x) PROVE IInv'
<1>1. Shape' /\ Moves(x)
  BY ObserveShape DEF IInv
<1>2. stage[x] = "observing" /\ x \in cells /\ stage[x] \notin Over
  BY DEF Observe, Over
<1>3. /\ x \in Active /\ TableTypes /\ LocalTypes /\ PlacedAt(x) /\ answer[x] \in Requests
      /\ Quiet => KeepsKey(x) /\ ReadsLast(x) /\ PaysAlone(x)
  BY <1>2, FromActive
<1>4. /\ UNCHANGED <<row, content, models, cells, overlapped, create>>
      /\ overlapped => settled' = settled
      /\ settled' \in {settled, settled \cup {x}}
  BY DEF Observe
<1>5. stage'[x] \in {"accepted", "failed"}
  BY <1>3 DEF Observe, LocalTypes
<1>6. stage'[x] \in Over
  BY <1>5 DEF Over
<1>7. Alone'
  BY <1>1, <1>3, <1>4, ActiveKept, AloneKept DEF IInv, Shape
<1>8. Believed'
  BY <1>1, <1>3, <1>4, <1>6, BelievedKept DEF IInv, Shape
<1>9. Charges'
  <2>1. Quiet' => Quiet
    BY <1>4 DEF Quiet
  <2>. QED  BY <1>4, <2>1, ChargesKept DEF IInv
<1>10. CASE settled' = settled
  <2>1. Settled'
    BY <1>1, <1>3, <1>4, <1>5, <1>6, <1>10, SettledKept DEF IInv, Shape, Over
  <2>. QED  BY <1>1, <1>7, <1>8, <1>9, <2>1 DEF IInv
<1>11. CASE settled' # settled
  <2>1. /\ ~overlapped /\ settled' = settled \cup {x}
        /\ obs' = [obs EXCEPT ![x] = Measured(x)]
        /\ stage' = [stage EXCEPT ![x] = "accepted"]
        /\ Verified(x, Measured(x))
    BY <1>4, <1>11 DEF Observe
  <2>2. KeepsKey(x) /\ ReadsLast(x)
    BY <1>3, <2>1 DEF Quiet
  <2>3. /\ Exists(x) /\ models[answer[x]] # <<>>
        /\ view[x].model = Final(models[answer[x]])
    BY <1>2, <1>3, <2>2 DEF KeepsKey, ReadsLast, PlacedAt
  <2>4. content.status # "queued" /\ Final(models[answer[x]]).receipts = Paid(answer[x])
    BY <1>3, <2>1, <2>3 DEF IInv, Charges, Quiet
  <2>5. /\ content.identity /\ content.final = seal[x]
        /\ seal[x].receipts = view[x].model.receipts
        /\ Measured(x).outcome.passed = Measured(x).passed /\ Measured(x).accounting = seal[x]
    BY <2>1 DEF Verified, Measured
  <2>6. seal[x] # None
    BY <1>2, <1>3 DEF PlacedAt
  <2>7. Active' = {}
    <3>1. ASSUME NEW y \in Active' PROVE FALSE
      <4>1. y # x /\ y \in Active
        BY <1>1, <1>3, <1>4, <1>6, ActiveKept DEF IInv, Shape, Active
      <4>. QED  BY <1>3, <2>1, <4>1 DEF IInv, Alone
    <3>. QED  BY <3>1
  <2>8. ASSUME NEW y \in settled
        PROVE  /\ stage'[y] = "accepted" /\ answer'[y] = row'.run
               /\ obs'[y].accounting = content'.final
               /\ obs'[y].passed = obs'[y].outcome.passed
               /\ obs'[y].accounting.receipts = Paid(answer[y])
    <3>1. /\ stage[y] = "accepted" /\ answer[y] = row.run
          /\ obs[y].accounting = content.final
          /\ obs[y].passed = obs[y].outcome.passed
          /\ obs[y].accounting.receipts = Paid(answer[y])
      BY DEF IInv, Settled
    <3>2. y \in Requests
      BY <1>3, CellTypes DEF IInv, Shape, CountTypes, TableTypes
    <3>3. y # x
      BY <1>2, <3>1
    <3>4. obs'[y] = obs[y] /\ stage'[y] = stage[y]
      BY <1>1, <1>3, <3>2, <3>3, MovesOne
    <3>. QED  BY <1>4, <3>1, <3>4
  <2>9. /\ stage'[x] = "accepted" /\ answer'[x] = row'.run
        /\ obs'[x].accounting = content'.final
        /\ obs'[x].passed = obs'[x].outcome.passed
        /\ obs'[x].accounting.receipts = Paid(answer[x])
    <3>1. obs'[x] = Measured(x) /\ stage'[x] = "accepted"
      BY <1>3, <2>1 DEF LocalTypes
    <3>. QED  BY <1>4, <2>3, <2>4, <2>5, <3>1
  <2>10. Settled'
    <3>1. ASSUME NEW y \in settled'
          PROVE  /\ stage'[y] = "accepted" /\ answer'[y] = row'.run
                 /\ obs'[y].accounting = content'.final
                 /\ obs'[y].passed = obs'[y].outcome.passed
                 /\ obs'[y].accounting.receipts = Paid(answer[y])
      BY <2>1, <2>8, <2>9
    <3>2. \A y \in settled' : Paid(answer[y])' = Paid(answer[y])
      BY <1>4 DEF Paid
    <3>3. /\ row' # None /\ content'.status # "queued" /\ content'.identity
          /\ content'.final # None
      BY <1>4, <2>3, <2>4, <2>5, <2>6
    <3>. QED  BY <2>7, <3>1, <3>2, <3>3 DEF Settled
  <2>. QED  BY <1>1, <1>7, <1>8, <1>9, <2>10 DEF IInv
<1>. QED  BY <1>10, <1>11

(* A step of a creation: only the place and the answer of its executor     *)
(* change, and the row if there was none.                                  *)
LEMMA CreatingStep ==
  ASSUME IInv, NEW x \in Requests, At(x, "creating"), Shape',
         UNCHANGED <<models, stage, held, seal, ledger, view, obs, cells, overlapped, settled>>,
         \A y \in Requests : y # x => pc'[y] = pc[y] /\ answer'[y] = answer[y],
         settled # {} => UNCHANGED <<row, content>> /\ pc'[x] \in {"checked", "done"},
         Quiet => KeepsKey(x)',
         Quiet => \/ UNCHANGED <<row, content>>
                  \/ \A r \in Requests : models[r] = <<>>
  PROVE  IInv'
<1>1. CellTypeOK /\ Alone /\ Believed /\ Charges /\ Settled /\ LocalTypes /\ TableTypes /\ CountTypes
  BY CellTypes DEF IInv, Shape
<1>2. x \in Active /\ PlacedAt(x) /\ Active' = Active
  BY DEF Active, Over, IInv, Shape, Placed
<1>3. Moves(x)
  BY <1>1 DEF Moves, LocalTypes
<1>4. Alone'
  BY <1>1, <1>2 DEF Alone
<1>5. ReadsLast(x)' /\ PaysAlone(x)'
  BY <1>2 DEF ReadsLast, PaysAlone, PlacedAt, Holding, Claimed
<1>6. Believed'
  BY <1>1, <1>2, <1>3, <1>5, BelievedKept
<1>7. Quiet' <=> Quiet
  BY DEF Quiet
<1>8. Charges'
  <2>1. CASE Quiet /\ \A r \in Requests : models[r] = <<>>
    BY <2>1, <1>7 DEF Charges, CellIsPaidOnce
  <2>2. CASE Quiet => UNCHANGED <<row, content>>
    BY <1>1, <1>7, <2>2, ChargesKept
  <2>. QED  BY <2>1, <2>2
<1>9. ASSUME settled # {} PROVE Settled'
  <2>1. \A y \in settled : y \in Requests /\ y # x
    BY <1>1, <1>9 DEF Settled, CountTypes, TableTypes
  <2>2. \A y \in Active : y \in Requests
    BY <1>1 DEF Active, TableTypes
  <2>3. \A y \in Active' :
          stage'[y] \in Harmless /\ (stage'[y] = "creating" => pc'[y] \in {"checked", "done"})
    BY <1>1, <1>2, <1>9, <2>2 DEF Settled
  <2>4. \A y \in settled' : answer'[y] = answer[y] /\ Paid(answer[y])' = Paid(answer[y])
    BY <2>1 DEF Paid
  <2>5. /\ row' # None /\ content'.status # "queued" /\ content'.identity
        /\ content'.final # None
    BY <1>1, <1>9 DEF Settled
  <2>6. \A y \in settled' :
          /\ stage'[y] = "accepted" /\ answer'[y] = row'.run
          /\ obs'[y].accounting = content'.final
          /\ obs'[y].passed = obs'[y].outcome.passed
          /\ obs'[y].accounting.receipts = Paid(answer[y])'
    BY <1>1, <1>9, <2>1, <2>4 DEF Settled
  <2>. QED  BY <2>3, <2>5, <2>6 DEF Settled
<1>10. Settled'
  BY <1>9 DEF Settled
<1>. QED  BY <1>4, <1>6, <1>8, <1>10 DEF IInv

LEMMA CreateStep == ASSUME IInv, NEW x \in Requests, Create(x) PROVE IInv'
<1>1. Shape'
  BY CreateShape DEF IInv
<1>2. /\ At(x, "creating") /\ content' = IF row' # row THEN Fresh ELSE content
      /\ UNCHANGED <<events, outcomes, stage, locals, fixed>>
      /\ Recheck(x) \/ Save(x) \/ AppendCreated(x)
  BY CreateCases
<1>3. /\ x \in Active /\ TableTypes /\ LocalTypes /\ PlacedAt(x)
      /\ Quiet => KeepsKey(x)
      /\ settled # {} => row # None
  BY <1>2, FromActive DEF Over
<1>4. TypeOK /\ RunsAreMade
  BY DEF IInv, Shape, Creation
<1>5. settled # {} => pc[x] \in {"checked", "done"} /\ Quiet
  BY <1>2, <1>3 DEF IInv, Settled, Quiet
<1>6. UNCHANGED <<models, stage, held, seal, ledger, view, obs, cells, overlapped, settled>>
  BY <1>2
<1>7. \A y \in Requests : y # x => pc'[y] = pc[y] /\ answer'[y] = answer[y]
  BY <1>2, <1>4 DEF Recheck, Save, AppendCreated, TypeOK
<1>8. CASE Recheck(x)
  <2>1. UNCHANGED <<row, content>> /\ pc'[x] \in {"saving", "done"}
    BY <1>2, <1>4, <1>8 DEF Recheck, TypeOK
  <2>2. \/ row # None /\ pc'[x] = "done" /\ answer'[x] = row.run
        \/ row = None /\ pc'[x] = "saving"
    BY <1>4, <1>8 DEF Recheck, TypeOK
  <2>3. KeepsKey(x)'
    BY <1>2, <2>1, <2>2 DEF KeepsKey
  <2>4. settled # {} => pc'[x] \in {"checked", "done"}
    BY <1>3, <2>2
  <2>. QED  BY <1>1, <1>2, <1>6, <1>7, <2>1, <2>3, <2>4, CreatingStep
<1>9. CASE Save(x)
  <2>1. pc[x] = "saving" /\ pc'[x] = "created" /\ row' = [run |-> x, payload |-> payload[x]]
    BY <1>4, <1>9 DEF Save, TypeOK
  <2>2. settled = {}
    BY <1>5, <2>1
  <2>3. KeepsKey(x)'
    BY <1>2, <2>1 DEF KeepsKey
  <2>4. Quiet => \A r \in Requests : models[r] = <<>>
    BY <1>2, <1>3, <2>1 DEF KeepsKey, IInv, Charges
  <2>. QED  BY <1>1, <1>2, <1>6, <1>7, <2>2, <2>3, <2>4, CreatingStep
<1>10. CASE AppendCreated(x)
  <2>1. UNCHANGED <<row, content>> /\ pc[x] = "created" /\ pc'[x] = "done"
    BY <1>2, <1>4, <1>10 DEF AppendCreated, TypeOK
  <2>2. row # None /\ (row.run = x => answer'[x] = x)
    BY <1>4, <1>10, <2>1 DEF AppendCreated, TypeOK, RunsAreMade
  <2>3. Quiet => KeepsKey(x)'
    BY <1>2, <1>3, <2>1, <2>2 DEF KeepsKey
  <2>. QED  BY <1>1, <1>2, <1>6, <1>7, <2>1, <2>3, CreatingStep
<1>. QED  BY <1>2, <1>8, <1>9, <1>10

LEMMA EnterStep ==
  ASSUME IInv, NEW x \in Requests, NEW p \in Payloads, Enter(x, p) PROVE IInv'
<1>1. Shape'
  BY EnterShape DEF IInv
<1>2. CellTypeOK /\ Alone /\ Believed /\ Charges /\ Settled /\ LocalTypes /\ TableTypes
      /\ CountTypes /\ TypeOK
  BY CellTypes DEF IInv, Shape, Creation
<1>3. PlacedAt(x) /\ x \in cells /\ stage[x] = "idle"
  BY DEF IInv, Shape, Placed, Enter
<1>4. /\ UNCHANGED <<row, content, models, held, view, ledger, obs, cells, settled, answer>>
      /\ overlapped' = (overlapped \/ Active # {})
      /\ stage'[x] = "creating" /\ pc'[x] = "checked"
      /\ \A y \in Requests : y # x => stage'[y] = stage[y] /\ pc'[y] = pc[y]
  BY <1>2 DEF Enter, LocalTypes, TypeOK
<1>5. Active' = Active \cup {x} /\ \A y \in Active : y # x /\ y \in Requests
  <2>1. cells \subseteq Requests
    BY <1>2 DEF TableTypes
  <2>. QED  BY <1>3, <1>4, <2>1 DEF Active, Over
<1>6. Alone'
  BY <1>4, <1>5 DEF Alone
<1>7. Quiet' => Quiet
  BY <1>4 DEF Quiet
<1>8. KeepsKey(x)' /\ ReadsLast(x)' /\ PaysAlone(x)'
  <2>1. view'[x] = None
    BY <1>3, <1>4 DEF PlacedAt
  <2>. QED  BY <1>4, <2>1 DEF KeepsKey, ReadsLast, PaysAlone, Holding, Claimed
<1>9. ASSUME Quiet', NEW y \in Active PROVE KeepsKey(y)' /\ ReadsLast(y)' /\ PaysAlone(y)'
  <2>1. KeepsKey(y) /\ ReadsLast(y) /\ PaysAlone(y)
    BY <1>2, <1>7, <1>9 DEF Believed
  <2>2. /\ y \in Requests /\ stage'[y] = stage[y] /\ pc'[y] = pc[y]
        /\ UNCHANGED <<row, content, models, held, view, ledger, answer>>
    BY <1>4, <1>5
  <2>3. KeepsKey(y)'
    BY <2>1, <2>2 DEF KeepsKey
  <2>4. ReadsLast(y)'
    BY <2>1, <2>2 DEF ReadsLast
  <2>5. PaysAlone(y)'
    BY <2>1, <2>2 DEF PaysAlone, Paid
  <2>. QED  BY <2>3, <2>4, <2>5
<1>10. Believed'
  BY <1>5, <1>8, <1>9 DEF Believed
<1>11. Charges'
  BY <1>2, <1>4, <1>7, ChargesKept
<1>12. Settled'
  <2>1. \A y \in settled : y \in Requests /\ y # x
    BY <1>2, <1>3 DEF Settled, CountTypes, TableTypes
  <2>2. ASSUME settled # {}, NEW y \in Active'
        PROVE  stage'[y] \in Harmless /\ (stage'[y] = "creating" => pc'[y] \in {"checked", "done"})
    BY <1>2, <1>4, <1>5, <2>2 DEF Settled, Harmless
  <2>3. \A y \in settled' : /\ Paid(answer[y])' = Paid(answer[y])
                            /\ stage'[y] = stage[y] /\ obs'[y] = obs[y]
    BY <1>4, <2>1, <1>2 DEF Paid, Enter, LocalTypes
  <2>. QED  BY <1>2, <1>4, <2>2, <2>3 DEF Settled
<1>. QED  BY <1>1, <1>6, <1>10, <1>11, <1>12 DEF IInv

(* Without executors there is nothing to believe in.                       *)
LEMMA NoExecutorsNext ==
  ASSUME cells' = {}, settled' = {}, \A r \in Requests : models'[r] = <<>>
  PROVE  Alone' /\ Believed' /\ Charges' /\ Settled'
<1>1. Active' = {}
  BY DEF Active
<1>2. Charges'
  BY DEF Charges, CellIsPaidOnce
<1>. QED  BY <1>1, <1>2 DEF Alone, Believed, Settled

LEMMA ApiStep == ASSUME IInv, Api PROVE IInv'
<1>1. Shape'
  BY ApiShape DEF IInv
<1>2. /\ UNCHANGED cellVars /\ cells = {} /\ settled \subseteq cells
      /\ \A r \in Requests : models[r] = <<>>
  BY DEF Api, IInv, Shape, KeyIsShared, CellTypeOK
<1>3. cells' = {} /\ settled' = {} /\ \A r \in Requests : models'[r] = <<>>
  BY <1>2 DEF cellVars
<1>. QED  BY <1>1, <1>3, NoExecutorsNext DEF IInv

LEMMA StutterStep == ASSUME IInv, UNCHANGED allVars PROVE IInv'
<1>1. Shape'
  BY StutterShape DEF IInv
<1>2. UNCHANGED vars /\ UNCHANGED cellVars
  BY DEF allVars
<1>3. Active' = Active /\ (Quiet' <=> Quiet) /\ \A r \in Requests : Paid(r)' = Paid(r)
  BY <1>2 DEF Active, Quiet, Paid, cellVars
<1>4. Alone'
  BY <1>2, <1>3 DEF IInv, Alone, cellVars
<1>5. Believed'
  BY <1>2, <1>3 DEF IInv, Believed, KeepsKey, ReadsLast, PaysAlone, Paid, cellVars, vars
<1>6. Charges'
  BY <1>2, ChargesKept DEF IInv, Quiet, cellVars, vars
<1>7. Settled'
  BY <1>2, <1>3 DEF IInv, Settled, Paid, cellVars, vars
<1>. QED  BY <1>1, <1>4, <1>5, <1>6, <1>7 DEF IInv

LEMMA InitIInv == CellInit => IInv
<1>1. ASSUME CellInit PROVE IInv
  <2>1. Shape
    BY <1>1, InitShape
  <2>2. Active = {} /\ settled = {} /\ \A r \in Requests : models[r] = <<>>
    BY <1>1 DEF CellInit, Active, Over
  <2>3. Charges
    BY <2>2 DEF Charges, CellIsPaidOnce
  <2>. QED  BY <2>1, <2>2, <2>3 DEF IInv, Alone, Believed, Settled
<1>. QED  BY <1>1

LEMMA NextIInv == IInv /\ [CellNext]_allVars => IInv'
<1> SUFFICES ASSUME IInv, [CellNext]_allVars PROVE IInv'
  OBVIOUS
<1>1. CASE Api
  BY <1>1, ApiStep
<1>2. ASSUME NEW x \in Requests, Step(x) PROVE IInv'
  <2>1. CASE \E p \in Payloads : Enter(x, p)
    BY <2>1, EnterStep
  <2>2. CASE Create(x) \/ ReadIdentity(x) \/ WriteIdentity(x)
    BY <2>2, CreateStep, ReadIdentityStep, WriteIdentityStep
  <2>3. CASE Claim(x) \/ ReadLaunch(x) \/ BindLaunch(x)
    BY <2>3, ClaimStep, ReadLaunchStep, BindLaunchStep
  <2>4. CASE (\E c \in Prices : Respond(x, c)) \/ \E v \in BOOLEAN : Evaluate(x, v)
    BY <2>4, RespondStep, EvaluateStep
  <2>5. CASE RecordOutcome(x) \/ EndRun(x) \/ FailRun(x)
    BY <2>5, RecordOutcomeStep, EndRunStep, FailRunStep
  <2>6. CASE ReadSeal(x) \/ WriteSeal(x) \/ ReadEvidence(x)
    BY <2>6, ReadSealStep, WriteSealStep, ReadEvidenceStep
  <2>7. CASE ChooseAccounting(x) \/ ReadPublish(x) \/ WritePublish(x)
    BY <2>7, ChooseAccountingStep, ReadPublishStep, WritePublishStep
  <2>8. CASE Observe(x) \/ Crash(x)
    BY <2>8, ObserveStep, CrashStep
  <2>. QED  BY <1>2, <2>1, <2>2, <2>3, <2>4, <2>5, <2>6, <2>7, <2>8 DEF Step
<1>3. CASE UNCHANGED allVars
  BY <1>3, StutterStep
<1>. QED  BY <1>1, <1>2, <1>3 DEF CellNext

LEMMA Inductive == CellSpec => []IInv
BY InitIInv, NextIInv, PTL DEF CellSpec

-----------------------------------------------------------------------------
(* An observation accepted before any overlap can be rebuilt from its      *)
(* receipt for good (app.py, "A terminal receipt is immutable once         *)
(* bound"): nobody replaces, claims or seals its run again.                *)
THEOREM RecoveryIsExactCorrect == CellSpec => []RecoveryIsExact
<1>1. IInv => CellTypeOK
  BY DEF IInv, Shape
<1>2. IInv => RecoveredIsMeasured
  <2> SUFFICES ASSUME IInv, NEW x \in settled
               PROVE  /\ Exists(x)
                      /\ Recovered(Receipt(x)) = [passed |-> obs[x].passed,
                                                  accounting |-> obs[x].accounting]
    BY DEF RecoveredIsMeasured
  <2>1. /\ row # None /\ content.final # None /\ answer[x] = row.run
        /\ obs[x].accounting = content.final /\ obs[x].passed = obs[x].outcome.passed
    BY DEF IInv, Settled
  <2>. QED  BY <2>1 DEF Recovered, Receipt, RecoveredAccounting
<1>3. IInv => RecoveryIsExact
  BY <1>1, <1>2 DEF RecoveryIsExact
<1>. QED  BY <1>3, Inductive, PTL

(* Executors of a key after one that was claimed, whether that one died or *)
(* was measured, never pay for the cell again: the model events of all its *)
(* runs are of one executor.                                               *)
THEOREM CellIsPaidOnceCorrect == CellSpec => []CellIsPaidOnce
<1>1. IInv => CellIsPaidOnce
  BY DEF IInv, Charges, CellIsPaidOnce, Quiet
<1>. QED  BY <1>1, Inductive, PTL

(* The accounting of an observation accepted before any overlap adds up    *)
(* all that its run was charged for, and stays complete.                   *)
THEOREM ReceiptsAreCompleteCorrect == CellSpec => []ReceiptsAreComplete
<1>1. IInv => ReceiptsAreComplete
  <2> SUFFICES ASSUME IInv, NEW x \in settled
               PROVE  Receipt(x).usage.receipts =
                        {models[answer[x]][i].response : i \in DOMAIN models[answer[x]]}
    BY DEF ReceiptsAreComplete
  <2>1. obs[x].accounting.receipts = Paid(answer[x])
    BY DEF IInv, Settled
  <2>2. Receipt(x).usage.receipts = obs[x].accounting.receipts
    BY DEF Receipt, Usage
  <2>. QED  BY <2>1, <2>2 DEF Paid
<1>. QED  BY <1>1, Inductive, PTL

(* Whoever makes the row of the key its own did not find the key taken.    *)
LEMMA RowIsOfEarly ==
  ASSUME IInv, [CellNext]_allVars, NEW r \in Requests, row' # row, row'.run = r
  PROVE  found[r] = "none"
<1>1. RunsAreMade
  BY DEF IInv, Shape, Creation
<1>2. ASSUME NEW x \in Requests, Save(x) PROVE found[r] = "none"
  BY <1>1, <1>2 DEF Save, RunsAreMade
<1>3. ASSUME NEW x \in Requests, stage[x] \in Holding,
             row' = [run |-> answer[x], payload |-> payload[answer[x]]]
      PROVE  found[r] = "none"
  <2>1. PlacedAt(x)
    BY DEF IInv, Shape, Placed
  <2>2. answer[x] \in Requests
    BY <1>3, <2>1 DEF PlacedAt, Holding, Over
  <2>. QED  BY <1>1, <1>3, <2>2 DEF RunsAreMade, Made
<1>4. CASE Api
  <2>1. PICK x \in Requests :
          (\E p \in Payloads : Arrive(x, p)) \/ Recheck(x) \/ Save(x) \/ AppendCreated(x)
    BY <1>4 DEF Api, Next
  <2>. QED  BY <1>2, <2>1 DEF Arrive, Recheck, AppendCreated
<1>5. ASSUME NEW x \in Requests, Step(x) PROVE found[r] = "none"
  <2>1. CASE Create(x)
    BY <1>2, <2>1, CreateCases DEF Recheck, AppendCreated
  <2>2. CASE WriteIdentity(x) \/ BindLaunch(x) \/ WriteSeal(x) \/ WritePublish(x)
    BY <1>3, <2>2 DEF WriteIdentity, BindLaunch, WriteSeal, WritePublish, Holding
  <2>3. CASE (\E p \in Payloads : Enter(x, p)) \/ ReadIdentity(x) \/ Claim(x) \/ ReadLaunch(x)
    BY <2>3 DEF Enter, ReadIdentity, Claim, ReadLaunch
  <2>4. CASE \/ \E c \in Prices : Respond(x, c)
             \/ \E v \in BOOLEAN : Evaluate(x, v)
             \/ RecordOutcome(x) \/ EndRun(x) \/ FailRun(x)
    BY <2>4 DEF Respond, Evaluate, RecordOutcome, EndRun, FailRun
  <2>5. CASE ReadSeal(x) \/ ReadEvidence(x) \/ ChooseAccounting(x) \/ ReadPublish(x)
    BY <2>5 DEF ReadSeal, ReadEvidence, ChooseAccounting, ReadPublish
  <2>6. CASE Observe(x) \/ Crash(x)
    BY <2>6 DEF Observe, Crash
  <2>. QED  BY <1>5, <2>1, <2>2, <2>3, <2>4, <2>5, <2>6 DEF Step
<1>6. CASE UNCHANGED allVars
  BY <1>6 DEF allVars, vars
<1>. QED  BY <1>4, <1>5, <1>6 DEF CellNext

(* A request that comes after the key is taken neither displaces a run nor *)
(* gets one it did not ask for, clients and executors alike.               *)
THEOREM LateRequestsAreServedCorrect == CellSpec => LateRequestsAreServed
<1> DEFINE A == \A r \in Requests : row' # row /\ row'.run = r => found[r] = "none"
<1>1. IInv => TypeOK /\ LateAnswersAreCompared
  BY DEF IInv, Shape, Creation
<1>2. IInv /\ [CellNext]_allVars => [A]_vars
  BY RowIsOfEarly
<1>3. CellSpec => [](TypeOK /\ LateAnswersAreCompared)
  BY <1>1, Inductive, PTL
<1>4. CellSpec => [][A]_vars
  BY <1>2, Inductive, PTL DEF CellSpec
<1>. QED  BY <1>3, <1>4 DEF LateRequestsAreServed, LateRequestsCreateNothing
=============================================================================
