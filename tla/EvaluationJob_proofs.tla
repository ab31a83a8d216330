------------------------- MODULE EvaluationJob_proofs -------------------------
(***************************************************************************)
(* The safety of the evaluation jobs and their driver, for any number of   *)
(* drivers, benchmarks, owners, panels and cells, for any lengths of the   *)
(* panels, any outcomes, any kills and any loss of evidence.               *)
(***************************************************************************)
EXTENDS EvaluationJob, FiniteSetTheorems, WellFoundedInduction, TLAPS

Saved == {"complete", "failed", "uncertain"}
Places == Inside \cup {"idle", "lock", "returned", "raised", "interrupted", "report",
                       "promote", "store", "ended", "dead"}
Attempts == [status : Saved, owner : Range(Owner) \cup {None}]

(* The types, with those of the sequences, which TLC need not enumerate.   *)
TableTypes ==
  /\ lock \in [Benchmarks -> Drivers \cup {None}]
  /\ plan \in [Benchmarks -> [inputs : Range(Inputs), panel : DOMAIN Panels] \cup {NoPlan}]
  /\ alloc \in [Benchmarks \X Range(Inputs) -> {0} \cup DOMAIN Panels]

RowTypes ==
  row \in [Benchmarks -> [Cells ->
             [status : Statuses, owner : Range(Owner) \cup {None}, sound : BOOLEAN]]]

AttemptTypes == attempts \in [Benchmarks -> [Cells -> Seq(Attempts)]]

WalkTypes ==
  /\ pc \in [Drivers -> Places]
  /\ panel \in [Drivers -> Seq(Cells)]
  /\ at \in [Drivers -> Nat]
  /\ want \in [Drivers -> Statuses]
  /\ good \in [Drivers -> SUBSET Cells]

HistoryTypes ==
  /\ ran \in [Benchmarks -> [Cells -> Seq(Nat)]]
  /\ lost \in [Benchmarks -> [Cells -> Nat]]

JobTypes ==
  /\ job \in [Benchmarks -> {"none", "running", "decided", "closed"}]
  /\ active \in Benchmarks \cup {None}
  /\ result \in [Drivers -> {"none", "decided", "closed"}]

(* Whoever is inside has the lock of its benchmark, and nobody else has.   *)
Locked ==
  /\ \A d \in Drivers : pc[d] \in Inside <=> lock[Bench[d]] = d
  /\ \A b \in Benchmarks : lock[b] # None => Bench[lock[b]] = b

(* A driver that works on a cell stands on one of its panel.               *)
AtOneCell == AtWork \cup {"voidrelease"}

Walking ==
  \A d \in Drivers :
    /\ pc[d] \in {"idle", "lock", "reserve", "bind"} => at[d] = 1
    /\ pc[d] \in Inside => at[d] \in 1 .. Len(panel[d]) + 1
    /\ pc[d] \in AtOneCell => at[d] <= Len(panel[d])
    /\ pc[d] \in {"attempt", "release"} => want[d] \in Saved

(* Which panel a driver goes through, and what stands in the tables for it.*)
OnCells == AtOneCell \cup {"cell"}

Bound ==
  \A d \in Drivers :
    /\ d \in Smokes =>
         /\ pc[d] \notin {"reserve", "bind", "promote", "store"}
         /\ pc[d] \in OnCells => panel[d] = SmokePanel
    /\ d \notin Smokes =>
         /\ pc[d] \in {"reserve", "bind"} => plan[Bench[d]] = NoPlan
         /\ pc[d] = "bind" => alloc[Key(d)] # 0 /\ panel[d] = Panels[alloc[Key(d)]]
         /\ pc[d] \in OnCells \cup {"returned", "promote"} =>
              plan[Bench[d]] # NoPlan /\ panel[d] = Panels[plan[Bench[d]].panel]

(* The attempt that a save has inserted is there when the row is updated.  *)
AttemptOf(d, s) == [status |-> s, owner |-> Owner[d]]

Audited ==
  /\ OutcomesAreAudited
  /\ \A d \in Drivers :
       /\ pc[d] = "voidrelease" =>
            AttemptOf(d, "failed") \in Range(attempts[Bench[d]][Cell(d)])
       /\ pc[d] = "release" =>
            AttemptOf(d, want[d]) \in Range(attempts[Bench[d]][Cell(d)])

(* What a summary counts as complete has a completed attempt.              *)
Completed(b, c) == \E i \in DOMAIN attempts[b][c] : attempts[b][c][i].status = "complete"

Measured == \A d \in Drivers : \A c \in good[d] : Completed(Bench[d], c)

(* Whoever promotes has counted its whole panel, so that the active        *)
(* candidate has; whoever is about to save a decision has it active.       *)
Backed ==
  /\ \A d \in Drivers : pc[d] = "promote" => Complete(d) /\ result[d] = "decided"
  /\ active # None =>
       /\ plan[active] # NoPlan
       /\ \A c \in Range(Panels[plan[active].panel]) : Completed(active, c)
  /\ \A d \in Drivers : pc[d] = "store" /\ result[d] = "decided" => active = Bench[d]
  /\ DecidedIsActive

(* A driver of a held-out panel has found a completed smoke.               *)
SmokeRan(b) == \E c \in Range(SmokePanel) : Completed(b, c)

HeldOut ==
  /\ \A d \in Drivers \ Smokes : pc[d] \in Inside => SmokeRan(Bench[d])
  /\ \A b \in Benchmarks : \A c \in Cells \ Range(SmokePanel) :
       row[b][c].status # "none" => SmokeRan(b)

(* The number that a cell gets next was used already only if one more      *)
(* execution was lost, or is one that stands at its save.                  *)
AtSave(d, b, c) == Bench[d] = b /\ pc[d] = "attempt" /\ Cell(d) = c

Numbered ==
  \A b \in Benchmarks, c \in Cells :
    /\ IsFiniteSet(Range(ran[b][c]))
    /\ \A n \in Range(ran[b][c]) : n <= Len(attempts[b][c])
    /\ Len(ran[b][c]) <= lost[b][c] + Cardinality(Range(ran[b][c]))
    /\ Len(attempts[b][c]) \in Range(ran[b][c]) =>
         \/ \E d \in Drivers : AtSave(d, b, c)
         \/ Len(ran[b][c]) < lost[b][c] + Cardinality(Range(ran[b][c]))

IInv ==
  /\ TableTypes /\ RowTypes /\ AttemptTypes /\ WalkTypes /\ HistoryTypes /\ JobTypes
  /\ Locked /\ Walking /\ Bound
  /\ OwnerRunsCell /\ PanelsAreExclusive /\ Audited /\ Measured /\ Backed /\ HeldOut
  /\ Numbered

-----------------------------------------------------------------------------

USE DEF tables, walk, history, jobVars, Goto, Leave, Forget, NextCell, Decide, Lock,
        LockOfTheDead, Key, Inside, AtWork, AtOneCell, OnCells, Saved

LEMMA Constants ==
  /\ Bench \in [Drivers -> Benchmarks]
  /\ Owner \in [Drivers -> Range(Owner)]
  /\ Inputs \in [Drivers -> Range(Inputs)]
  /\ Outcomes \in [Drivers -> SUBSET Saved]
  /\ None \notin Drivers
  /\ None \notin Benchmarks
BY DriverAssumption

LEMMA PanelTypes ==
  /\ DOMAIN Panels \subseteq Nat \ {0}
  /\ \A i \in DOMAIN Panels : Panels[i] \in Seq(Cells)
  /\ SmokePanel \in Seq(Cells)
  /\ \A i \in DOMAIN Panels : Range(Panels[i]) \subseteq Cells
  /\ Range(SmokePanel) \subseteq Cells
BY DriverAssumption DEF Range

LEMMA RangeAppend ==
  ASSUME NEW S, NEW s \in Seq(S), NEW x \in S
  PROVE  Range(Append(s, x)) = Range(s) \cup {x}
<1>1. DOMAIN Append(s, x) = DOMAIN s \cup {Len(s) + 1}
  OBVIOUS
<1>. QED  BY <1>1 DEF Range

(* A set of numbers has a least one: there is a first free panel.          *)
LEMMA MinimalExists ==
  ASSUME NEW R, NEW Z, IsWellFoundedOn(R, Z), NEW S, S \subseteq Z, S # {},
         \A x \in Z, y \in Z : x < y => <<x, y>> \in R
  PROVE  \E i \in S : \A j \in S : ~(j < i)
<1>1. PICK i \in S : \A j \in S : ~(<<j, i>> \in R)
  BY WFMin
<1>. QED  BY <1>1, Zenon

LEMMA LeastExists ==
  ASSUME NEW S, S \subseteq Nat, S # {}
  PROVE  \E i \in S : \A j \in S : i <= j
<1>1. \A x \in Nat, y \in Nat : x < y => <<x, y>> \in OpToRel(<, Nat)
  BY DEF OpToRel
<1>2. PICK i \in S : \A j \in S : ~(j < i)
  BY <1>1, NatLessThanWellFounded, MinimalExists, Zenon
<1>. QED  BY <1>2

LEMMA FirstFree ==
  ASSUME Free # {}
  PROVE  (CHOOSE i \in Free : \A j \in Free : i <= j) \in Free
<1>1. Free \subseteq Nat
  BY PanelTypes DEF Free
<1>2. \E i \in Free : \A j \in Free : i <= j
  BY <1>1, LeastExists
<1>. QED  BY <1>2, Zenon

LEMMA InitIInv == Init => IInv
<1> SUFFICES ASSUME Init PROVE IInv
  OBVIOUS
<1> USE DEF Init, DriverInit
<1>1. \A b \in Benchmarks, c \in Cells : InitialRow(b, c) \in {NoRow, DoneRow}
  BY DEF InitialRow
<1>2. NoRow # DoneRow
  BY DEF NoRow, DoneRow
<1>3. TableTypes
  BY DEF TableTypes, NoPlan
<1>4. RowTypes
  <2>1. NoRow \in [status : Statuses, owner : Range(Owner) \cup {None}, sound : BOOLEAN]
    BY DEF NoRow, Statuses
  <2>2. DoneRow \in [status : Statuses, owner : Range(Owner) \cup {None}, sound : BOOLEAN]
    BY DEF DoneRow, Statuses
  <2>. QED  BY <1>1, <2>1, <2>2 DEF RowTypes
<1>5. AttemptTypes
  <2>1. <<>> \in Seq(Attempts)
    OBVIOUS
  <2>2. << [status |-> "complete", owner |-> None] >> \in Seq(Attempts)
    BY DEF Attempts
  <2>. QED  BY <2>1, <2>2 DEF AttemptTypes
<1>6. WalkTypes
  BY DEF WalkTypes, Statuses, Places
<1>7. HistoryTypes /\ JobTypes
  BY DEF HistoryTypes, JobTypes
<1>8. Locked /\ Walking /\ Bound /\ OwnerRunsCell
  BY Constants DEF Locked, Walking, Bound, OwnerRunsCell
<1>9. PanelsAreExclusive
  BY DEF PanelsAreExclusive
<1>10. Audited
  BY <1>1, <1>2 DEF Audited, OutcomesAreAudited, NoRow, DoneRow, Range
<1>11. Measured /\ Backed
  BY Constants DEF Measured, Backed, DecidedIsActive
<1>12. HeldOut
  <2>1. ASSUME NEW b \in Benchmarks, NEW c \in Cells \ Range(SmokePanel)
        PROVE  row[b][c].status = "none"
    BY <2>1 DEF InitialRow, NoRow
  <2>. QED  BY <2>1 DEF HeldOut
<1>13. Numbered
  <2> SUFFICES ASSUME NEW b \in Benchmarks, NEW c \in Cells
      PROVE  /\ IsFiniteSet(Range(ran[b][c])) /\ Range(ran[b][c]) = {} /\ Len(ran[b][c]) = 0
             /\ lost[b][c] = 0 /\ Cardinality(Range(ran[b][c])) = 0
    BY DEF Numbered
  <2>1. ran[b][c] = <<>> /\ lost[b][c] = 0
    OBVIOUS
  <2>2. Range(<< >>) = {}
    BY DEF Range
  <2>. QED  BY <2>1, <2>2, FS_EmptySet
<1>. QED  BY <1>3, <1>4, <1>5, <1>6, <1>7, <1>8, <1>9, <1>10, <1>11, <1>12, <1>13 DEF IInv

(* The cell that a driver stands on is one.                                *)
LEMMA CellType ==
  ASSUME IInv, NEW d \in Drivers, pc[d] \in AtOneCell \/ AtCell(d)
  PROVE  Cell(d) \in Cells /\ at[d] \in DOMAIN panel[d]
BY DEF IInv, WalkTypes, Walking, AtCell, Cell

(* Two drivers of a benchmark are not both inside.                         *)
LEMMA AtCellInside == ASSUME NEW d \in Drivers, AtCell(d) PROVE pc[d] \in Inside
BY DEF AtCell

LEMMA OneInside ==
  ASSUME IInv, NEW d \in Drivers, NEW e \in Drivers,
         pc[d] \in Inside, pc[e] \in Inside, Bench[d] = Bench[e]
  PROVE  d = e
BY DEF IInv, Locked

(* What the parts of a step do to the tables.                              *)
LEMMA CompletedInRange ==
  ASSUME NEW b, NEW c
  PROVE  Completed(b, c) <=> \E a \in Range(attempts[b][c]) : a.status = "complete"
BY DEF Completed, Range

LEMMA SaveAttemptAdds ==
  ASSUME AttemptTypes, NEW d \in Drivers, Cell(d) \in Cells, NEW s \in Saved, SaveAttempt(d, s)
  PROVE  /\ AttemptTypes'
         /\ \A b \in Benchmarks, c \in Cells :
              /\ Range(attempts[b][c]) \subseteq Range(attempts'[b][c])
              /\ Len(attempts'[b][c]) = Len(attempts[b][c]) +
                   IF b = Bench[d] /\ c = Cell(d) THEN 1 ELSE 0
         /\ AttemptOf(d, s) \in Range(attempts'[Bench[d]][Cell(d)])
         /\ \A b \in Benchmarks, c \in Cells : Completed(b, c) => Completed(b, c)'
<1> DEFINE old == attempts[Bench[d]][Cell(d)]
<1>1. Bench[d] \in Benchmarks /\ AttemptOf(d, s) \in Attempts
  BY Constants DEF Attempts, AttemptOf
<1>2. old \in Seq(Attempts) /\ \A b \in Benchmarks, c \in Cells : attempts[b][c] \in Seq(Attempts)
  BY <1>1 DEF AttemptTypes
<1>3. attempts' = [attempts EXCEPT ![Bench[d]] = [@ EXCEPT ![Cell(d)] =
                     Append(old, AttemptOf(d, s))]]
  BY DEF SaveAttempt, AttemptOf
<1>4. Append(old, AttemptOf(d, s)) \in Seq(Attempts)
  BY <1>1, <1>2
<1>5. Len(Append(old, AttemptOf(d, s))) = Len(old) + 1
  BY <1>1, <1>2
<1>6. Range(Append(old, AttemptOf(d, s))) = Range(old) \cup {AttemptOf(d, s)}
  BY <1>1, <1>2, RangeAppend
<1>7. \A b \in Benchmarks, c \in Cells : Len(attempts[b][c]) \in Nat
  BY <1>2
<1> HIDE DEF old
<1>8. /\ attempts'[Bench[d]][Cell(d)] = Append(old, AttemptOf(d, s))
      /\ \A b \in Benchmarks, c \in Cells :
           ~(b = Bench[d] /\ c = Cell(d)) => attempts'[b][c] = attempts[b][c]
  BY <1>1, <1>3 DEF AttemptTypes
<1>9. AttemptTypes'
  BY <1>1, <1>3, <1>4 DEF AttemptTypes
<1>10. \A b \in Benchmarks, c \in Cells :
         /\ Range(attempts[b][c]) \subseteq Range(attempts'[b][c])
         /\ Len(attempts'[b][c]) = Len(attempts[b][c]) +
              IF b = Bench[d] /\ c = Cell(d) THEN 1 ELSE 0
  <2> SUFFICES ASSUME NEW b \in Benchmarks, NEW c \in Cells
      PROVE  /\ Range(attempts[b][c]) \subseteq Range(attempts'[b][c])
             /\ Len(attempts'[b][c]) = Len(attempts[b][c]) +
                  IF b = Bench[d] /\ c = Cell(d) THEN 1 ELSE 0
    OBVIOUS
  <2>1. CASE b = Bench[d] /\ c = Cell(d)
    BY <1>5, <1>6, <1>8, <2>1 DEF old
  <2>2. CASE ~(b = Bench[d] /\ c = Cell(d))
    <3>1. attempts'[b][c] = attempts[b][c] /\ Len(attempts[b][c]) \in Nat
      BY <1>7, <1>8, <2>2
    <3>2. Len(attempts'[b][c]) = Len(attempts[b][c]) + 0
      BY <3>1
    <3>. QED  BY <2>2, <3>1, <3>2
  <2>. QED  BY <2>1, <2>2
<1>11. \A b \in Benchmarks, c \in Cells :
         Completed(b, c)' <=> \E a \in Range(attempts'[b][c]) : a.status = "complete"
  BY DEF Completed, Range
<1>12. \A b \in Benchmarks, c \in Cells : Completed(b, c) => Completed(b, c)'
  BY <1>10, <1>11, CompletedInRange
<1>. QED  BY <1>6, <1>8, <1>9, <1>10, <1>12

LEMMA SetStatusSets ==
  ASSUME RowTypes, NEW d \in Drivers, Cell(d) \in Cells, NEW s \in Statuses, SetStatus(d, s)
  PROVE  /\ RowTypes'
         /\ row'[Bench[d]][Cell(d)].status = s
         /\ row'[Bench[d]][Cell(d)].owner = row[Bench[d]][Cell(d)].owner
         /\ \A b \in Benchmarks, c \in Cells :
              ~(b = Bench[d] /\ c = Cell(d)) => row'[b][c] = row[b][c]
<1> DEFINE old == row[Bench[d]][Cell(d)]
           new == [old EXCEPT !.status = s, !.sound = (s = "complete")]
           R == [status : Statuses, owner : Range(Owner) \cup {None}, sound : BOOLEAN]
<1>1. Bench[d] \in Benchmarks
  BY Constants
<1>2. old \in R
  BY <1>1 DEF RowTypes
<1>3. (s = "complete") \in BOOLEAN
  OBVIOUS
<1>4. new \in R /\ new.status = s /\ new.owner = old.owner
  BY <1>2, <1>3
<1>5. row' = [row EXCEPT ![Bench[d]] = [@ EXCEPT ![Cell(d)] = new]]
  BY DEF SetStatus
<1> HIDE DEF new
<1>6. RowTypes'
  BY <1>1, <1>4, <1>5 DEF RowTypes
<1>7. /\ row'[Bench[d]][Cell(d)] = new
      /\ \A b \in Benchmarks, c \in Cells :
           ~(b = Bench[d] /\ c = Cell(d)) => row'[b][c] = row[b][c]
  BY <1>1, <1>5 DEF RowTypes
<1>. QED  BY <1>4, <1>6, <1>7

(* The lock is taken by who comes in and given back by who goes out.       *)
LEMMA LockTaken ==
  ASSUME IInv, NEW d \in Drivers, NEW l \in Inside, pc[d] \notin Inside, Lock(d), Goto(d, l)
  PROVE  Locked'
<1>1. /\ lock' = [lock EXCEPT ![Bench[d]] = d] /\ lock[Bench[d]] = None
      /\ Bench[d] \in Benchmarks /\ lock' \in [Benchmarks -> Drivers \cup {None}]
  BY Constants DEF IInv, TableTypes
<1>2. pc' = [pc EXCEPT ![d] = l] /\ pc \in [Drivers -> Places]
  BY DEF IInv, WalkTypes
<1>3. ASSUME NEW e \in Drivers PROVE pc'[e] \in Inside <=> lock'[Bench[e]] = e
  BY <1>1, <1>2, Constants DEF IInv, TableTypes, Locked
<1>4. ASSUME NEW b \in Benchmarks, lock'[b] # None PROVE Bench[lock'[b]] = b
  BY <1>1, <1>4 DEF IInv, TableTypes, Locked
<1>. QED  BY <1>3, <1>4 DEF Locked

LEMMA LockGiven ==
  ASSUME IInv, NEW d \in Drivers, NEW l, l \notin Inside, pc[d] \in Inside, Leave(d, l)
  PROVE  Locked'
BY Constants, ZenonT(40) DEF IInv, TableTypes, WalkTypes, Locked

(* The numbers of the cells stand while nobody comes to a save or leaves   *)
(* one.                                                                    *)
LEMMA NumberedStands ==
  ASSUME Numbered, UNCHANGED <<ran, lost, attempts>>,
         \A e \in Drivers : \A b \in Benchmarks, c \in Cells : AtSave(e, b, c) => AtSave(e, b, c)'
  PROVE  Numbered'
BY DEF Numbered

(* What a decision rests on stands while no driver comes to promote or to  *)
(* save one.                                                               *)
LEMMA BackedStands ==
  ASSUME TableTypes, JobTypes, Backed, UNCHANGED active,
         \A x \in Benchmarks, c \in Cells : Completed(x, c) => Completed(x, c)',
         \A x \in Benchmarks : plan[x] # NoPlan => plan'[x] = plan[x],
         \A x \in Benchmarks : job'[x] = "decided" => active = x,
         \A e \in Drivers : pc'[e] = "promote" => Complete(e)' /\ result'[e] = "decided",
         \A e \in Drivers : pc'[e] = "store" /\ result'[e] = "decided" =>
                              pc[e] = "store" /\ result[e] = "decided"
  PROVE  Backed'
<1>1. ASSUME active # None
      PROVE  /\ plan'[active] # NoPlan
             /\ \A c \in Range(Panels[plan'[active].panel]) : Completed(active, c)'
  <2>1. active \in Benchmarks /\ plan[active] # NoPlan /\ plan'[active] = plan[active]
    BY <1>1 DEF JobTypes, Backed
  <2>2. plan[active].panel \in DOMAIN Panels
    BY <2>1 DEF TableTypes
  <2>. QED  BY <1>1, <2>1, <2>2, PanelTypes DEF Backed
<1>. QED  BY <1>1 DEF Backed, DecidedIsActive

(* A smoke that is complete and verifies has a completed attempt.          *)
LEMMA SmokeFound ==
  ASSUME Audited, NEW b \in Benchmarks, SmokeComplete(b)
  PROVE  SmokeRan(b)
<1>1. PICK c \in Range(SmokePanel) : row[b][c].status = "complete"
  BY DEF SmokeComplete
<1>2. [status |-> "complete", owner |-> row[b][c].owner] \in Range(attempts[b][c])
  BY <1>1, PanelTypes DEF Audited, OutcomesAreAudited
<1>. QED  BY <1>1, <1>2, CompletedInRange DEF SmokeRan

LEMMA PlannedPanel ==
  ASSUME TableTypes, NEW b \in Benchmarks, plan[b] # NoPlan
  PROVE  plan[b].panel \in DOMAIN Panels /\ plan[b].inputs \in Range(Inputs)
BY DEF TableTypes

-----------------------------------------------------------------------------
(* One lemma per action.  Reading the plan and reserving a panel have two  *)
(* ways to go each.                                                        *)
FindsNoPlan(d) ==
  /\ pc[d] = "lock" /\ d \notin Smokes
  /\ Lock(d)
  /\ SmokeComplete(Bench[d])
  /\ plan[Bench[d]] = NoPlan
  /\ Goto(d, "reserve")
  /\ UNCHANGED <<tables, walk, history>>

FindsPlan(d) ==
  /\ pc[d] = "lock" /\ d \notin Smokes
  /\ Lock(d)
  /\ SmokeComplete(Bench[d])
  /\ plan[Bench[d]] # NoPlan
  /\ panel' = [panel EXCEPT ![d] = Panels[plan[Bench[d]].panel]]
  /\ Goto(d, "cell")
  /\ UNCHANGED <<tables, at, want, good, history>>

GetsNoPanel(d) ==
  /\ pc[d] = "reserve"
  /\ Leave(d, "raised")
  /\ UNCHANGED <<tables, walk, history>>

GetsPanel(d, i) ==
  /\ pc[d] = "reserve"
  /\ i = alloc[Key(d)] \/ (alloc[Key(d)] = 0 /\ i \notin Taken)
  /\ alloc' = [alloc EXCEPT ![Key(d)] = i]
  /\ panel' = [panel EXCEPT ![d] = Panels[i]]
  /\ Goto(d, "bind")
  /\ UNCHANGED <<lock, plan, row, attempts, at, want, good, history>>

FailsItsCell(d) ==
  /\ pc[d] = "voidrelease"
  /\ Mine(d)
  /\ SetStatus(d, "failed")
  /\ Goto(d, "cell")
  /\ UNCHANGED <<lock, plan, alloc, attempts, walk, history>>

LeavesOtherCell(d) ==
  /\ pc[d] = "voidrelease"
  /\ Leave(d, "raised")
  /\ UNCHANGED <<tables, walk, history>>

LEMMA VoidReleaseCases ==
  ASSUME NEW d \in Drivers, VoidRelease(d)
  PROVE  FailsItsCell(d) \/ LeavesOtherCell(d)
BY DEF VoidRelease, FailsItsCell, LeavesOtherCell

LEMMA ReadPlanCases ==
  ASSUME NEW d \in Drivers, ReadPlan(d)
  PROVE  FindsNoPlan(d) \/ FindsPlan(d)
BY DEF ReadPlan, Refused, FindsNoPlan, FindsPlan

LEMMA ReserveCases ==
  ASSUME IInv, NEW d \in Drivers, Reserve(d)
  PROVE  GetsNoPanel(d) \/ \E i \in DOMAIN Panels : GetsPanel(d, i)
<1> DEFINE first == CHOOSE i \in Free : \A j \in Free : i <= j
<1>1. Key(d) \in DOMAIN alloc /\ alloc[Key(d)] \in {0} \cup DOMAIN Panels
  BY Constants DEF IInv, TableTypes
<1>2. Free \subseteq DOMAIN Panels /\ Free \cap Taken = {} /\ 0 \notin DOMAIN Panels
  BY PanelTypes DEF Free
<1>3. CASE alloc[Key(d)] # 0
  <2>1. alloc' = [alloc EXCEPT ![Key(d)] = alloc[Key(d)]] /\ alloc'[Key(d)] = alloc[Key(d)]
    BY <1>1, <1>3 DEF Reserve, IInv, TableTypes
  <2>2. GetsPanel(d, alloc[Key(d)])
    BY <1>3, <2>1 DEF Reserve, GetsPanel
  <2>. QED  BY <1>1, <1>3, <2>2
<1>4. CASE alloc[Key(d)] = 0 /\ Free # {}
  <2>1. first \in Free
    BY <1>4, FirstFree
  <2>2. alloc' = [alloc EXCEPT ![Key(d)] = first]
    BY <1>4 DEF Reserve
  <2> HIDE DEF first
  <2>3. alloc'[Key(d)] = first /\ first # 0
    BY <1>1, <1>2, <2>1, <2>2
  <2>4. GetsPanel(d, first)
    BY <1>2, <1>4, <2>1, <2>2, <2>3 DEF Reserve, GetsPanel
  <2>. QED  BY <1>2, <2>1, <2>4
<1>5. CASE alloc[Key(d)] = 0 /\ Free = {}
  BY <1>5 DEF Reserve, GetsNoPanel
<1>. QED  BY <1>3, <1>4, <1>5

LEMMA BeginStep ==
  ASSUME IInv, NEW d \in Drivers, Begin(d)
  PROVE  IInv'
<1> USE DEF IInv, Begin, Call
<1>g. \A x \in Benchmarks, c \in Cells : Completed(x, c) => Completed(x, c)'
  BY DEF Completed
<1>h. \A x \in Benchmarks : SmokeRan(x) => SmokeRan(x)'
  BY <1>g, PanelTypes DEF SmokeRan
<1>1. TableTypes'
  BY Constants DEF TableTypes
<1>2. RowTypes'
  BY Constants DEF RowTypes, Statuses
<1>3. AttemptTypes'
  BY Constants DEF AttemptTypes, Attempts
<1>4. WalkTypes'
  BY PanelTypes DEF WalkTypes, Places, Statuses
<1>5. HistoryTypes'
  BY Constants DEF HistoryTypes
<1>6. JobTypes'
  BY Constants DEF JobTypes
<1>7. Locked'
  BY Constants DEF Locked, TableTypes, WalkTypes
<1>8. Walking'
  BY DEF Walking, WalkTypes
<1>9. Bound'
  BY Constants DEF Bound
<1>10. OwnerRunsCell'
  BY Constants DEF OwnerRunsCell, Mine, Row, Cell
<1>11. PanelsAreExclusive'
  BY DEF PanelsAreExclusive, Bound, NoPlan, TableTypes
<1>12. Audited'
  BY Constants DEF Audited, OutcomesAreAudited, Cell
<1>13. Measured'
  BY <1>g, Constants DEF Measured, WalkTypes
<1>14. Backed'
  <2>1. \A e \in Drivers : pc'[e] = "promote" => Complete(e)' /\ result'[e] = "decided"
    BY DEF Backed, Complete, WalkTypes, JobTypes
  <2>2. \A e \in Drivers : pc'[e] = "store" /\ result'[e] = "decided" =>
                             pc[e] = "store" /\ result[e] = "decided"
    BY DEF WalkTypes, JobTypes
  <2>3. \A x \in Benchmarks : job'[x] = "decided" => active = x
    BY DEF Backed, DecidedIsActive, JobTypes
  <2>4. \A x \in Benchmarks : plan[x] # NoPlan => plan'[x] = plan[x]
    BY DEF Bound, TableTypes
  <2>. QED  BY <1>g, <2>1, <2>2, <2>3, <2>4, BackedStands
<1>15. HeldOut'
  BY <1>h, Constants DEF HeldOut, WalkTypes
<1>16. Numbered'
  <2>1. \A e \in Drivers : \A x \in Benchmarks, c \in Cells : AtSave(e, x, c) => AtSave(e, x, c)'
    BY DEF WalkTypes, AtSave, Cell
  <2>. QED  BY <2>1, NumberedStands
<1>. QED  BY <1>1, <1>2, <1>3, <1>4, <1>5, <1>6, <1>7, <1>8, <1>9, <1>10, <1>11, <1>12, <1>13, <1>14, <1>15, <1>16

LEMMA SmokeStep ==
  ASSUME IInv, NEW d \in Drivers, Smoke(d), UNCHANGED jobVars
  PROVE  IInv'
<1> USE DEF IInv, Smoke
<1>g. \A x \in Benchmarks, c \in Cells : Completed(x, c) => Completed(x, c)'
  BY DEF Completed
<1>h. \A x \in Benchmarks : SmokeRan(x) => SmokeRan(x)'
  BY <1>g, PanelTypes DEF SmokeRan
<1>1. TableTypes'
  BY Constants DEF TableTypes
<1>2. RowTypes'
  BY Constants DEF RowTypes, Statuses
<1>3. AttemptTypes'
  BY Constants DEF AttemptTypes, Attempts
<1>4. WalkTypes'
  BY PanelTypes DEF WalkTypes, Places, Statuses
<1>5. HistoryTypes'
  BY Constants DEF HistoryTypes
<1>6. JobTypes'
  BY Constants DEF JobTypes
<1>7. Locked'
  BY LockTaken
<1>8. Walking'
  BY DEF Walking, WalkTypes
<1>9. Bound'
  BY Constants DEF Bound, WalkTypes
<1>10. OwnerRunsCell'
  BY Constants DEF OwnerRunsCell, Mine, Row, Cell
<1>11. PanelsAreExclusive'
  BY DEF PanelsAreExclusive, Bound, NoPlan, TableTypes
<1>12. Audited'
  BY Constants DEF Audited, OutcomesAreAudited, Cell
<1>13. Measured'
  BY <1>g, Constants DEF Measured, WalkTypes
<1>14. Backed'
  <2>1. \A e \in Drivers : pc'[e] = "promote" => Complete(e)' /\ result'[e] = "decided"
    BY DEF Backed, Complete, WalkTypes, JobTypes
  <2>2. \A e \in Drivers : pc'[e] = "store" /\ result'[e] = "decided" =>
                             pc[e] = "store" /\ result[e] = "decided"
    BY DEF WalkTypes, JobTypes
  <2>3. \A x \in Benchmarks : job'[x] = "decided" => active = x
    BY DEF Backed, DecidedIsActive, JobTypes
  <2>4. \A x \in Benchmarks : plan[x] # NoPlan => plan'[x] = plan[x]
    BY DEF Bound, TableTypes
  <2>. QED  BY <1>g, <2>1, <2>2, <2>3, <2>4, BackedStands
<1>15. HeldOut'
  BY <1>h, Constants DEF HeldOut, WalkTypes
<1>16. Numbered'
  <2>1. \A e \in Drivers : \A x \in Benchmarks, c \in Cells : AtSave(e, x, c) => AtSave(e, x, c)'
    BY DEF WalkTypes, AtSave, Cell
  <2>. QED  BY <2>1, NumberedStands
<1>. QED  BY <1>1, <1>2, <1>3, <1>4, <1>5, <1>6, <1>7, <1>8, <1>9, <1>10, <1>11, <1>12, <1>13, <1>14, <1>15, <1>16

LEMMA RefuseRunStep ==
  ASSUME IInv, NEW d \in Drivers, RefuseRun(d), UNCHANGED jobVars
  PROVE  IInv'
<1> USE DEF IInv, RefuseRun
<1>g. \A x \in Benchmarks, c \in Cells : Completed(x, c) => Completed(x, c)'
  BY DEF Completed
<1>h. \A x \in Benchmarks : SmokeRan(x) => SmokeRan(x)'
  BY <1>g, PanelTypes DEF SmokeRan
<1>1. TableTypes'
  BY Constants DEF TableTypes
<1>2. RowTypes'
  BY Constants DEF RowTypes, Statuses
<1>3. AttemptTypes'
  BY Constants DEF AttemptTypes, Attempts
<1>4. WalkTypes'
  BY PanelTypes DEF WalkTypes, Places, Statuses
<1>5. HistoryTypes'
  BY Constants DEF HistoryTypes
<1>6. JobTypes'
  BY Constants DEF JobTypes
<1>7. Locked'
  BY Constants DEF Locked, TableTypes, WalkTypes
<1>8. Walking'
  BY DEF Walking, WalkTypes
<1>9. Bound'
  BY Constants DEF Bound
<1>10. OwnerRunsCell'
  BY Constants DEF OwnerRunsCell, Mine, Row, Cell
<1>11. PanelsAreExclusive'
  BY DEF PanelsAreExclusive, Bound, NoPlan, TableTypes
<1>12. Audited'
  BY Constants DEF Audited, OutcomesAreAudited, Cell
<1>13. Measured'
  BY <1>g, Constants DEF Measured, WalkTypes
<1>14. Backed'
  <2>1. \A e \in Drivers : pc'[e] = "promote" => Complete(e)' /\ result'[e] = "decided"
    BY DEF Backed, Complete, WalkTypes, JobTypes
  <2>2. \A e \in Drivers : pc'[e] = "store" /\ result'[e] = "decided" =>
                             pc[e] = "store" /\ result[e] = "decided"
    BY DEF WalkTypes, JobTypes
  <2>3. \A x \in Benchmarks : job'[x] = "decided" => active = x
    BY DEF Backed, DecidedIsActive, JobTypes
  <2>4. \A x \in Benchmarks : plan[x] # NoPlan => plan'[x] = plan[x]
    BY DEF Bound, TableTypes
  <2>. QED  BY <1>g, <2>1, <2>2, <2>3, <2>4, BackedStands
<1>15. HeldOut'
  BY <1>h, Constants DEF HeldOut, WalkTypes
<1>16. Numbered'
  <2>1. \A e \in Drivers : \A x \in Benchmarks, c \in Cells : AtSave(e, x, c) => AtSave(e, x, c)'
    BY DEF WalkTypes, AtSave, Cell
  <2>. QED  BY <2>1, NumberedStands
<1>. QED  BY <1>1, <1>2, <1>3, <1>4, <1>5, <1>6, <1>7, <1>8, <1>9, <1>10, <1>11, <1>12, <1>13, <1>14, <1>15, <1>16

LEMMA FindsNoPlanStep ==
  ASSUME IInv, NEW d \in Drivers, FindsNoPlan(d), UNCHANGED jobVars
  PROVE  IInv'
<1> USE DEF IInv, FindsNoPlan
<1>g. \A x \in Benchmarks, c \in Cells : Completed(x, c) => Completed(x, c)'
  BY DEF Completed
<1>h. \A x \in Benchmarks : SmokeRan(x) => SmokeRan(x)'
  BY <1>g, PanelTypes DEF SmokeRan
<1>1. TableTypes'
  BY Constants DEF TableTypes
<1>2. RowTypes'
  BY Constants DEF RowTypes, Statuses
<1>3. AttemptTypes'
  BY Constants DEF AttemptTypes, Attempts
<1>4. WalkTypes'
  BY PanelTypes DEF WalkTypes, Places, Statuses
<1>5. HistoryTypes'
  BY Constants DEF HistoryTypes
<1>6. JobTypes'
  BY Constants DEF JobTypes
<1>7. Locked'
  BY LockTaken
<1>8. Walking'
  BY DEF Walking, WalkTypes
<1>9. Bound'
  BY Constants DEF Bound
<1>10. OwnerRunsCell'
  BY Constants DEF OwnerRunsCell, Mine, Row, Cell
<1>11. PanelsAreExclusive'
  BY DEF PanelsAreExclusive, Bound, NoPlan, TableTypes
<1>12. Audited'
  BY Constants DEF Audited, OutcomesAreAudited, Cell
<1>13. Measured'
  BY <1>g, Constants DEF Measured, WalkTypes
<1>14. Backed'
  <2>1. \A e \in Drivers : pc'[e] = "promote" => Complete(e)' /\ result'[e] = "decided"
    BY DEF Backed, Complete, WalkTypes, JobTypes
  <2>2. \A e \in Drivers : pc'[e] = "store" /\ result'[e] = "decided" =>
                             pc[e] = "store" /\ result[e] = "decided"
    BY DEF WalkTypes, JobTypes
  <2>3. \A x \in Benchmarks : job'[x] = "decided" => active = x
    BY DEF Backed, DecidedIsActive, JobTypes
  <2>4. \A x \in Benchmarks : plan[x] # NoPlan => plan'[x] = plan[x]
    BY DEF Bound, TableTypes
  <2>. QED  BY <1>g, <2>1, <2>2, <2>3, <2>4, BackedStands
<1>15. HeldOut'
  <2>1. SmokeRan(Bench[d])
    BY Constants, SmokeFound
  <2>. QED  BY <1>h, <2>1, Constants DEF HeldOut, WalkTypes
<1>16. Numbered'
  <2>1. \A e \in Drivers : \A x \in Benchmarks, c \in Cells : AtSave(e, x, c) => AtSave(e, x, c)'
    BY DEF WalkTypes, AtSave, Cell
  <2>. QED  BY <2>1, NumberedStands
<1>. QED  BY <1>1, <1>2, <1>3, <1>4, <1>5, <1>6, <1>7, <1>8, <1>9, <1>10, <1>11, <1>12, <1>13, <1>14, <1>15, <1>16

LEMMA FindsPlanStep ==
  ASSUME IInv, NEW d \in Drivers, FindsPlan(d), UNCHANGED jobVars
  PROVE  IInv'
<1> USE DEF IInv, FindsPlan
<1>p. plan[Bench[d]].panel \in DOMAIN Panels /\ Panels[plan[Bench[d]].panel] \in Seq(Cells)
  BY Constants, PanelTypes, PlannedPanel
<1>g. \A x \in Benchmarks, c \in Cells : Completed(x, c) => Completed(x, c)'
  BY DEF Completed
<1>h. \A x \in Benchmarks : SmokeRan(x) => SmokeRan(x)'
  BY <1>g, PanelTypes DEF SmokeRan
<1>1. TableTypes'
  BY Constants DEF TableTypes
<1>2. RowTypes'
  BY Constants DEF RowTypes, Statuses
<1>3. AttemptTypes'
  BY Constants DEF AttemptTypes, Attempts
<1>4. WalkTypes'
  BY <1>p DEF WalkTypes, Places
<1>5. HistoryTypes'
  BY Constants DEF HistoryTypes
<1>6. JobTypes'
  BY Constants DEF JobTypes
<1>7. Locked'
  BY LockTaken
<1>8. Walking'
  BY DEF Walking, WalkTypes
<1>9. Bound'
  BY Constants DEF Bound, WalkTypes
<1>10. OwnerRunsCell'
  <2>1. \A e \in Drivers : pc'[e] \in AtWork => pc[e] \in AtWork /\ Cell(e)' = Cell(e)
    BY DEF WalkTypes, Cell
  <2>. QED  BY <2>1 DEF OwnerRunsCell, Mine, Row
<1>11. PanelsAreExclusive'
  BY DEF PanelsAreExclusive, Bound, NoPlan, TableTypes
<1>12. Audited'
  <2>1. \A e \in Drivers : pc'[e] \in {"release", "voidrelease"} =>
          pc'[e] = pc[e] /\ Cell(e)' = Cell(e)
    BY DEF WalkTypes, Cell
  <2>. QED  BY <2>1 DEF Audited, OutcomesAreAudited, AttemptOf
<1>13. Measured'
  BY <1>g, Constants DEF Measured, WalkTypes
<1>14. Backed'
  <2>1. \A e \in Drivers : pc'[e] = "promote" => Complete(e)' /\ result'[e] = "decided"
    BY DEF Backed, Complete, WalkTypes, JobTypes
  <2>2. \A e \in Drivers : pc'[e] = "store" /\ result'[e] = "decided" =>
                             pc[e] = "store" /\ result[e] = "decided"
    BY DEF WalkTypes, JobTypes
  <2>3. \A x \in Benchmarks : job'[x] = "decided" => active = x
    BY DEF Backed, DecidedIsActive, JobTypes
  <2>4. \A x \in Benchmarks : plan[x] # NoPlan => plan'[x] = plan[x]
    BY DEF Bound, TableTypes
  <2>. QED  BY <1>g, <2>1, <2>2, <2>3, <2>4, BackedStands
<1>15. HeldOut'
  <2>1. SmokeRan(Bench[d])
    BY Constants, SmokeFound
  <2>. QED  BY <1>h, <2>1, Constants DEF HeldOut, WalkTypes
<1>16. Numbered'
  <2>1. \A e \in Drivers : \A x \in Benchmarks, c \in Cells : AtSave(e, x, c) => AtSave(e, x, c)'
    BY DEF WalkTypes, AtSave, Cell
  <2>. QED  BY <2>1, NumberedStands
<1>. QED  BY <1>1, <1>2, <1>3, <1>4, <1>5, <1>6, <1>7, <1>8, <1>9, <1>10, <1>11, <1>12, <1>13, <1>14, <1>15, <1>16

LEMMA GetsNoPanelStep ==
  ASSUME IInv, NEW d \in Drivers, GetsNoPanel(d), UNCHANGED jobVars
  PROVE  IInv'
<1> USE DEF IInv, GetsNoPanel
<1>g. \A x \in Benchmarks, c \in Cells : Completed(x, c) => Completed(x, c)'
  BY DEF Completed
<1>h. \A x \in Benchmarks : SmokeRan(x) => SmokeRan(x)'
  BY <1>g, PanelTypes DEF SmokeRan
<1>1. TableTypes'
  BY Constants DEF TableTypes
<1>2. RowTypes'
  BY Constants DEF RowTypes, Statuses
<1>3. AttemptTypes'
  BY Constants DEF AttemptTypes, Attempts
<1>4. WalkTypes'
  BY PanelTypes DEF WalkTypes, Places, Statuses
<1>5. HistoryTypes'
  BY Constants DEF HistoryTypes
<1>6. JobTypes'
  BY Constants DEF JobTypes
<1>7. Locked'
  BY LockGiven
<1>8. Walking'
  BY DEF Walking, WalkTypes
<1>9. Bound'
  BY Constants DEF Bound
<1>10. OwnerRunsCell'
  BY Constants DEF OwnerRunsCell, Mine, Row, Cell
<1>11. PanelsAreExclusive'
  BY DEF PanelsAreExclusive, Bound, NoPlan, TableTypes
<1>12. Audited'
  BY Constants DEF Audited, OutcomesAreAudited, Cell
<1>13. Measured'
  BY <1>g, Constants DEF Measured, WalkTypes
<1>14. Backed'
  <2>1. \A e \in Drivers : pc'[e] = "promote" => Complete(e)' /\ result'[e] = "decided"
    BY DEF Backed, Complete, WalkTypes, JobTypes
  <2>2. \A e \in Drivers : pc'[e] = "store" /\ result'[e] = "decided" =>
                             pc[e] = "store" /\ result[e] = "decided"
    BY DEF WalkTypes, JobTypes
  <2>3. \A x \in Benchmarks : job'[x] = "decided" => active = x
    BY DEF Backed, DecidedIsActive, JobTypes
  <2>4. \A x \in Benchmarks : plan[x] # NoPlan => plan'[x] = plan[x]
    BY DEF Bound, TableTypes
  <2>. QED  BY <1>g, <2>1, <2>2, <2>3, <2>4, BackedStands
<1>15. HeldOut'
  BY <1>h, Constants DEF HeldOut, WalkTypes
<1>16. Numbered'
  <2>1. \A e \in Drivers : \A x \in Benchmarks, c \in Cells : AtSave(e, x, c) => AtSave(e, x, c)'
    BY DEF WalkTypes, AtSave, Cell
  <2>. QED  BY <2>1, NumberedStands
<1>. QED  BY <1>1, <1>2, <1>3, <1>4, <1>5, <1>6, <1>7, <1>8, <1>9, <1>10, <1>11, <1>12, <1>13, <1>14, <1>15, <1>16

LEMMA GetsPanelStep ==
  ASSUME IInv, NEW d \in Drivers, NEW i \in DOMAIN Panels, GetsPanel(d, i), UNCHANGED jobVars
  PROVE  IInv'
<1> USE DEF IInv, GetsPanel
<1>g. \A x \in Benchmarks, c \in Cells : Completed(x, c) => Completed(x, c)'
  BY DEF Completed
<1>h. \A x \in Benchmarks : SmokeRan(x) => SmokeRan(x)'
  BY <1>g, PanelTypes DEF SmokeRan
<1>1. TableTypes'
  BY Constants DEF TableTypes
<1>2. RowTypes'
  BY Constants DEF RowTypes, Statuses
<1>3. AttemptTypes'
  BY Constants DEF AttemptTypes, Attempts
<1>4. WalkTypes'
  BY PanelTypes DEF WalkTypes, Places, Statuses
<1>5. HistoryTypes'
  BY Constants DEF HistoryTypes
<1>6. JobTypes'
  BY Constants DEF JobTypes
<1>7. Locked'
  BY Constants DEF Locked, TableTypes, WalkTypes
<1>8. Walking'
  BY DEF Walking, WalkTypes
<1>9. Bound'
  <2>1. i # 0 /\ alloc'[Key(d)] = i /\ panel'[d] = Panels[i]
    BY Constants, PanelTypes DEF Bound, WalkTypes, TableTypes
  <2>2. ASSUME NEW e \in Drivers, e # d, pc[e] = "bind" PROVE alloc'[Key(e)] = alloc[Key(e)]
    <3>1. Bench[e] # Bench[d]
      BY <2>2, OneInside
    <3>. QED  BY <3>1, Constants DEF TableTypes
  <2>3. ASSUME NEW e \in Drivers, e # d PROVE pc'[e] = pc[e] /\ panel'[e] = panel[e]
    BY <2>3 DEF WalkTypes
  <2>4. pc'[d] = "bind" /\ d \notin Smokes /\ plan[Bench[d]] = NoPlan
    BY DEF WalkTypes, Bound
  <2>5. ASSUME NEW e \in Drivers, e # d
        PROVE  /\ e \in Smokes =>
                    /\ pc'[e] \notin {"reserve", "bind", "promote", "store"}
                    /\ pc'[e] \in OnCells => panel'[e] = SmokePanel
               /\ e \notin Smokes =>
                    /\ pc'[e] \in {"reserve", "bind"} => plan[Bench[e]] = NoPlan
                    /\ pc'[e] = "bind" => alloc'[Key(e)] # 0 /\ panel'[e] = Panels[alloc'[Key(e)]]
                    /\ pc'[e] \in OnCells \cup {"returned", "promote"} =>
                         plan[Bench[e]] # NoPlan /\ panel'[e] = Panels[plan[Bench[e]].panel]
    BY <2>2, <2>3, <2>5 DEF Bound
  <2>. QED  BY <2>1, <2>4, <2>5 DEF Bound
<1>10. OwnerRunsCell'
  BY Constants DEF OwnerRunsCell, Mine, Row, Cell
<1>11. PanelsAreExclusive'
  <2>1. Key(d) \in DOMAIN alloc /\ DOMAIN alloc' = DOMAIN alloc /\ i # 0
    BY Constants, PanelTypes DEF TableTypes
  <2>2. \A x \in DOMAIN alloc : x # Key(d) => alloc[x] # i
    BY <2>1 DEF PanelsAreExclusive, Taken, Range
  <2>3. \A x \in DOMAIN alloc : alloc'[x] = IF x = Key(d) THEN i ELSE alloc[x]
    BY <2>1
  <2>4. \A x, y \in DOMAIN alloc : x # y /\ alloc'[x] # 0 => alloc'[x] # alloc'[y]
    BY <2>1, <2>2, <2>3 DEF PanelsAreExclusive
  <2>5. ASSUME NEW b \in Benchmarks, plan[b] # NoPlan
        PROVE  plan[b].panel = alloc'[<<b, plan[b].inputs>>]
    <3>1. plan[b].panel = alloc[<<b, plan[b].inputs>>] /\ plan[b].panel # 0
      BY <2>5, PlannedPanel, PanelTypes DEF PanelsAreExclusive
    <3>2. <<b, plan[b].inputs>> \in DOMAIN alloc
      BY <2>5, PlannedPanel DEF TableTypes
    <3>. QED  BY <2>3, <3>1, <3>2
  <2>. QED  BY <2>1, <2>4, <2>5 DEF PanelsAreExclusive
<1>12. Audited'
  BY Constants DEF Audited, OutcomesAreAudited, Cell
<1>13. Measured'
  BY <1>g, Constants DEF Measured, WalkTypes
<1>14. Backed'
  <2>1. \A e \in Drivers : pc'[e] = "promote" => Complete(e)' /\ result'[e] = "decided"
    BY DEF Backed, Complete, WalkTypes, JobTypes
  <2>2. \A e \in Drivers : pc'[e] = "store" /\ result'[e] = "decided" =>
                             pc[e] = "store" /\ result[e] = "decided"
    BY DEF WalkTypes, JobTypes
  <2>3. \A x \in Benchmarks : job'[x] = "decided" => active = x
    BY DEF Backed, DecidedIsActive, JobTypes
  <2>4. \A x \in Benchmarks : plan[x] # NoPlan => plan'[x] = plan[x]
    BY DEF Bound, TableTypes
  <2>. QED  BY <1>g, <2>1, <2>2, <2>3, <2>4, BackedStands
<1>15. HeldOut'
  BY <1>h, Constants DEF HeldOut, WalkTypes
<1>16. Numbered'
  <2>1. \A e \in Drivers : \A x \in Benchmarks, c \in Cells : AtSave(e, x, c) => AtSave(e, x, c)'
    BY DEF WalkTypes, AtSave, Cell
  <2>. QED  BY <2>1, NumberedStands
<1>. QED  BY <1>1, <1>2, <1>3, <1>4, <1>5, <1>6, <1>7, <1>8, <1>9, <1>10, <1>11, <1>12, <1>13, <1>14, <1>15, <1>16

LEMMA BindPlanStep ==
  ASSUME IInv, NEW d \in Drivers, BindPlan(d), UNCHANGED jobVars
  PROVE  IInv'
<1> USE DEF IInv, BindPlan
<1>p. /\ alloc[Key(d)] \in DOMAIN Panels /\ plan[Bench[d]] = NoPlan /\ d \notin Smokes
      /\ Bench[d] \in Benchmarks /\ Inputs[d] \in Range(Inputs)
  BY Constants DEF Bound, TableTypes
<1>g. \A x \in Benchmarks, c \in Cells : Completed(x, c) => Completed(x, c)'
  BY DEF Completed
<1>h. \A x \in Benchmarks : SmokeRan(x) => SmokeRan(x)'
  BY <1>g, PanelTypes DEF SmokeRan
<1>1. TableTypes'
  BY <1>p DEF TableTypes
<1>2. RowTypes'
  BY Constants DEF RowTypes, Statuses
<1>3. AttemptTypes'
  BY Constants DEF AttemptTypes, Attempts
<1>4. WalkTypes'
  BY PanelTypes DEF WalkTypes, Places, Statuses
<1>5. HistoryTypes'
  BY Constants DEF HistoryTypes
<1>6. JobTypes'
  BY Constants DEF JobTypes
<1>7. Locked'
  BY Constants DEF Locked, TableTypes, WalkTypes
<1>8. Walking'
  BY DEF Walking, WalkTypes
<1>9. Bound'
  <2>1. plan'[Bench[d]] # NoPlan /\ plan'[Bench[d]].panel = alloc[Key(d)]
    BY <1>p, PanelTypes DEF TableTypes, NoPlan
  <2>2. \A x \in Benchmarks : x # Bench[d] => plan'[x] = plan[x]
    BY <1>p DEF TableTypes
  <2> SUFFICES ASSUME NEW e \in Drivers, e # d, e \notin Smokes,
                      pc[e] \in {"reserve", "bind", "returned", "promote"} \cup OnCells
      PROVE  plan'[Bench[e]] = plan[Bench[e]]
    BY <1>p, <2>1, Constants DEF Bound, WalkTypes
  <2>3. Bench[e] # Bench[d]
    BY <1>p, OneInside DEF Bound
  <2>. QED  BY <2>2, <2>3, Constants
<1>10. OwnerRunsCell'
  BY Constants DEF OwnerRunsCell, Mine, Row, Cell
<1>11. PanelsAreExclusive'
  BY DEF PanelsAreExclusive, Bound, NoPlan, TableTypes
<1>12. Audited'
  BY Constants DEF Audited, OutcomesAreAudited, Cell
<1>13. Measured'
  BY <1>g, Constants DEF Measured, WalkTypes
<1>14. Backed'
  <2>1. \A e \in Drivers : pc'[e] = "promote" => Complete(e)' /\ result'[e] = "decided"
    BY DEF Backed, Complete, WalkTypes, JobTypes
  <2>2. \A e \in Drivers : pc'[e] = "store" /\ result'[e] = "decided" =>
                             pc[e] = "store" /\ result[e] = "decided"
    BY DEF WalkTypes, JobTypes
  <2>3. \A x \in Benchmarks : job'[x] = "decided" => active = x
    BY DEF Backed, DecidedIsActive, JobTypes
  <2>4. \A x \in Benchmarks : plan[x] # NoPlan => plan'[x] = plan[x]
    BY DEF Bound, TableTypes
  <2>. QED  BY <1>g, <2>1, <2>2, <2>3, <2>4, BackedStands
<1>15. HeldOut'
  BY <1>h, Constants DEF HeldOut, WalkTypes
<1>16. Numbered'
  <2>1. \A e \in Drivers : \A x \in Benchmarks, c \in Cells : AtSave(e, x, c) => AtSave(e, x, c)'
    BY DEF WalkTypes, AtSave, Cell
  <2>. QED  BY <2>1, NumberedStands
<1>. QED  BY <1>1, <1>2, <1>3, <1>4, <1>5, <1>6, <1>7, <1>8, <1>9, <1>10, <1>11, <1>12, <1>13, <1>14, <1>15, <1>16

LEMMA ReuseStep ==
  ASSUME IInv, NEW d \in Drivers, Reuse(d), UNCHANGED jobVars
  PROVE  IInv'
<1> USE DEF IInv, Reuse, AtCell
<1>0. Cell(d) \in Cells /\ at[d] \in DOMAIN panel[d]
  BY CellType
<1>g. \A x \in Benchmarks, c \in Cells : Completed(x, c) => Completed(x, c)'
  BY DEF Completed
<1>h. \A x \in Benchmarks : SmokeRan(x) => SmokeRan(x)'
  BY <1>g, PanelTypes DEF SmokeRan
<1>1. TableTypes'
  BY <1>0, Constants DEF TableTypes
<1>2. RowTypes'
  BY <1>0, Constants DEF RowTypes, Statuses
<1>3. AttemptTypes'
  BY <1>0, Constants DEF AttemptTypes, Attempts
<1>4. WalkTypes'
  BY <1>0, PanelTypes DEF WalkTypes, Places, Statuses
<1>5. HistoryTypes'
  BY <1>0, Constants DEF HistoryTypes
<1>6. JobTypes'
  BY <1>0, Constants DEF JobTypes
<1>7. Locked'
  BY <1>0, Constants DEF Locked, TableTypes, WalkTypes
<1>8. Walking'
  BY <1>0 DEF Walking, WalkTypes
<1>9. Bound'
  BY <1>0, Constants DEF Bound
<1>10. OwnerRunsCell'
  BY <1>0, Constants, SMTT(30) DEF OwnerRunsCell, Mine, Row, Cell, RowTypes
<1>11. PanelsAreExclusive'
  BY <1>0 DEF PanelsAreExclusive, Bound, NoPlan, TableTypes
<1>12. Audited'
  BY <1>0, Constants DEF Audited, OutcomesAreAudited, Cell
<1>13. Measured'
  <2>1. [status |-> "complete", owner |-> Row(d).owner] \in Range(attempts[Bench[d]][Cell(d)])
    BY <1>0, Constants DEF Audited, OutcomesAreAudited, Row
  <2>2. Completed(Bench[d], Cell(d))
    BY <2>1, CompletedInRange
  <2>. QED  BY <1>0, <1>g, <2>2, Constants DEF Measured, WalkTypes
<1>14. Backed'
  <2>1. \A e \in Drivers : pc'[e] = "promote" => Complete(e)' /\ result'[e] = "decided"
    BY DEF Backed, Complete, WalkTypes, JobTypes
  <2>2. \A e \in Drivers : pc'[e] = "store" /\ result'[e] = "decided" =>
                             pc[e] = "store" /\ result[e] = "decided"
    BY DEF WalkTypes, JobTypes
  <2>3. \A x \in Benchmarks : job'[x] = "decided" => active = x
    BY DEF Backed, DecidedIsActive, JobTypes
  <2>4. \A x \in Benchmarks : plan[x] # NoPlan => plan'[x] = plan[x]
    BY DEF Bound, TableTypes
  <2>. QED  BY <1>g, <2>1, <2>2, <2>3, <2>4, BackedStands
<1>15. HeldOut'
  BY <1>0, <1>h, Constants DEF HeldOut, WalkTypes
<1>16. Numbered'
  <2>1. \A e \in Drivers : \A x \in Benchmarks, c \in Cells : AtSave(e, x, c) => AtSave(e, x, c)'
    BY DEF WalkTypes, AtSave, Cell
  <2>. QED  BY <2>1, NumberedStands
<1>. QED  BY <1>1, <1>2, <1>3, <1>4, <1>5, <1>6, <1>7, <1>8, <1>9, <1>10, <1>11, <1>12, <1>13, <1>14, <1>15, <1>16

LEMMA VoidAttemptStep ==
  ASSUME IInv, NEW d \in Drivers, VoidAttempt(d), UNCHANGED jobVars
  PROVE  IInv'
<1> USE DEF IInv, VoidAttempt, AtCell, SaveAttempt
<1>0. Cell(d) \in Cells /\ at[d] \in DOMAIN panel[d]
  BY CellType
<1>a. SaveAttempt(d, "failed") /\ pc[d] = "cell" /\ pc' = [pc EXCEPT ![d] = "voidrelease"]
  OBVIOUS
<1>b. /\ AttemptTypes'
      /\ \A x \in Benchmarks, c \in Cells :
           /\ Range(attempts[x][c]) \subseteq Range(attempts'[x][c])
           /\ Len(attempts'[x][c]) = Len(attempts[x][c]) +
                IF x = Bench[d] /\ c = Cell(d) THEN 1 ELSE 0
      /\ AttemptOf(d, "failed") \in Range(attempts'[Bench[d]][Cell(d)])
      /\ \A x \in Benchmarks, c \in Cells : Completed(x, c) => Completed(x, c)'
  BY <1>0, <1>a, SaveAttemptAdds
<1>g. \A x \in Benchmarks, c \in Cells : Completed(x, c) => Completed(x, c)'
  BY <1>b
<1>h. \A x \in Benchmarks : SmokeRan(x) => SmokeRan(x)'
  BY <1>g, PanelTypes DEF SmokeRan
<1>1. TableTypes'
  BY <1>0, Constants DEF TableTypes
<1>2. RowTypes'
  BY <1>0, Constants DEF RowTypes, Statuses
<1>3. AttemptTypes'
  BY <1>b
<1>4. WalkTypes'
  BY <1>0, PanelTypes DEF WalkTypes, Places, Statuses
<1>5. HistoryTypes'
  BY <1>0, Constants DEF HistoryTypes
<1>6. JobTypes'
  BY <1>0, Constants DEF JobTypes
<1>7. Locked'
  BY <1>0, Constants DEF Locked, TableTypes, WalkTypes
<1>8. Walking'
  BY <1>0 DEF Walking, WalkTypes
<1>9. Bound'
  BY <1>0, Constants DEF Bound
<1>10. OwnerRunsCell'
  BY <1>0, Constants DEF OwnerRunsCell, Mine, Row, Cell
<1>11. PanelsAreExclusive'
  BY <1>0 DEF PanelsAreExclusive, Bound, NoPlan, TableTypes
<1>12. Audited'
  <2>1. OutcomesAreAudited'
    <3> SUFFICES ASSUME NEW x \in Benchmarks, NEW c \in Cells, row[x][c].status \in Saved
        PROVE  [status |-> row[x][c].status, owner |-> row[x][c].owner] \in Range(attempts'[x][c])
      BY DEF OutcomesAreAudited
    <3>. QED  BY <1>b DEF Audited, OutcomesAreAudited
  <2>2. ASSUME NEW e \in Drivers, e # d, pc[e] \in {"voidrelease", "release"}
        PROVE  Range(attempts[Bench[e]][Cell(e)]) \subseteq Range(attempts'[Bench[e]][Cell(e)])
    BY <1>b, <2>2, CellType, Constants
  <2>3. \A e \in Drivers : Cell(e)' = Cell(e)
    BY DEF Cell
  <2>4. pc'[d] = "voidrelease"
    BY <1>a DEF WalkTypes
  <2>5. ASSUME NEW e \in Drivers
        PROVE  /\ pc'[e] = "voidrelease" =>
                    AttemptOf(e, "failed") \in Range(attempts'[Bench[e]][Cell(e)])
               /\ pc'[e] = "release" =>
                    AttemptOf(e, want[e]) \in Range(attempts'[Bench[e]][Cell(e)])
    <3>1. CASE e = d
      BY <1>b, <2>4, <3>1
    <3>2. CASE e # d
      <4>1. pc'[e] = pc[e]
        BY <1>a, <3>2 DEF WalkTypes
      <4>. QED  BY <2>2, <3>2, <4>1 DEF Audited
    <3>. QED  BY <3>1, <3>2
  <2>. QED  BY <2>1, <2>3, <2>5 DEF Audited, AttemptOf
<1>13. Measured'
  BY <1>0, <1>g, Constants DEF Measured, WalkTypes
<1>14. Backed'
  <2>1. \A e \in Drivers : pc'[e] = "promote" => Complete(e)' /\ result'[e] = "decided"
    BY DEF Backed, Complete, WalkTypes, JobTypes
  <2>2. \A e \in Drivers : pc'[e] = "store" /\ result'[e] = "decided" =>
                             pc[e] = "store" /\ result[e] = "decided"
    BY DEF WalkTypes, JobTypes
  <2>3. \A x \in Benchmarks : job'[x] = "decided" => active = x
    BY DEF Backed, DecidedIsActive, JobTypes
  <2>4. \A x \in Benchmarks : plan[x] # NoPlan => plan'[x] = plan[x]
    BY DEF Bound, TableTypes
  <2>. QED  BY <1>g, <2>1, <2>2, <2>3, <2>4, BackedStands
<1>15. HeldOut'
  BY <1>0, <1>h, Constants DEF HeldOut, WalkTypes
<1>16. Numbered'
  <2>1. \A e \in Drivers : \A x \in Benchmarks, c \in Cells : AtSave(e, x, c) => AtSave(e, x, c)'
    BY DEF WalkTypes, AtSave, Cell
  <2> SUFFICES ASSUME NEW x \in Benchmarks, NEW c \in Cells
      PROVE  /\ \A n \in Range(ran[x][c]) : n <= Len(attempts'[x][c])
             /\ Len(attempts'[x][c]) \in Range(ran[x][c]) => Len(attempts[x][c]) \in Range(ran[x][c])
    BY <2>1 DEF Numbered
  <2>2. Len(attempts[x][c]) \in Nat /\ \A n \in Range(ran[x][c]) : n \in Nat /\ n <= Len(attempts[x][c])
    <3>1. attempts[x][c] \in Seq(Attempts) /\ ran[x][c] \in Seq(Nat)
      BY DEF AttemptTypes, HistoryTypes
    <3>2. \A n \in Range(ran[x][c]) : n \in Nat
      BY <3>1 DEF Range
    <3>. QED  BY <3>1, <3>2 DEF Numbered
  <2>3. Len(attempts'[x][c]) \in {Len(attempts[x][c]), Len(attempts[x][c]) + 1}
    BY <1>b, <2>2
  <2>. QED  BY <2>2, <2>3
<1>. QED  BY <1>1, <1>2, <1>3, <1>4, <1>5, <1>6, <1>7, <1>8, <1>9, <1>10, <1>11, <1>12, <1>13, <1>14, <1>15, <1>16

LEMMA FailsItsCellStep ==
  ASSUME IInv, NEW d \in Drivers, FailsItsCell(d), UNCHANGED jobVars
  PROVE  IInv'
<1> USE DEF IInv, FailsItsCell
<1>0. Cell(d) \in Cells /\ at[d] \in DOMAIN panel[d]
  BY CellType
<1>b. /\ RowTypes'
      /\ row'[Bench[d]][Cell(d)].status = "failed"
      /\ row'[Bench[d]][Cell(d)].owner = Owner[d]
      /\ \A x \in Benchmarks, c \in Cells :
           ~(x = Bench[d] /\ c = Cell(d)) => row'[x][c] = row[x][c]
  BY <1>0, SetStatusSets DEF Statuses, Mine, Row
<1>g. \A x \in Benchmarks, c \in Cells : Completed(x, c) => Completed(x, c)'
  BY DEF Completed
<1>h. \A x \in Benchmarks : SmokeRan(x) => SmokeRan(x)'
  BY <1>g, PanelTypes DEF SmokeRan
<1>1. TableTypes'
  BY <1>0, Constants DEF TableTypes
<1>2. RowTypes'
  BY <1>b
<1>3. AttemptTypes'
  BY <1>0, Constants DEF AttemptTypes, Attempts
<1>4. WalkTypes'
  BY <1>0, PanelTypes DEF WalkTypes, Places, Statuses
<1>5. HistoryTypes'
  BY <1>0, Constants DEF HistoryTypes
<1>6. JobTypes'
  BY <1>0, Constants DEF JobTypes
<1>7. Locked'
  BY <1>0, Constants DEF Locked, TableTypes, WalkTypes
<1>8. Walking'
  BY <1>0 DEF Walking, WalkTypes
<1>9. Bound'
  BY <1>0, Constants DEF Bound
<1>10. OwnerRunsCell'
  <2> SUFFICES ASSUME NEW e \in Drivers, pc'[e] \in AtWork
      PROVE  row'[Bench[e]][Cell(e)'].owner = Owner[e] /\ row'[Bench[e]][Cell(e)'].status = "running"
    BY DEF OwnerRunsCell, Mine, Row
  <2>1. e # d
    BY DEF WalkTypes
  <2>2. CASE e # d
    <3>1. pc[e] \in AtWork /\ Cell(e)' = Cell(e)
      BY <2>2 DEF Cell, WalkTypes
    <3>2. Bench[e] # Bench[d] /\ Cell(e) \in Cells /\ Bench[e] \in Benchmarks
      BY <2>2, <3>1, OneInside, CellType, Constants, AtCellInside
    <3>. QED  BY <1>b, <3>1, <3>2 DEF OwnerRunsCell, Mine, Row
  <2>. QED  BY <2>1, <2>2
<1>11. PanelsAreExclusive'
  BY <1>0 DEF PanelsAreExclusive, Bound, NoPlan, TableTypes
<1>12. Audited'
  <2>1. ASSUME NEW x \in Benchmarks, NEW c \in Cells, row'[x][c].status \in Saved
        PROVE  [status |-> row'[x][c].status, owner |-> row'[x][c].owner] \in Range(attempts[x][c])
    BY <1>b, <2>1 DEF Audited, OutcomesAreAudited, AttemptOf
  <2>2. ASSUME NEW e \in Drivers, pc'[e] \in {"voidrelease", "release"}
        PROVE  e # d /\ pc[e] = pc'[e] /\ Cell(e)' = Cell(e) /\ want'[e] = want[e]
    BY <2>2 DEF WalkTypes, Cell
  <2>. QED  BY <2>1, <2>2 DEF Audited, OutcomesAreAudited, AttemptOf
<1>13. Measured'
  BY <1>0, <1>g, Constants DEF Measured, WalkTypes
<1>14. Backed'
  <2>1. \A e \in Drivers : pc'[e] = "promote" => Complete(e)' /\ result'[e] = "decided"
    BY DEF Backed, Complete, WalkTypes, JobTypes
  <2>2. \A e \in Drivers : pc'[e] = "store" /\ result'[e] = "decided" =>
                             pc[e] = "store" /\ result[e] = "decided"
    BY DEF WalkTypes, JobTypes
  <2>3. \A x \in Benchmarks : job'[x] = "decided" => active = x
    BY DEF Backed, DecidedIsActive, JobTypes
  <2>4. \A x \in Benchmarks : plan[x] # NoPlan => plan'[x] = plan[x]
    BY DEF Bound, TableTypes
  <2>. QED  BY <1>g, <2>1, <2>2, <2>3, <2>4, BackedStands
<1>15. HeldOut'
  <2>1. ASSUME NEW e \in Drivers \ Smokes, pc'[e] \in Inside PROVE SmokeRan(Bench[e])'
    BY <1>h, <2>1, Constants DEF HeldOut, WalkTypes
  <2>2. ASSUME NEW x \in Benchmarks, NEW c \in Cells \ Range(SmokePanel), row'[x][c].status # "none"
        PROVE  SmokeRan(x)'
    <3>1. CASE x = Bench[d] /\ c = Cell(d)
      <4>1. d \notin Smokes
        BY <1>0, <2>2, <3>1 DEF Bound, Cell, Range
      <4>. QED  BY <1>h, <3>1, <4>1 DEF HeldOut
    <3>2. CASE ~(x = Bench[d] /\ c = Cell(d))
      BY <1>b, <1>h, <2>2, <3>2 DEF HeldOut
    <3>. QED  BY <3>1, <3>2
  <2>. QED  BY <2>1, <2>2 DEF HeldOut
<1>16. Numbered'
  <2>1. \A e \in Drivers : \A x \in Benchmarks, c \in Cells : AtSave(e, x, c) => AtSave(e, x, c)'
    BY DEF WalkTypes, AtSave, Cell
  <2>. QED  BY <2>1, NumberedStands
<1>. QED  BY <1>1, <1>2, <1>3, <1>4, <1>5, <1>6, <1>7, <1>8, <1>9, <1>10, <1>11, <1>12, <1>13, <1>14, <1>15, <1>16

LEMMA LeavesOtherCellStep ==
  ASSUME IInv, NEW d \in Drivers, LeavesOtherCell(d), UNCHANGED jobVars
  PROVE  IInv'
<1> USE DEF IInv, LeavesOtherCell
<1>g. \A x \in Benchmarks, c \in Cells : Completed(x, c) => Completed(x, c)'
  BY DEF Completed
<1>h. \A x \in Benchmarks : SmokeRan(x) => SmokeRan(x)'
  BY <1>g, PanelTypes DEF SmokeRan
<1>1. TableTypes'
  BY Constants DEF TableTypes
<1>2. RowTypes'
  BY Constants DEF RowTypes, Statuses
<1>3. AttemptTypes'
  BY Constants DEF AttemptTypes, Attempts
<1>4. WalkTypes'
  BY PanelTypes DEF WalkTypes, Places, Statuses
<1>5. HistoryTypes'
  BY Constants DEF HistoryTypes
<1>6. JobTypes'
  BY Constants DEF JobTypes
<1>7. Locked'
  BY LockGiven
<1>8. Walking'
  BY DEF Walking, WalkTypes
<1>9. Bound'
  BY Constants DEF Bound
<1>10. OwnerRunsCell'
  BY Constants DEF OwnerRunsCell, Mine, Row, Cell
<1>11. PanelsAreExclusive'
  BY DEF PanelsAreExclusive, Bound, NoPlan, TableTypes
<1>12. Audited'
  BY Constants DEF Audited, OutcomesAreAudited, Cell
<1>13. Measured'
  BY <1>g, Constants DEF Measured, WalkTypes
<1>14. Backed'
  <2>1. \A e \in Drivers : pc'[e] = "promote" => Complete(e)' /\ result'[e] = "decided"
    BY DEF Backed, Complete, WalkTypes, JobTypes
  <2>2. \A e \in Drivers : pc'[e] = "store" /\ result'[e] = "decided" =>
                             pc[e] = "store" /\ result[e] = "decided"
    BY DEF WalkTypes, JobTypes
  <2>3. \A x \in Benchmarks : job'[x] = "decided" => active = x
    BY DEF Backed, DecidedIsActive, JobTypes
  <2>4. \A x \in Benchmarks : plan[x] # NoPlan => plan'[x] = plan[x]
    BY DEF Bound, TableTypes
  <2>. QED  BY <1>g, <2>1, <2>2, <2>3, <2>4, BackedStands
<1>15. HeldOut'
  BY <1>h, Constants DEF HeldOut, WalkTypes
<1>16. Numbered'
  <2>1. \A e \in Drivers : \A x \in Benchmarks, c \in Cells : AtSave(e, x, c) => AtSave(e, x, c)'
    BY DEF WalkTypes, AtSave, Cell
  <2>. QED  BY <2>1, NumberedStands
<1>. QED  BY <1>1, <1>2, <1>3, <1>4, <1>5, <1>6, <1>7, <1>8, <1>9, <1>10, <1>11, <1>12, <1>13, <1>14, <1>15, <1>16

LEMMA ClaimStep ==
  ASSUME IInv, NEW d \in Drivers, Claim(d), UNCHANGED jobVars
  PROVE  IInv'
<1> USE DEF IInv, Claim, AtCell
<1>0. Cell(d) \in Cells /\ at[d] \in DOMAIN panel[d]
  BY CellType
<1>b. /\ RowTypes'
      /\ row'[Bench[d]][Cell(d)].status = "running"
      /\ row'[Bench[d]][Cell(d)].owner = Owner[d]
      /\ \A x \in Benchmarks, c \in Cells :
           ~(x = Bench[d] /\ c = Cell(d)) => row'[x][c] = row[x][c]
  <2>1. CASE Row(d).status = "none"
    <3> DEFINE new == [status |-> "running", owner |-> Owner[d], sound |-> FALSE]
    <3>1. new \in [status : Statuses, owner : Range(Owner) \cup {None}, sound : BOOLEAN]
      BY Constants DEF Statuses
    <3>2. row' = [row EXCEPT ![Bench[d]] = [@ EXCEPT ![Cell(d)] = new]]
      BY <2>1 DEF Resumable
    <3>3. new.status = "running" /\ new.owner = Owner[d] /\ Bench[d] \in Benchmarks
      BY Constants
    <3> HIDE DEF new
    <3>. QED  BY <1>0, <3>1, <3>2, <3>3 DEF RowTypes
  <2>2. CASE Resumable(d)
    <3>1. SetStatus(d, "running") /\ Mine(d)
      BY <2>2 DEF Resumable
    <3>. QED  BY <1>0, <3>1, SetStatusSets DEF Statuses, Mine, Row
  <2>. QED  BY <2>1, <2>2
<1>g. \A x \in Benchmarks, c \in Cells : Completed(x, c) => Completed(x, c)'
  BY DEF Completed
<1>h. \A x \in Benchmarks : SmokeRan(x) => SmokeRan(x)'
  BY <1>g, PanelTypes DEF SmokeRan
<1>1. TableTypes'
  BY <1>0, Constants DEF TableTypes
<1>2. RowTypes'
  BY <1>b
<1>3. AttemptTypes'
  BY <1>0, Constants DEF AttemptTypes, Attempts
<1>4. WalkTypes'
  BY <1>0, PanelTypes DEF WalkTypes, Places, Statuses
<1>5. HistoryTypes'
  BY <1>0, Constants DEF HistoryTypes
<1>6. JobTypes'
  BY <1>0, Constants DEF JobTypes
<1>7. Locked'
  BY <1>0, Constants DEF Locked, TableTypes, WalkTypes
<1>8. Walking'
  BY <1>0 DEF Walking, WalkTypes
<1>9. Bound'
  BY <1>0, Constants DEF Bound
<1>10. OwnerRunsCell'
  <2> SUFFICES ASSUME NEW e \in Drivers, pc'[e] \in AtWork
      PROVE  row'[Bench[e]][Cell(e)'].owner = Owner[e] /\ row'[Bench[e]][Cell(e)'].status = "running"
    BY DEF OwnerRunsCell, Mine, Row
  <2>1. CASE e = d
    BY <1>b, <2>1 DEF Cell, WalkTypes
  <2>2. CASE e # d
    <3>1. pc[e] \in AtWork /\ Cell(e)' = Cell(e)
      BY <2>2 DEF Cell, WalkTypes
    <3>2. Bench[e] # Bench[d] /\ Cell(e) \in Cells /\ Bench[e] \in Benchmarks
      BY <2>2, <3>1, OneInside, CellType, Constants, AtCellInside
    <3>. QED  BY <1>b, <3>1, <3>2 DEF OwnerRunsCell, Mine, Row
  <2>. QED  BY <2>1, <2>2
<1>11. PanelsAreExclusive'
  BY <1>0 DEF PanelsAreExclusive, Bound, NoPlan, TableTypes
<1>12. Audited'
  <2>1. ASSUME NEW x \in Benchmarks, NEW c \in Cells, row'[x][c].status \in Saved
        PROVE  [status |-> row'[x][c].status, owner |-> row'[x][c].owner] \in Range(attempts[x][c])
    BY <1>b, <2>1 DEF Audited, OutcomesAreAudited, AttemptOf
  <2>2. ASSUME NEW e \in Drivers, pc'[e] \in {"voidrelease", "release"}
        PROVE  e # d /\ pc[e] = pc'[e] /\ Cell(e)' = Cell(e) /\ want'[e] = want[e]
    BY <2>2 DEF WalkTypes, Cell
  <2>. QED  BY <2>1, <2>2 DEF Audited, OutcomesAreAudited, AttemptOf
<1>13. Measured'
  BY <1>0, <1>g, Constants DEF Measured, WalkTypes
<1>14. Backed'
  <2>1. \A e \in Drivers : pc'[e] = "promote" => Complete(e)' /\ result'[e] = "decided"
    BY DEF Backed, Complete, WalkTypes, JobTypes
  <2>2. \A e \in Drivers : pc'[e] = "store" /\ result'[e] = "decided" =>
                             pc[e] = "store" /\ result[e] = "decided"
    BY DEF WalkTypes, JobTypes
  <2>3. \A x \in Benchmarks : job'[x] = "decided" => active = x
    BY DEF Backed, DecidedIsActive, JobTypes
  <2>4. \A x \in Benchmarks : plan[x] # NoPlan => plan'[x] = plan[x]
    BY DEF Bound, TableTypes
  <2>. QED  BY <1>g, <2>1, <2>2, <2>3, <2>4, BackedStands
<1>15. HeldOut'
  <2>1. ASSUME NEW e \in Drivers \ Smokes, pc'[e] \in Inside PROVE SmokeRan(Bench[e])'
    BY <1>h, <2>1, Constants DEF HeldOut, WalkTypes
  <2>2. ASSUME NEW x \in Benchmarks, NEW c \in Cells \ Range(SmokePanel), row'[x][c].status # "none"
        PROVE  SmokeRan(x)'
    <3>1. CASE x = Bench[d] /\ c = Cell(d)
      <4>1. d \notin Smokes
        BY <1>0, <2>2, <3>1 DEF Bound, Cell, Range
      <4>. QED  BY <1>h, <3>1, <4>1 DEF HeldOut
    <3>2. CASE ~(x = Bench[d] /\ c = Cell(d))
      BY <1>b, <1>h, <2>2, <3>2 DEF HeldOut
    <3>. QED  BY <3>1, <3>2
  <2>. QED  BY <2>1, <2>2 DEF HeldOut
<1>16. Numbered'
  <2>1. \A e \in Drivers : \A x \in Benchmarks, c \in Cells : AtSave(e, x, c) => AtSave(e, x, c)'
    BY DEF WalkTypes, AtSave, Cell
  <2>. QED  BY <2>1, NumberedStands
<1>. QED  BY <1>1, <1>2, <1>3, <1>4, <1>5, <1>6, <1>7, <1>8, <1>9, <1>10, <1>11, <1>12, <1>13, <1>14, <1>15, <1>16

LEMMA PassOverStep ==
  ASSUME IInv, NEW d \in Drivers, PassOver(d), UNCHANGED jobVars
  PROVE  IInv'
<1> USE DEF IInv, PassOver, AtCell
<1>0. Cell(d) \in Cells /\ at[d] \in DOMAIN panel[d]
  BY CellType
<1>g. \A x \in Benchmarks, c \in Cells : Completed(x, c) => Completed(x, c)'
  BY DEF Completed
<1>h. \A x \in Benchmarks : SmokeRan(x) => SmokeRan(x)'
  BY <1>g, PanelTypes DEF SmokeRan
<1>1. TableTypes'
  BY <1>0, Constants DEF TableTypes
<1>2. RowTypes'
  BY <1>0, Constants DEF RowTypes, Statuses
<1>3. AttemptTypes'
  BY <1>0, Constants DEF AttemptTypes, Attempts
<1>4. WalkTypes'
  BY <1>0, PanelTypes DEF WalkTypes, Places, Statuses
<1>5. HistoryTypes'
  BY <1>0, Constants DEF HistoryTypes
<1>6. JobTypes'
  BY <1>0, Constants DEF JobTypes
<1>7. Locked'
  BY <1>0, Constants DEF Locked, TableTypes, WalkTypes
<1>8. Walking'
  BY <1>0 DEF Walking, WalkTypes
<1>9. Bound'
  BY <1>0, Constants DEF Bound
<1>10. OwnerRunsCell'
  BY <1>0, Constants, SMTT(30) DEF OwnerRunsCell, Mine, Row, Cell
<1>11. PanelsAreExclusive'
  BY <1>0 DEF PanelsAreExclusive, Bound, NoPlan, TableTypes
<1>12. Audited'
  BY <1>0, Constants DEF Audited, OutcomesAreAudited, Cell
<1>13. Measured'
  BY <1>0, <1>g, Constants DEF Measured, WalkTypes
<1>14. Backed'
  <2>1. \A e \in Drivers : pc'[e] = "promote" => Complete(e)' /\ result'[e] = "decided"
    BY DEF Backed, Complete, WalkTypes, JobTypes
  <2>2. \A e \in Drivers : pc'[e] = "store" /\ result'[e] = "decided" =>
                             pc[e] = "store" /\ result[e] = "decided"
    BY DEF WalkTypes, JobTypes
  <2>3. \A x \in Benchmarks : job'[x] = "decided" => active = x
    BY DEF Backed, DecidedIsActive, JobTypes
  <2>4. \A x \in Benchmarks : plan[x] # NoPlan => plan'[x] = plan[x]
    BY DEF Bound, TableTypes
  <2>. QED  BY <1>g, <2>1, <2>2, <2>3, <2>4, BackedStands
<1>15. HeldOut'
  BY <1>0, <1>h, Constants DEF HeldOut, WalkTypes
<1>16. Numbered'
  <2>1. \A e \in Drivers : \A x \in Benchmarks, c \in Cells : AtSave(e, x, c) => AtSave(e, x, c)'
    BY DEF WalkTypes, AtSave, Cell
  <2>. QED  BY <2>1, NumberedStands
<1>. QED  BY <1>1, <1>2, <1>3, <1>4, <1>5, <1>6, <1>7, <1>8, <1>9, <1>10, <1>11, <1>12, <1>13, <1>14, <1>15, <1>16

LEMMA ExecuteStep ==
  ASSUME IInv, NEW d \in Drivers, Execute(d), UNCHANGED jobVars
  PROVE  IInv'
<1> USE DEF IInv, Execute
<1>0. Cell(d) \in Cells /\ at[d] \in DOMAIN panel[d]
  BY CellType
<1>p. PICK s \in Saved : want' = [want EXCEPT ![d] = s]
  BY Constants
<1>q. Bench[d] \in Benchmarks
  BY Constants
<1>g. \A x \in Benchmarks, c \in Cells : Completed(x, c) => Completed(x, c)'
  BY DEF Completed
<1>h. \A x \in Benchmarks : SmokeRan(x) => SmokeRan(x)'
  BY <1>g, PanelTypes DEF SmokeRan
<1>1. TableTypes'
  BY <1>0, Constants DEF TableTypes
<1>2. RowTypes'
  BY <1>0, Constants DEF RowTypes, Statuses
<1>3. AttemptTypes'
  BY <1>0, Constants DEF AttemptTypes, Attempts
<1>4. WalkTypes'
  BY <1>p DEF WalkTypes, Places, Statuses
<1>5. HistoryTypes'
  BY <1>0, <1>q DEF HistoryTypes, AttemptTypes
<1>6. JobTypes'
  BY <1>0, Constants DEF JobTypes
<1>7. Locked'
  BY <1>0, Constants DEF Locked, TableTypes, WalkTypes
<1>8. Walking'
  BY <1>p DEF Walking, WalkTypes
<1>9. Bound'
  BY <1>0, Constants DEF Bound
<1>10. OwnerRunsCell'
  BY <1>0, Constants DEF OwnerRunsCell, Mine, Row, Cell
<1>11. PanelsAreExclusive'
  BY <1>0 DEF PanelsAreExclusive, Bound, NoPlan, TableTypes
<1>12. Audited'
  BY <1>0, Constants DEF Audited, OutcomesAreAudited, Cell
<1>13. Measured'
  BY <1>0, <1>g, Constants DEF Measured, WalkTypes
<1>14. Backed'
  <2>1. \A e \in Drivers : pc'[e] = "promote" => Complete(e)' /\ result'[e] = "decided"
    BY DEF Backed, Complete, WalkTypes, JobTypes
  <2>2. \A e \in Drivers : pc'[e] = "store" /\ result'[e] = "decided" =>
                             pc[e] = "store" /\ result[e] = "decided"
    BY DEF WalkTypes, JobTypes
  <2>3. \A x \in Benchmarks : job'[x] = "decided" => active = x
    BY DEF Backed, DecidedIsActive, JobTypes
  <2>4. \A x \in Benchmarks : plan[x] # NoPlan => plan'[x] = plan[x]
    BY DEF Bound, TableTypes
  <2>. QED  BY <1>g, <2>1, <2>2, <2>3, <2>4, BackedStands
<1>15. HeldOut'
  BY <1>0, <1>h, Constants DEF HeldOut, WalkTypes
<1>16. Numbered'
  <2> SUFFICES ASSUME NEW x \in Benchmarks, NEW c \in Cells
      PROVE  /\ IsFiniteSet(Range(ran'[x][c]))
             /\ \A n \in Range(ran'[x][c]) : n <= Len(attempts[x][c])
             /\ Len(ran'[x][c]) <= lost[x][c] + Cardinality(Range(ran'[x][c]))
             /\ Len(attempts[x][c]) \in Range(ran'[x][c]) =>
                  \/ \E e \in Drivers : AtSave(e, x, c)'
                  \/ Len(ran'[x][c]) < lost[x][c] + Cardinality(Range(ran'[x][c]))
    BY DEF Numbered
  <2>1. CASE x = Bench[d] /\ c = Cell(d)
    <3> DEFINE past == ran[x][c]
               n   == Len(attempts[x][c])
    <3>1. n \in Nat /\ past \in Seq(Nat) /\ lost[x][c] \in Nat
      BY DEF AttemptTypes, HistoryTypes
    <3>2. ran'[x][c] = Append(past, n)
      BY <1>0, <1>q, <2>1 DEF HistoryTypes
    <3>3. /\ IsFiniteSet(Range(past)) /\ \A k \in Range(past) : k <= n
          /\ Len(past) <= lost[x][c] + Cardinality(Range(past))
      BY DEF Numbered
    <3>4. n \in Range(past) => Len(past) < lost[x][c] + Cardinality(Range(past))
      <4>1. ASSUME NEW e \in Drivers, AtSave(e, x, c) PROVE FALSE
        BY <2>1, <4>1, OneInside DEF AtSave
      <4>. QED  BY <4>1 DEF Numbered
    <3>5. AtSave(d, x, c)'
      BY <2>1 DEF AtSave, Cell, WalkTypes
    <3>6. Len(Append(past, n)) = Len(past) + 1 /\ Len(past) \in Nat
      BY <3>1
    <3>7. Range(Append(past, n)) = Range(past) \cup {n}
      <4>1. PICK N : N = Nat
        OBVIOUS
      <4>2. past \in Seq(N) /\ n \in N
        BY <3>1, <4>1
      <4> HIDE DEF past, n
      <4>. QED  BY <4>2, RangeAppend
    <3> HIDE DEF past, n
    <3>8. /\ IsFiniteSet(Range(past) \cup {n})
          /\ Cardinality(Range(past) \cup {n}) =
               IF n \in Range(past) THEN Cardinality(Range(past)) ELSE Cardinality(Range(past)) + 1
      BY <3>3, FS_AddElement
    <3>9. Cardinality(Range(past)) \in Nat
      BY <3>3, FS_CardinalityType
    <3>10. Len(past) + 1 <= lost[x][c] + Cardinality(Range(past) \cup {n})
      BY <3>1, <3>3, <3>4, <3>6, <3>8, <3>9
    <3>11. \A k \in Range(past) \cup {n} : k <= n
      BY <3>1, <3>3
    <3>. QED  BY <3>2, <3>5, <3>6, <3>7, <3>8, <3>10, <3>11 DEF n
  <2>2. CASE ~(x = Bench[d] /\ c = Cell(d))
    <3>1. ran'[x][c] = ran[x][c]
      BY <1>0, <1>q, <2>2 DEF HistoryTypes
    <3>2. \A e \in Drivers : AtSave(e, x, c) => AtSave(e, x, c)'
      BY DEF AtSave, Cell, WalkTypes
    <3>. QED  BY <3>1, <3>2 DEF Numbered
  <2>. QED  BY <2>1, <2>2
<1>. QED  BY <1>1, <1>2, <1>3, <1>4, <1>5, <1>6, <1>7, <1>8, <1>9, <1>10, <1>11, <1>12, <1>13, <1>14, <1>15, <1>16

LEMMA StoreAttemptStep ==
  ASSUME IInv, NEW d \in Drivers, StoreAttempt(d), UNCHANGED jobVars
  PROVE  IInv'
<1> USE DEF IInv, StoreAttempt, SaveAttempt
<1>0. Cell(d) \in Cells /\ at[d] \in DOMAIN panel[d]
  BY CellType
<1>a. SaveAttempt(d, want[d]) /\ pc[d] = "attempt" /\ want[d] \in Saved /\ pc' = [pc EXCEPT ![d] = "release"]
  BY DEF Walking
<1>b. /\ AttemptTypes'
      /\ \A x \in Benchmarks, c \in Cells :
           /\ Range(attempts[x][c]) \subseteq Range(attempts'[x][c])
           /\ Len(attempts'[x][c]) = Len(attempts[x][c]) +
                IF x = Bench[d] /\ c = Cell(d) THEN 1 ELSE 0
      /\ AttemptOf(d, want[d]) \in Range(attempts'[Bench[d]][Cell(d)])
      /\ \A x \in Benchmarks, c \in Cells : Completed(x, c) => Completed(x, c)'
  BY <1>0, <1>a, SaveAttemptAdds
<1>g. \A x \in Benchmarks, c \in Cells : Completed(x, c) => Completed(x, c)'
  BY <1>b
<1>h. \A x \in Benchmarks : SmokeRan(x) => SmokeRan(x)'
  BY <1>g, PanelTypes DEF SmokeRan
<1>1. TableTypes'
  BY <1>0, Constants DEF TableTypes
<1>2. RowTypes'
  BY <1>0, Constants DEF RowTypes, Statuses
<1>3. AttemptTypes'
  BY <1>b
<1>4. WalkTypes'
  BY <1>0, PanelTypes DEF WalkTypes, Places, Statuses
<1>5. HistoryTypes'
  BY <1>0, Constants DEF HistoryTypes
<1>6. JobTypes'
  BY <1>0, Constants DEF JobTypes
<1>7. Locked'
  BY <1>0, Constants DEF Locked, TableTypes, WalkTypes
<1>8. Walking'
  BY <1>0 DEF Walking, WalkTypes
<1>9. Bound'
  BY <1>0, Constants DEF Bound
<1>10. OwnerRunsCell'
  BY <1>0, Constants DEF OwnerRunsCell, Mine, Row, Cell
<1>11. PanelsAreExclusive'
  BY <1>0 DEF PanelsAreExclusive, Bound, NoPlan, TableTypes
<1>12. Audited'
  <2>1. OutcomesAreAudited'
    <3> SUFFICES ASSUME NEW x \in Benchmarks, NEW c \in Cells, row[x][c].status \in Saved
        PROVE  [status |-> row[x][c].status, owner |-> row[x][c].owner] \in Range(attempts'[x][c])
      BY DEF OutcomesAreAudited
    <3>. QED  BY <1>b DEF Audited, OutcomesAreAudited
  <2>2. ASSUME NEW e \in Drivers, e # d, pc[e] \in {"voidrelease", "release"}
        PROVE  Range(attempts[Bench[e]][Cell(e)]) \subseteq Range(attempts'[Bench[e]][Cell(e)])
    BY <1>b, <2>2, CellType, Constants
  <2>3. \A e \in Drivers : Cell(e)' = Cell(e)
    BY DEF Cell
  <2>4. pc'[d] = "release"
    BY <1>a DEF WalkTypes
  <2>5. ASSUME NEW e \in Drivers
        PROVE  /\ pc'[e] = "voidrelease" =>
                    AttemptOf(e, "failed") \in Range(attempts'[Bench[e]][Cell(e)])
               /\ pc'[e] = "release" =>
                    AttemptOf(e, want[e]) \in Range(attempts'[Bench[e]][Cell(e)])
    <3>1. CASE e = d
      BY <1>b, <2>4, <3>1
    <3>2. CASE e # d
      <4>1. pc'[e] = pc[e]
        BY <1>a, <3>2 DEF WalkTypes
      <4>. QED  BY <2>2, <3>2, <4>1 DEF Audited
    <3>. QED  BY <3>1, <3>2
  <2>. QED  BY <2>1, <2>3, <2>5 DEF Audited, AttemptOf
<1>13. Measured'
  BY <1>0, <1>g, Constants DEF Measured, WalkTypes
<1>14. Backed'
  <2>1. \A e \in Drivers : pc'[e] = "promote" => Complete(e)' /\ result'[e] = "decided"
    BY DEF Backed, Complete, WalkTypes, JobTypes
  <2>2. \A e \in Drivers : pc'[e] = "store" /\ result'[e] = "decided" =>
                             pc[e] = "store" /\ result[e] = "decided"
    BY DEF WalkTypes, JobTypes
  <2>3. \A x \in Benchmarks : job'[x] = "decided" => active = x
    BY DEF Backed, DecidedIsActive, JobTypes
  <2>4. \A x \in Benchmarks : plan[x] # NoPlan => plan'[x] = plan[x]
    BY DEF Bound, TableTypes
  <2>. QED  BY <1>g, <2>1, <2>2, <2>3, <2>4, BackedStands
<1>15. HeldOut'
  BY <1>0, <1>h, Constants DEF HeldOut, WalkTypes
<1>16. Numbered'
  <2> SUFFICES ASSUME NEW x \in Benchmarks, NEW c \in Cells
      PROVE  /\ \A n \in Range(ran[x][c]) : n <= Len(attempts'[x][c])
             /\ Len(attempts'[x][c]) \in Range(ran[x][c]) =>
                  \/ \E e \in Drivers : AtSave(e, x, c)'
                  \/ Len(ran[x][c]) < lost[x][c] + Cardinality(Range(ran[x][c]))
    BY DEF Numbered
  <2>1. Len(attempts[x][c]) \in Nat /\ \A n \in Range(ran[x][c]) : n \in Nat /\ n <= Len(attempts[x][c])
    <3>1. attempts[x][c] \in Seq(Attempts) /\ ran[x][c] \in Seq(Nat)
      BY DEF AttemptTypes, HistoryTypes
    <3>2. \A n \in Range(ran[x][c]) : n \in Nat
      BY <3>1 DEF Range
    <3>. QED  BY <3>1, <3>2 DEF Numbered
  <2>2. CASE x = Bench[d] /\ c = Cell(d)
    <3>1. Len(attempts'[x][c]) = Len(attempts[x][c]) + 1
      BY <1>b, <2>2
    <3>. QED  BY <2>1, <3>1
  <2>3. CASE ~(x = Bench[d] /\ c = Cell(d))
    <3>1. Len(attempts'[x][c]) = Len(attempts[x][c])
      BY <1>b, <2>1, <2>3
    <3>2. \A e \in Drivers : AtSave(e, x, c) => AtSave(e, x, c)'
      BY <2>3 DEF AtSave, Cell, WalkTypes
    <3>. QED  BY <2>1, <3>1, <3>2 DEF Numbered
  <2>. QED  BY <2>2, <2>3
<1>. QED  BY <1>1, <1>2, <1>3, <1>4, <1>5, <1>6, <1>7, <1>8, <1>9, <1>10, <1>11, <1>12, <1>13, <1>14, <1>15, <1>16

LEMMA ReleaseCellStep ==
  ASSUME IInv, NEW d \in Drivers, ReleaseCell(d), UNCHANGED jobVars
  PROVE  IInv'
<1> USE DEF IInv, ReleaseCell
<1>0. Cell(d) \in Cells /\ at[d] \in DOMAIN panel[d]
  BY CellType
<1>a. want[d] \in Saved /\ SetStatus(d, want[d])
  BY DEF Walking
<1>b. /\ RowTypes'
      /\ row'[Bench[d]][Cell(d)].status = want[d]
      /\ row'[Bench[d]][Cell(d)].owner = Owner[d]
      /\ \A x \in Benchmarks, c \in Cells :
           ~(x = Bench[d] /\ c = Cell(d)) => row'[x][c] = row[x][c]
  BY <1>0, <1>a, SetStatusSets DEF Statuses, Mine, Row
<1>g. \A x \in Benchmarks, c \in Cells : Completed(x, c) => Completed(x, c)'
  BY DEF Completed
<1>h. \A x \in Benchmarks : SmokeRan(x) => SmokeRan(x)'
  BY <1>g, PanelTypes DEF SmokeRan
<1>1. TableTypes'
  BY <1>0, Constants DEF TableTypes
<1>2. RowTypes'
  BY <1>b
<1>3. AttemptTypes'
  BY <1>0, Constants DEF AttemptTypes, Attempts
<1>4. WalkTypes'
  <2>1. good' \in [Drivers -> SUBSET Cells]
    BY <1>0 DEF WalkTypes
  <2>2. at' \in [Drivers -> Nat] /\ pc' \in [Drivers -> Places]
    <3>1. CASE want[d] = "uncertain"
      BY <3>1 DEF WalkTypes, Places
    <3>2. CASE want[d] # "uncertain"
      BY <3>2 DEF WalkTypes, Places
    <3>. QED  BY <3>1, <3>2
  <2>3. want' \in [Drivers -> Statuses] /\ panel' \in [Drivers -> Seq(Cells)]
    BY DEF WalkTypes, Statuses
  <2>. QED  BY <2>1, <2>2, <2>3 DEF WalkTypes
<1>5. HistoryTypes'
  BY <1>0, Constants DEF HistoryTypes
<1>6. JobTypes'
  BY <1>0, Constants DEF JobTypes
<1>7. Locked'
  <2>1. CASE want[d] = "uncertain"
    BY <2>1, LockGiven
  <2>2. CASE want[d] # "uncertain"
    BY <2>2 DEF Locked, WalkTypes
  <2>. QED  BY <2>1, <2>2
<1>8. Walking'
  BY <1>0 DEF Walking, WalkTypes
<1>9. Bound'
  BY <1>0, Constants DEF Bound, WalkTypes, TableTypes
<1>10. OwnerRunsCell'
  <2> SUFFICES ASSUME NEW e \in Drivers, pc'[e] \in AtWork
      PROVE  row'[Bench[e]][Cell(e)'].owner = Owner[e] /\ row'[Bench[e]][Cell(e)'].status = "running"
    BY DEF OwnerRunsCell, Mine, Row
  <2>1. e # d
    BY DEF WalkTypes
  <2>2. CASE e # d
    <3>1. pc[e] \in AtWork /\ Cell(e)' = Cell(e)
      BY <2>2 DEF Cell, WalkTypes
    <3>2. Bench[e] # Bench[d] /\ Cell(e) \in Cells /\ Bench[e] \in Benchmarks
      BY <2>2, <3>1, OneInside, CellType, Constants, AtCellInside
    <3>. QED  BY <1>b, <3>1, <3>2 DEF OwnerRunsCell, Mine, Row
  <2>. QED  BY <2>1, <2>2
<1>11. PanelsAreExclusive'
  BY <1>0 DEF PanelsAreExclusive, Bound, NoPlan, TableTypes
<1>12. Audited'
  <2>1. ASSUME NEW x \in Benchmarks, NEW c \in Cells, row'[x][c].status \in Saved
        PROVE  [status |-> row'[x][c].status, owner |-> row'[x][c].owner] \in Range(attempts[x][c])
    BY <1>b, <2>1 DEF Audited, OutcomesAreAudited, AttemptOf
  <2>2. ASSUME NEW e \in Drivers, pc'[e] \in {"voidrelease", "release"}
        PROVE  e # d /\ pc[e] = pc'[e] /\ Cell(e)' = Cell(e) /\ want'[e] = want[e]
    BY <2>2 DEF WalkTypes, Cell
  <2>. QED  BY <2>1, <2>2 DEF Audited, OutcomesAreAudited, AttemptOf
<1>13. Measured'
  <2>1. want[d] = "complete" => Completed(Bench[d], Cell(d))
    BY CompletedInRange DEF Audited, AttemptOf
  <2>2. ASSUME NEW e \in Drivers, NEW c \in good'[e]
        PROVE  c \in good[e] \/ (e = d /\ c = Cell(d) /\ want[d] = "complete")
    BY <2>2 DEF WalkTypes
  <2>3. ASSUME NEW e \in Drivers, NEW c \in good'[e] PROVE Completed(Bench[e], c)'
    <3>1. c \in Cells /\ Bench[e] \in Benchmarks /\ Completed(Bench[e], c)
      BY <1>0, <2>1, <2>2, <2>3, Constants DEF Measured, WalkTypes
    <3>. QED  BY <1>g, <3>1
  <2>. QED  BY <2>3 DEF Measured
<1>14. Backed'
  <2>1. \A e \in Drivers : pc'[e] = "promote" => Complete(e)' /\ result'[e] = "decided"
    BY DEF Backed, Complete, WalkTypes, JobTypes
  <2>2. \A e \in Drivers : pc'[e] = "store" /\ result'[e] = "decided" =>
                             pc[e] = "store" /\ result[e] = "decided"
    BY DEF WalkTypes, JobTypes
  <2>3. \A x \in Benchmarks : job'[x] = "decided" => active = x
    BY DEF Backed, DecidedIsActive, JobTypes
  <2>4. \A x \in Benchmarks : plan[x] # NoPlan => plan'[x] = plan[x]
    BY DEF Bound, TableTypes
  <2>. QED  BY <1>g, <2>1, <2>2, <2>3, <2>4, BackedStands
<1>15. HeldOut'
  <2>1. ASSUME NEW e \in Drivers \ Smokes, pc'[e] \in Inside PROVE SmokeRan(Bench[e])'
    BY <1>h, <2>1, Constants DEF HeldOut, WalkTypes
  <2>2. ASSUME NEW x \in Benchmarks, NEW c \in Cells \ Range(SmokePanel), row'[x][c].status # "none"
        PROVE  SmokeRan(x)'
    <3>1. CASE x = Bench[d] /\ c = Cell(d)
      <4>1. row[x][c].status # "none"
        BY <3>1 DEF OwnerRunsCell, Row
      <4>. QED  BY <1>h, <2>2, <4>1 DEF HeldOut
    <3>2. CASE ~(x = Bench[d] /\ c = Cell(d))
      BY <1>b, <1>h, <2>2, <3>2 DEF HeldOut
    <3>. QED  BY <3>1, <3>2
  <2>. QED  BY <2>1, <2>2 DEF HeldOut
<1>16. Numbered'
  <2>1. \A e \in Drivers : \A x \in Benchmarks, c \in Cells : AtSave(e, x, c) => AtSave(e, x, c)'
    BY DEF WalkTypes, AtSave, Cell
  <2>. QED  BY <2>1, NumberedStands
<1>. QED  BY <1>1, <1>2, <1>3, <1>4, <1>5, <1>6, <1>7, <1>8, <1>9, <1>10, <1>11, <1>12, <1>13, <1>14, <1>15, <1>16

LEMMA ReturnStep ==
  ASSUME IInv, NEW d \in Drivers, Return(d), UNCHANGED jobVars
  PROVE  IInv'
<1> USE DEF IInv, Return
<1>g. \A x \in Benchmarks, c \in Cells : Completed(x, c) => Completed(x, c)'
  BY DEF Completed
<1>h. \A x \in Benchmarks : SmokeRan(x) => SmokeRan(x)'
  BY <1>g, PanelTypes DEF SmokeRan
<1>1. TableTypes'
  BY Constants DEF TableTypes
<1>2. RowTypes'
  BY Constants DEF RowTypes, Statuses
<1>3. AttemptTypes'
  BY Constants DEF AttemptTypes, Attempts
<1>4. WalkTypes'
  BY PanelTypes DEF WalkTypes, Places, Statuses
<1>5. HistoryTypes'
  BY Constants DEF HistoryTypes
<1>6. JobTypes'
  BY Constants DEF JobTypes
<1>7. Locked'
  BY LockGiven
<1>8. Walking'
  BY DEF Walking, WalkTypes
<1>9. Bound'
  BY Constants DEF Bound
<1>10. OwnerRunsCell'
  BY Constants DEF OwnerRunsCell, Mine, Row, Cell
<1>11. PanelsAreExclusive'
  BY DEF PanelsAreExclusive, Bound, NoPlan, TableTypes
<1>12. Audited'
  BY Constants DEF Audited, OutcomesAreAudited, Cell
<1>13. Measured'
  BY <1>g, Constants DEF Measured, WalkTypes
<1>14. Backed'
  <2>1. \A e \in Drivers : pc'[e] = "promote" => Complete(e)' /\ result'[e] = "decided"
    BY DEF Backed, Complete, WalkTypes, JobTypes
  <2>2. \A e \in Drivers : pc'[e] = "store" /\ result'[e] = "decided" =>
                             pc[e] = "store" /\ result[e] = "decided"
    BY DEF WalkTypes, JobTypes
  <2>3. \A x \in Benchmarks : job'[x] = "decided" => active = x
    BY DEF Backed, DecidedIsActive, JobTypes
  <2>4. \A x \in Benchmarks : plan[x] # NoPlan => plan'[x] = plan[x]
    BY DEF Bound, TableTypes
  <2>. QED  BY <1>g, <2>1, <2>2, <2>3, <2>4, BackedStands
<1>15. HeldOut'
  BY <1>h, Constants DEF HeldOut, WalkTypes
<1>16. Numbered'
  <2>1. \A e \in Drivers : \A x \in Benchmarks, c \in Cells : AtSave(e, x, c) => AtSave(e, x, c)'
    BY DEF WalkTypes, AtSave, Cell
  <2>. QED  BY <2>1, NumberedStands
<1>. QED  BY <1>1, <1>2, <1>3, <1>4, <1>5, <1>6, <1>7, <1>8, <1>9, <1>10, <1>11, <1>12, <1>13, <1>14, <1>15, <1>16

LEMMA ReportStep ==
  ASSUME IInv, NEW d \in Drivers, Report(d)
  PROVE  IInv'
<1> USE DEF IInv, Report
<1>g. \A x \in Benchmarks, c \in Cells : Completed(x, c) => Completed(x, c)'
  BY DEF Completed
<1>h. \A x \in Benchmarks : SmokeRan(x) => SmokeRan(x)'
  BY <1>g, PanelTypes DEF SmokeRan
<1>1. TableTypes'
  BY Constants DEF TableTypes
<1>2. RowTypes'
  BY Constants DEF RowTypes, Statuses
<1>3. AttemptTypes'
  BY Constants DEF AttemptTypes, Attempts
<1>4. WalkTypes'
  BY PanelTypes DEF WalkTypes, Places, Statuses
<1>5. HistoryTypes'
  BY Constants DEF HistoryTypes
<1>6. JobTypes'
  BY Constants DEF JobTypes
<1>7. Locked'
  BY Constants DEF Locked, TableTypes, WalkTypes
<1>8. Walking'
  BY DEF Walking, WalkTypes
<1>9. Bound'
  BY Constants DEF Bound, WalkTypes
<1>10. OwnerRunsCell'
  BY Constants DEF OwnerRunsCell, Mine, Row, Cell, WalkTypes
<1>11. PanelsAreExclusive'
  BY DEF PanelsAreExclusive, Bound, NoPlan, TableTypes
<1>12. Audited'
  BY Constants DEF Audited, OutcomesAreAudited, Cell, WalkTypes
<1>13. Measured'
  BY <1>g, Constants DEF Measured, WalkTypes
<1>14. Backed'
  <2>1. \A e \in Drivers : pc'[e] = "promote" => Complete(e)' /\ result'[e] = "decided"
    BY DEF Backed, Complete, WalkTypes, JobTypes
  <2>2. \A e \in Drivers : pc'[e] = "store" /\ result'[e] = "decided" =>
                             pc[e] = "store" /\ result[e] = "decided"
    BY DEF WalkTypes, JobTypes
  <2>3. \A x \in Benchmarks : job'[x] = "decided" => active = x
    BY DEF Backed, DecidedIsActive, JobTypes
  <2>4. \A x \in Benchmarks : plan[x] # NoPlan => plan'[x] = plan[x]
    BY DEF Bound, TableTypes
  <2>. QED  BY <1>g, <2>1, <2>2, <2>3, <2>4, BackedStands
<1>15. HeldOut'
  BY <1>h, Constants DEF HeldOut, WalkTypes
<1>16. Numbered'
  <2>1. \A e \in Drivers : \A x \in Benchmarks, c \in Cells : AtSave(e, x, c) => AtSave(e, x, c)'
    BY DEF WalkTypes, AtSave, Cell
  <2>. QED  BY <2>1, NumberedStands
<1>. QED  BY <1>1, <1>2, <1>3, <1>4, <1>5, <1>6, <1>7, <1>8, <1>9, <1>10, <1>11, <1>12, <1>13, <1>14, <1>15, <1>16

LEMMA PromoteStep ==
  ASSUME IInv, NEW d \in Drivers, Promote(d)
  PROVE  IInv'
<1> USE DEF IInv, Promote
<1>g. \A x \in Benchmarks, c \in Cells : Completed(x, c) => Completed(x, c)'
  BY DEF Completed
<1>h. \A x \in Benchmarks : SmokeRan(x) => SmokeRan(x)'
  BY <1>g, PanelTypes DEF SmokeRan
<1>1. TableTypes'
  BY Constants DEF TableTypes
<1>2. RowTypes'
  BY Constants DEF RowTypes, Statuses
<1>3. AttemptTypes'
  BY Constants DEF AttemptTypes, Attempts
<1>4. WalkTypes'
  BY PanelTypes DEF WalkTypes, Places, Statuses
<1>5. HistoryTypes'
  BY Constants DEF HistoryTypes
<1>6. JobTypes'
  BY Constants DEF JobTypes
<1>7. Locked'
  BY Constants DEF Locked, TableTypes, WalkTypes
<1>8. Walking'
  BY DEF Walking, WalkTypes
<1>9. Bound'
  BY Constants DEF Bound, WalkTypes
<1>10. OwnerRunsCell'
  BY Constants DEF OwnerRunsCell, Mine, Row, Cell, WalkTypes
<1>11. PanelsAreExclusive'
  BY DEF PanelsAreExclusive, Bound, NoPlan, TableTypes
<1>12. Audited'
  BY Constants DEF Audited, OutcomesAreAudited, Cell, WalkTypes
<1>13. Measured'
  BY <1>g, Constants DEF Measured, WalkTypes
<1>14. Backed'
  <2>1. CASE active = None /\ active' = Bench[d] /\ Goto(d, "store") /\ UNCHANGED result
    <3>1. active' # None /\ Bench[d] \in Benchmarks /\ d \notin Smokes
      <4>1. Bench[d] \in Benchmarks /\ active' = Bench[d] /\ pc[d] = "promote"
        BY <2>1, Constants
      <4>. QED  BY <4>1, Constants DEF Bound
    <3>2. plan[Bench[d]] # NoPlan /\ panel[d] = Panels[plan[Bench[d]].panel]
      BY <3>1 DEF Bound
    <3>3. good[d] = Range(panel[d]) /\ good[d] \subseteq Cells
      BY DEF Backed, Complete, WalkTypes
    <3>4. \A c \in Range(Panels[plan[Bench[d]].panel]) : Completed(Bench[d], c)'
      BY <1>g, <3>1, <3>2, <3>3 DEF Measured
    <3>5. \A x \in Benchmarks : job[x] # "decided"
      BY <2>1, Constants DEF Backed, DecidedIsActive
    <3>6. \A e \in Drivers : ~(pc[e] = "store" /\ result[e] = "decided")
      BY <2>1, Constants DEF Backed
    <3>7. \A e \in Drivers : pc'[e] = "promote" => Complete(e)' /\ result'[e] = "decided"
      BY <2>1 DEF Backed, Complete, WalkTypes
    <3>8. \A e \in Drivers : pc'[e] = "store" /\ result'[e] = "decided" => active' = Bench[e]
      BY <2>1, <3>6 DEF WalkTypes
    <3>. QED  BY <2>1, <3>1, <3>2, <3>4, <3>5, <3>7, <3>8 DEF Backed, DecidedIsActive
  <2>2. CASE active # None /\ Decide(d, "store", "closed") /\ UNCHANGED active
    <3>1. \A e \in Drivers : pc'[e] = "promote" => Complete(e)' /\ result'[e] = "decided"
      BY <2>2 DEF Backed, Complete, WalkTypes, JobTypes
    <3>2. \A e \in Drivers : pc'[e] = "store" /\ result'[e] = "decided" =>
                               pc[e] = "store" /\ result[e] = "decided"
      BY <2>2 DEF WalkTypes, JobTypes
    <3>3. \A x \in Benchmarks : job'[x] = "decided" => active = x
      BY DEF Backed, DecidedIsActive
    <3>. QED  BY <1>g, <2>2, <3>1, <3>2, <3>3, BackedStands
  <2>. QED  BY <2>1, <2>2
<1>15. HeldOut'
  BY <1>h, Constants DEF HeldOut, WalkTypes
<1>16. Numbered'
  <2>1. \A e \in Drivers : \A x \in Benchmarks, c \in Cells : AtSave(e, x, c) => AtSave(e, x, c)'
    BY DEF WalkTypes, AtSave, Cell
  <2>. QED  BY <2>1, NumberedStands
<1>. QED  BY <1>1, <1>2, <1>3, <1>4, <1>5, <1>6, <1>7, <1>8, <1>9, <1>10, <1>11, <1>12, <1>13, <1>14, <1>15, <1>16

LEMMA CatchDriverStep ==
  ASSUME IInv, NEW d \in Drivers, CatchDriver(d)
  PROVE  IInv'
<1> USE DEF IInv, CatchDriver
<1>g. \A x \in Benchmarks, c \in Cells : Completed(x, c) => Completed(x, c)'
  BY DEF Completed
<1>h. \A x \in Benchmarks : SmokeRan(x) => SmokeRan(x)'
  BY <1>g, PanelTypes DEF SmokeRan
<1>1. TableTypes'
  BY Constants DEF TableTypes
<1>2. RowTypes'
  BY Constants DEF RowTypes, Statuses
<1>3. AttemptTypes'
  BY Constants DEF AttemptTypes, Attempts
<1>4. WalkTypes'
  BY PanelTypes DEF WalkTypes, Places, Statuses
<1>5. HistoryTypes'
  BY Constants DEF HistoryTypes
<1>6. JobTypes'
  BY Constants DEF JobTypes
<1>7. Locked'
  BY Constants DEF Locked, TableTypes, WalkTypes
<1>8. Walking'
  BY DEF Walking, WalkTypes
<1>9. Bound'
  BY Constants DEF Bound
<1>10. OwnerRunsCell'
  BY Constants DEF OwnerRunsCell, Mine, Row, Cell
<1>11. PanelsAreExclusive'
  BY DEF PanelsAreExclusive, Bound, NoPlan, TableTypes
<1>12. Audited'
  BY Constants DEF Audited, OutcomesAreAudited, Cell
<1>13. Measured'
  BY <1>g, Constants DEF Measured, WalkTypes
<1>14. Backed'
  <2>1. \A e \in Drivers : pc'[e] = "promote" => Complete(e)' /\ result'[e] = "decided"
    BY DEF Backed, Complete, WalkTypes, JobTypes
  <2>2. \A e \in Drivers : pc'[e] = "store" /\ result'[e] = "decided" =>
                             pc[e] = "store" /\ result[e] = "decided"
    BY DEF WalkTypes, JobTypes
  <2>3. \A x \in Benchmarks : job'[x] = "decided" => active = x
    BY DEF Backed, DecidedIsActive, JobTypes
  <2>4. \A x \in Benchmarks : plan[x] # NoPlan => plan'[x] = plan[x]
    BY DEF Bound, TableTypes
  <2>. QED  BY <1>g, <2>1, <2>2, <2>3, <2>4, BackedStands
<1>15. HeldOut'
  BY <1>h, Constants DEF HeldOut, WalkTypes
<1>16. Numbered'
  <2>1. \A e \in Drivers : \A x \in Benchmarks, c \in Cells : AtSave(e, x, c) => AtSave(e, x, c)'
    BY DEF WalkTypes, AtSave, Cell
  <2>. QED  BY <2>1, NumberedStands
<1>. QED  BY <1>1, <1>2, <1>3, <1>4, <1>5, <1>6, <1>7, <1>8, <1>9, <1>10, <1>11, <1>12, <1>13, <1>14, <1>15, <1>16

LEMMA EndWithoutJobStep ==
  ASSUME IInv, NEW d \in Drivers, EndWithoutJob(d)
  PROVE  IInv'
<1> USE DEF IInv, EndWithoutJob
<1>g. \A x \in Benchmarks, c \in Cells : Completed(x, c) => Completed(x, c)'
  BY DEF Completed
<1>h. \A x \in Benchmarks : SmokeRan(x) => SmokeRan(x)'
  BY <1>g, PanelTypes DEF SmokeRan
<1>1. TableTypes'
  BY Constants DEF TableTypes
<1>2. RowTypes'
  BY Constants DEF RowTypes, Statuses
<1>3. AttemptTypes'
  BY Constants DEF AttemptTypes, Attempts
<1>4. WalkTypes'
  BY PanelTypes DEF WalkTypes, Places, Statuses
<1>5. HistoryTypes'
  BY Constants DEF HistoryTypes
<1>6. JobTypes'
  BY Constants DEF JobTypes
<1>7. Locked'
  BY Constants DEF Locked, TableTypes, WalkTypes
<1>8. Walking'
  BY DEF Walking, WalkTypes
<1>9. Bound'
  BY Constants DEF Bound
<1>10. OwnerRunsCell'
  BY Constants DEF OwnerRunsCell, Mine, Row, Cell
<1>11. PanelsAreExclusive'
  BY DEF PanelsAreExclusive, Bound, NoPlan, TableTypes
<1>12. Audited'
  BY Constants DEF Audited, OutcomesAreAudited, Cell
<1>13. Measured'
  BY <1>g, Constants DEF Measured, WalkTypes
<1>14. Backed'
  <2>1. \A e \in Drivers : pc'[e] = "promote" => Complete(e)' /\ result'[e] = "decided"
    BY DEF Backed, Complete, WalkTypes, JobTypes
  <2>2. \A e \in Drivers : pc'[e] = "store" /\ result'[e] = "decided" =>
                             pc[e] = "store" /\ result[e] = "decided"
    BY DEF WalkTypes, JobTypes
  <2>3. \A x \in Benchmarks : job'[x] = "decided" => active = x
    BY DEF Backed, DecidedIsActive, JobTypes
  <2>4. \A x \in Benchmarks : plan[x] # NoPlan => plan'[x] = plan[x]
    BY DEF Bound, TableTypes
  <2>. QED  BY <1>g, <2>1, <2>2, <2>3, <2>4, BackedStands
<1>15. HeldOut'
  BY <1>h, Constants DEF HeldOut, WalkTypes
<1>16. Numbered'
  <2>1. \A e \in Drivers : \A x \in Benchmarks, c \in Cells : AtSave(e, x, c) => AtSave(e, x, c)'
    BY DEF WalkTypes, AtSave, Cell
  <2>. QED  BY <2>1, NumberedStands
<1>. QED  BY <1>1, <1>2, <1>3, <1>4, <1>5, <1>6, <1>7, <1>8, <1>9, <1>10, <1>11, <1>12, <1>13, <1>14, <1>15, <1>16

LEMMA SaveJobStep ==
  ASSUME IInv, NEW d \in Drivers, SaveJob(d)
  PROVE  IInv'
<1> USE DEF IInv, SaveJob
<1>g. \A x \in Benchmarks, c \in Cells : Completed(x, c) => Completed(x, c)'
  BY DEF Completed
<1>h. \A x \in Benchmarks : SmokeRan(x) => SmokeRan(x)'
  BY <1>g, PanelTypes DEF SmokeRan
<1>1. TableTypes'
  BY Constants DEF TableTypes
<1>2. RowTypes'
  BY Constants DEF RowTypes, Statuses
<1>3. AttemptTypes'
  BY Constants DEF AttemptTypes, Attempts
<1>4. WalkTypes'
  BY PanelTypes DEF WalkTypes, Places, Statuses
<1>5. HistoryTypes'
  BY Constants DEF HistoryTypes
<1>6. JobTypes'
  BY Constants DEF JobTypes
<1>7. Locked'
  BY Constants DEF Locked, TableTypes, WalkTypes
<1>8. Walking'
  BY DEF Walking, WalkTypes
<1>9. Bound'
  BY Constants DEF Bound
<1>10. OwnerRunsCell'
  BY Constants DEF OwnerRunsCell, Mine, Row, Cell
<1>11. PanelsAreExclusive'
  BY DEF PanelsAreExclusive, Bound, NoPlan, TableTypes
<1>12. Audited'
  BY Constants DEF Audited, OutcomesAreAudited, Cell
<1>13. Measured'
  BY <1>g, Constants DEF Measured, WalkTypes
<1>14. Backed'
  <2>1. \A e \in Drivers : pc'[e] = "promote" => Complete(e)' /\ result'[e] = "decided"
    BY DEF Backed, Complete, WalkTypes, JobTypes
  <2>2. \A e \in Drivers : pc'[e] = "store" /\ result'[e] = "decided" =>
                             pc[e] = "store" /\ result[e] = "decided"
    BY DEF WalkTypes, JobTypes
  <2>3. \A x \in Benchmarks : job'[x] = "decided" => active = x
    BY DEF Backed, DecidedIsActive, JobTypes
  <2>4. \A x \in Benchmarks : plan[x] # NoPlan => plan'[x] = plan[x]
    BY DEF Bound, TableTypes
  <2>. QED  BY <1>g, <2>1, <2>2, <2>3, <2>4, BackedStands
<1>15. HeldOut'
  BY <1>h, Constants DEF HeldOut, WalkTypes
<1>16. Numbered'
  <2>1. \A e \in Drivers : \A x \in Benchmarks, c \in Cells : AtSave(e, x, c) => AtSave(e, x, c)'
    BY DEF WalkTypes, AtSave, Cell
  <2>. QED  BY <2>1, NumberedStands
<1>. QED  BY <1>1, <1>2, <1>3, <1>4, <1>5, <1>6, <1>7, <1>8, <1>9, <1>10, <1>11, <1>12, <1>13, <1>14, <1>15, <1>16

LEMMA DieStep ==
  ASSUME IInv, NEW d \in Drivers, Die(d)
  PROVE  IInv'
<1> USE DEF IInv, Die, Kill
<1>p. pc[d] = "attempt" => Cell(d) \in Cells
  BY CellType
<1>g. \A x \in Benchmarks, c \in Cells : Completed(x, c) => Completed(x, c)'
  BY DEF Completed
<1>h. \A x \in Benchmarks : SmokeRan(x) => SmokeRan(x)'
  BY <1>g, PanelTypes DEF SmokeRan
<1>1. TableTypes'
  BY Constants DEF TableTypes
<1>2. RowTypes'
  BY Constants DEF RowTypes, Statuses
<1>3. AttemptTypes'
  BY Constants DEF AttemptTypes, Attempts
<1>4. WalkTypes'
  BY PanelTypes DEF WalkTypes, Places, Statuses
<1>5. HistoryTypes'
  BY <1>p, Constants DEF HistoryTypes
<1>6. JobTypes'
  BY Constants DEF JobTypes
<1>7. Locked'
  BY Constants, ZenonT(40) DEF Locked, TableTypes, WalkTypes
<1>8. Walking'
  BY DEF Walking, WalkTypes
<1>9. Bound'
  BY Constants DEF Bound, WalkTypes
<1>10. OwnerRunsCell'
  BY Constants DEF OwnerRunsCell, Mine, Row, Cell, WalkTypes
<1>11. PanelsAreExclusive'
  BY DEF PanelsAreExclusive, Bound, NoPlan, TableTypes
<1>12. Audited'
  BY Constants DEF Audited, OutcomesAreAudited, Cell, WalkTypes
<1>13. Measured'
  BY <1>g, Constants DEF Measured, WalkTypes
<1>14. Backed'
  <2>1. \A e \in Drivers : pc'[e] = "promote" => Complete(e)' /\ result'[e] = "decided"
    BY DEF Backed, Complete, WalkTypes, JobTypes
  <2>2. \A e \in Drivers : pc'[e] = "store" /\ result'[e] = "decided" =>
                             pc[e] = "store" /\ result[e] = "decided"
    BY DEF WalkTypes, JobTypes
  <2>3. \A x \in Benchmarks : job'[x] = "decided" => active = x
    BY DEF Backed, DecidedIsActive, JobTypes
  <2>4. \A x \in Benchmarks : plan[x] # NoPlan => plan'[x] = plan[x]
    BY DEF Bound, TableTypes
  <2>. QED  BY <1>g, <2>1, <2>2, <2>3, <2>4, BackedStands
<1>15. HeldOut'
  BY <1>h, Constants DEF HeldOut, WalkTypes
<1>16. Numbered'
  <2> SUFFICES ASSUME NEW x \in Benchmarks, NEW c \in Cells
      PROVE  /\ Len(ran[x][c]) <= lost'[x][c] + Cardinality(Range(ran[x][c]))
             /\ Len(attempts[x][c]) \in Range(ran[x][c]) =>
                  \/ \E e \in Drivers : AtSave(e, x, c)'
                  \/ Len(ran[x][c]) < lost'[x][c] + Cardinality(Range(ran[x][c]))
    BY DEF Numbered
  <2>1. /\ Len(ran[x][c]) \in Nat /\ lost[x][c] \in Nat
        /\ Cardinality(Range(ran[x][c])) \in Nat
    BY FS_CardinalityType DEF Numbered, HistoryTypes
  <2>2. CASE AtSave(d, x, c)
    <3>1. lost'[x][c] = lost[x][c] + 1
      BY <2>2 DEF AtSave, HistoryTypes
    <3>. QED  BY <2>1, <3>1 DEF Numbered
  <2>3. CASE ~AtSave(d, x, c)
    <3>1. lost'[x][c] = lost[x][c]
      BY <1>p, <2>3, Constants DEF AtSave, HistoryTypes
    <3>2. \A e \in Drivers : AtSave(e, x, c) => AtSave(e, x, c)'
      BY <2>3 DEF AtSave, Cell, WalkTypes
    <3>. QED  BY <2>1, <3>1, <3>2 DEF Numbered
  <2>. QED  BY <2>2, <2>3
<1>. QED  BY <1>1, <1>2, <1>3, <1>4, <1>5, <1>6, <1>7, <1>8, <1>9, <1>10, <1>11, <1>12, <1>13, <1>14, <1>15, <1>16

LEMMA RotStep ==
  ASSUME IInv, NEW b \in Benchmarks, NEW k \in Cells, Rot(b, k), UNCHANGED jobVars
  PROVE  IInv'
<1> USE DEF IInv, Rot
<1>g. \A x \in Benchmarks, c \in Cells : Completed(x, c) => Completed(x, c)'
  BY DEF Completed
<1>h. \A x \in Benchmarks : SmokeRan(x) => SmokeRan(x)'
  BY <1>g, PanelTypes DEF SmokeRan
<1>1. TableTypes'
  BY Constants DEF TableTypes
<1>2. RowTypes'
  <2>1. [row[b][k] EXCEPT !.sound = FALSE]
          \in [status : Statuses, owner : Range(Owner) \cup {None}, sound : BOOLEAN]
    BY ZenonT(40) DEF RowTypes
  <2>2. row' = [row EXCEPT ![b] = [@ EXCEPT ![k] = [row[b][k] EXCEPT !.sound = FALSE]]]
    OBVIOUS
  <2>. QED  BY <2>1, <2>2 DEF RowTypes
<1>3. AttemptTypes'
  BY Constants DEF AttemptTypes, Attempts
<1>4. WalkTypes'
  BY PanelTypes DEF WalkTypes, Places, Statuses
<1>5. HistoryTypes'
  BY Constants DEF HistoryTypes
<1>6. JobTypes'
  BY Constants DEF JobTypes
<1>7. Locked'
  BY Constants DEF Locked, TableTypes, WalkTypes
<1>8. Walking'
  BY DEF Walking, WalkTypes
<1>9. Bound'
  BY Constants DEF Bound
<1>10. OwnerRunsCell'
  BY Constants DEF OwnerRunsCell, Mine, Row, Cell
<1>11. PanelsAreExclusive'
  BY DEF PanelsAreExclusive, Bound, NoPlan, TableTypes
<1>12. Audited'
  BY Constants DEF Audited, OutcomesAreAudited, Cell
<1>13. Measured'
  BY <1>g, Constants DEF Measured, WalkTypes
<1>14. Backed'
  <2>1. \A e \in Drivers : pc'[e] = "promote" => Complete(e)' /\ result'[e] = "decided"
    BY DEF Backed, Complete, WalkTypes, JobTypes
  <2>2. \A e \in Drivers : pc'[e] = "store" /\ result'[e] = "decided" =>
                             pc[e] = "store" /\ result[e] = "decided"
    BY DEF WalkTypes, JobTypes
  <2>3. \A x \in Benchmarks : job'[x] = "decided" => active = x
    BY DEF Backed, DecidedIsActive, JobTypes
  <2>4. \A x \in Benchmarks : plan[x] # NoPlan => plan'[x] = plan[x]
    BY DEF Bound, TableTypes
  <2>. QED  BY <1>g, <2>1, <2>2, <2>3, <2>4, BackedStands
<1>15. HeldOut'
  BY <1>h, Constants DEF HeldOut, WalkTypes
<1>16. Numbered'
  <2>1. \A e \in Drivers : \A x \in Benchmarks, c \in Cells : AtSave(e, x, c) => AtSave(e, x, c)'
    BY DEF WalkTypes, AtSave, Cell
  <2>. QED  BY <2>1, NumberedStands
<1>. QED  BY <1>1, <1>2, <1>3, <1>4, <1>5, <1>6, <1>7, <1>8, <1>9, <1>10, <1>11, <1>12, <1>13, <1>14, <1>15, <1>16

LEMMA NextStep == IInv /\ [Next]_vars => IInv'
<1> SUFFICES ASSUME IInv, [Next]_vars PROVE IInv'
  OBVIOUS
<1>1. ASSUME NEW d \in Drivers, DriverStep(d), UNCHANGED jobVars PROVE IInv'
  <2>1. CASE Reserve(d)
    BY <1>1, <2>1, ReserveCases, GetsNoPanelStep, GetsPanelStep
  <2>2. CASE ReadPlan(d)
    BY <1>1, <2>2, ReadPlanCases, FindsNoPlanStep, FindsPlanStep
  <2>3. CASE VoidRelease(d)
    BY <1>1, <2>3, VoidReleaseCases, FailsItsCellStep, LeavesOtherCellStep
  <2>. QED  BY <1>1, <2>1, <2>2, <2>3, SmokeStep, RefuseRunStep, BindPlanStep, ReuseStep,
       VoidAttemptStep, ClaimStep, PassOverStep, ExecuteStep, StoreAttemptStep,
       ReleaseCellStep, ReturnStep DEF DriverStep
<1>2. ASSUME NEW d \in Drivers, Begin(d) \/ JobStep(d) \/ Die(d) PROVE IInv'
  BY <1>1, <1>2, BeginStep, ReportStep, PromoteStep, CatchDriverStep, EndWithoutJobStep,
     SaveJobStep, DieStep DEF JobStep, RunDriver
<1>3. ASSUME NEW b \in Benchmarks, NEW c \in Cells, Rot(b, c), UNCHANGED jobVars PROVE IInv'
  BY <1>3, RotStep
<1>4. CASE UNCHANGED vars
  <2> USE <1>4 DEF vars, driverVars, IInv
  <2>1. /\ TableTypes' /\ RowTypes' /\ AttemptTypes' /\ WalkTypes' /\ HistoryTypes' /\ JobTypes'
    BY DEF TableTypes, RowTypes, AttemptTypes, WalkTypes, HistoryTypes, JobTypes
  <2>2. Locked' /\ Walking' /\ Bound'
    BY DEF Locked, Walking, Bound
  <2>3. OwnerRunsCell' /\ PanelsAreExclusive'
    BY DEF OwnerRunsCell, Mine, Row, Cell, PanelsAreExclusive
  <2>4. Audited' /\ Measured'
    BY DEF Audited, OutcomesAreAudited, Cell, Measured, Completed
  <2>5. Backed' /\ HeldOut'
    BY DEF Backed, Complete, Completed, DecidedIsActive, HeldOut, SmokeRan
  <2>6. Numbered'
    BY DEF Numbered, AtSave, Cell
  <2>. QED  BY <2>1, <2>2, <2>3, <2>4, <2>5, <2>6
<1>. QED  BY <1>2, <1>3, <1>4 DEF Next

LEMMA Inductive == Spec => []IInv
BY InitIInv, NextStep, PTL DEF Spec

-----------------------------------------------------------------------------
LEMMA IInvTypeOK == IInv => TypeOK
<1> SUFFICES ASSUME IInv PROVE TypeOK
  OBVIOUS
<1>1. \A b \in Benchmarks :
        plan[b] = NoPlan \/ plan[b] \in [inputs : Range(Inputs), panel : DOMAIN Panels]
  BY DEF IInv, TableTypes
<1>2. ASSUME NEW b \in Benchmarks, NEW c \in Cells, NEW i \in DOMAIN attempts[b][c]
      PROVE  attempts[b][c][i].status \in {"complete", "failed", "uncertain"}
  <2>1. attempts[b][c] \in Seq(Attempts)
    BY DEF IInv, AttemptTypes
  <2>2. attempts[b][c][i] \in Attempts
    BY <2>1
  <2>. QED  BY <2>2 DEF Attempts
<1>3. \A d \in Drivers : good[d] \subseteq Cells
  BY DEF IInv, WalkTypes
<1>4. \A d \in Drivers : pc[d] \in Inside => at[d] \in 1 .. Len(panel[d]) + 1
  BY DEF IInv, Walking
<1>5. DriverTypeOK
  BY <1>1, <1>2, <1>3, <1>4 DEF IInv, TableTypes, RowTypes, WalkTypes, Places, DriverTypeOK
<1>. QED  BY <1>5 DEF IInv, JobTypes, TypeOK

(* A cell is run by one driver, for the owner in its row, under a lock     *)
(* that every way out of a run gives back: whoever works on a cell is      *)
(* inside, and only one driver of a benchmark is.                          *)
THEOREM CellsAreExclusiveCorrect == Spec => []CellsAreExclusive
<1>1. IInv => OneDriverPerCell
  BY OneInside DEF OneDriverPerCell
<1>2. IInv => LockIsGivenBack
  BY DEF IInv, TableTypes, Locked, LockIsGivenBack
<1>3. IInv => CellsAreExclusive
  BY <1>1, <1>2, IInvTypeOK DEF IInv, CellsAreExclusive
<1>. QED  BY <1>3, Inductive, PTL

(* No two benchmarks share a panel, a plan has the panel its benchmark     *)
(* reserved, and no held-out cell is touched before the smoke.             *)
THEOREM PanelsAreGuardedCorrect == Spec => []PanelsAreGuarded
<1>1. ASSUME IInv, NEW b \in Benchmarks, NEW c \in Cells \ Range(SmokePanel),
             row[b][c].status # "none"
      PROVE  \E x \in Range(SmokePanel) :
               \E i \in DOMAIN attempts[b][x] : attempts[b][x][i].status = "complete"
  BY <1>1 DEF IInv, HeldOut, SmokeRan, Completed
<1>2. IInv => PanelsAreGuarded
  BY <1>1 DEF IInv, PanelsAreGuarded, HeldOutNeedsSmoke
<1>. QED  BY <1>2, Inductive, PTL

(* The attempts tell every outcome, and their numbers repeat only as often *)
(* as a killed process lost an execution.                                  *)
THEOREM HistoryIsAuditableCorrect == Spec => []HistoryIsAuditable
<1>1. ASSUME IInv, NEW b \in Benchmarks, NEW c \in Cells
      PROVE  Len(ran[b][c]) - Cardinality(Range(ran[b][c])) <= lost[b][c]
  <2>1. /\ Len(ran[b][c]) <= lost[b][c] + Cardinality(Range(ran[b][c]))
        /\ IsFiniteSet(Range(ran[b][c]))
    BY <1>1 DEF IInv, Numbered
  <2>2. ran[b][c] \in Seq(Nat) /\ lost[b][c] \in Nat
    BY <1>1 DEF IInv, HistoryTypes
  <2>3. Len(ran[b][c]) \in Nat /\ Cardinality(Range(ran[b][c])) \in Nat
    BY <2>1, <2>2, FS_CardinalityType
  <2>. QED  BY <2>1, <2>2, <2>3
<1>2. IInv => HistoryIsAuditable
  BY <1>1 DEF IInv, Audited, HistoryIsAuditable, NumbersAreFresh
<1>. QED  BY <1>2, Inductive, PTL

(* Whatever crashes and resumes lie between, the active candidate has a    *)
(* completed attempt for every cell of its panel, and a job saved as       *)
(* decided is the one of the active candidate.                             *)
THEOREM DecisionIsBackedCorrect == Spec => []DecisionIsBacked
<1>1. IInv => ActiveRestsOnPanel
  BY DEF IInv, Backed, ActiveRestsOnPanel, Completed
<1>2. IInv => DecisionIsBacked
  BY <1>1 DEF IInv, Backed, DecisionIsBacked
<1>. QED  BY <1>2, Inductive, PTL
=============================================================================
