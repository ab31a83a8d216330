------------------------- MODULE LifecycleJob_proofs -------------------------
(***************************************************************************)
(* Proofs about LifecycleJob: its types, the limit on launches and nested  *)
(* calls, the single dispatch of every nested call, that what is recorded  *)
(* has been charged, and, for an operator who keeps to one runner at a     *)
(* time, the order of the stages and the receipts behind a complete job.   *)
(***************************************************************************)
EXTENDS LifecycleJob, FiniteSetTheorems, WellFoundedInduction, TLAPS

(* A thread that is inside its attempt has a row, and one that is inside a *)
(* nested call has an admission.                                           *)
ThreadsHaveRows ==
  \A r \in Runners, c \in Cells :
    /\ pc[r][c] \in {"callback", "call", "close", "write"}
         => attempt[c][try[r][c]].status # "none"
    /\ pc[r][c] = "call" => /\ NextChild(r, c) \in ChildrenOf(c)
                            /\ sub[c][NextChild(r, c)].status # "none"

(* The budget counts the launches; both tables together keep to the limit. *)
CountsAgree ==
  /\ IsFiniteSet(Launched) /\ IsFiniteSet(Admitted)
  /\ budget.attempts = Cardinality(Launched)
  /\ Cardinality(Launched) + Cardinality(Admitted) <= MaxAttempts

(* A nested call is dispatched with its admission and not again.           *)
DispatchedWithAdmission ==
  /\ DOMAIN dispatches = Cells
  /\ \A c \in Cells :
       /\ dispatches[c] \in [ChildrenOf(c) -> Nat]
       /\ \A i \in ChildrenOf(c) :
            dispatches[c][i] = (IF sub[c][i].status = "none" THEN 0 ELSE 1)

(* The gate follows the validation panel.                                  *)
GateAtPanel == \A r \in Runners : phase[r] = "gate" => stage[r] = Gated

ShapeInv == TypeOK /\ ThreadsHaveRows /\ GateAtPanel /\ CountsAgree
            /\ DispatchedWithAdmission

(***************************************************************************)
(* One runner at a time.                                                   *)
(***************************************************************************)

(* A thread is inside a cell only while its runner works on that panel; a  *)
(* runner that has not begun has no position.                              *)
ThreadsInPanel ==
  /\ \A r \in Runners, c \in Cells : pc[r][c] \in InCell => InPanel(r, c)
  /\ \A r \in Runners : phase[r] = "idle" =>
       stage[r] = 1 /\ \A c \in Cells : pc[r][c] = "wait"

OneActive == \A r, q \in Runners : Active(r) /\ Active(q) => r = q

(* What the thread of the one active runner knows of its row.              *)
RowsAsLeft ==
  \A r \in Runners, c \in Cells :
    Active(r) =>
      /\ pc[r][c] = "done" => CompleteRow(c)
      /\ pc[r][c] \in {"callback", "call", "close", "write"}
           => attempt[c][try[r][c]].status = "running"
      /\ pc[r][c] \in {"fail", "failwrite"}
           => attempt[c][try[r][c]].status # "complete"

(* Everything before the runner's panel is stored, and at the gate the     *)
(* panel too.                                                              *)
StagesStored ==
  \A r \in Runners : Active(r) =>
    \A c \in Cells :
      /\ PanelOf(c) < stage[r] => CompleteRow(c)
      /\ phase[r] = "gate" /\ PanelOf(c) = stage[r] => CompleteRow(c)

(* Behind the gate the candidate is promoted, and only an eligible one is. *)
GatePassed ==
  /\ cand \in {"promoted", "rolled_back"} => eligible
  /\ \A r \in Runners :
       /\ Active(r) /\ stage[r] > Gated => cand \in {"promoted", "rolled_back"}

SoloInv ==
  alone => /\ OneActive /\ RowsAsLeft /\ StagesStored /\ StagesInOrder
           /\ CompleteJobIsBacked

IInv == ShapeInv /\ ThreadsInPanel /\ GatePassed /\ SoloInv

-----------------------------------------------------------------------------
(***************************************************************************)
(* The panels.                                                             *)
(***************************************************************************)

(* A cell has one panel, and that is where its attempts come from.         *)
LEMMA PanelFacts ==
  ASSUME NEW c \in Cells
  PROVE  /\ PanelOf(c) \in DOMAIN Panels
         /\ c \in Range(Panels[PanelOf(c)])
         /\ \A s \in DOMAIN Panels : c \in Range(Panels[s]) => PanelOf(c) = s
<1>1. PICK s \in DOMAIN Panels : c \in Range(Panels[s])
  BY JobAssumption
<1>2. PanelOf(c) \in DOMAIN Panels /\ c \in Range(Panels[PanelOf(c)])
  BY <1>1 DEF PanelOf
<1>3. ASSUME NEW t \in DOMAIN Panels, c \in Range(Panels[t])
      PROVE  PanelOf(c) = t
  BY <1>2, <1>3, JobAssumption
<1>. QED  BY <1>2, <1>3

LEMMA AttemptFacts ==
  ASSUME NEW c \in Cells
  PROVE  /\ Attempts(c) \subseteq Nat
         /\ 1 \in Attempts(c)
         /\ ChildrenOf(c) = 1 .. Len(Children[c])
         /\ Len(Children[c]) \in Nat
<1>1. Retries[PanelOf(c)] \in Nat
  BY PanelFacts, JobAssumption
<1>2. Children[c] \in Seq({"learning", "evaluation"})
  BY JobAssumption
<1>. QED  BY <1>1, <1>2 DEF Attempts, ChildrenOf

LEMMA PanelsLength == Panels \in Seq(Seq(Cells)) /\ DOMAIN Panels = 1 .. Len(Panels)
                      /\ Len(Panels) \in Nat /\ 1 \in DOMAIN Panels
  BY JobAssumption

-----------------------------------------------------------------------------
(***************************************************************************)
(* Types, and the rows behind the threads.                                 *)
(***************************************************************************)

LEMMA TypeInit == Init => TypeOK /\ ThreadsHaveRows
<1>. SUFFICES ASSUME Init PROVE TypeOK /\ ThreadsHaveRows
  OBVIOUS
<1>. USE DEF Init, NoRow, RowSet
<1>1. \A c \in Cells : 1 \in Attempts(c) /\ 0 \in 0 .. Len(Children[c])
  BY AttemptFacts
<1>2. 1 \in DOMAIN Panels
  BY PanelsLength
<1>3. alone \in BOOLEAN
  BY JobAssumption
<1>4. DOMAIN attempt = Cells /\ DOMAIN sub = Cells
      /\ (\A c \in Cells : attempt[c] \in [Attempts(c) -> RowSet])
      /\ (\A c \in Cells : sub[c] \in [ChildrenOf(c) -> RowSet])
  OBVIOUS
<1>5. pc \in [Runners -> [Cells -> InCell \cup {"wait", "done", "raised"}]]
  BY DEF InCell
<1>. QED  BY <1>1, <1>2, <1>3, <1>4, <1>5 DEF TypeOK, ThreadsHaveRows

BudgetSet == [attempts : Nat, spent : Nat, blocked : BOOLEAN]

(* TypeOK in its three parts: the tables, and the world, the threads. *)
TablesOK ==
  /\ DOMAIN attempt = Cells /\ DOMAIN sub = Cells
  /\ \A c \in Cells : attempt[c] \in [Attempts(c) -> RowSet]
  /\ \A c \in Cells : sub[c] \in [ChildrenOf(c) -> RowSet]
  /\ budget \in BudgetSet

WorldOK ==
  /\ job \in {"none", "running", "complete", "failed"}
  /\ cand \in {"open", "promoted", "quarantined", "rolled_back"}
  /\ eligible \in BOOLEAN /\ alone \in BOOLEAN
  /\ phase \in [Runners -> {"idle", "stage", "gate", "ended", "dead"}]
  /\ stage \in [Runners -> DOMAIN Panels]

Labels == InCell \cup {"wait", "done", "raised"}

ThreadsOK ==
  /\ pc \in [Runners -> [Cells -> Labels]]
  /\ try \in [Runners -> [Cells -> Nat]] /\ child \in [Runners -> [Cells -> Nat]]
  /\ \A r \in Runners, c \in Cells : try[r][c] \in Attempts(c)
  /\ \A r \in Runners, c \in Cells : child[r][c] \in 0 .. Len(Children[c])
  /\ used \in [Runners -> [Cells -> Nat]]

LEMMA TypeParts == (TypeOK <=> TablesOK /\ WorldOK /\ ThreadsOK)
                   /\ (TypeOK' <=> TablesOK' /\ WorldOK' /\ ThreadsOK')
  BY DEF TypeOK, TablesOK, BudgetSet, WorldOK, ThreadsOK, Labels

(* One entry of a two-dimensional function is replaced.                    *)
LEMMA Entry ==
  ASSUME NEW R, NEW C, NEW V, NEW f \in [R -> [C -> V]],
         NEW r \in R, NEW c \in C, NEW v \in V,
         NEW g, g = [f EXCEPT ![r][c] = v]
  PROVE  /\ g \in [R -> [C -> V]]
         /\ \A q \in R, d \in C : g[q][d] = IF q = r /\ d = c THEN v ELSE f[q][d]
<1>. DEFINE h == [f[r] EXCEPT ![c] = v]
<1>1. h \in [C -> V]
  OBVIOUS
<1>2. g = [f EXCEPT ![r] = h]
  OBVIOUS
<1>3. g \in [R -> [C -> V]]
  BY <1>1, <1>2
<1>4. \A q \in R, d \in C : g[q][d] = IF q = r /\ d = c THEN v ELSE f[q][d]
  OBVIOUS
<1>. QED  BY <1>3, <1>4

(* A thread goes to a label and, if anything, some of its counters move.   *)
LEMMA ThreadMove ==
  ASSUME ThreadsOK, NEW r \in Runners, NEW c \in Cells,
         UNCHANGED pc \/ \E l \in Labels : pc' = [pc EXCEPT ![r][c] = l],
         UNCHANGED try \/ \E n \in Attempts(c) : try' = [try EXCEPT ![r][c] = n],
         UNCHANGED child \/ \E n \in 0 .. Len(Children[c]) : child' = [child EXCEPT ![r][c] = n],
         UNCHANGED used \/ \E n \in Nat : used' = [used EXCEPT ![r][c] = n]
  PROVE  ThreadsOK'
<1>1. pc' \in [Runners -> [Cells -> Labels]]
  <2>1. pc \in [Runners -> [Cells -> Labels]]
    BY DEF ThreadsOK
  <2>2. ASSUME NEW l \in Labels, pc' = [pc EXCEPT ![r][c] = l]
        PROVE  pc' \in [Runners -> [Cells -> Labels]]
    BY <2>1, <2>2, Entry
  <2>. QED  BY <2>1, <2>2
<1>2. /\ try' \in [Runners -> [Cells -> Nat]]
      /\ \A q \in Runners, d \in Cells : try'[q][d] \in Attempts(d)
  <2>1. /\ try \in [Runners -> [Cells -> Nat]]
        /\ \A q \in Runners, d \in Cells : try[q][d] \in Attempts(d)
    BY DEF ThreadsOK
  <2>2. ASSUME NEW n \in Attempts(c), try' = [try EXCEPT ![r][c] = n]
        PROVE  /\ try' \in [Runners -> [Cells -> Nat]]
               /\ \A q \in Runners, d \in Cells : try'[q][d] \in Attempts(d)
    <3>1. n \in Nat
      BY AttemptFacts
    <3>2. /\ try' \in [Runners -> [Cells -> Nat]]
          /\ \A q \in Runners, d \in Cells :
               try'[q][d] = IF q = r /\ d = c THEN n ELSE try[q][d]
      <4>1. try \in [Runners -> [Cells -> Nat]]
        BY <2>1
      <4>. QED  BY <2>2, <3>1, <4>1, Entry, ZenonT(60)
    <3>. QED  BY <2>1, <2>2, <3>2
  <2>3. CASE UNCHANGED try
    BY <2>1, <2>3 DEF Attempts
  <2>4. CASE \E n \in Attempts(c) : try' = [try EXCEPT ![r][c] = n]
    BY <2>2, <2>4
  <2>. QED  BY <2>3, <2>4
<1>3. /\ child' \in [Runners -> [Cells -> Nat]]
      /\ \A q \in Runners, d \in Cells : child'[q][d] \in 0 .. Len(Children[d])
  <2>1. /\ child \in [Runners -> [Cells -> Nat]]
        /\ \A q \in Runners, d \in Cells : child[q][d] \in 0 .. Len(Children[d])
    BY DEF ThreadsOK
  <2>2. ASSUME NEW n \in 0 .. Len(Children[c]), child' = [child EXCEPT ![r][c] = n]
        PROVE  /\ child' \in [Runners -> [Cells -> Nat]]
               /\ \A q \in Runners, d \in Cells : child'[q][d] \in 0 .. Len(Children[d])
    <3>1. n \in Nat
      BY AttemptFacts
    <3>2. /\ child' \in [Runners -> [Cells -> Nat]]
          /\ \A q \in Runners, d \in Cells :
               child'[q][d] = IF q = r /\ d = c THEN n ELSE child[q][d]
      <4>1. child \in [Runners -> [Cells -> Nat]]
        BY <2>1
      <4>. QED  BY <2>2, <3>1, <4>1, Entry, ZenonT(60)
    <3>. QED  BY <2>1, <2>2, <3>2
  <2>3. CASE UNCHANGED child
    BY <2>1, <2>3 DEF Attempts
  <2>4. CASE \E n \in 0 .. Len(Children[c]) : child' = [child EXCEPT ![r][c] = n]
    BY <2>2, <2>4
  <2>. QED  BY <2>3, <2>4
<1>4. used' \in [Runners -> [Cells -> Nat]]
  <2>1. used \in [Runners -> [Cells -> Nat]]
    BY DEF ThreadsOK
  <2>2. ASSUME NEW n \in Nat, used' = [used EXCEPT ![r][c] = n]
        PROVE  used' \in [Runners -> [Cells -> Nat]]
    BY <2>1, <2>2, Entry
  <2>. QED  BY <2>1, <2>2
<1>. QED  BY <1>1, <1>2, <1>3, <1>4 DEF ThreadsOK, Attempts

(* A row of one of the tables is replaced by another.                      *)
LEMMA RowChange ==
  ASSUME NEW T, NEW S, NEW R, NEW c \in S, NEW D, NEW n, NEW row \in R,
         DOMAIN T = S, T[c] \in [D -> R],
         NEW U, U = [T EXCEPT ![c][n] = row]
  PROVE  /\ DOMAIN U = S
         /\ U[c] \in [D -> R]
         /\ \A m \in D : U[c][m] = IF m = n THEN row ELSE T[c][m]
         /\ \A d \in S : d # c => U[d] = T[d]
  OBVIOUS

(* One row of the launches changes, or none does; the budget stays well    *)
(* formed.                                                                 *)
LEMMA LaunchChange ==
  ASSUME TablesOK, NEW c \in Cells, NEW n, NEW row \in RowSet,
         attempt' = [attempt EXCEPT ![c][n] = row] \/ UNCHANGED attempt,
         UNCHANGED sub,
         budget' \in BudgetSet
  PROVE  TablesOK'
<1>1. DOMAIN attempt' = Cells /\ \A d \in Cells : attempt'[d] \in [Attempts(d) -> RowSet]
  <2>1. /\ DOMAIN attempt = Cells
        /\ \A d \in Cells : attempt[d] \in [Attempts(d) -> RowSet]
    BY DEF TablesOK
  <2>2. CASE attempt' = [attempt EXCEPT ![c][n] = row]
    <3>1. DOMAIN attempt' = Cells /\ attempt'[c] \in [Attempts(c) -> RowSet]
          /\ \A d \in Cells : d # c => attempt'[d] = attempt[d]
      BY <2>1, <2>2, RowChange, Zenon
    <3>. QED  BY <2>1, <3>1
  <2>. QED  BY <2>1, <2>2
<1>. QED  BY <1>1 DEF TablesOK, Attempts, ChildrenOf

(* The same of the subcalls.                                               *)
LEMMA SubcallChange ==
  ASSUME TablesOK, NEW c \in Cells, NEW n, NEW row \in RowSet,
         sub' = [sub EXCEPT ![c][n] = row] \/ UNCHANGED sub,
         UNCHANGED attempt,
         budget' \in BudgetSet
  PROVE  TablesOK'
<1>1. DOMAIN sub' = Cells /\ \A d \in Cells : sub'[d] \in [ChildrenOf(d) -> RowSet]
  <2>1. /\ DOMAIN sub = Cells
        /\ \A d \in Cells : sub[d] \in [ChildrenOf(d) -> RowSet]
    BY DEF TablesOK
  <2>2. CASE sub' = [sub EXCEPT ![c][n] = row]
    <3>1. DOMAIN sub' = Cells /\ sub'[c] \in [ChildrenOf(c) -> RowSet]
          /\ \A d \in Cells : d # c => sub'[d] = sub[d]
      BY <2>1, <2>2, RowChange, Zenon
    <3>. QED  BY <2>1, <3>1
  <2>. QED  BY <2>1, <2>2
<1>. QED  BY <1>1 DEF TablesOK, Attempts, ChildrenOf

LEMMA BudgetChange ==
  ASSUME budget \in BudgetSet, NEW n \in Nat, NEW m \in Nat, NEW b \in BOOLEAN
  PROVE  /\ [budget EXCEPT !.attempts = budget.attempts + n] \in BudgetSet
         /\ [budget EXCEPT !.blocked = b] \in BudgetSet
         /\ [budget EXCEPT !.spent = budget.spent + m, !.blocked = b] \in BudgetSet
<1>1. budget.attempts + n \in Nat /\ budget.spent + m \in Nat
  BY DEF BudgetSet
<1>. QED  BY <1>1, Zenon DEF BudgetSet

(* Where a failed attempt leaves its thread.                               *)
LEMMA AfterFailureMoves ==
  ASSUME NEW r, NEW c, AfterFailure(r, c)
  PROVE  /\ \E l \in Labels : pc' = [pc EXCEPT ![r][c] = l]
         /\ \/ UNCHANGED try
            \/ \E n \in Attempts(c) : try' = [try EXCEPT ![r][c] = n]
<1>. /\ "look" \in Labels /\ "raised" \in Labels
  BY DEF Labels, InCell
<1>1. CASE try[r][c] + 1 \in Attempts(c)
  <2>1. try' = [try EXCEPT ![r][c] = try[r][c] + 1] /\ pc' = [pc EXCEPT ![r][c] = "look"]
    BY <1>1 DEF AfterFailure, Goto
  <2>. QED  BY <1>1, <2>1
<1>2. CASE try[r][c] + 1 \notin Attempts(c)
  BY <1>2 DEF AfterFailure, Goto
<1>. QED  BY <1>1, <1>2

LEMMA TablesSame == TablesOK /\ UNCHANGED tables => TablesOK'
  BY DEF TablesOK, tables, Attempts, ChildrenOf

LEMMA WorldSame == WorldOK /\ UNCHANGED <<world, runner>> => WorldOK'
  BY DEF WorldOK, world, runner

LEMMA ThreadsSame == ThreadsOK /\ UNCHANGED cellVars => ThreadsOK'
  BY DEF ThreadsOK, cellVars, Attempts

LEMMA TypeStep ==
  ASSUME TypeOK, ThreadsHaveRows, GateAtPanel, [Next]_vars
  PROVE  TypeOK'
<1>. TablesOK /\ WorldOK /\ ThreadsOK
  BY TypeParts
<1>. SUFFICES TablesOK' /\ WorldOK' /\ ThreadsOK'
  BY TypeParts
<1>. USE TablesSame, WorldSame, ThreadsSame
<1>0. CASE UNCHANGED vars
  BY <1>0 DEF vars, tables, world, runner, cellVars
<1>1. ASSUME NEW r \in Runners, Start(r) PROVE TablesOK' /\ WorldOK' /\ ThreadsOK'
  BY <1>1 DEF Start, WorldOK
<1>2. ASSUME NEW r \in Runners, Crash(r) PROVE TablesOK' /\ WorldOK' /\ ThreadsOK'
  <2>1. TablesOK' /\ WorldOK'
    BY <1>2 DEF Crash, WorldOK, world
  <2>2. /\ "wait" \in Labels
        /\ \A c \in Cells : 1 \in Attempts(c) /\ 0 \in 0 .. Len(Children[c])
    BY AttemptFacts DEF Labels
  <2>3. \A q \in Runners, c \in Cells :
          /\ try'[q][c] = IF q = r THEN 1 ELSE try[q][c]
          /\ child'[q][c] = IF q = r THEN 0 ELSE child[q][c]
    BY <1>2 DEF Crash, ThreadsOK
  <2>4. /\ pc' \in [Runners -> [Cells -> Labels]]
        /\ try' \in [Runners -> [Cells -> Nat]] /\ child' \in [Runners -> [Cells -> Nat]]
        /\ used' \in [Runners -> [Cells -> Nat]]
    BY <1>2, <2>2 DEF Crash, ThreadsOK
  <2>5. \A q \in Runners, c \in Cells : try'[q][c] \in Attempts(c)
    BY <2>2, <2>3 DEF ThreadsOK
  <2>6. \A q \in Runners, c \in Cells : child'[q][c] \in 0 .. Len(Children[c])
    BY <2>2, <2>3 DEF ThreadsOK
  <2>. QED  BY <2>1, <2>4, <2>5, <2>6 DEF ThreadsOK, Attempts
<1>3. ASSUME NEW r \in Runners, FinishStage(r) PROVE TablesOK' /\ WorldOK' /\ ThreadsOK'
  <2>1. stage[r] < Len(Panels) => stage[r] + 1 \in DOMAIN Panels
    BY PanelsLength DEF WorldOK
  <2>. QED  BY <1>3, <2>1 DEF FinishStage, WorldOK
<1>4. ASSUME NEW r \in Runners, AbandonStage(r) PROVE TablesOK' /\ WorldOK' /\ ThreadsOK'
  BY <1>4 DEF AbandonStage, Fail, WorldOK
<1>5. ASSUME NEW r \in Runners, FailReport(r) PROVE TablesOK' /\ WorldOK' /\ ThreadsOK'
  BY <1>5 DEF FailReport, Fail, WorldOK
<1>6. ASSUME NEW r \in Runners, Gate(r) PROVE TablesOK' /\ WorldOK' /\ ThreadsOK'
  <2>1. stage[r] + 1 \in DOMAIN Panels
    BY <1>6, PanelsLength, JobAssumption DEF WorldOK, Gate, GateAtPanel
  <2>. QED  BY <1>6, <2>1 DEF Gate, Fail, WorldOK
<1>7. CASE RollBack
  BY <1>7 DEF RollBack, WorldOK, runner
<1>. /\ InCell \subseteq Labels /\ {"wait", "done", "raised"} \subseteq Labels
     /\ {"look", "reserve", "recheck", "callback", "call", "close", "write", "fail", "failwrite"}
          \subseteq InCell
  BY DEF Labels, InCell
<1>8. ASSUME NEW r \in Runners, NEW c \in Cells, StartCell(r, c)
      PROVE  TablesOK' /\ WorldOK' /\ ThreadsOK'
  <2>1. \E l \in Labels : pc' = [pc EXCEPT ![r][c] = l]
    BY <1>8 DEF StartCell, Goto
  <2>. QED  BY <1>8, <2>1, ThreadMove DEF StartCell
<1>9. ASSUME NEW r \in Runners, NEW c \in Cells, Recheck(r, c)
      PROVE  TablesOK' /\ WorldOK' /\ ThreadsOK'
  <2>1. \E l \in Labels : pc' = [pc EXCEPT ![r][c] = l]
    BY <1>9 DEF Recheck, Goto
  <2>. QED  BY <1>9, <2>1, ThreadMove DEF Recheck
<1>10. ASSUME NEW r \in Runners, NEW c \in Cells, CallbackRaises(r, c)
      PROVE  TablesOK' /\ WorldOK' /\ ThreadsOK'
  <2>1. \E l \in Labels : pc' = [pc EXCEPT ![r][c] = l]
    BY <1>10 DEF CallbackRaises, Goto
  <2>. QED  BY <1>10, <2>1, ThreadMove DEF CallbackRaises
<1>11. ASSUME NEW r \in Runners, NEW c \in Cells, Close(r, c)
      PROVE  TablesOK' /\ WorldOK' /\ ThreadsOK'
  <2>1. \E l \in Labels : pc' = [pc EXCEPT ![r][c] = l]
    BY <1>11 DEF Close, Goto
  <2>. QED  BY <1>11, <2>1, ThreadMove DEF Close
<1>12. ASSUME NEW r \in Runners, NEW c \in Cells, Look(r, c)
      PROVE  TablesOK' /\ WorldOK' /\ ThreadsOK'
  <2>1. /\ \E l \in Labels : pc' = [pc EXCEPT ![r][c] = l]
        /\ UNCHANGED try \/ \E m \in Attempts(c) : try' = [try EXCEPT ![r][c] = m]
    BY <1>12, AfterFailureMoves DEF Look, Goto
  <2>. QED  BY <1>12, <2>1, ThreadMove DEF Look
<1>13. ASSUME NEW r \in Runners, NEW c \in Cells, CloseFailed(r, c)
      PROVE  TablesOK' /\ WorldOK' /\ ThreadsOK'
  <2>1. /\ \E l \in Labels : pc' = [pc EXCEPT ![r][c] = l]
        /\ UNCHANGED try \/ \E m \in Attempts(c) : try' = [try EXCEPT ![r][c] = m]
    BY <1>13, AfterFailureMoves DEF CloseFailed, Goto
  <2>. QED  BY <1>13, <2>1, ThreadMove DEF CloseFailed
<1>14. ASSUME NEW r \in Runners, NEW c \in Cells, CallbackReturns(r, c)
      PROVE  TablesOK' /\ WorldOK' /\ ThreadsOK'
  <2>1. \E l \in Labels : pc' = [pc EXCEPT ![r][c] = l]
    BY <1>14 DEF CallbackReturns, Goto
  <2>2. UNCHANGED used \/ \E u \in Nat : used' = [used EXCEPT ![r][c] = u]
    BY <1>14, JobAssumption DEF CallbackReturns
  <2>. QED  BY <1>14, <2>1, <2>2, ThreadMove DEF CallbackReturns
<1>15. ASSUME NEW r \in Runners, NEW c \in Cells, Reserve(r, c)
      PROVE  TablesOK' /\ WorldOK' /\ ThreadsOK'
  <2>1. \E l \in Labels : pc' = [pc EXCEPT ![r][c] = l]
    BY <1>15 DEF Reserve, Goto
  <2>2. UNCHANGED used \/ \E u \in Nat : used' = [used EXCEPT ![r][c] = u]
    BY <1>15 DEF Reserve
  <2>3. UNCHANGED child \/ \E i \in 0 .. Len(Children[c]) : child' = [child EXCEPT ![r][c] = i]
    BY <1>15, AttemptFacts DEF Reserve
  <2>4. UNCHANGED <<world, runner, try>>
    BY <1>15 DEF Reserve
  <2>5. TablesOK'
    <3>0. \/ UNCHANGED budget
          \/ budget' = [budget EXCEPT !.blocked = TRUE]
          \/ budget' = [budget EXCEPT !.attempts = budget.attempts + 1]
      BY <1>15 DEF Reserve
    <3>1. budget' \in BudgetSet /\ UNCHANGED sub
      <4>1. budget \in BudgetSet
        BY DEF TablesOK
      <4>2. UNCHANGED sub
        BY <1>15 DEF Reserve
      <4>. QED  BY <3>0, <4>1, <4>2, BudgetChange
    <3>2. CASE UNCHANGED attempt
      BY <3>1, <3>2 DEF TablesOK, Attempts, ChildrenOf
    <3>3. CASE attempt' = [attempt EXCEPT ![c][try[r][c]].status = "running"]
      <4>. DEFINE row == [attempt[c][try[r][c]] EXCEPT !.status = "running"]
      <4>0. attempt[c][try[r][c]] \in RowSet
        BY DEF TablesOK, ThreadsOK
      <4>1. row \in RowSet
        BY <4>0 DEF RowSet
      <4>2. attempt' = [attempt EXCEPT ![c][try[r][c]] = row]
        BY <3>3
      <4>. HIDE DEF row
      <4>. QED  BY <3>1, <4>1, <4>2, LaunchChange
    <3>. QED  BY <1>15, <3>2, <3>3 DEF Reserve
  <2>. QED  BY <2>1, <2>2, <2>3, <2>4, <2>5, ThreadMove
<1>16. ASSUME NEW r \in Runners, NEW c \in Cells, AdmitSubcall(r, c)
      PROVE  TablesOK' /\ WorldOK' /\ ThreadsOK'
  <2>. DEFINE i == NextChild(r, c)
  <2>0. i \in ChildrenOf(c) /\ i \in 0 .. Len(Children[c]) /\ sub[c][i] \in RowSet
    BY <1>16, AttemptFacts DEF AdmitSubcall, TablesOK
  <2>1. UNCHANGED pc \/ \E l \in Labels : pc' = [pc EXCEPT ![r][c] = l]
    BY <1>16 DEF AdmitSubcall, ReuseSubcall, Goto
  <2>2. UNCHANGED used \/ \E u \in Nat : used' = [used EXCEPT ![r][c] = u]
    <3>1. used[r][c] \in Nat /\ sub[c][i].use \in Nat
      BY <2>0 DEF ThreadsOK, RowSet
    <3>2. UNCHANGED used \/ used' = [used EXCEPT ![r][c] = used[r][c] + sub[c][i].use]
      BY <1>16 DEF AdmitSubcall, ReuseSubcall, TakeReceipt
    <3>. QED  BY <3>1, <3>2
  <2>3. UNCHANGED child \/ \E m \in 0 .. Len(Children[c]) : child' = [child EXCEPT ![r][c] = m]
    <3>1. UNCHANGED child \/ child' = [child EXCEPT ![r][c] = i]
      BY <1>16 DEF AdmitSubcall, ReuseSubcall, TakeReceipt, NextChild
    <3>. QED  BY <2>0, <3>1
  <2>4. UNCHANGED <<attempt, world, runner, try>>
    BY <1>16 DEF AdmitSubcall
  <2>5. TablesOK'
    <3>1. budget' \in BudgetSet
      <4>1. UNCHANGED budget \/ budget' = [budget EXCEPT !.blocked = TRUE]
        BY <1>16 DEF AdmitSubcall, ReuseSubcall
      <4>2. budget \in BudgetSet
        BY DEF TablesOK
      <4>. QED  BY <4>1, <4>2, BudgetChange
    <3>2. CASE UNCHANGED sub
      BY <2>4, <3>1, <3>2 DEF TablesOK, Attempts, ChildrenOf
    <3>3. CASE sub' = [sub EXCEPT ![c][i].status = "reserved"]
      <4>. DEFINE row == [sub[c][i] EXCEPT !.status = "reserved"]
      <4>1. row \in RowSet
        BY <2>0 DEF RowSet
      <4>2. sub' = [sub EXCEPT ![c][i] = row]
        BY <3>3
      <4>. HIDE DEF row, i
      <4>. QED  BY <2>4, <3>1, <4>1, <4>2, SubcallChange
    <3>. QED  BY <1>16, <3>2, <3>3 DEF AdmitSubcall, ReuseSubcall
  <2>. QED  BY <2>1, <2>2, <2>3, <2>4, <2>5, ThreadMove
<1>17. ASSUME NEW r \in Runners, NEW c \in Cells, RecordSubcall(r, c)
      PROVE  TablesOK' /\ WorldOK' /\ ThreadsOK'
  <2>. DEFINE i == NextChild(r, c)
  <2>. i \in ChildrenOf(c)
    BY <1>17 DEF RecordSubcall, ThreadsHaveRows
  <2>0. i \in ChildrenOf(c) /\ i \in 0 .. Len(Children[c]) /\ sub[c][i] \in RowSet
    BY AttemptFacts DEF TablesOK
  <2>1. \E l \in Labels : pc' = [pc EXCEPT ![r][c] = l]
    BY <1>17 DEF RecordSubcall, Goto
  <2>2. UNCHANGED used \/ \E u \in Nat : used' = [used EXCEPT ![r][c] = u]
    <3>1. used[r][c] \in Nat
      BY DEF ThreadsOK
    <3>2. UNCHANGED used \/ \E u \in Usages : used' = [used EXCEPT ![r][c] = used[r][c] + u]
      BY <1>17 DEF RecordSubcall, TakeReceipt
    <3>3. \A u \in Usages : u \in Nat
      BY JobAssumption
    <3>4. \A u \in Usages : used[r][c] + u \in Nat
      BY <3>1, <3>3
    <3>. QED  BY <3>2, <3>4
  <2>3. UNCHANGED child \/ \E m \in 0 .. Len(Children[c]) : child' = [child EXCEPT ![r][c] = m]
    <3>1. UNCHANGED child \/ child' = [child EXCEPT ![r][c] = i]
      BY <1>17 DEF RecordSubcall, TakeReceipt, NextChild
    <3>. QED  BY <2>0, <3>1
  <2>4. UNCHANGED <<attempt, world, runner, try>>
    BY <1>17 DEF RecordSubcall
  <2>5. \E row \in RowSet : sub' = [sub EXCEPT ![c][i] = row]
    <3>1. CASE sub' = [sub EXCEPT ![c][i].status = "failed"]
      <4>. DEFINE row == [sub[c][i] EXCEPT !.status = "failed"]
      <4>1. row \in RowSet
        BY <2>0 DEF RowSet
      <4>2. sub' = [sub EXCEPT ![c][i] = row]
        BY <3>1
      <4>. QED  BY <4>1, <4>2
    <3>2. ASSUME NEW u \in Usages, NEW known \in BOOLEAN,
                 sub' = [sub EXCEPT ![c][i] =
                           [status |-> "complete", use |-> u, known |-> known]]
          PROVE  \E row \in RowSet : sub' = [sub EXCEPT ![c][i] = row]
      <4>1. [status |-> "complete", use |-> u, known |-> known] \in RowSet
        BY JobAssumption DEF RowSet
      <4>. QED  BY <3>2, <4>1
    <3>. QED  BY <1>17, <3>1, <3>2 DEF RecordSubcall
  <2>6. budget' \in BudgetSet
    <3>1. budget \in BudgetSet
      BY DEF TablesOK, BudgetSet
    <3>2. \/ budget' = [budget EXCEPT !.blocked = TRUE]
          \/ \E u \in Usages, b \in BOOLEAN :
               budget' = [budget EXCEPT !.spent = budget.spent + u, !.blocked = b]
      <4>1. \A b \in BOOLEAN : (budget.blocked \/ ~b) \in BOOLEAN
        OBVIOUS
      <4>. QED  BY <1>17, <4>1 DEF RecordSubcall
    <3>3. \A u \in Usages : u \in Nat
      BY JobAssumption
    <3>. QED  BY <3>1, <3>2, <3>3, BudgetChange, ZenonT(60)
  <2>7. TablesOK'
    <3>. HIDE DEF i
    <3>. QED  BY <2>4, <2>5, <2>6, SubcallChange
  <2>. QED  BY <2>1, <2>2, <2>3, <2>4, <2>7, ThreadMove
<1>18. ASSUME NEW r \in Runners, NEW c \in Cells, WriteComplete(r, c)
      PROVE  TablesOK' /\ WorldOK' /\ ThreadsOK'
  <2>1. \E l \in Labels : pc' = [pc EXCEPT ![r][c] = l]
    BY <1>18 DEF WriteComplete, Goto
  <2>2. UNCHANGED <<sub, world, runner, try, child, used>>
    BY <1>18 DEF WriteComplete
  <2>3. OwnUse(r, c) \in Nat /\ Charge(r, c) \in Nat
    BY DEF OwnUse, Charge, ThreadsOK
  <2>4. [status |-> "complete", use |-> OwnUse(r, c), known |-> TRUE] \in RowSet
    BY <2>3 DEF RowSet
  <2>5. budget' \in BudgetSet
    <3>1. budget \in BudgetSet
      BY DEF TablesOK, BudgetSet
    <3>2. PICK known \in BOOLEAN :
            budget' = [budget EXCEPT !.spent = budget.spent + Charge(r, c),
              !.blocked = budget.blocked \/ ~known \/ budget.spent + Charge(r, c) > MaxUsage]
      BY <1>18 DEF WriteComplete
    <3>3. (budget.blocked \/ ~known \/ budget.spent + Charge(r, c) > MaxUsage) \in BOOLEAN
      OBVIOUS
    <3>. QED  BY <2>3, <3>1, <3>2, <3>3, BudgetChange
  <2>6. TablesOK'
    BY <1>18, <2>2, <2>4, <2>5, LaunchChange DEF WriteComplete
  <2>. QED  BY <2>1, <2>2, <2>6, ThreadMove
<1>19. ASSUME NEW r \in Runners, NEW c \in Cells, WriteFailed(r, c)
      PROVE  TablesOK' /\ WorldOK' /\ ThreadsOK'
  <2>1. /\ \E l \in Labels : pc' = [pc EXCEPT ![r][c] = l]
        /\ UNCHANGED try \/ \E m \in Attempts(c) : try' = [try EXCEPT ![r][c] = m]
    BY <1>19, AfterFailureMoves DEF WriteFailed
  <2>2. UNCHANGED <<sub, world, runner, child, used>>
    BY <1>19 DEF WriteFailed
  <2>3. [NoRow EXCEPT !.status = "failed"] \in RowSet
    BY DEF RowSet, NoRow
  <2>4. budget' \in BudgetSet
    <3>1. budget \in BudgetSet
      BY DEF TablesOK
    <3>2. (budget.blocked \/ budget.spent > MaxUsage) \in BOOLEAN
      OBVIOUS
    <3>. QED  BY <1>19, <3>1, <3>2, BudgetChange DEF WriteFailed
  <2>5. TablesOK'
    BY <1>19, <2>2, <2>3, <2>4, LaunchChange DEF WriteFailed
  <2>. QED  BY <2>1, <2>2, <2>5, ThreadMove
<1>. QED
  BY <1>0, <1>1, <1>2, <1>3, <1>4, <1>5, <1>6, <1>7, <1>8, <1>9, <1>10, <1>11, <1>12, <1>13, <1>14, <1>15, <1>16, <1>17, <1>18, <1>19 DEF Next, RunnerStep, CellStep

-----------------------------------------------------------------------------
(***************************************************************************)
(* What a step does to the tables: nothing that counts, a claimed launch,  *)
(* or an admitted subcall.                                                 *)
(***************************************************************************)

RowsKept ==
  /\ \A c \in Cells : \A n \in Attempts(c) :
       attempt'[c][n].status = "none" <=> attempt[c][n].status = "none"
  /\ \A c \in Cells : \A i \in ChildrenOf(c) :
       sub'[c][i].status = "none" <=> sub[c][i].status = "none"
  /\ budget'.attempts = budget.attempts
  /\ dispatches' = dispatches

LaunchClaimed(c, n) ==
  /\ attempt[c][n].status = "none"
  /\ attempt' = [attempt EXCEPT ![c][n].status = "running"]
  /\ budget' = [budget EXCEPT !.attempts = @ + 1]
  /\ ~LaunchExhausted
  /\ UNCHANGED <<sub, dispatches>>

SubcallClaimed(c, i) ==
  /\ sub[c][i].status = "none"
  /\ sub' = [sub EXCEPT ![c][i].status = "reserved"]
  /\ dispatches' = [dispatches EXCEPT ![c][i] = @ + 1]
  /\ ~SubcallExhausted
  /\ UNCHANGED <<attempt, budget>>

LEMMA TableStep ==
  ASSUME TypeOK, ThreadsHaveRows, [Next]_vars
  PROVE  \/ RowsKept
         \/ \E c \in Cells : \E n \in Attempts(c) : LaunchClaimed(c, n)
         \/ \E c \in Cells : \E i \in ChildrenOf(c) : SubcallClaimed(c, i)
<1>. /\ TablesOK /\ ThreadsOK
     /\ budget \in BudgetSet
  BY TypeParts DEF TablesOK
<1>0. ASSUME UNCHANGED <<tables, dispatches>> PROVE RowsKept
  BY <1>0 DEF RowsKept, tables
<1>1. ASSUME NEW r \in Runners, NEW c \in Cells, Reserve(r, c)
      PROVE  RowsKept \/ LaunchClaimed(c, try[r][c])
  <2>1. CASE UNCHANGED attempt
    <3>1. \/ UNCHANGED budget
          \/ budget' = [budget EXCEPT !.blocked = TRUE]
          \/ LaunchClaimed(c, try[r][c])
      BY <1>1 DEF Reserve, LaunchClaimed, Row
    <3>2. budget'.attempts = budget.attempts \/ LaunchClaimed(c, try[r][c])
      BY <3>1 DEF BudgetSet
    <3>3. UNCHANGED <<sub, dispatches>>
      BY <1>1 DEF Reserve
    <3>. QED  BY <2>1, <3>2, <3>3 DEF RowsKept
  <2>. QED  BY <1>1, <2>1 DEF Reserve, LaunchClaimed, Row
<1>2. ASSUME NEW r \in Runners, NEW c \in Cells, AdmitSubcall(r, c)
      PROVE  RowsKept \/ SubcallClaimed(c, NextChild(r, c))
  <2>1. CASE UNCHANGED <<sub, dispatches>>
    <3>1. UNCHANGED attempt /\ (UNCHANGED budget \/ budget' = [budget EXCEPT !.blocked = TRUE])
      BY <1>2 DEF AdmitSubcall, ReuseSubcall
    <3>2. budget'.attempts = budget.attempts
      BY <3>1 DEF BudgetSet
    <3>. QED  BY <2>1, <3>1, <3>2 DEF RowsKept
  <2>. QED  BY <1>2, <2>1 DEF AdmitSubcall, ReuseSubcall, SubcallClaimed
<1>3. ASSUME NEW r \in Runners, NEW c \in Cells, RecordSubcall(r, c) PROVE RowsKept
  <2>. DEFINE i == NextChild(r, c)
  <2>1. i \in ChildrenOf(c) /\ sub[c][i].status # "none"
    BY <1>3 DEF RecordSubcall, ThreadsHaveRows
  <2>2. budget'.attempts = budget.attempts /\ UNCHANGED <<attempt, dispatches>>
    BY <1>3 DEF RecordSubcall, BudgetSet
  <2>3. \E row : sub' = [sub EXCEPT ![c][i] = row] /\ row.status # "none"
    <3>1. CASE sub' = [sub EXCEPT ![c][i].status = "failed"]
      <4>1. sub[c][i] \in RowSet
        BY <2>1 DEF TablesOK
      <4>2. [sub[c][i] EXCEPT !.status = "failed"].status = "failed"
        BY <4>1 DEF RowSet
      <4>. QED  BY <3>1, <4>2
    <3>2. ASSUME NEW u, NEW known,
                 sub' = [sub EXCEPT ![c][i] =
                           [status |-> "complete", use |-> u, known |-> known]]
          PROVE  \E row : sub' = [sub EXCEPT ![c][i] = row] /\ row.status # "none"
      <4>1. [status |-> "complete", use |-> u, known |-> known].status # "none"
        OBVIOUS
      <4>. QED  BY <3>2, <4>1, Zenon
    <3>. QED  BY <1>3, <3>1, <3>2 DEF RecordSubcall
  <2>4. PICK row : sub' = [sub EXCEPT ![c][i] = row] /\ row.status # "none"
    BY <2>3
  <2>5. \A d \in Cells : \A k \in ChildrenOf(d) :
          sub'[d][k] = IF d = c /\ k = i THEN row ELSE sub[d][k]
    BY <2>4 DEF TablesOK
  <2>. HIDE DEF i
  <2>. QED  BY <2>1, <2>2, <2>4, <2>5 DEF RowsKept
<1>4. ASSUME NEW r \in Runners, NEW c \in Cells, NEW row, row.status # "none",
             attempt[c][try[r][c]].status # "none",
             attempt' = [attempt EXCEPT ![c][try[r][c]] = row],
             budget'.attempts = budget.attempts, UNCHANGED <<sub, dispatches>>
      PROVE  RowsKept
  <2>1. \A d \in Cells : \A n \in Attempts(d) :
          attempt'[d][n] = IF d = c /\ n = try[r][c] THEN row ELSE attempt[d][n]
    BY <1>4 DEF TablesOK
  <2>. QED  BY <1>4, <2>1 DEF RowsKept
<1>5. ASSUME NEW r \in Runners, NEW c \in Cells, WriteComplete(r, c) PROVE RowsKept
  <2>1. budget'.attempts = budget.attempts
    BY <1>5 DEF WriteComplete, BudgetSet
  <2>. DEFINE row == [status |-> "complete", use |-> OwnUse(r, c), known |-> TRUE]
  <2>2. row.status # "none" /\ attempt' = [attempt EXCEPT ![c][try[r][c]] = row]
    BY <1>5 DEF WriteComplete
  <2>3. attempt[c][try[r][c]].status # "none"
    BY <1>5 DEF WriteComplete, ThreadsHaveRows
  <2>4. UNCHANGED <<sub, dispatches>>
    BY <1>5 DEF WriteComplete
  <2>. HIDE DEF row
  <2>. QED  BY <1>4, <2>1, <2>2, <2>3, <2>4
<1>6. ASSUME NEW r \in Runners, NEW c \in Cells, WriteFailed(r, c) PROVE RowsKept
  <2>1. budget'.attempts = budget.attempts /\ UNCHANGED <<sub, dispatches>>
    BY <1>6 DEF WriteFailed, BudgetSet
  <2>2. CASE UNCHANGED attempt
    BY <2>1, <2>2 DEF RowsKept
  <2>3. [NoRow EXCEPT !.status = "failed"].status # "none"
    BY DEF NoRow
  <2>. QED  BY <1>4, <1>6, <2>1, <2>2, <2>3 DEF WriteFailed, Row
<1>7. ASSUME NEW r \in Runners, NEW c \in Cells, CellStep(r, c)
      PROVE  \/ RowsKept
             \/ LaunchClaimed(c, try[r][c]) /\ try[r][c] \in Attempts(c)
             \/ SubcallClaimed(c, NextChild(r, c)) /\ NextChild(r, c) \in ChildrenOf(c)
  <2>1. try[r][c] \in Attempts(c)
    BY DEF ThreadsOK
  <2>2. CASE StartCell(r, c) \/ Look(r, c) \/ Recheck(r, c) \/ CallbackRaises(r, c)
             \/ CallbackReturns(r, c) \/ Close(r, c) \/ CloseFailed(r, c)
    BY <1>0, <2>2 DEF StartCell, Look, Recheck, CallbackRaises, CallbackReturns, Close, CloseFailed
  <2>3. CASE AdmitSubcall(r, c)
    BY <1>2, <2>3 DEF AdmitSubcall
  <2>. QED  BY <1>1, <1>3, <1>5, <1>6, <1>7, <2>1, <2>2, <2>3 DEF CellStep
<1>8. CASE UNCHANGED vars
  BY <1>0, <1>8 DEF vars, tables
<1>9. ASSUME NEW r \in Runners,
              Start(r) \/ Crash(r) \/ FinishStage(r) \/ AbandonStage(r) \/ FailReport(r) \/ Gate(r)
       PROVE  RowsKept
  BY <1>0, <1>9 DEF Start, Crash, FinishStage, AbandonStage, FailReport, Gate
<1>10. CASE RollBack
  BY <1>0, <1>10 DEF RollBack
<1>. QED  BY <1>7, <1>8, <1>9, <1>10 DEF Next, RunnerStep

(* A step of one cell leaves the other threads where they are.             *)
LEMMA OthersStay ==
  ASSUME ThreadsOK, NEW r \in Runners, NEW c \in Cells, CellStep(r, c),
         NEW q \in Runners, NEW d \in Cells, q # r \/ d # c
  PROVE  /\ pc'[q][d] = pc[q][d] /\ try'[q][d] = try[q][d]
         /\ child'[q][d] = child[q][d]
<1>. USE DEF ThreadsOK, Goto, AfterFailure, TakeReceipt
<1>1. CASE StartCell(r, c) \/ Look(r, c) \/ Recheck(r, c)
  BY <1>1 DEF StartCell, Look, Recheck
<1>2. CASE CallbackRaises(r, c) \/ CallbackReturns(r, c) \/ Close(r, c)
  BY <1>2 DEF CallbackRaises, CallbackReturns, Close
<1>3. CASE WriteComplete(r, c) \/ CloseFailed(r, c) \/ WriteFailed(r, c)
  <2>1. /\ \E l : pc' = [pc EXCEPT ![r][c] = l]
        /\ UNCHANGED try \/ \E n : try' = [try EXCEPT ![r][c] = n]
        /\ UNCHANGED child
    BY <1>3 DEF WriteComplete, CloseFailed, WriteFailed
  <2>. QED  BY <2>1
<1>4. CASE Reserve(r, c)
  BY <1>4 DEF Reserve
<1>5. CASE AdmitSubcall(r, c)
  BY <1>5 DEF AdmitSubcall, ReuseSubcall
<1>6. CASE RecordSubcall(r, c)
  <2>1. /\ \E l : pc' = [pc EXCEPT ![r][c] = l]
        /\ UNCHANGED try
        /\ UNCHANGED child \/ \E n : child' = [child EXCEPT ![r][c] = n]
    BY <1>6 DEF RecordSubcall
  <2>. QED  BY <2>1
<1>. QED  BY <1>1, <1>2, <1>3, <1>4, <1>5, <1>6 DEF CellStep

(* A step of the runner moves no thread, except that a crash loses them.   *)
LEMMA RunnerMoves ==
  ASSUME ThreadsOK, NEW r \in Runners,
         Start(r) \/ Crash(r) \/ FinishStage(r) \/ AbandonStage(r) \/ FailReport(r) \/ Gate(r)
  PROVE  \A q \in Runners, d \in Cells :
           \/ q = r /\ pc'[q][d] = "wait"
           \/ pc'[q][d] = pc[q][d] /\ try'[q][d] = try[q][d] /\ child'[q][d] = child[q][d]
<1>1. CASE Crash(r)
  BY <1>1 DEF ThreadsOK, Crash
<1>2. CASE ~Crash(r)
  BY <1>2 DEF Start, FinishStage, AbandonStage, FailReport, Gate, cellVars
<1>. QED  BY <1>1, <1>2

LEMMA RowsBehindThreads ==
  ASSUME TypeOK, ThreadsHaveRows, GateAtPanel, [Next]_vars
  PROVE  ThreadsHaveRows'
<1>. TablesOK /\ ThreadsOK
  BY TypeParts
<1>1. \A c \in Cells :
        /\ \A n \in Attempts(c) :
             attempt[c][n].status # "none" => attempt'[c][n].status # "none"
        /\ \A i \in ChildrenOf(c) :
             sub[c][i].status # "none" => sub'[c][i].status # "none"
  <2>1. CASE RowsKept
    BY <2>1 DEF RowsKept
  <2>2. ASSUME NEW c \in Cells, NEW n \in Attempts(c), LaunchClaimed(c, n)
        PROVE  \A d \in Cells :
                 /\ \A m \in Attempts(d) :
                      attempt[d][m].status # "none" => attempt'[d][m].status # "none"
                 /\ UNCHANGED sub
    BY <2>2 DEF LaunchClaimed, TablesOK, RowSet
  <2>3. ASSUME NEW c \in Cells, NEW i \in ChildrenOf(c), SubcallClaimed(c, i)
        PROVE  \A d \in Cells :
                 /\ \A m \in ChildrenOf(d) :
                      sub[d][m].status # "none" => sub'[d][m].status # "none"
                 /\ UNCHANGED attempt
    BY <2>3 DEF SubcallClaimed, TablesOK, RowSet
  <2>. QED  BY <2>1, <2>2, <2>3, TableStep
<1>2. \A r \in Runners, c \in Cells : try[r][c] \in Attempts(c)
  BY DEF ThreadsOK
<1>. DEFINE Backed(r, c) ==
       /\ pc[r][c] \in {"callback", "call", "close", "write"}
            => attempt[c][try[r][c]].status # "none"
       /\ pc[r][c] = "call" => /\ NextChild(r, c) \in ChildrenOf(c)
                               /\ sub[c][NextChild(r, c)].status # "none"
<1>3. \A r \in Runners, c \in Cells : Backed(r, c)
  BY DEF ThreadsHaveRows
<1>4. ASSUME NEW r \in Runners, NEW c \in Cells,
             \/ pc'[r][c] = "wait"
             \/ pc'[r][c] = pc[r][c] /\ try'[r][c] = try[r][c] /\ child'[r][c] = child[r][c]
      PROVE  Backed(r, c)'
  BY <1>1, <1>2, <1>3, <1>4 DEF NextChild, ChildrenOf
<1>5. ASSUME NEW r \in Runners, NEW c \in Cells, CellStep(r, c) PROVE Backed(r, c)'
  <2>1. ASSUME pc'[r][c] \notin {"callback", "call", "close", "write"} PROVE Backed(r, c)'
    BY <2>1
  <2>2. CASE StartCell(r, c) \/ Look(r, c) \/ Recheck(r, c) \/ CallbackRaises(r, c)
             \/ WriteComplete(r, c) \/ CloseFailed(r, c) \/ WriteFailed(r, c)
    <3>1. \E l \in {"look", "done", "fail", "raised", "reserve", "failwrite"} :
            pc' = [pc EXCEPT ![r][c] = l]
      <4>1. CASE StartCell(r, c) \/ Look(r, c) \/ Recheck(r, c) \/ CallbackRaises(r, c)
        BY <4>1 DEF StartCell, Look, Recheck, CallbackRaises, Goto, AfterFailure
      <4>2. CASE WriteComplete(r, c)
        BY <4>2 DEF WriteComplete, Goto
      <4>3. CASE CloseFailed(r, c) \/ WriteFailed(r, c)
        <5>1. AfterFailure(r, c) \/ Goto(r, c, "failwrite")
          BY <4>3 DEF CloseFailed, WriteFailed
        <5>. QED  BY <5>1 DEF AfterFailure, Goto
      <4>. QED  BY <2>2, <4>1, <4>2, <4>3
    <3>2. pc'[r][c] \in {"look", "done", "fail", "raised", "reserve", "failwrite"}
      BY <3>1 DEF ThreadsOK
    <3>. QED  BY <2>1, <3>2
  <2>3. CASE Reserve(r, c)
    <3>1. CASE pc'[r][c] = "callback"
      <4>1. UNCHANGED try
        BY <2>3 DEF Reserve
      <4>2. attempt' = [attempt EXCEPT ![c][try[r][c]].status = "running"]
        BY <2>3, <3>1 DEF Reserve, ThreadsOK, Goto
      <4>3. attempt'[c][try[r][c]].status = "running"
        BY <1>2, <4>2 DEF TablesOK, RowSet
      <4>. QED  BY <3>1, <4>1, <4>3
    <3>2. pc'[r][c] \in {"recheck", "fail", "callback"}
      BY <2>3 DEF Reserve, ThreadsOK, Goto
    <3>. QED  BY <2>1, <3>1, <3>2
  <2>4. CASE CallbackReturns(r, c) \/ Close(r, c)
    <3>1. /\ pc[r][c] \in {"callback", "close"} /\ UNCHANGED try
          /\ pc'[r][c] \in {"close", "done", "fail", "write"}
      BY <2>4 DEF ThreadsOK, CallbackReturns, Close, Goto
    <3>. QED  BY <1>1, <1>2, <1>3, <3>1
  <2>5. CASE RecordSubcall(r, c)
    <3>1. /\ pc[r][c] = "call" /\ UNCHANGED try
          /\ Goto(r, c, "callback") \/ Goto(r, c, "fail")
      BY <2>5 DEF RecordSubcall
    <3>2. pc'[r][c] \in {"callback", "fail"}
      BY <3>1 DEF ThreadsOK, Goto
    <3>. QED  BY <1>1, <1>2, <1>3, <3>1, <3>2
  <2>6. CASE AdmitSubcall(r, c)
    <3>1. /\ pc[r][c] = "callback" /\ UNCHANGED try
          /\ pc'[r][c] \in {"callback", "fail", "call"}
      BY <2>6 DEF ThreadsOK, AdmitSubcall, ReuseSubcall, Goto
    <3>2. CASE pc'[r][c] = "call"
      <4>1. /\ UNCHANGED child
            /\ sub' = [sub EXCEPT ![c][NextChild(r, c)].status = "reserved"]
            /\ NextChild(r, c) \in ChildrenOf(c)
        BY <2>6, <3>1, <3>2 DEF ThreadsOK, AdmitSubcall, ReuseSubcall, Goto
      <4>2. sub'[c][NextChild(r, c)].status = "reserved"
        BY <4>1 DEF TablesOK, RowSet
      <4>. QED  BY <1>1, <1>2, <1>3, <3>1, <4>1, <4>2 DEF NextChild, ChildrenOf
    <3>. QED  BY <1>1, <1>2, <1>3, <3>1, <3>2
  <2>. QED  BY <1>5, <2>2, <2>3, <2>4, <2>5, <2>6 DEF CellStep
<1>. SUFFICES ASSUME NEW q \in Runners, NEW d \in Cells PROVE Backed(q, d)'
  BY DEF ThreadsHaveRows
<1>6. ASSUME NEW r \in Runners, NEW c \in Cells, CellStep(r, c) PROVE Backed(q, d)'
  <2>1. CASE q = r /\ d = c
    BY <1>5, <1>6, <2>1
  <2>2. CASE q # r \/ d # c
    BY <1>4, <1>6, <2>2, OthersStay
  <2>. QED  BY <2>1, <2>2
<1>7. ASSUME NEW r \in Runners,
             Start(r) \/ Crash(r) \/ FinishStage(r) \/ AbandonStage(r) \/ FailReport(r) \/ Gate(r)
      PROVE  Backed(q, d)'
  BY <1>4, <1>7, RunnerMoves
<1>8. CASE RollBack \/ UNCHANGED vars
  BY <1>4, <1>8 DEF RollBack, vars, cellVars
<1>. QED  BY <1>6, <1>7, <1>8 DEF Next, RunnerStep

LEMMA GateStep ==
  ASSUME TypeOK, GateAtPanel, [Next]_vars
  PROVE  GateAtPanel'
<1>. WorldOK
  BY TypeParts
<1>1. ASSUME NEW r \in Runners,
             Start(r) \/ Crash(r) \/ FinishStage(r) \/ AbandonStage(r) \/ FailReport(r) \/ Gate(r)
      PROVE  GateAtPanel'
  BY <1>1 DEF GateAtPanel, WorldOK, Start, Crash, FinishStage, AbandonStage, FailReport, Gate, Fail
<1>2. CASE UNCHANGED runner
  BY <1>2 DEF GateAtPanel, runner
<1>3. ASSUME NEW r \in Runners, NEW c \in Cells, CellStep(r, c) PROVE UNCHANGED runner
  BY <1>3 DEF CellStep, StartCell, Look, Reserve, Recheck, AdmitSubcall, RecordSubcall,
              CallbackRaises, CallbackReturns, Close, WriteComplete, CloseFailed, WriteFailed
<1>. QED  BY <1>1, <1>2, <1>3 DEF Next, RunnerStep, RollBack, vars, runner

-----------------------------------------------------------------------------
(***************************************************************************)
(* The counts.                                                             *)
(***************************************************************************)

(* The launches and the admissions as sets of pairs.                       *)
LEMMA Pairs ==
  /\ \A x : x \in Launched <=>
       \E c \in Cells : \E n \in Attempts(c) :
         x = <<c, n>> /\ attempt[c][n].status # "none"
  /\ \A x : x \in Admitted <=>
       \E c \in Cells : \E i \in ChildrenOf(c) :
         x = <<c, i>> /\ sub[c][i].status # "none"
  BY DEF Launched, Admitted

LEMMA PairsNext ==
  /\ \A x : x \in Launched' <=>
       \E c \in Cells : \E n \in Attempts(c) :
         x = <<c, n>> /\ attempt'[c][n].status # "none"
  /\ \A x : x \in Admitted' <=>
       \E c \in Cells : \E i \in ChildrenOf(c) :
         x = <<c, i>> /\ sub'[c][i].status # "none"
  BY DEF Launched, Admitted, Attempts, ChildrenOf

(* They are the same when the same rows are none.                          *)
LEMMA PairsSame ==
  /\ (\A c \in Cells : \A n \in Attempts(c) :
        attempt'[c][n].status = "none" <=> attempt[c][n].status = "none")
     => Launched' = Launched
  /\ (\A c \in Cells : \A i \in ChildrenOf(c) :
        sub'[c][i].status = "none" <=> sub[c][i].status = "none")
     => Admitted' = Admitted
<1>1. ASSUME \A c \in Cells : \A n \in Attempts(c) :
               attempt'[c][n].status = "none" <=> attempt[c][n].status = "none"
      PROVE  Launched' = Launched
  <2>1. \A x : x \in Launched' <=> x \in Launched
    BY <1>1, Pairs, PairsNext
  <2>. QED  BY <2>1
<1>2. ASSUME \A c \in Cells : \A i \in ChildrenOf(c) :
               sub'[c][i].status = "none" <=> sub[c][i].status = "none"
      PROVE  Admitted' = Admitted
  <2>1. \A x : x \in Admitted' <=> x \in Admitted
    BY <1>2, Pairs, PairsNext
  <2>. QED  BY <2>1
<1>. QED  BY <1>1, <1>2

LEMMA CountsInit == Init => CountsAgree
<1>. SUFFICES ASSUME Init PROVE CountsAgree
  OBVIOUS
<1>1. Launched = {} /\ Admitted = {}
  BY Pairs DEF Init, NoRow
<1>2. budget.attempts = 0
  BY DEF Init
<1>. QED  BY <1>1, <1>2, FS_EmptySet, JobAssumption DEF CountsAgree

LEMMA CountsStep ==
  ASSUME TypeOK, ThreadsHaveRows, CountsAgree, [Next]_vars
  PROVE  CountsAgree'
<1>. TablesOK
  BY TypeParts
<1>. /\ IsFiniteSet(Launched) /\ IsFiniteSet(Admitted)
     /\ budget.attempts = Cardinality(Launched)
     /\ Cardinality(Launched) + Cardinality(Admitted) <= MaxAttempts
  BY DEF CountsAgree
<1>. Cardinality(Launched) \in Nat /\ Cardinality(Admitted) \in Nat /\ MaxAttempts \in Nat
  BY FS_CardinalityType, JobAssumption
<1>1. CASE RowsKept
  <2>1. Launched' = Launched /\ Admitted' = Admitted
    BY <1>1, PairsSame DEF RowsKept
  <2>. QED  BY <1>1, <2>1 DEF CountsAgree, RowsKept
<1>2. ASSUME NEW c \in Cells, NEW n \in Attempts(c), LaunchClaimed(c, n)
      PROVE  CountsAgree'
  <2>1. \A d \in Cells : \A m \in Attempts(d) :
          attempt'[d][m].status # "none" <=> (<<d, m>> = <<c, n>> \/ attempt[d][m].status # "none")
    BY <1>2 DEF LaunchClaimed, TablesOK, RowSet
  <2>2. Launched' = Launched \cup {<<c, n>>}
    BY <2>1, Pairs, PairsNext
  <2>3. <<c, n>> \notin Launched
    BY <1>2, Pairs DEF LaunchClaimed
  <2>4. Admitted' = Admitted
    BY <1>2, PairsSame DEF LaunchClaimed
  <2>5. IsFiniteSet(Launched') /\ Cardinality(Launched') = Cardinality(Launched) + 1
    BY <2>2, <2>3, FS_AddElement
  <2>6. budget'.attempts = budget.attempts + 1
    BY <1>2 DEF LaunchClaimed, TablesOK, BudgetSet
  <2>7. Cardinality(Launched) + Cardinality(Admitted) < MaxAttempts
    BY <1>2 DEF LaunchClaimed, LaunchExhausted
  <2>. QED  BY <2>4, <2>5, <2>6, <2>7 DEF CountsAgree
<1>3. ASSUME NEW c \in Cells, NEW i \in ChildrenOf(c), SubcallClaimed(c, i)
      PROVE  CountsAgree'
  <2>1. \A d \in Cells : \A m \in ChildrenOf(d) :
          sub'[d][m].status # "none" <=> (<<d, m>> = <<c, i>> \/ sub[d][m].status # "none")
    BY <1>3 DEF SubcallClaimed, TablesOK, RowSet
  <2>2. Admitted' = Admitted \cup {<<c, i>>}
    BY <2>1, Pairs, PairsNext
  <2>3. <<c, i>> \notin Admitted
    BY <1>3, Pairs DEF SubcallClaimed
  <2>4. Launched' = Launched /\ budget' = budget
    BY <1>3, PairsSame DEF SubcallClaimed
  <2>5. IsFiniteSet(Admitted') /\ Cardinality(Admitted') = Cardinality(Admitted) + 1
    BY <2>2, <2>3, FS_AddElement
  <2>6. Cardinality(Launched) + Cardinality(Admitted) < MaxAttempts
    BY <1>3 DEF SubcallClaimed, SubcallExhausted
  <2>. QED  BY <2>4, <2>5, <2>6 DEF CountsAgree
<1>. QED  BY <1>1, <1>2, <1>3, TableStep

(* The dispatches follow the admissions.                                   *)
LEMMA DispatchStep ==
  ASSUME TypeOK, ThreadsHaveRows, DispatchedWithAdmission, [Next]_vars
  PROVE  DispatchedWithAdmission'
<1>. TablesOK
  BY TypeParts
<1>1. CASE RowsKept
  BY <1>1 DEF RowsKept, DispatchedWithAdmission, ChildrenOf
<1>2. ASSUME NEW c \in Cells, NEW n \in Attempts(c), LaunchClaimed(c, n)
      PROVE  DispatchedWithAdmission'
  BY <1>2 DEF LaunchClaimed, DispatchedWithAdmission, ChildrenOf
<1>3. ASSUME NEW c \in Cells, NEW i \in ChildrenOf(c), SubcallClaimed(c, i)
      PROVE  DispatchedWithAdmission'
  <2>1. \A d \in Cells : \A m \in ChildrenOf(d) :
          /\ sub'[d][m].status = "none" <=> (<<d, m>> # <<c, i>> /\ sub[d][m].status = "none")
          /\ dispatches'[d][m] = IF <<d, m>> = <<c, i>> THEN dispatches[c][i] + 1
                                 ELSE dispatches[d][m]
    BY <1>3 DEF SubcallClaimed, TablesOK, RowSet, DispatchedWithAdmission
  <2>2. dispatches[c][i] = 0
    BY <1>3 DEF SubcallClaimed, DispatchedWithAdmission
  <2>3. DOMAIN dispatches' = Cells
        /\ \A d \in Cells : dispatches'[d] \in [ChildrenOf(d) -> Nat]
    BY <1>3 DEF SubcallClaimed, DispatchedWithAdmission
  <2>. QED  BY <2>1, <2>2, <2>3 DEF DispatchedWithAdmission, ChildrenOf
<1>. QED  BY <1>1, <1>2, <1>3, TableStep

-----------------------------------------------------------------------------
(***************************************************************************)
(* The order of the stages.                                                *)
(***************************************************************************)

(* A step of a cell changes no row of another cell, leaves the runner and  *)
(* the world alone, and starts inside its panel.                           *)
LEMMA CellFrame ==
  ASSUME TypeOK, ThreadsInPanel, NEW r \in Runners, NEW c \in Cells, CellStep(r, c)
  PROVE  /\ UNCHANGED <<world, runner>>
         /\ \A d \in Cells : d # c => attempt'[d] = attempt[d]
         /\ InPanel(r, c) /\ Active(r)
<1>1. UNCHANGED <<world, runner>>
  BY DEF CellStep, StartCell, Look, Reserve, Recheck, AdmitSubcall, RecordSubcall,
         CallbackRaises, CallbackReturns, Close, WriteComplete, CloseFailed, WriteFailed
<1>2. UNCHANGED attempt \/ \E n, row : attempt' = [attempt EXCEPT ![c][n] = row]
  BY DEF CellStep, StartCell, Look, Reserve, Recheck, AdmitSubcall, RecordSubcall, tables,
         CallbackRaises, CallbackReturns, Close, WriteComplete, CloseFailed, WriteFailed
<1>3. \A d \in Cells : d # c => attempt'[d] = attempt[d]
  BY <1>2 DEF TypeOK
<1>4. InPanel(r, c) \/ pc[r][c] \in InCell
  BY DEF CellStep, StartCell, Look, Reserve, Recheck, AdmitSubcall, RecordSubcall, InCell,
         CallbackRaises, CallbackReturns, Close, WriteComplete, CloseFailed, WriteFailed
<1>. QED  BY <1>1, <1>3, <1>4 DEF ThreadsInPanel, InPanel, Active

RunnerMove(r) ==
  Start(r) \/ Crash(r) \/ FinishStage(r) \/ AbandonStage(r) \/ FailReport(r) \/ Gate(r)

(* What a step of a runner leaves alone.                                   *)
LEMMA RunnerFrame ==
  ASSUME TypeOK, NEW r \in Runners, RunnerMove(r)
  PROVE  /\ UNCHANGED <<tables, eligible, alone>>
         /\ \A q \in Runners : q # r => /\ phase'[q] = phase[q] /\ stage'[q] = stage[q]
                                        /\ pc'[q] = pc[q] /\ try'[q] = try[q]
         /\ ~Crash(r) => UNCHANGED <<pc, try>>
<1>1. CASE Crash(r)
  BY <1>1 DEF TypeOK, Crash, world
<1>2. CASE ~Crash(r)
  BY <1>2 DEF TypeOK, RunnerMove, Start, FinishStage, AbandonStage, FailReport, Gate, Fail, cellVars
<1>. QED  BY <1>1, <1>2

(* No thread is inside a cell when its runner leaves a panel.              *)
LEMMA NoneInside ==
  ASSUME TypeOK, ThreadsInPanel, NEW r \in Runners, RunnerMove(r)
  PROVE  \A d \in Cells : pc'[r][d] \notin InCell
<1>1. CASE Crash(r)
  BY <1>1 DEF Crash, TypeOK, InCell
<1>2. CASE Start(r)
  BY <1>2 DEF Start, ThreadsInPanel, cellVars, InCell
<1>3. CASE FinishStage(r)
  BY <1>3 DEF FinishStage, ThreadsInPanel, InPanel, cellVars, InCell
<1>4. CASE AbandonStage(r)
  BY <1>4 DEF AbandonStage, ThreadsInPanel, InPanel, cellVars
<1>5. CASE FailReport(r)
  BY <1>5 DEF FailReport, ThreadsInPanel, InPanel, cellVars, InCell
<1>6. CASE Gate(r)
  BY <1>6 DEF Gate, ThreadsInPanel, InPanel, cellVars
<1>. QED  BY <1>1, <1>2, <1>3, <1>4, <1>5, <1>6 DEF RunnerMove

LEMMA InPanelStep ==
  ASSUME TypeOK, ThreadsInPanel, [Next]_vars
  PROVE  ThreadsInPanel'
<1>. ThreadsOK
  BY TypeParts
<1>1. ASSUME NEW r \in Runners, NEW c \in Cells, CellStep(r, c) PROVE ThreadsInPanel'
  <2>1. /\ UNCHANGED runner
        /\ InPanel(r, c)
    BY <1>1, CellFrame
  <2>2. \A q \in Runners, d \in Cells : q # r \/ d # c => pc'[q][d] = pc[q][d]
    BY <1>1, OthersStay
  <2>. QED  BY <2>1, <2>2 DEF ThreadsInPanel, InPanel, runner
<1>2. ASSUME NEW r \in Runners, RunnerMove(r) PROVE ThreadsInPanel'
  <2>1. \A d \in Cells : pc'[r][d] \notin InCell
    BY <1>2, NoneInside
  <2>2. \A q \in Runners : q # r => /\ phase'[q] = phase[q] /\ stage'[q] = stage[q]
                                    /\ pc'[q] = pc[q]
    BY <1>2, RunnerFrame
  <2>3. phase'[r] # "idle"
    BY <1>2 DEF RunnerMove, Start, Crash, FinishStage, AbandonStage, FailReport, Gate, Fail, TypeOK
  <2>. QED  BY <2>1, <2>2, <2>3 DEF ThreadsInPanel, InPanel
<1>3. CASE RollBack \/ UNCHANGED vars
  BY <1>3 DEF RollBack, vars, runner, cellVars, ThreadsInPanel, InPanel
<1>. QED  BY <1>1, <1>2, <1>3 DEF Next, RunnerStep, RunnerMove

LEMMA PassedStep ==
  ASSUME TypeOK, ThreadsInPanel, GateAtPanel, GatePassed, [Next]_vars
  PROVE  GatePassed'
<1>. /\ stage \in [Runners -> Nat] /\ Gated \in Nat /\ 1 <= Gated
     /\ phase \in [Runners -> {"idle", "stage", "gate", "ended", "dead"}]
  BY PanelsLength, JobAssumption DEF TypeOK
<1>1. ASSUME NEW r \in Runners, NEW c \in Cells, CellStep(r, c) PROVE GatePassed'
  BY <1>1, CellFrame DEF GatePassed, Active, runner, world
<1>2. ASSUME NEW r \in Runners, Start(r) PROVE GatePassed'
  BY <1>2 DEF Start, GatePassed, Active, ThreadsInPanel
<1>3. ASSUME NEW r \in Runners, Crash(r) PROVE GatePassed'
  BY <1>3 DEF Crash, GatePassed, Active, world
<1>4. ASSUME NEW r \in Runners, AbandonStage(r) \/ FailReport(r) PROVE GatePassed'
  BY <1>4 DEF AbandonStage, FailReport, Fail, GatePassed, Active
<1>5. ASSUME NEW r \in Runners, FinishStage(r) PROVE GatePassed'
  BY <1>5 DEF FinishStage, GatePassed, Active
<1>6. ASSUME NEW r \in Runners, Gate(r) PROVE GatePassed'
  BY <1>6 DEF Gate, Fail, GatePassed, Active
<1>7. CASE RollBack \/ UNCHANGED vars
  BY <1>7 DEF RollBack, vars, runner, GatePassed, Active
<1>. QED  BY <1>1, <1>2, <1>3, <1>4, <1>5, <1>6, <1>7 DEF Next, RunnerStep

(***************************************************************************)
(* One runner at a time.                                                   *)
(***************************************************************************)

LEMMA OneActiveStep ==
  ASSUME TypeOK, ThreadsInPanel, OneActive, alone, [Next]_vars
  PROVE  OneActive'
<1>1. ASSUME NEW r \in Runners, Start(r) PROVE OneActive'
  <2>1. \A q \in Runners : ~Active(q)
    BY <1>1 DEF Start
  <2>2. \A q \in Runners : q # r => phase'[q] = phase[q]
    BY <1>1, RunnerFrame DEF RunnerMove
  <2>. QED  BY <2>1, <2>2 DEF OneActive, Active
<1>2. ASSUME \A q \in Runners : Active(q)' => Active(q) PROVE OneActive'
  BY <1>2 DEF OneActive
<1>3. ASSUME NEW r \in Runners, RunnerMove(r), ~Start(r) PROVE OneActive'
  <2>1. Active(r)
    BY <1>3 DEF RunnerMove, Crash, FinishStage, AbandonStage, FailReport, Gate, Active
  <2>2. \A q \in Runners : q # r => phase'[q] = phase[q]
    BY <1>3, RunnerFrame
  <2>. QED  BY <1>2, <2>1, <2>2 DEF Active
<1>4. ASSUME NEW r \in Runners, NEW c \in Cells, CellStep(r, c) PROVE OneActive'
  BY <1>2, <1>4, CellFrame DEF Active, runner
<1>5. CASE RollBack \/ UNCHANGED vars
  BY <1>2, <1>5 DEF RollBack, vars, runner, Active
<1>. QED  BY <1>1, <1>3, <1>4, <1>5 DEF Next, RunnerStep, RunnerMove

(* A stored receipt stays: the one thread that could still fail its row    *)
(* has seen it unfinished.                                                 *)
LEMMA ReceiptsStay ==
  ASSUME TypeOK, ThreadsInPanel, RowsAsLeft, [Next]_vars
  PROVE  \A d \in Cells : CompleteRow(d) => CompleteRow(d)'
<1>. TablesOK /\ ThreadsOK
  BY TypeParts
<1>1. ASSUME UNCHANGED attempt PROVE \A d \in Cells : CompleteRow(d) => CompleteRow(d)'
  BY <1>1 DEF CompleteRow, Attempts
<1>2. ASSUME NEW c \in Cells, NEW n \in Attempts(c), attempt[c][n].status # "complete",
             NEW row, attempt' = [attempt EXCEPT ![c][n] = row]
      PROVE  \A d \in Cells : CompleteRow(d) => CompleteRow(d)'
  <2>1. \A d \in Cells : \A m \in Attempts(d) :
          attempt[d][m].status = "complete" => attempt'[d][m].status = "complete"
    BY <1>2 DEF TablesOK
  <2>. QED  BY <2>1 DEF CompleteRow, Attempts
<1>3. ASSUME NEW r \in Runners, NEW c \in Cells, CellStep(r, c)
      PROVE  UNCHANGED attempt
             \/ \E row : /\ attempt' = [attempt EXCEPT ![c][try[r][c]] = row]
                         /\ attempt[c][try[r][c]].status # "complete"
  <2>1. Active(r)
    BY <1>3, CellFrame
  <2>2. CASE WriteComplete(r, c) \/ WriteFailed(r, c)
    <3>1. pc[r][c] \in {"write", "failwrite"}
      BY <2>2 DEF WriteComplete, WriteFailed
    <3>2. attempt[c][try[r][c]].status # "complete"
      BY <2>1, <3>1 DEF RowsAsLeft
    <3>3. UNCHANGED attempt \/ \E row : attempt' = [attempt EXCEPT ![c][try[r][c]] = row]
      BY <2>2 DEF WriteComplete, WriteFailed
    <3>. QED  BY <3>2, <3>3
  <2>3. CASE Reserve(r, c)
    BY <2>3 DEF Reserve, Row
  <2>. QED  BY <1>3, <2>2, <2>3
       DEF CellStep, StartCell, Look, Recheck, AdmitSubcall, RecordSubcall, tables,
           CallbackRaises, CallbackReturns, Close, CloseFailed
<1>4. ASSUME NEW r \in Runners, NEW c \in Cells, CellStep(r, c)
      PROVE  \A d \in Cells : CompleteRow(d) => CompleteRow(d)'
  <2>1. try[r][c] \in Attempts(c)
    BY DEF ThreadsOK
  <2>2. ASSUME NEW row, attempt' = [attempt EXCEPT ![c][try[r][c]] = row],
               attempt[c][try[r][c]].status # "complete"
        PROVE  \A d \in Cells : CompleteRow(d) => CompleteRow(d)'
    BY <1>2, <2>1, <2>2
  <2>. QED  BY <1>1, <1>3, <1>4, <2>2
<1>5. ASSUME NEW r \in Runners, RunnerMove(r)
      PROVE  \A d \in Cells : CompleteRow(d) => CompleteRow(d)'
  BY <1>1, <1>5, RunnerFrame DEF tables
<1>6. CASE RollBack \/ UNCHANGED vars
  BY <1>1, <1>6 DEF RollBack, vars, tables
<1>. QED  BY <1>4, <1>5, <1>6 DEF Next, RunnerStep, RunnerMove

(* What the thread that moves knows of its own row afterwards.             *)
LEMMA RowAfterStep ==
  ASSUME TypeOK, ThreadsInPanel, RowsAsLeft, NEW r \in Runners, NEW c \in Cells,
         CellStep(r, c)
  PROVE  /\ pc'[r][c] = "done" => CompleteRow(c)'
         /\ pc'[r][c] \in {"callback", "call", "close", "write"}
              => attempt'[c][try'[r][c]].status = "running"
         /\ pc'[r][c] \in {"fail", "failwrite"}
              => attempt'[c][try'[r][c]].status # "complete"
<1>. TablesOK /\ ThreadsOK /\ try[r][c] \in Attempts(c) /\ Active(r)
  BY TypeParts, CellFrame DEF ThreadsOK
<1>. DEFINE S == attempt[c][try[r][c]].status
            S2 == attempt'[c][try'[r][c]].status
<1>0. /\ pc[r][c] = "done" => CompleteRow(c)
      /\ pc[r][c] \in {"callback", "call", "close", "write"} => S = "running"
      /\ pc[r][c] \in {"fail", "failwrite"} => S # "complete"
  BY DEF RowsAsLeft
<1>1. S = "complete" => CompleteRow(c)
  BY DEF CompleteRow
<1>2. UNCHANGED attempt => CompleteRow(c)' = CompleteRow(c)
  BY DEF CompleteRow, Attempts
<1>3. ASSUME AfterFailure(r, c) PROVE pc'[r][c] \in {"look", "raised"}
  BY <1>3 DEF AfterFailure, Goto, ThreadsOK
<1>4. ASSUME NEW l, Goto(r, c, l) PROVE pc'[r][c] = l
  BY <1>4 DEF Goto, ThreadsOK
<1>. HIDE DEF S, S2
<1>5. UNCHANGED <<attempt, try>> => S2 = S
  BY DEF S, S2
<1>6. CASE StartCell(r, c) \/ CallbackRaises(r, c) \/ CallbackReturns(r, c)
  <2>1. /\ UNCHANGED <<attempt, try>>
        /\ \/ pc'[r][c] = "look"
           \/ pc[r][c] = "callback" /\ pc'[r][c] \in {"fail", "close"}
    BY <1>4, <1>6 DEF StartCell, CallbackRaises, CallbackReturns, tables
  <2>. QED  BY <1>0, <1>5, <2>1 DEF S2
<1>7. CASE Look(r, c)
  <2>1. /\ UNCHANGED attempt
        /\ \/ pc'[r][c] \in {"look", "raised", "reserve"}
           \/ S = "complete" /\ pc'[r][c] = "done"
           \/ S = "running" /\ pc'[r][c] = "fail" /\ UNCHANGED try
    BY <1>3, <1>4, <1>7 DEF Look, tables, Row, S
  <2>. QED  BY <1>1, <1>2, <1>5, <2>1 DEF S2
<1>8. CASE Recheck(r, c)
  <2>1. /\ UNCHANGED <<attempt, try>>
        /\ pc'[r][c] = IF S = "complete" THEN "done" ELSE "fail"
    BY <1>4, <1>8 DEF Recheck, tables, Row, S
  <2>. QED  BY <1>1, <1>2, <1>5, <2>1 DEF S2
<1>9. CASE Reserve(r, c)
  <2>1. UNCHANGED try
    BY <1>9 DEF Reserve
  <2>2. \/ pc'[r][c] = "recheck"
        \/ pc'[r][c] = "fail" /\ S = "none" /\ UNCHANGED attempt
        \/ /\ pc'[r][c] = "callback"
           /\ attempt' = [attempt EXCEPT ![c][try[r][c]].status = "running"]
    BY <1>4, <1>9 DEF Reserve, Row, S
  <2>3. ASSUME attempt' = [attempt EXCEPT ![c][try[r][c]].status = "running"]
        PROVE  attempt'[c][try[r][c]].status = "running"
    BY <2>3 DEF TablesOK, RowSet
  <2>. QED  BY <1>5, <2>1, <2>2, <2>3 DEF S2
<1>10. CASE AdmitSubcall(r, c) \/ RecordSubcall(r, c)
  <2>1. /\ UNCHANGED <<attempt, try>>
        /\ pc[r][c] \in {"callback", "call"}
        /\ pc'[r][c] \in {"callback", "call", "fail"}
    BY <1>4, <1>10 DEF AdmitSubcall, ReuseSubcall, RecordSubcall
  <2>. QED  BY <1>0, <1>5, <2>1 DEF S2
<1>11. CASE Close(r, c)
  <2>1. /\ UNCHANGED <<attempt, try>>
        /\ pc[r][c] = "close"
        /\ S \notin {"complete", "failed"} => pc'[r][c] \in {"fail", "write"}
    BY <1>4, <1>11 DEF Close, tables, Row, S
  <2>. QED  BY <1>0, <1>5, <2>1 DEF S2
<1>12. CASE WriteComplete(r, c)
  <2>1. pc'[r][c] = "done"
    BY <1>4, <1>12 DEF WriteComplete
  <2>2. attempt'[c][try[r][c]].status = "complete"
    BY <1>12 DEF WriteComplete, TablesOK
  <2>3. CompleteRow(c)'
    BY <2>2 DEF CompleteRow, Attempts
  <2>. QED  BY <2>1, <2>3
<1>13. CASE CloseFailed(r, c)
  <2>1. /\ UNCHANGED attempt /\ pc[r][c] = "fail"
        /\ \/ pc'[r][c] \in {"look", "raised"}
           \/ pc'[r][c] = "failwrite" /\ UNCHANGED try
    BY <1>3, <1>4, <1>13 DEF CloseFailed, tables
  <2>. QED  BY <1>0, <1>5, <2>1 DEF S2
<1>14. CASE WriteFailed(r, c)
  <2>1. pc'[r][c] \in {"look", "raised"}
    BY <1>3, <1>14 DEF WriteFailed
  <2>. QED  BY <2>1
<1>. QED  BY <1>6, <1>7, <1>8, <1>9, <1>10, <1>11, <1>12, <1>13, <1>14 DEF CellStep

LEMMA RowsAsLeftStep ==
  ASSUME TypeOK, ThreadsInPanel, OneActive, RowsAsLeft, alone, [Next]_vars
  PROVE  RowsAsLeft'
<1>. ThreadsOK
  BY TypeParts
<1>. DEFINE Left(q, d) ==
       /\ pc[q][d] = "done" => CompleteRow(d)
       /\ pc[q][d] \in {"callback", "call", "close", "write"}
            => attempt[d][try[q][d]].status = "running"
       /\ pc[q][d] \in {"fail", "failwrite"}
            => attempt[d][try[q][d]].status # "complete"
<1>. SUFFICES ASSUME NEW q \in Runners, NEW d \in Cells, Active(q)' PROVE Left(q, d)'
  BY DEF RowsAsLeft
<1>1. Active(q) => Left(q, d)
  BY DEF RowsAsLeft
<1>2. ASSUME Active(q), attempt'[d] = attempt[d], pc'[q][d] = pc[q][d], try'[q][d] = try[q][d]
      PROVE  Left(q, d)'
  BY <1>1, <1>2 DEF CompleteRow, Attempts
<1>3. ASSUME NEW r \in Runners, NEW c \in Cells, CellStep(r, c) PROVE Left(q, d)'
  <2>1. /\ Active(r) /\ UNCHANGED phase
        /\ c # d => attempt'[d] = attempt[d]
    BY <1>3, CellFrame DEF runner
  <2>2. Active(q)
    BY <2>1 DEF Active
  <2>3. q = r
    BY <2>1, <2>2 DEF OneActive
  <2>4. CASE c = d
    BY <1>3, <2>3, <2>4, RowAfterStep
  <2>5. CASE c # d
    BY <1>2, <1>3, <2>1, <2>2, <2>3, <2>5, OthersStay
  <2>. QED  BY <2>4, <2>5
<1>4. ASSUME NEW r \in Runners, Start(r) PROVE Left(q, d)'
  <2>1. CASE q = r
    <3>1. pc'[q][d] = "wait"
      BY <1>4, <2>1 DEF Start, ThreadsInPanel, cellVars
    <3>. QED  BY <3>1
  <2>2. CASE q # r
    BY <1>4, <2>2, RunnerFrame DEF Start, Active, RunnerMove
  <2>. QED  BY <2>1, <2>2
<1>5. ASSUME NEW r \in Runners, RunnerMove(r), ~Start(r) PROVE Left(q, d)'
  <2>1. Active(r)
    BY <1>5 DEF RunnerMove, Crash, FinishStage, AbandonStage, FailReport, Gate, Active
  <2>2. ~Crash(r)
    <3>1. Active(q)
      BY <1>5, <2>1, RunnerFrame DEF Active
    <3>. QED  BY <2>1, <3>1 DEF OneActive, Crash, Active, TypeOK
  <2>3. Active(q) /\ UNCHANGED <<attempt, pc, try>>
    BY <1>5, <2>1, <2>2, RunnerFrame DEF Active, tables
  <2>. QED  BY <1>2, <2>3
<1>6. CASE RollBack \/ UNCHANGED vars
  BY <1>2, <1>6 DEF RollBack, vars, runner, cellVars, tables, Active
<1>. QED  BY <1>3, <1>4, <1>5, <1>6 DEF Next, RunnerStep, RunnerMove

LEMMA StagesStoredStep ==
  ASSUME TypeOK, ThreadsInPanel, GateAtPanel, RowsAsLeft, StagesStored, [Next]_vars
  PROVE  StagesStored'
<1>. /\ stage \in [Runners -> Nat]
     /\ \A c \in Cells : PanelOf(c) \in Nat /\ 1 <= PanelOf(c)
     /\ phase \in [Runners -> {"idle", "stage", "gate", "ended", "dead"}]
  BY PanelsLength, PanelFacts DEF TypeOK
<1>. DEFINE Stored(q) == \A c \in Cells :
       /\ PanelOf(c) < stage[q] => CompleteRow(c)
       /\ phase[q] = "gate" /\ PanelOf(c) = stage[q] => CompleteRow(c)
<1>1. \A c \in Cells : CompleteRow(c) => CompleteRow(c)'
  BY ReceiptsStay
<1>. SUFFICES ASSUME NEW q \in Runners, Active(q)' PROVE Stored(q)'
  BY DEF StagesStored, PanelOf
<1>2. Active(q) => Stored(q)
  BY DEF StagesStored
<1>3. ASSUME Active(q), phase'[q] = phase[q], stage'[q] = stage[q] PROVE Stored(q)'
  BY <1>1, <1>2, <1>3 DEF PanelOf
<1>4. ASSUME NEW r \in Runners, RunnerMove(r), q # r PROVE Stored(q)'
  BY <1>3, <1>4, RunnerFrame DEF Active
<1>5. CASE Start(q)
  <2>1. stage'[q] = 1 /\ phase'[q] = "stage"
    BY <1>5 DEF Start, ThreadsInPanel
  <2>. QED  BY <2>1 DEF PanelOf
<1>6. CASE FinishStage(q)
  <2>1. \A c \in Cells : PanelOf(c) = stage[q] => CompleteRow(c)
    BY <1>6, PanelFacts DEF FinishStage, RowsAsLeft, Active
  <2>2. stage'[q] = stage[q] \/ stage'[q] = stage[q] + 1
    BY <1>6 DEF FinishStage
  <2>. QED  BY <1>1, <1>2, <1>6, <2>1, <2>2 DEF FinishStage, Active, PanelOf
<1>7. CASE Gate(q)
  <2>1. stage'[q] = stage[q] + 1 /\ phase'[q] = "stage" /\ phase[q] = "gate"
    BY <1>7 DEF Gate, Fail, Active
  <2>. QED  BY <1>1, <1>2, <2>1 DEF Active, PanelOf
<1>8. CASE Crash(q) \/ AbandonStage(q) \/ FailReport(q)
  BY <1>8 DEF Crash, AbandonStage, FailReport, Fail, Active
<1>9. ASSUME NEW r \in Runners, NEW c \in Cells, CellStep(r, c) PROVE Stored(q)'
  BY <1>3, <1>9, CellFrame DEF runner, Active
<1>10. CASE RollBack \/ UNCHANGED vars
  BY <1>3, <1>10 DEF RollBack, vars, runner, Active
<1>. QED
  BY <1>4, <1>5, <1>6, <1>7, <1>8, <1>9, <1>10 DEF Next, RunnerStep, RunnerMove

LEMMA StagesStep ==
  ASSUME TypeOK, ThreadsHaveRows, ThreadsInPanel, RowsAsLeft, StagesStored, StagesInOrder,
         alone, [Next]_vars
  PROVE  StagesInOrder'
<1>. TablesOK
  BY TypeParts
<1>1. \A c \in Cells : CompleteRow(c) => CompleteRow(c)'
  BY ReceiptsStay
<1>2. ASSUME NEW x \in Launched', x \notin Launched
      PROVE  \E r \in Runners : InPanel(r, x[1]) /\ x[1] \in Cells
  <2>1. PICK c \in Cells : \E n \in Attempts(c) :
          x = <<c, n>> /\ attempt'[c][n].status # "none" /\ attempt[c][n].status = "none"
    BY <1>2, Pairs, PairsNext
  <2>2. attempt'[c] # attempt[c]
    BY <2>1
  <2>3. \E r \in Runners : InPanel(r, c)
    <3>1. ASSUME NEW r \in Runners, NEW d \in Cells, CellStep(r, d) PROVE InPanel(r, c)
      BY <2>2, <3>1, CellFrame
    <3>2. ASSUME NEW r \in Runners, RunnerMove(r) PROVE FALSE
      BY <2>2, <3>2, RunnerFrame DEF tables
    <3>. QED  BY <2>2, <3>1, <3>2 DEF Next, RunnerStep, RunnerMove, RollBack, vars, tables
  <2>. QED  BY <2>1, <2>3
<1>3. ASSUME NEW x \in Launched', NEW d \in Cells, PanelOf(d) < PanelOf(x[1])
      PROVE  CompleteRow(d)'
  <2>1. CASE x \in Launched
    BY <1>1, <1>3, <2>1 DEF StagesInOrder
  <2>2. CASE x \notin Launched
    <3>1. PICK r \in Runners : InPanel(r, x[1]) /\ x[1] \in Cells
      BY <1>2, <2>2
    <3>2. PanelOf(x[1]) = stage[r] /\ Active(r)
      BY <3>1, PanelFacts DEF InPanel, Active, TypeOK
    <3>. QED  BY <1>1, <1>3, <3>2 DEF StagesStored
  <2>. QED  BY <2>1, <2>2
<1>. QED  BY <1>3 DEF StagesInOrder, PanelOf

LEMMA BackedStep ==
  ASSUME TypeOK, ThreadsInPanel, GatePassed, RowsAsLeft, StagesStored, CompleteJobIsBacked,
         alone, [Next]_vars
  PROVE  CompleteJobIsBacked'
<1>. SUFFICES ASSUME job' = "complete"
              PROVE  /\ \A c \in Cells : CompleteRow(c)'
                     /\ cand' \in {"promoted", "rolled_back"}
  BY DEF CompleteJobIsBacked
<1>1. \A c \in Cells : CompleteRow(c) => CompleteRow(c)'
  BY ReceiptsStay
<1>2. ASSUME job = "complete", UNCHANGED cand \/ cand' \in {"promoted", "rolled_back"}
      PROVE  /\ \A c \in Cells : CompleteRow(c)'
             /\ cand' \in {"promoted", "rolled_back"}
  BY <1>1, <1>2 DEF CompleteJobIsBacked
<1>3. ASSUME NEW r \in Runners, FinishStage(r)
      PROVE  /\ \A c \in Cells : CompleteRow(c)'
             /\ cand' \in {"promoted", "rolled_back"}
  <2>1. CASE UNCHANGED job
    BY <1>2, <1>3, <2>1 DEF FinishStage
  <2>2. CASE ~UNCHANGED job
    <3>1. stage[r] = Len(Panels) /\ Active(r) /\ UNCHANGED cand
      BY <1>3, <2>2 DEF FinishStage, Active
    <3>2. cand \in {"promoted", "rolled_back"}
      BY <3>1, PanelsLength, JobAssumption DEF GatePassed
    <3>3. ASSUME NEW c \in Cells PROVE CompleteRow(c)
      <4>1. CASE PanelOf(c) = stage[r]
        BY <1>3, <3>1, <4>1, PanelFacts DEF FinishStage, RowsAsLeft
      <4>2. CASE PanelOf(c) # stage[r]
        BY <3>1, <4>2, PanelFacts, PanelsLength DEF StagesStored
      <4>. QED  BY <4>1, <4>2
    <3>. QED  BY <1>1, <3>1, <3>2, <3>3
  <2>. QED  BY <2>1, <2>2
<1>4. ASSUME NEW r \in Runners, RunnerMove(r), ~FinishStage(r)
      PROVE  /\ \A c \in Cells : CompleteRow(c)'
             /\ cand' \in {"promoted", "rolled_back"}
  BY <1>2, <1>4 DEF RunnerMove, Start, Crash, AbandonStage, FailReport, Gate, Fail, world
<1>5. ASSUME NEW r \in Runners, NEW c \in Cells, CellStep(r, c)
      PROVE  /\ \A d \in Cells : CompleteRow(d)'
             /\ cand' \in {"promoted", "rolled_back"}
  BY <1>2, <1>5, CellFrame DEF world
<1>6. CASE RollBack \/ UNCHANGED vars
  BY <1>2, <1>6 DEF RollBack, vars
<1>. QED  BY <1>3, <1>4, <1>5, <1>6 DEF Next, RunnerStep, RunnerMove

(***************************************************************************)
(* The whole inductive invariant.                                          *)
(***************************************************************************)

(* A set of numbers has a least one.                                       *)
LEMMA MinimalExists ==
  ASSUME NEW R, NEW Z, IsWellFoundedOn(R, Z), NEW S, S \subseteq Z, S # {},
         \A x \in Z, y \in Z : x < y => <<x, y>> \in R
  PROVE  \E i \in S : \A j \in S : ~(j < i)
<1>1. PICK i \in S : \A j \in S : ~(<<j, i>> \in R)
  BY WFMin
<1>. QED  BY <1>1, Zenon

LEMMA LeastExists ==
  ASSUME NEW S, S \subseteq Nat, S # {}
  PROVE  \E i \in S : \A j \in S : i <= j
<1>1. \A x \in Nat, y \in Nat : x < y => <<x, y>> \in OpToRel(<, Nat)
  BY DEF OpToRel
<1>2. PICK i \in S : \A j \in S : ~(j < i)
  BY <1>1, NatLessThanWellFounded, MinimalExists, Zenon
<1>. QED  BY <1>2

(* Induction over finite sets, by a least counterexample: a family of      *)
(* finite sets that has {} and, with every S, whatever is S and one more.  *)
LEMMA SmallestExists ==
  ASSUME NEW F, F # {}, \A S \in F : IsFiniteSet(S)
  PROVE  \E S \in F : \A T \in F : Cardinality(S) <= Cardinality(T)
<1> DEFINE N == {Cardinality(S) : S \in F}
<1>1. N \subseteq Nat /\ N # {}
  BY FS_CardinalityType
<1>2. PICK n \in N : \A m \in N : n <= m
  <2> HIDE DEF N
  <2>. QED  BY <1>1, LeastExists
<1>. QED  BY <1>2

LEMMA RestIsSmaller ==
  ASSUME NEW S, IsFiniteSet(S), NEW x \in S
  PROVE  /\ IsFiniteSet(S \ {x})
         /\ Cardinality(S \ {x}) < Cardinality(S)
<1>1. Cardinality(S) \in Nat /\ Cardinality(S) # 0
  BY FS_CardinalityType, FS_EmptySet
<1>2. IsFiniteSet(S \ {x}) /\ Cardinality(S \ {x}) = Cardinality(S) - 1
  BY FS_RemoveElement
<1>. QED  BY <1>1, <1>2

-----------------------------------------------------------------------------
(* The usage in the rows x of a table A: the fold of the library takes the *)
(* rows in some order; the sum is the same in any.                         *)
Use(A, x) == A[x[1]][x[2]].use
Pick(s) == CHOOSE x \in s : TRUE
IsSum(A, g, S) ==
  g = [s \in SUBSET S |-> IF s = {} THEN 0 ELSE Use(A, Pick(s)) + g[s \ {Pick(s)}]]
SumOf(A, S) == CHOOSE g : IsSum(A, g, S)
Total(A, S) == SumOf(A, S)[S]

LEMMA RecordedIsTotal ==
  /\ RecordedUse = Total(attempt, Launched) + Total(sub, Admitted)
  /\ RecordedUse' = Total(attempt', Launched') + Total(sub', Admitted')
BY DEF RecordedUse, MapThenSumSet, MapThenFoldSet, Total, SumOf, IsSum, Pick, Use

LEMMA PickIsIn == ASSUME NEW s, s # {} PROVE Pick(s) \in s
BY DEF Pick

LEMMA SumTakes ==
  ASSUME NEW A, NEW S, NEW g, IsSum(A, g, S)
  PROVE  /\ g[{}] = 0
         /\ \A s \in SUBSET S : s # {} => g[s] = Use(A, Pick(s)) + g[s \ {Pick(s)}]
<1> DEFINE V(s) == IF s = {} THEN 0 ELSE Use(A, Pick(s)) + g[s \ {Pick(s)}]
<1>1. g = [s \in SUBSET S |-> V(s)]
  BY DEF IsSum
<1> HIDE DEF V
<1>2. \A s \in SUBSET S : g[s] = V(s)
  BY <1>1
<1>. QED  BY <1>2 DEF V

LEMMA SumsAgree ==
  ASSUME NEW A, NEW B, NEW S, NEW T, NEW g, NEW h, IsSum(A, g, S), IsSum(B, h, T),
         NEW u, u \subseteq S, u \subseteq T, IsFiniteSet(u),
         \A x \in u : Use(A, x) = Use(B, x)
  PROVE  g[u] = h[u]
<1> DEFINE Bad == {s \in SUBSET u : g[s] # h[s]}
<1> SUFFICES ASSUME Bad # {} PROVE FALSE
  OBVIOUS
<1>1. \A s \in Bad : IsFiniteSet(s) /\ s \subseteq u
  BY FS_Subset
<1>2. PICK s \in Bad : \A t \in Bad : Cardinality(s) <= Cardinality(t)
  <2> HIDE DEF Bad
  <2>. QED  BY <1>1, SmallestExists
<1>3. s # {}
  BY <1>2, SumTakes
<1>4. Pick(s) \in s
  BY <1>3, PickIsIn
<1>5. Cardinality(s \ {Pick(s)}) < Cardinality(s) /\ IsFiniteSet(s) /\ IsFiniteSet(s \ {Pick(s)})
  BY <1>1, <1>2, <1>4, RestIsSmaller
<1>6. s \ {Pick(s)} \notin Bad
  BY <1>2, <1>5, FS_CardinalityType
<1>7. g[s \ {Pick(s)}] = h[s \ {Pick(s)}]
  BY <1>2, <1>6
<1>8. g[s] = Use(A, Pick(s)) + g[s \ {Pick(s)}] /\ h[s] = Use(B, Pick(s)) + h[s \ {Pick(s)}]
  BY <1>1, <1>2, <1>3, SumTakes
<1>9. Use(A, Pick(s)) = Use(B, Pick(s))
  BY <1>1, <1>2, <1>4
<1>. QED  BY <1>2, <1>7, <1>8, <1>9

LEMMA SumsExist ==
  ASSUME NEW A, NEW S, IsFiniteSet(S)
  PROVE  IsSum(A, SumOf(A, S), S)
<1> DEFINE Bad == {s \in SUBSET S : ~ \E g : IsSum(A, g, s)}
<1> SUFFICES ASSUME Bad # {} PROVE FALSE
  BY DEF SumOf
<1>1. \A s \in Bad : IsFiniteSet(s) /\ s \subseteq S
  BY FS_Subset
<1>2. PICK s \in Bad : \A t \in Bad : Cardinality(s) <= Cardinality(t)
  <2> HIDE DEF Bad
  <2>. QED  BY <1>1, SmallestExists
<1>3. ASSUME NEW t, t \subseteq s, t # s
      PROVE  IsFiniteSet(t) /\ IsSum(A, SumOf(A, t), t)
  <2>1. IsFiniteSet(s) /\ IsFiniteSet(t) /\ Cardinality(t) <= Cardinality(s)
    BY <1>1, <1>2, <1>3, FS_Subset
  <2>2. Cardinality(t) # Cardinality(s)
    BY <1>3, <2>1, FS_Subset
  <2>3. t \notin Bad
    BY <1>2, <2>1, <2>2, FS_CardinalityType
  <2>4. \E g : IsSum(A, g, t)
    BY <1>1, <1>2, <1>3, <2>3
  <2>. QED  BY <2>1, <2>4 DEF SumOf
<1> DEFINE G(t) == SumOf(A, t)[t]
           W(u) == IF u = {} THEN 0 ELSE Use(A, Pick(u)) + G(u \ {Pick(u)})
           g == [u \in SUBSET s |-> W(u)]
<1>4. ASSUME NEW t, t \subseteq s, t # s PROVE G(t) = W(t)
  <2>1. IsSum(A, SumOf(A, t), t)
    BY <1>3, <1>4
  <2>2. CASE t = {}
    BY <2>1, <2>2, SumTakes
  <2>3. CASE t # {}
    <3> DEFINE v == t \ {Pick(t)}
    <3>1. Pick(t) \in t /\ v \subseteq t /\ v \subseteq s /\ v # s
      BY <1>4, <2>3, PickIsIn
    <3>2. IsFiniteSet(v) /\ IsSum(A, SumOf(A, v), v)
      BY <1>3, <3>1
    <3>3. SumOf(A, v)[v] = SumOf(A, t)[v]
      BY <2>1, <3>1, <3>2, SumsAgree
    <3>4. SumOf(A, t)[t] = Use(A, Pick(t)) + SumOf(A, t)[v]
      BY <2>1, <2>3, SumTakes
    <3>. QED  BY <2>3, <3>3, <3>4
  <2>. QED  BY <2>2, <2>3
<1>5. ASSUME NEW u \in SUBSET s
      PROVE  g[u] = IF u = {} THEN 0 ELSE Use(A, Pick(u)) + g[u \ {Pick(u)}]
  <2>1. CASE u = {}
    BY <2>1
  <2>2. CASE u # {}
    <3> DEFINE v == u \ {Pick(u)}
    <3>1. Pick(u) \in u /\ v \subseteq s /\ v # s
      BY <2>2, PickIsIn
    <3>2. g[v] = W(v) /\ G(v) = W(v)
      BY <1>4, <3>1
    <3> HIDE DEF v, G
    <3>3. g[u] = Use(A, Pick(u)) + G(v)
      BY <2>2 DEF v
    <3>. QED  BY <2>2, <3>2, <3>3 DEF v
  <2>. QED  BY <2>1, <2>2
<1>6. IsSum(A, g, s)
  <2> DEFINE X(u) == IF u = {} THEN 0 ELSE Use(A, Pick(u)) + g[u \ {Pick(u)}]
  <2>1. g = [u \in SUBSET s |-> g[u]]
    OBVIOUS
  <2>2. \A u \in SUBSET s : g[u] = X(u)
    BY <1>5
  <2> HIDE DEF g, X
  <2>3. g = [u \in SUBSET s |-> X(u)]
    BY <2>1, <2>2
  <2>. QED  BY <2>3 DEF IsSum, X
<1>. QED  BY <1>2, <1>6

LEMMA SumOfNone == ASSUME NEW A PROVE Total(A, {}) = 0
BY SumsExist, SumTakes, FS_EmptySet DEF Total

LEMMA SumOfSome ==
  ASSUME NEW A, NEW S, IsFiniteSet(S), S # {}
  PROVE  Total(A, S) = Use(A, Pick(S)) + Total(A, S \ {Pick(S)})
<1> DEFINE T == S \ {Pick(S)}
<1>1. Pick(S) \in S
  BY PickIsIn
<1>2. IsFiniteSet(T)
  BY <1>1, RestIsSmaller
<1>3. SumOf(A, S)[S] = Use(A, Pick(S)) + SumOf(A, S)[T]
  BY SumsExist, SumTakes
<1>4. SumOf(A, S)[T] = SumOf(A, T)[T]
  BY <1>2, SumsExist, SumsAgree
<1>. QED  BY <1>3, <1>4 DEF Total

LEMMA SumType ==
  ASSUME NEW A, NEW S, \A x \in S : Use(A, x) \in Nat, IsFiniteSet(S)
  PROVE  Total(A, S) \in Nat
<1> DEFINE Bad == {s \in SUBSET S : Total(A, s) \notin Nat}
<1> SUFFICES ASSUME Bad # {} PROVE FALSE
  OBVIOUS
<1>1. \A s \in Bad : IsFiniteSet(s) /\ s \subseteq S
  BY FS_Subset
<1>2. PICK s \in Bad : \A t \in Bad : Cardinality(s) <= Cardinality(t)
  <2> HIDE DEF Bad
  <2>. QED  BY <1>1, SmallestExists
<1>3. s # {}
  BY <1>2, SumOfNone
<1>4. Pick(s) \in s
  BY <1>3, PickIsIn
<1>5. Cardinality(s \ {Pick(s)}) < Cardinality(s) /\ IsFiniteSet(s) /\ IsFiniteSet(s \ {Pick(s)})
  BY <1>1, <1>2, <1>4, RestIsSmaller
<1>6. s \ {Pick(s)} \notin Bad
  BY <1>2, <1>5, FS_CardinalityType
<1>7. Total(A, s \ {Pick(s)}) \in Nat /\ Use(A, Pick(s)) \in Nat
  BY <1>1, <1>2, <1>4, <1>6
<1>8. Total(A, s) = Use(A, Pick(s)) + Total(A, s \ {Pick(s)})
  BY <1>3, <1>5, SumOfSome
<1>. QED  BY <1>2, <1>7, <1>8

LEMMA SumRemoves ==
  ASSUME NEW A, NEW S, \A x \in S : Use(A, x) \in Nat, IsFiniteSet(S), NEW x \in S
  PROVE  Total(A, S) = Use(A, x) + Total(A, S \ {x})
<1> DEFINE Bad == {s \in SUBSET S : \E y \in s : Total(A, s) # Use(A, y) + Total(A, s \ {y})}
<1> SUFFICES ASSUME Bad # {} PROVE FALSE
  OBVIOUS
<1>1. \A s \in Bad : IsFiniteSet(s) /\ s \subseteq S
  BY FS_Subset
<1>2. PICK s \in Bad : \A t \in Bad : Cardinality(s) <= Cardinality(t)
  <2> HIDE DEF Bad
  <2>. QED  BY <1>1, SmallestExists
<1>3. PICK y \in s : Total(A, s) # Use(A, y) + Total(A, s \ {y})
  BY <1>2
<1> DEFINE p == Pick(s)
           r == s \ {p}
           q == s \ {y}
           t == s \ {p, y}
<1>4. p \in s /\ IsFiniteSet(s) /\ \A z \in s : Use(A, z) \in Nat
  BY <1>1, <1>2, <1>3, PickIsIn
<1>5. Total(A, s) = Use(A, p) + Total(A, r)
  BY <1>3, <1>4, SumOfSome
<1>6. p # y
  BY <1>3, <1>5
<1>7. IsFiniteSet(r) /\ IsFiniteSet(q) /\ Cardinality(r) < Cardinality(s) /\ Cardinality(q) < Cardinality(s)
  BY <1>3, <1>4, RestIsSmaller
<1>8. r \notin Bad /\ q \notin Bad
  <2>1. Cardinality(r) \in Nat /\ Cardinality(q) \in Nat /\ Cardinality(s) \in Nat
    BY <1>4, <1>7, FS_CardinalityType
  <2> HIDE DEF Bad, r, q
  <2>. QED  BY <1>2, <1>7, <2>1
<1>9. Total(A, r) = Use(A, y) + Total(A, r \ {y})
  BY <1>1, <1>2, <1>3, <1>6, <1>8
<1>10. Total(A, q) = Use(A, p) + Total(A, q \ {p})
  BY <1>1, <1>2, <1>4, <1>6, <1>8
<1>11. r \ {y} = t /\ q \ {p} = t
  OBVIOUS
<1>12. IsFiniteSet(t) /\ \A z \in t : Use(A, z) \in Nat
  BY <1>4, <1>7, <1>11, FS_Subset
<1>13. Total(A, t) \in Nat /\ Use(A, p) \in Nat /\ Use(A, y) \in Nat
  BY <1>3, <1>4, <1>12, SumType
<1> HIDE DEF p, r, t
<1>14. Total(A, s) = Use(A, p) + (Use(A, y) + Total(A, t)) /\ Total(A, q) = Use(A, p) + Total(A, t)
  BY <1>5, <1>9, <1>10, <1>11
<1>15. Total(A, s) = Use(A, y) + Total(A, q)
  <2> HIDE DEF q
  <2>. QED  BY <1>13, <1>14
<1>. QED  BY <1>3, <1>15


LEMMA TotalsAgree ==
  ASSUME NEW A, NEW B, NEW S, IsFiniteSet(S), \A x \in S : Use(A, x) = Use(B, x)
  PROVE  Total(A, S) = Total(B, S)
BY SumsExist, SumsAgree DEF Total

(* A row x of the table is replaced: a row that is new had no usage.       *)
LEMMA TotalMoves ==
  ASSUME NEW A, NEW B, NEW S, IsFiniteSet(S), NEW x,
         \A y \in S \cup {x} : Use(A, y) \in Nat /\ Use(B, y) \in Nat,
         \A y \in S \ {x} : Use(A, y) = Use(B, y),
         x \notin S => Use(A, x) = 0
  PROVE  /\ Total(B, S \cup {x}) + Use(A, x) = Total(A, S) + Use(B, x)
         /\ Total(B, S \cup {x}) \in Nat /\ Total(A, S) \in Nat
<1> DEFINE R == S \ {x}
           V == S \cup {x}
<1>1. IsFiniteSet(R) /\ IsFiniteSet(V) /\ V \ {x} = R /\ x \in V
  BY FS_Subset, FS_AddElement
<1>2. Total(B, V) = Use(B, x) + Total(B, R)
  <2>1. \A y \in V : Use(B, y) \in Nat
    OBVIOUS
  <2> HIDE DEF R, V
  <2>2. Total(B, V) = Use(B, x) + Total(B, V \ {x})
    BY <1>1, <2>1, SumRemoves
  <2>. QED  BY <1>1, <2>2
<1>3. Total(B, R) = Total(A, R)
  <2>1. \A y \in R : Use(A, y) = Use(B, y)
    OBVIOUS
  <2> HIDE DEF R
  <2>. QED  BY <1>1, <2>1, TotalsAgree
<1>4. Total(A, R) \in Nat /\ Total(A, S) \in Nat /\ Total(B, V) \in Nat
  <2>1. /\ \A y \in R : Use(A, y) \in Nat
        /\ \A y \in S : Use(A, y) \in Nat
        /\ \A y \in V : Use(B, y) \in Nat
    OBVIOUS
  <2> HIDE DEF R, V
  <2>. QED  BY <1>1, <2>1, SumType
<1>5. Total(A, S) = Use(A, x) + Total(A, R)
  <2>1. CASE x \in S
    <3>1. \A y \in S : Use(A, y) \in Nat
      OBVIOUS
    <3>. QED  BY <2>1, <3>1, SumRemoves
  <2>2. CASE x \notin S
    <3>1. R = S /\ Use(A, x) = 0
      BY <2>2
    <3> HIDE DEF R
    <3>. QED  BY <1>4, <3>1
  <2>. QED  BY <2>1, <2>2
<1>6. Use(A, x) \in Nat /\ Use(B, x) \in Nat
  OBVIOUS
<1> HIDE DEF R, V
<1>7. Total(B, V) + Use(A, x) = Total(A, S) + Use(B, x)
  BY <1>2, <1>3, <1>4, <1>5, <1>6
<1>. QED  BY <1>4, <1>7 DEF V

-----------------------------------------------------------------------------
(***************************************************************************)
(* The usage.                                                              *)
(***************************************************************************)

(* What a step stores in one row it adds to the total, or more.            *)
LaunchWritten(c, n, row) ==
  /\ row \in RowSet /\ row.status # "none"
  /\ attempt' = [attempt EXCEPT ![c][n] = row]
  /\ UNCHANGED sub
  /\ budget'.spent + attempt[c][n].use >= budget.spent + row.use

SubcallWritten(c, i, row) ==
  /\ row \in RowSet /\ row.status # "none"
  /\ sub' = [sub EXCEPT ![c][i] = row]
  /\ UNCHANGED attempt
  /\ budget'.spent + sub[c][i].use >= budget.spent + row.use

NothingWritten == UNCHANGED <<attempt, sub>> /\ budget'.spent = budget.spent

LEMMA LaunchUse ==
  ASSUME TablesOK, ThreadsOK, NEW r \in Runners, NEW c \in Cells
  PROVE  /\ Row(r, c) = attempt[c][try[r][c]] /\ try[r][c] \in Attempts(c)
         /\ Row(r, c) \in RowSet /\ Row(r, c).use \in Nat
         /\ OwnUse(r, c) \in Nat /\ Charge(r, c) \in Nat /\ OwnUse(r, c) <= Charge(r, c)
<1>1. try[r][c] \in Attempts(c) /\ used[r][c] \in Nat
  BY DEF ThreadsOK
<1>2. Row(r, c) \in RowSet
  BY <1>1 DEF TablesOK, Row
<1>. QED  BY <1>1, <1>2 DEF Row, RowSet, OwnUse, Charge

LEMMA UseStep ==
  ASSUME TypeOK, ThreadsHaveRows, [Next]_vars
  PROVE  \/ NothingWritten
         \/ \E c \in Cells : \E n \in Attempts(c) : \E row \in RowSet : LaunchWritten(c, n, row)
         \/ \E c \in Cells : \E i \in ChildrenOf(c) : \E row \in RowSet : SubcallWritten(c, i, row)
<1> DEFINE Launch == \E c \in Cells : \E n \in Attempts(c) : \E row \in RowSet : LaunchWritten(c, n, row)
           Subcall == \E c \in Cells : \E i \in ChildrenOf(c) : \E row \in RowSet : SubcallWritten(c, i, row)
<1>. TablesOK /\ ThreadsOK /\ budget \in BudgetSet
  BY TypeParts DEF TablesOK
<1>b. budget.spent \in Nat /\ \A b : [budget EXCEPT !.blocked = b].spent = budget.spent
  BY DEF BudgetSet
<1>0. ASSUME UNCHANGED tables PROVE NothingWritten
  BY <1>0 DEF NothingWritten, tables
<1>1. ASSUME NEW r \in Runners, NEW c \in Cells, Reserve(r, c) PROVE NothingWritten \/ Launch
  <2>1. CASE UNCHANGED attempt
    <3>1. UNCHANGED sub /\ budget'.spent = budget.spent
      BY <1>1 DEF Reserve, BudgetSet
    <3>. QED  BY <2>1, <3>1 DEF NothingWritten
  <2>2. CASE attempt' = [attempt EXCEPT ![c][try[r][c]].status = "running"] /\ UNCHANGED sub
             /\ budget'.spent = budget.spent
    <3> DEFINE row == [Row(r, c) EXCEPT !.status = "running"]
    <3>1. row \in RowSet /\ row.status = "running" /\ row.use = Row(r, c).use
      BY LaunchUse DEF RowSet
    <3>2. attempt' = [attempt EXCEPT ![c][try[r][c]] = row]
      BY <2>2 DEF Row
    <3> HIDE DEF row
    <3>3. budget'.spent + attempt[c][try[r][c]].use >= budget.spent + row.use
      BY <1>b, <2>2, <3>1, LaunchUse
    <3>4. row.status # "none"
      BY <3>1
    <3>5. LaunchWritten(c, try[r][c], row)
      BY <2>2, <3>1, <3>2, <3>3, <3>4, Zenon DEF LaunchWritten
    <3>. QED  BY <3>1, <3>5, LaunchUse
  <2>3. [budget EXCEPT !.attempts = budget.attempts + 1].spent = budget.spent
    BY DEF BudgetSet
  <2>. QED  BY <1>1, <2>1, <2>2, <2>3 DEF Reserve
<1>2. ASSUME NEW r \in Runners, NEW c \in Cells, AdmitSubcall(r, c) PROVE NothingWritten \/ Subcall
  <2> DEFINE i == NextChild(r, c)
  <2>1. i \in ChildrenOf(c) /\ UNCHANGED attempt
    BY <1>2 DEF AdmitSubcall
  <2>2. CASE UNCHANGED sub
    <3>1. budget'.spent = budget.spent
      BY <1>2, <1>b DEF AdmitSubcall, ReuseSubcall
    <3>. QED  BY <2>1, <2>2, <3>1 DEF NothingWritten
  <2>3. CASE sub' = [sub EXCEPT ![c][i].status = "reserved"] /\ UNCHANGED budget
    <3> DEFINE row == [sub[c][i] EXCEPT !.status = "reserved"]
    <3>1. row \in RowSet /\ row.status = "reserved" /\ row.use = sub[c][i].use /\ row.use \in Nat
      BY <2>1 DEF RowSet, TablesOK
    <3>2. sub' = [sub EXCEPT ![c][i] = row]
      BY <2>3
    <3> HIDE DEF row, i
    <3>3. budget'.spent + sub[c][i].use >= budget.spent + row.use
      BY <1>b, <2>1, <2>3, <3>1
    <3>4. row.status # "none"
      BY <3>1
    <3>5. SubcallWritten(c, i, row)
      BY <2>1, <3>1, <3>2, <3>3, <3>4, Zenon DEF SubcallWritten
    <3>. QED  BY <2>1, <3>1, <3>5
  <2>. QED  BY <1>2, <2>2, <2>3 DEF AdmitSubcall, ReuseSubcall
<1>3. ASSUME NEW r \in Runners, NEW c \in Cells, RecordSubcall(r, c) PROVE Subcall
  <2> DEFINE i == NextChild(r, c)
  <2>1. i \in ChildrenOf(c) /\ UNCHANGED attempt
    BY <1>3 DEF RecordSubcall, ThreadsHaveRows
  <2>2. sub[c][i] \in RowSet /\ sub[c][i].use \in Nat
    BY <2>1 DEF TablesOK, RowSet
  <2>3. CASE sub' = [sub EXCEPT ![c][i].status = "failed"] /\ budget'.spent = budget.spent
    <3> DEFINE row == [sub[c][i] EXCEPT !.status = "failed"]
    <3>1. row \in RowSet /\ row.status = "failed" /\ row.use = sub[c][i].use
      BY <2>2 DEF RowSet
    <3>2. sub' = [sub EXCEPT ![c][i] = row]
      BY <2>3
    <3> HIDE DEF row, i
    <3>3. budget'.spent + sub[c][i].use >= budget.spent + row.use
      BY <1>b, <2>1, <2>2, <2>3, <3>1
    <3>4. row.status # "none"
      BY <3>1
    <3>5. SubcallWritten(c, i, row)
      BY <2>1, <3>1, <3>2, <3>3, <3>4, Zenon DEF SubcallWritten
    <3>. QED  BY <2>1, <3>1, <3>5
  <2>4. ASSUME NEW u \in Usages, NEW known \in BOOLEAN,
               sub' = [sub EXCEPT ![c][i] = [status |-> "complete", use |-> u, known |-> known]],
               budget' = [budget EXCEPT !.spent = @ + u, !.blocked = @ \/ ~known]
        PROVE  Subcall
    <3>0. budget'.spent = budget.spent + u
      BY <2>4 DEF BudgetSet
    <3> DEFINE row == [status |-> "complete", use |-> u, known |-> known]
    <3>1. row \in RowSet /\ row.status = "complete" /\ row.use = u /\ u \in Nat
      BY JobAssumption DEF RowSet
    <3> HIDE DEF i
    <3>2. sub' = [sub EXCEPT ![c][i] = row]
      BY <2>4
    <3> HIDE DEF row
    <3>3. budget'.spent + sub[c][i].use >= budget.spent + row.use
      BY <1>b, <2>1, <2>2, <3>0, <3>1
    <3>4. row.status # "none"
      BY <3>1
    <3>5. SubcallWritten(c, i, row)
      BY <2>1, <3>1, <3>2, <3>3, <3>4, Zenon DEF SubcallWritten
    <3>. QED  BY <2>1, <3>1, <3>5
  <2>5. CASE sub' = [sub EXCEPT ![c][i].status = "failed"]
             /\ budget' = [budget EXCEPT !.blocked = TRUE]
    <3>1. budget'.spent = budget.spent
      BY <1>b, <2>5
    <3>. QED  BY <2>3, <2>5, <3>1
  <2> HIDE DEF Subcall
  <2>. QED  BY <1>3, <2>4, <2>5 DEF RecordSubcall
<1>4. ASSUME NEW r \in Runners, NEW c \in Cells, WriteComplete(r, c) PROVE Launch
  <2> DEFINE row == [status |-> "complete", use |-> OwnUse(r, c), known |-> TRUE]
  <2>1. row \in RowSet /\ row.status = "complete" /\ row.use = OwnUse(r, c)
    BY LaunchUse DEF RowSet
  <2>2. attempt' = [attempt EXCEPT ![c][try[r][c]] = row] /\ UNCHANGED sub
    BY <1>4 DEF WriteComplete
  <2>3. budget'.spent = budget.spent + Charge(r, c)
    BY <1>4 DEF WriteComplete, BudgetSet
  <2> HIDE DEF row
  <2>4. LaunchWritten(c, try[r][c], row)
    BY <1>b, <2>1, <2>2, <2>3, LaunchUse DEF LaunchWritten
  <2>. QED  BY <2>1, <2>4, LaunchUse
<1>5. ASSUME NEW r \in Runners, NEW c \in Cells, WriteFailed(r, c) PROVE NothingWritten \/ Launch
  <2> DEFINE row == [NoRow EXCEPT !.status = "failed"]
  <2>1. row \in RowSet /\ row.status = "failed" /\ row.use = 0
    BY DEF RowSet, NoRow
  <2>2. budget'.spent = budget.spent /\ UNCHANGED sub
    BY <1>5, <1>b DEF WriteFailed
  <2>3. UNCHANGED attempt \/ attempt' = [attempt EXCEPT ![c][try[r][c]] = row]
    BY <1>5 DEF WriteFailed
  <2> HIDE DEF row
  <2>4. CASE attempt' = [attempt EXCEPT ![c][try[r][c]] = row]
    <3>1. LaunchWritten(c, try[r][c], row)
      BY <1>b, <2>1, <2>2, <2>4, LaunchUse DEF LaunchWritten
    <3>. QED  BY <2>1, <3>1, LaunchUse
  <2>. QED  BY <2>2, <2>3, <2>4 DEF NothingWritten
<1>6. ASSUME NEW r \in Runners, NEW c \in Cells, CellStep(r, c)
      PROVE  NothingWritten \/ Launch \/ Subcall
  <2> HIDE DEF Launch, Subcall
  <2>1. CASE StartCell(r, c) \/ Look(r, c) \/ Recheck(r, c) \/ CallbackRaises(r, c)
             \/ CallbackReturns(r, c) \/ Close(r, c) \/ CloseFailed(r, c)
    BY <1>0, <2>1 DEF StartCell, Look, Recheck, CallbackRaises, CallbackReturns, Close, CloseFailed
  <2>. QED  BY <1>1, <1>2, <1>3, <1>4, <1>5, <1>6, <2>1 DEF CellStep
<1>7. ASSUME NEW r \in Runners,
             Start(r) \/ Crash(r) \/ FinishStage(r) \/ AbandonStage(r) \/ FailReport(r) \/ Gate(r)
      PROVE  NothingWritten
  BY <1>0, <1>7 DEF Start, Crash, FinishStage, AbandonStage, FailReport, Gate
<1>8. ASSUME RollBack \/ UNCHANGED vars PROVE NothingWritten
  BY <1>0, <1>8 DEF RollBack, vars, tables
<1> HIDE DEF Launch, Subcall
<1>9. NothingWritten \/ Launch \/ Subcall
  <2>1. ASSUME NEW r \in Runners, Start(r) \/ Crash(r) \/ RunnerStep(r)
        PROVE  NothingWritten \/ Launch \/ Subcall
    BY <1>6, <1>7, <2>1 DEF RunnerStep
  <2>. QED  BY <1>8, <2>1 DEF Next
<1>. QED  BY <1>9 DEF Launch, Subcall

(* A row that does not exist used nothing.                                 *)
NoRowUsed ==
  /\ \A c \in Cells : \A n \in Attempts(c) :
       attempt[c][n].status = "none" => attempt[c][n].use = 0
  /\ \A c \in Cells : \A i \in ChildrenOf(c) :
       sub[c][i].status = "none" => sub[c][i].use = 0

UseInv == NoRowUsed /\ NothingRecordedIsFree

LEMMA RowsUse ==
  ASSUME TablesOK
  PROVE  /\ \A c \in Cells : \A n \in Attempts(c) : attempt[c][n].use \in Nat
         /\ \A c \in Cells : \A i \in ChildrenOf(c) : sub[c][i].use \in Nat
         /\ \A x \in Launched : Use(attempt, x) \in Nat
         /\ \A x \in Admitted : Use(sub, x) \in Nat
         /\ budget.spent \in Nat
<1>1. \A c \in Cells : \A n \in Attempts(c) : attempt[c][n].use \in Nat
  BY DEF TablesOK, RowSet
<1>2. \A c \in Cells : \A i \in ChildrenOf(c) : sub[c][i].use \in Nat
  BY DEF TablesOK, RowSet
<1>3. \A x \in Launched : Use(attempt, x) \in Nat
  BY <1>1, Pairs DEF Use
<1>4. \A x \in Admitted : Use(sub, x) \in Nat
  BY <1>2, Pairs DEF Use
<1>. QED  BY <1>1, <1>2, <1>3, <1>4 DEF TablesOK, BudgetSet

LEMMA UseInvStep ==
  ASSUME TypeOK, ThreadsHaveRows, GateAtPanel, CountsAgree, UseInv, [Next]_vars
  PROVE  UseInv'
<1>. TablesOK
  BY TypeParts
<1>a. /\ IsFiniteSet(Launched) /\ IsFiniteSet(Admitted)
      /\ budget.spent \in Nat /\ budget.spent >= Total(attempt, Launched) + Total(sub, Admitted)
      /\ Total(attempt, Launched) \in Nat /\ Total(sub, Admitted) \in Nat
  BY RowsUse, SumType, RecordedIsTotal DEF CountsAgree, UseInv, NothingRecordedIsFree
<1>1. CASE NothingWritten
  <2>1. Launched' = Launched /\ Admitted' = Admitted
    BY <1>1, PairsSame DEF NothingWritten
  <2>2. RecordedUse' = RecordedUse
    BY <1>1, <2>1, RecordedIsTotal DEF NothingWritten
  <2>. QED  BY <1>1, <2>2 DEF NothingWritten, UseInv, NoRowUsed, NothingRecordedIsFree, Attempts,
            ChildrenOf
<1>2. ASSUME NEW c \in Cells, NEW n \in Attempts(c), NEW row \in RowSet, LaunchWritten(c, n, row)
      PROVE  UseInv'
  <2> DEFINE x == <<c, n>>
  <2>1. \A d \in Cells : \A m \in Attempts(d) :
          attempt'[d][m] = IF <<d, m>> = x THEN row ELSE attempt[d][m]
    BY <1>2 DEF LaunchWritten, TablesOK
  <2>2. Launched' = Launched \cup {x}
    <3>1. \A d \in Cells : \A m \in Attempts(d) :
            attempt'[d][m].status # "none" <=> (<<d, m>> = x \/ attempt[d][m].status # "none")
      BY <1>2, <2>1 DEF LaunchWritten
    <3>. QED  BY <3>1, Pairs, PairsNext
  <2>3. Admitted' = Admitted /\ sub' = sub
    BY <1>2, PairsSame DEF LaunchWritten
  <2>4. /\ Use(attempt, x) = attempt[c][n].use /\ Use(attempt', x) = row.use /\ row.use \in Nat
        /\ Use(attempt, x) \in Nat
    BY <2>1, RowsUse DEF Use, RowSet
  <2>5. \A y \in Launched \ {x} : Use(attempt, y) = Use(attempt', y)
    BY <2>1, Pairs DEF Use
  <2>6. x \notin Launched => Use(attempt, x) = 0
    BY <2>4, Pairs DEF UseInv, NoRowUsed
  <2>7. \A y \in Launched \cup {x} : Use(attempt, y) \in Nat /\ Use(attempt', y) \in Nat
    BY <2>4, <2>5, RowsUse
  <2> HIDE DEF x
  <2>8. /\ Total(attempt', Launched \cup {x}) + Use(attempt, x) = Total(attempt, Launched) + Use(attempt', x)
        /\ Total(attempt', Launched \cup {x}) \in Nat
    <3> DEFINE A == attempt
               B == attempt'
               S == Launched
    <3>1. /\ IsFiniteSet(S) /\ (x \notin S => Use(A, x) = 0)
          /\ \A y \in S \cup {x} : Use(A, y) \in Nat /\ Use(B, y) \in Nat
          /\ \A y \in S \ {x} : Use(A, y) = Use(B, y)
      BY <1>a, <2>5, <2>6, <2>7
    <3> HIDE DEF A, B, S
    <3>2. /\ Total(B, S \cup {x}) + Use(A, x) = Total(A, S) + Use(B, x)
          /\ Total(B, S \cup {x}) \in Nat
      BY <3>1, TotalMoves
    <3>. QED  BY <3>2 DEF A, B, S
  <2>9. budget'.spent + Use(attempt, x) >= budget.spent + Use(attempt', x)
    BY <1>2, <2>4 DEF LaunchWritten
  <2>10. budget'.spent \in Nat
    <3>1. TypeOK'
      BY TypeStep, Zenon
    <3>. QED  BY <3>1 DEF TypeOK
  <2>11. RecordedUse' = Total(attempt', Launched \cup {x}) + Total(sub, Admitted)
    BY <2>2, <2>3, RecordedIsTotal
  <2>12. NothingRecordedIsFree'
    <3> DEFINE a == Use(attempt, x)
               b == Use(attempt', x)
               t == Total(attempt, Launched)
               t1 == Total(attempt', Launched \cup {x})
               u == Total(sub, Admitted)
    <3>1. a \in Nat /\ b \in Nat /\ t \in Nat /\ t1 \in Nat /\ u \in Nat
      BY <1>a, <2>4, <2>8
    <3>2. t1 + a = t + b /\ budget'.spent + a >= budget.spent + b /\ budget.spent >= t + u
      BY <1>a, <2>8, <2>9
    <3> HIDE DEF a, b, t, t1, u
    <3>3. budget'.spent >= t1 + u
      BY <1>a, <2>10, <3>1, <3>2
    <3>. QED  BY <2>11, <3>3 DEF t1, u, NothingRecordedIsFree
  <2>13. NoRowUsed'
    BY <1>2, <2>1, <2>3 DEF LaunchWritten, UseInv, NoRowUsed, Attempts, ChildrenOf
  <2>. QED  BY <2>12, <2>13 DEF UseInv
<1>3. ASSUME NEW c \in Cells, NEW i \in ChildrenOf(c), NEW row \in RowSet, SubcallWritten(c, i, row)
      PROVE  UseInv'
  <2> DEFINE x == <<c, i>>
  <2>1. \A d \in Cells : \A m \in ChildrenOf(d) :
          sub'[d][m] = IF <<d, m>> = x THEN row ELSE sub[d][m]
    BY <1>3 DEF SubcallWritten, TablesOK
  <2>2. Admitted' = Admitted \cup {x}
    <3>1. \A d \in Cells : \A m \in ChildrenOf(d) :
            sub'[d][m].status # "none" <=> (<<d, m>> = x \/ sub[d][m].status # "none")
      BY <1>3, <2>1 DEF SubcallWritten
    <3>. QED  BY <3>1, Pairs, PairsNext
  <2>3. Launched' = Launched /\ attempt' = attempt
    BY <1>3, PairsSame DEF SubcallWritten
  <2>4. /\ Use(sub, x) = sub[c][i].use /\ Use(sub', x) = row.use /\ row.use \in Nat
        /\ Use(sub, x) \in Nat
    BY <2>1, RowsUse DEF Use, RowSet
  <2>5. \A y \in Admitted \ {x} : Use(sub, y) = Use(sub', y)
    BY <2>1, Pairs DEF Use
  <2>6. x \notin Admitted => Use(sub, x) = 0
    BY <2>4, Pairs DEF UseInv, NoRowUsed
  <2>7. \A y \in Admitted \cup {x} : Use(sub, y) \in Nat /\ Use(sub', y) \in Nat
    BY <2>4, <2>5, RowsUse
  <2> HIDE DEF x
  <2>8. /\ Total(sub', Admitted \cup {x}) + Use(sub, x) = Total(sub, Admitted) + Use(sub', x)
        /\ Total(sub', Admitted \cup {x}) \in Nat
    <3> DEFINE A == sub
               B == sub'
               S == Admitted
    <3>1. /\ IsFiniteSet(S) /\ (x \notin S => Use(A, x) = 0)
          /\ \A y \in S \cup {x} : Use(A, y) \in Nat /\ Use(B, y) \in Nat
          /\ \A y \in S \ {x} : Use(A, y) = Use(B, y)
      BY <1>a, <2>5, <2>6, <2>7
    <3> HIDE DEF A, B, S
    <3>2. /\ Total(B, S \cup {x}) + Use(A, x) = Total(A, S) + Use(B, x)
          /\ Total(B, S \cup {x}) \in Nat
      BY <3>1, TotalMoves
    <3>. QED  BY <3>2 DEF A, B, S
  <2>9. budget'.spent + Use(sub, x) >= budget.spent + Use(sub', x)
    BY <1>3, <2>4 DEF SubcallWritten
  <2>10. budget'.spent \in Nat
    <3>1. TypeOK'
      BY TypeStep, Zenon
    <3>. QED  BY <3>1 DEF TypeOK
  <2>11. RecordedUse' = Total(attempt, Launched) + Total(sub', Admitted \cup {x})
    BY <2>2, <2>3, RecordedIsTotal
  <2>12. NothingRecordedIsFree'
    <3> DEFINE a == Use(sub, x)
               b == Use(sub', x)
               t == Total(sub, Admitted)
               t1 == Total(sub', Admitted \cup {x})
               u == Total(attempt, Launched)
    <3>1. a \in Nat /\ b \in Nat /\ t \in Nat /\ t1 \in Nat /\ u \in Nat
      BY <1>a, <2>4, <2>8
    <3>2. t1 + a = t + b /\ budget'.spent + a >= budget.spent + b /\ budget.spent >= t + u
      BY <1>a, <2>8, <2>9
    <3> HIDE DEF a, b, t, t1, u
    <3>3. budget'.spent >= t1 + u
      BY <1>a, <2>10, <3>1, <3>2
    <3>. QED  BY <2>11, <3>1, <3>3 DEF t1, u, NothingRecordedIsFree
  <2>13. NoRowUsed'
    BY <1>3, <2>1, <2>3 DEF SubcallWritten, UseInv, NoRowUsed, Attempts, ChildrenOf
  <2>. QED  BY <2>12, <2>13 DEF UseInv
<1>. QED  BY <1>1, <1>2, <1>3, UseStep

LEMMA UseInvInit == Init => UseInv
<1> SUFFICES ASSUME Init PROVE UseInv
  OBVIOUS
<1>1. NoRowUsed
  BY DEF Init, NoRow, NoRowUsed
<1>2. Launched = {} /\ Admitted = {}
  BY Pairs DEF Init, NoRow
<1>3. RecordedUse = 0
  BY <1>2, RecordedIsTotal, SumOfNone
<1>. QED  BY <1>1, <1>3 DEF Init, UseInv, NothingRecordedIsFree

LEMMA Inductive == Spec => []IInv
<1>1. Init => IInv
  <2>1. Init => ShapeInv
    <3>1. Init => GateAtPanel /\ DispatchedWithAdmission
      BY DEF Init, GateAtPanel, DispatchedWithAdmission, NoRow
    <3>. QED  BY <3>1, TypeInit, CountsInit DEF ShapeInv
  <2>2. Init => ThreadsInPanel /\ GatePassed
    BY DEF Init, ThreadsInPanel, GatePassed, InCell, Active
  <2>3. Init => OneActive /\ RowsAsLeft /\ StagesStored
    BY DEF Init, OneActive, RowsAsLeft, StagesStored, Active
  <2>4. Init => StagesInOrder
    <3>1. Init => Launched = {}
      BY Pairs DEF Init, NoRow
    <3>. QED  BY <3>1 DEF StagesInOrder
  <2>5. Init => CompleteJobIsBacked
    BY DEF Init, CompleteJobIsBacked
  <2>. QED  BY <2>1, <2>2, <2>3, <2>4, <2>5 DEF IInv, SoloInv
<1>2. IInv /\ [Next]_vars => IInv'
  <2>. SUFFICES ASSUME IInv, [Next]_vars PROVE IInv'
    OBVIOUS
  <2>. TypeOK /\ ThreadsHaveRows /\ GateAtPanel /\ CountsAgree /\ DispatchedWithAdmission
       /\ ThreadsInPanel /\ GatePassed
    BY DEF IInv, ShapeInv
  <2>1. ShapeInv'
    BY TypeStep, RowsBehindThreads, GateStep, CountsStep, DispatchStep DEF ShapeInv
  <2>2. ThreadsInPanel' /\ GatePassed'
    BY InPanelStep, PassedStep
  <2>3. alone' = alone
    BY CellFrame, RunnerFrame DEF Next, RunnerStep, RunnerMove, RollBack, vars, world
  <2>4. ASSUME alone
        PROVE  (OneActive /\ RowsAsLeft /\ StagesStored /\ StagesInOrder /\ CompleteJobIsBacked)'
    <3>. OneActive /\ RowsAsLeft /\ StagesStored /\ StagesInOrder /\ CompleteJobIsBacked
      BY <2>4 DEF IInv, SoloInv
    <3>. QED  BY <2>4, OneActiveStep, RowsAsLeftStep, StagesStoredStep, StagesStep, BackedStep
  <2>. QED  BY <2>1, <2>2, <2>3, <2>4 DEF IInv, SoloInv
<1>. QED  BY <1>1, <1>2, PTL DEF Spec

(* Every reachable state is well typed: the tables of run_experiment, the  *)
(* budget row and the threads of every runner.                             *)
THEOREM TypeCorrect == Spec => []TypeOK
<1>1. IInv => TypeOK
  BY DEF IInv, ShapeInv
<1>. QED  BY <1>1, Inductive, PTL

(* Launches and nested calls together keep to the job's limit, whatever    *)
(* the threads and the runners do at once.                                 *)
THEOREM BudgetCorrect == Spec => []AttemptBudgetHolds
<1>1. IInv => AttemptBudgetHolds
  BY DEF IInv, ShapeInv, CountsAgree, AttemptBudgetHolds
<1>. QED  BY <1>1, Inductive, PTL

(* No nested call is dispatched twice, over all attempts of its cell and   *)
(* all runners.                                                            *)
THEOREM DispatchCorrect == Spec => []ChildDispatchedOnce
<1>1. IInv => ChildDispatchedOnce
  BY DEF IInv, ShapeInv, DispatchedWithAdmission, ChildDispatchedOnce
<1>. QED  BY <1>1, Inductive, PTL

(* A blocked or overspent job claims no launch and admits no nested call.  *)
THEOREM ExhaustedCorrect == Spec => ExhaustedStartsNothing
<1>1. ASSUME IInv, [Next]_vars, budget.blocked \/ budget.spent > MaxUsage
      PROVE  Launched' \subseteq Launched /\ Admitted' \subseteq Admitted
  <2>. TypeOK /\ ThreadsHaveRows /\ CountsAgree
    BY <1>1 DEF IInv, ShapeInv
  <2>. budget.spent \in Nat /\ MaxUsage \in Nat /\ Estimate \in Nat
    BY JobAssumption DEF TypeOK
  <2>1. CASE RowsKept
    BY <2>1, PairsSame DEF RowsKept
  <2>2. ~LaunchExhausted => FALSE
    BY <1>1 DEF LaunchExhausted
  <2>3. ~SubcallExhausted => FALSE
    <3>1. Cardinality(Reserved) \in Nat
      <4>1. Reserved \subseteq Admitted /\ IsFiniteSet(Admitted)
        BY DEF Reserved, CountsAgree
      <4>. QED  BY <4>1, FS_Subset, FS_CardinalityType
    <3>. DEFINE held == (Cardinality(Reserved) + 1) * Estimate
    <3>2. held \in Nat
      BY <3>1
    <3>3. ~SubcallExhausted => ~budget.blocked /\ ~(budget.spent + held > MaxUsage)
      BY DEF SubcallExhausted
    <3>. HIDE DEF held
    <3>. QED  BY <1>1, <3>2, <3>3
  <2>. QED  BY <1>1, <2>1, <2>2, <2>3, TableStep DEF LaunchClaimed, SubcallClaimed
<1>2. IInv /\ [Next]_vars
        => [budget.blocked \/ budget.spent > MaxUsage
              => Launched' \subseteq Launched /\ Admitted' \subseteq Admitted]_vars
  BY <1>1
<1>. QED  BY <1>2, Inductive, PTL DEF Spec, ExhaustedStartsNothing

(* With one runner at a time no cell of a panel is launched before every   *)
(* cell of the panels before it has a stored receipt, over any number of   *)
(* crashes and resumed runners.                                            *)
THEOREM StagesCorrect == Spec => []StagesInOrder
<1>1. IInv => StagesInOrder
  BY DEF IInv, SoloInv, StagesInOrder
<1>. QED  BY <1>1, Inductive, PTL

(* With one runner at a time a job saved as complete has a receipt of      *)
(* every cell and its candidate went through the gate.                     *)
THEOREM CompleteCorrect == Spec => []CompleteJobIsBacked
<1>1. IInv => CompleteJobIsBacked
  BY DEF IInv, SoloInv, CompleteJobIsBacked
<1>. QED  BY <1>1, Inductive, PTL

(* Launches and nested calls keep to the limit, each of the latter once.   *)
THEOREM WorkIsBoundedCorrect == Spec => []WorkIsBounded
<1>1. TypeOK /\ AttemptBudgetHolds /\ ChildDispatchedOnce => WorkIsBounded
  BY DEF WorkIsBounded
<1>. QED  BY <1>1, TypeCorrect, BudgetCorrect, DispatchCorrect, PTL

(* Stages rest on the stages before them, completion on all of them.       *)
THEOREM StagesAreBackedCorrect == Spec => []StagesAreBacked
<1>1. StagesInOrder /\ CompleteJobIsBacked => StagesAreBacked
  BY DEF StagesAreBacked
<1>. QED  BY <1>1, StagesCorrect, CompleteCorrect, PTL

(* Every stored receipt and every recorded nested call is in the total     *)
(* that the limits are compared with, over any crashes and any number of   *)
(* runners at a time: a step adds to the total no less than to the rows.   *)
THEOREM NothingRecordedIsFreeCorrect == Spec => []NothingRecordedIsFree
<1>1. IInv /\ UseInv /\ [Next]_vars => UseInv'
  BY UseInvStep DEF IInv, ShapeInv
<1>2. UseInv => NothingRecordedIsFree
  BY DEF UseInv
<1>. QED  BY <1>1, <1>2, UseInvInit, Inductive, PTL DEF Spec
=============================================================================
