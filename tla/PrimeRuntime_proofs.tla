------------------------- MODULE PrimeRuntime_proofs -------------------------
(***************************************************************************)
(* The safety of the Prime runtime, for any number of cells and model      *)
(* calls, any limits of the queue, the pipe and the budget, any usage that *)
(* a call reports and any sizes of the artifacts.                          *)
(***************************************************************************)
EXTENDS PrimeRuntime, FiniteSetTheorems, WellFoundedInduction, TLAPS

PipeFrame ==
  [kind : {"stdout", "run", "done"}, id : 1 .. NumCells] \cup [kind : {"corrupt"}, id : {0}]
EventFrame ==
  [kind : {"stdout", "done"}, id : 1 .. NumCells] \cup [kind : {"fatal"}, id : {0}]

ReaderStates ==
  {"none", "reading", "request", "plan", "called", "start", "child", "reply", "gone"}

ParentTypes ==
  /\ pc \in {"idle", "asking", "ready", "waiting", "interrupting", "closed"}
  /\ cell \in 0 .. NumCells /\ kernel \in 0 .. cell

KernelTypes ==
  /\ alive \in [Kernels -> {"none", "up", "exited", "killed"}]
  /\ running \in [Kernels -> 0 .. NumCells]
  /\ reader \in [Kernels -> ReaderStates]

PipeTypes ==
  /\ pipe \in [Kernels -> Seq(PipeFrame)]
  /\ events \in [Kernels -> Seq(EventFrame)]
  /\ \A k \in Kernels : Len(events[k]) <= MaxPending /\ Len(pipe[k]) <= MaxPipe

ArtifactTypes ==
  /\ transfer \in [owner : {0} \cup Kernels, size : Nat, full : BOOLEAN]
  /\ stored \subseteq Nat /\ IsFiniteSet(stored) /\ bytes \in Nat

(* The parent that is inside execute has a kernel, and code runs only in   *)
(* one that is up.                                                         *)
Placed ==
  /\ pc \in {"ready", "waiting", "interrupting"} => kernel \in Kernels
  /\ \A k \in Kernels : running[k] # 0 => Up(k)

(* No frame is of a cell to come.  Before the cell is sent there is none   *)
(* of it, and once its end was told its code does not run any more.        *)
Timely(e, k) ==
  /\ e.id <= cell
  /\ pc = "ready" => e.id < cell
  /\ e.kind = "done" /\ e.id = cell => running[k] = 0

FramesTimely ==
  \A k \in Kernels :
    /\ \A i \in DOMAIN pipe[k] : Timely(pipe[k][i], k)
    /\ \A i \in DOMAIN events[k] : Timely(events[k][i], k)

(* A failure is told only of a kernel that was killed.                     *)
FailuresKill ==
  \A k \in Kernels : \A i \in DOMAIN events[k] :
    events[k][i].kind = "fatal" => alive[k] = "killed"

(* Children that run or ran, and plans on the way, have their reservation. *)
ChildrenCounted ==
  /\ childRuns \in Nat /\ childRuns <= MaxChildRuns
  /\ children \in Nat
  /\ children + Cardinality(Planning) <= childRuns

(* What the calls in flight can still cost fits the bound of the overspend.*)
Calling == {k \in Kernels : reader[k] = "called"}
InFlight == Cardinality(Calling) + (IF pc = "asking" THEN 1 ELSE 0)

TokensCounted ==
  /\ tokens \in Nat /\ tokens = receipts
  /\ tokens + InFlight * Max(CallTokens) < TokenCap + (1 + MaxChildRuns) * Max(CallTokens)

IInv ==
  /\ ParentTypes /\ KernelTypes /\ PipeTypes /\ ArtifactTypes
  /\ Placed /\ CodeRunsInsideExecute /\ FramesTimely /\ FailuresKill /\ FailureReachesParent
  /\ ChildrenCounted /\ TokensCounted /\ BytesAreOfStored

-----------------------------------------------------------------------------
USE DEF parent, kernels, budget, artifacts, Set, Up, Rest, Emit, CanEmit, KillKernel,
        Return, Ours

(* A set of numbers has a least one.                                       *)
LEMMA MinimalExists ==
  ASSUME NEW R, NEW Z, IsWellFoundedOn(R, Z), NEW S, S \subseteq Z, S # {},
         \A x \in Z, y \in Z : x < y => <<x, y>> \in R
  PROVE  \E i \in S : \A j \in S : ~(j < i)
<1>1. PICK i \in S : \A j \in S : ~(<<j, i>> \in R)
  BY WFMin
<1>. QED  BY <1>1, Zenon

LEMMA LeastExists ==
  ASSUME NEW S, S \subseteq Nat, S # {}
  PROVE  \E i \in S : \A j \in S : i <= j
<1>1. \A x \in Nat, y \in Nat : x < y => <<x, y>> \in OpToRel(<, Nat)
  BY DEF OpToRel
<1>2. PICK i \in S : \A j \in S : ~(j < i)
  BY <1>1, NatLessThanWellFounded, MinimalExists, Zenon
<1>. QED  BY <1>2

(* Induction over finite sets, by a least counterexample: a family of      *)
(* finite sets that has {} and, with every S, whatever is S and one more.  *)
LEMMA SmallestExists ==
  ASSUME NEW F, F # {}, \A S \in F : IsFiniteSet(S)
  PROVE  \E S \in F : \A T \in F : Cardinality(S) <= Cardinality(T)
<1> DEFINE N == {Cardinality(S) : S \in F}
<1>1. N \subseteq Nat /\ N # {}
  BY FS_CardinalityType
<1>2. PICK n \in N : \A m \in N : n <= m
  <2> HIDE DEF N
  <2>. QED  BY <1>1, LeastExists
<1>. QED  BY <1>2

LEMMA RestIsSmaller ==
  ASSUME NEW S, IsFiniteSet(S), NEW x \in S
  PROVE  /\ IsFiniteSet(S \ {x})
         /\ Cardinality(S \ {x}) < Cardinality(S)
<1>1. Cardinality(S) \in Nat /\ Cardinality(S) # 0
  BY FS_CardinalityType, FS_EmptySet
<1>2. IsFiniteSet(S \ {x}) /\ Cardinality(S \ {x}) = Cardinality(S) - 1
  BY FS_RemoveElement
<1>. QED  BY <1>1, <1>2

-----------------------------------------------------------------------------
(* The sum over a finite set of numbers: the fold of the library takes the *)
(* elements in some order; the sum is the same in any.                     *)
Pick(s) == CHOOSE x \in s : TRUE
IsSum(g, S) ==
  g = [s \in SUBSET S |-> IF s = {} THEN 0 ELSE Pick(s) + g[s \ {Pick(s)}]]
SumOf(S) == CHOOSE g : IsSum(g, S)

LEMMA SumUnfolds == ASSUME NEW S PROVE SumSet(S) = SumOf(S)[S]
BY DEF SumSet, FoldSet, MapThenFoldSet, SumOf, IsSum, Pick

LEMMA PickIsIn == ASSUME NEW s, s # {} PROVE Pick(s) \in s
BY DEF Pick

LEMMA SumTakes ==
  ASSUME NEW S, NEW g, IsSum(g, S)
  PROVE  /\ g[{}] = 0
         /\ \A s \in SUBSET S : s # {} => g[s] = Pick(s) + g[s \ {Pick(s)}]
<1> DEFINE V(s) == IF s = {} THEN 0 ELSE Pick(s) + g[s \ {Pick(s)}]
<1>1. g = [s \in SUBSET S |-> V(s)]
  BY DEF IsSum
<1> HIDE DEF V
<1>2. \A s \in SUBSET S : g[s] = V(s)
  BY <1>1
<1>. QED  BY <1>2 DEF V

LEMMA SumsAgree ==
  ASSUME NEW S, NEW T, NEW g, NEW h, IsSum(g, S), IsSum(h, T),
         NEW u, u \subseteq S, u \subseteq T, IsFiniteSet(u)
  PROVE  g[u] = h[u]
<1> DEFINE Bad == {s \in SUBSET u : g[s] # h[s]}
<1> SUFFICES ASSUME Bad # {} PROVE FALSE
  OBVIOUS
<1>1. \A s \in Bad : IsFiniteSet(s) /\ s \subseteq u
  BY FS_Subset
<1>2. PICK s \in Bad : \A t \in Bad : Cardinality(s) <= Cardinality(t)
  <2> HIDE DEF Bad
  <2>. QED  BY <1>1, SmallestExists
<1>3. s # {}
  BY <1>2, SumTakes
<1>4. Pick(s) \in s
  BY <1>3, PickIsIn
<1>5. Cardinality(s \ {Pick(s)}) < Cardinality(s) /\ IsFiniteSet(s) /\ IsFiniteSet(s \ {Pick(s)})
  BY <1>1, <1>2, <1>4, RestIsSmaller
<1>6. s \ {Pick(s)} \notin Bad
  BY <1>2, <1>5, FS_CardinalityType
<1>7. g[s \ {Pick(s)}] = h[s \ {Pick(s)}]
  BY <1>2, <1>6
<1>8. g[s] = Pick(s) + g[s \ {Pick(s)}] /\ h[s] = Pick(s) + h[s \ {Pick(s)}]
  BY <1>1, <1>2, <1>3, SumTakes
<1>. QED  BY <1>2, <1>7, <1>8

LEMMA SumsExist ==
  ASSUME NEW S, IsFiniteSet(S)
  PROVE  IsSum(SumOf(S), S)
<1> DEFINE Bad == {s \in SUBSET S : ~ \E g : IsSum(g, s)}
<1> SUFFICES ASSUME Bad # {} PROVE FALSE
  BY DEF SumOf
<1>1. \A s \in Bad : IsFiniteSet(s) /\ s \subseteq S
  BY FS_Subset
<1>2. PICK s \in Bad : \A t \in Bad : Cardinality(s) <= Cardinality(t)
  <2> HIDE DEF Bad
  <2>. QED  BY <1>1, SmallestExists
<1>3. ASSUME NEW t, t \subseteq s, t # s
      PROVE  IsFiniteSet(t) /\ IsSum(SumOf(t), t)
  <2>1. IsFiniteSet(s) /\ IsFiniteSet(t) /\ Cardinality(t) <= Cardinality(s)
    BY <1>1, <1>2, <1>3, FS_Subset
  <2>2. Cardinality(t) # Cardinality(s)
    BY <1>3, <2>1, FS_Subset
  <2>3. t \notin Bad
    BY <1>2, <2>1, <2>2, FS_CardinalityType
  <2>4. \E g : IsSum(g, t)
    BY <1>1, <1>2, <1>3, <2>3
  <2>. QED  BY <2>1, <2>4 DEF SumOf
<1> DEFINE G(t) == SumOf(t)[t]
           W(u) == IF u = {} THEN 0 ELSE Pick(u) + G(u \ {Pick(u)})
           g == [u \in SUBSET s |-> W(u)]
<1>4. ASSUME NEW t, t \subseteq s, t # s PROVE G(t) = W(t)
  <2>1. IsSum(SumOf(t), t)
    BY <1>3, <1>4
  <2>2. CASE t = {}
    BY <2>1, <2>2, SumTakes
  <2>3. CASE t # {}
    <3> DEFINE v == t \ {Pick(t)}
    <3>1. Pick(t) \in t /\ v \subseteq t /\ v \subseteq s /\ v # s
      BY <1>4, <2>3, PickIsIn
    <3>2. IsFiniteSet(v) /\ IsSum(SumOf(v), v)
      BY <1>3, <3>1
    <3>3. SumOf(v)[v] = SumOf(t)[v]
      BY <2>1, <3>1, <3>2, SumsAgree
    <3>4. SumOf(t)[t] = Pick(t) + SumOf(t)[v]
      BY <2>1, <2>3, SumTakes
    <3>. QED  BY <2>3, <3>3, <3>4
  <2>. QED  BY <2>2, <2>3
<1>5. ASSUME NEW u \in SUBSET s
      PROVE  g[u] = IF u = {} THEN 0 ELSE Pick(u) + g[u \ {Pick(u)}]
  <2>1. CASE u = {}
    BY <2>1
  <2>2. CASE u # {}
    <3> DEFINE v == u \ {Pick(u)}
    <3>1. Pick(u) \in u /\ v \subseteq s /\ v # s
      BY <2>2, PickIsIn
    <3>2. g[v] = W(v) /\ G(v) = W(v)
      BY <1>4, <3>1
    <3> HIDE DEF v, G
    <3>3. g[u] = Pick(u) + G(v)
      BY <2>2 DEF v
    <3>. QED  BY <2>2, <3>2, <3>3 DEF v
  <2>. QED  BY <2>1, <2>2
<1>6. IsSum(g, s)
  <2> DEFINE X(u) == IF u = {} THEN 0 ELSE Pick(u) + g[u \ {Pick(u)}]
  <2>1. g = [u \in SUBSET s |-> g[u]]
    OBVIOUS
  <2>2. \A u \in SUBSET s : g[u] = X(u)
    BY <1>5
  <2> HIDE DEF g, X
  <2>3. g = [u \in SUBSET s |-> X(u)]
    BY <2>1, <2>2
  <2>. QED  BY <2>3 DEF IsSum, X
<1>. QED  BY <1>2, <1>6

LEMMA SumOfNone == SumSet({}) = 0
BY SumUnfolds, SumsExist, SumTakes, FS_EmptySet

LEMMA SumOfSome ==
  ASSUME NEW S, IsFiniteSet(S), S # {}
  PROVE  SumSet(S) = Pick(S) + SumSet(S \ {Pick(S)})
<1> DEFINE T == S \ {Pick(S)}
<1>1. Pick(S) \in S
  BY PickIsIn
<1>2. IsFiniteSet(T)
  BY <1>1, RestIsSmaller
<1>3. SumOf(S)[S] = Pick(S) + SumOf(S)[T]
  BY SumsExist, SumTakes
<1>4. SumOf(S)[T] = SumOf(T)[T]
  BY <1>2, SumsExist, SumsAgree
<1>. QED  BY <1>3, <1>4, SumUnfolds

LEMMA SumType ==
  ASSUME NEW S, S \subseteq Nat, IsFiniteSet(S)
  PROVE  SumSet(S) \in Nat
<1> DEFINE Bad == {s \in SUBSET S : SumSet(s) \notin Nat}
<1> SUFFICES ASSUME Bad # {} PROVE FALSE
  OBVIOUS
<1>1. \A s \in Bad : IsFiniteSet(s) /\ s \subseteq S
  BY FS_Subset
<1>2. PICK s \in Bad : \A t \in Bad : Cardinality(s) <= Cardinality(t)
  <2> HIDE DEF Bad
  <2>. QED  BY <1>1, SmallestExists
<1>3. s # {}
  BY <1>2, SumOfNone
<1>4. Pick(s) \in s
  BY <1>3, PickIsIn
<1>5. Cardinality(s \ {Pick(s)}) < Cardinality(s) /\ IsFiniteSet(s) /\ IsFiniteSet(s \ {Pick(s)})
  BY <1>1, <1>2, <1>4, RestIsSmaller
<1>6. s \ {Pick(s)} \notin Bad
  BY <1>2, <1>5, FS_CardinalityType
<1>7. SumSet(s \ {Pick(s)}) \in Nat /\ Pick(s) \in Nat
  BY <1>1, <1>2, <1>4, <1>6
<1>8. SumSet(s) = Pick(s) + SumSet(s \ {Pick(s)})
  BY <1>3, <1>5, SumOfSome
<1>. QED  BY <1>2, <1>7, <1>8

LEMMA SumRemoves ==
  ASSUME NEW S, S \subseteq Nat, IsFiniteSet(S), NEW x \in S
  PROVE  SumSet(S) = x + SumSet(S \ {x})
<1> DEFINE Bad == {s \in SUBSET S : \E y \in s : SumSet(s) # y + SumSet(s \ {y})}
<1> SUFFICES ASSUME Bad # {} PROVE FALSE
  OBVIOUS
<1>1. \A s \in Bad : IsFiniteSet(s) /\ s \subseteq S
  BY FS_Subset
<1>2. PICK s \in Bad : \A t \in Bad : Cardinality(s) <= Cardinality(t)
  <2> HIDE DEF Bad
  <2>. QED  BY <1>1, SmallestExists
<1>3. PICK y \in s : SumSet(s) # y + SumSet(s \ {y})
  BY <1>2
<1> DEFINE p == Pick(s)
           r == s \ {p}
           q == s \ {y}
           t == s \ {p, y}
<1>4. p \in s /\ IsFiniteSet(s) /\ s \subseteq Nat
  BY <1>1, <1>2, <1>3, PickIsIn
<1>5. SumSet(s) = p + SumSet(r)
  BY <1>3, <1>4, SumOfSome
<1>6. p # y
  BY <1>3, <1>5
<1>7. IsFiniteSet(r) /\ IsFiniteSet(q) /\ Cardinality(r) < Cardinality(s) /\ Cardinality(q) < Cardinality(s)
  BY <1>3, <1>4, RestIsSmaller
<1>8. r \notin Bad /\ q \notin Bad
  <2>1. Cardinality(r) \in Nat /\ Cardinality(q) \in Nat /\ Cardinality(s) \in Nat
    BY <1>4, <1>7, FS_CardinalityType
  <2> HIDE DEF Bad, r, q
  <2>. QED  BY <1>2, <1>7, <2>1
<1>9. SumSet(r) = y + SumSet(r \ {y})
  BY <1>1, <1>2, <1>3, <1>6, <1>8
<1>10. SumSet(q) = p + SumSet(q \ {p})
  BY <1>1, <1>2, <1>4, <1>6, <1>8
<1>11. r \ {y} = t /\ q \ {p} = t
  OBVIOUS
<1>12. IsFiniteSet(t) /\ t \subseteq Nat
  BY <1>4, <1>7, <1>11, FS_Subset
<1>13. SumSet(t) \in Nat /\ p \in Nat /\ y \in Nat
  BY <1>3, <1>4, <1>12, SumType
<1> HIDE DEF p, r, t
<1>14. SumSet(s) = p + (y + SumSet(t)) /\ SumSet(q) = p + SumSet(t)
  BY <1>5, <1>9, <1>10, <1>11
<1>15. SumSet(s) = y + SumSet(q)
  <2> HIDE DEF q
  <2>. QED  BY <1>13, <1>14
<1>. QED  BY <1>3, <1>15

LEMMA SumAdds ==
  ASSUME NEW S, S \subseteq Nat, IsFiniteSet(S), NEW x \in Nat, x \notin S
  PROVE  SumSet(S \cup {x}) = SumSet(S) + x
<1>1. IsFiniteSet(S \cup {x}) /\ S \cup {x} \subseteq Nat /\ (S \cup {x}) \ {x} = S
  BY FS_AddElement
<1>2. SumSet(S \cup {x}) = x + SumSet(S)
  BY <1>1, SumRemoves
<1>3. SumSet(S) \in Nat
  BY SumType
<1>. QED  BY <1>2, <1>3


-----------------------------------------------------------------------------
LEMMA MaxIsOne ==
  ASSUME NEW S, S \subseteq Nat, IsFiniteSet(S), S # {}
  PROVE  Max(S) \in S /\ \A y \in S : y <= Max(S)
<1> DEFINE Bad == {T \in SUBSET S : T # {} /\ ~ \E m \in T : \A y \in T : m >= y}
<1>1. Bad = {}
  <2> SUFFICES ASSUME Bad # {} PROVE FALSE
    OBVIOUS
  <2>1. \A T \in Bad : IsFiniteSet(T) /\ T \subseteq S
    BY FS_Subset
  <2>2. PICK T \in Bad : \A U \in Bad : Cardinality(T) <= Cardinality(U)
    <3> HIDE DEF Bad
    <3>. QED  BY <2>1, SmallestExists
  <2>3. PICK x \in T : TRUE
    BY <2>2
  <2> DEFINE U == T \ {x}
  <2>4. IsFiniteSet(T) /\ IsFiniteSet(U) /\ Cardinality(U) < Cardinality(T)
    BY <2>1, <2>2, <2>3, RestIsSmaller
  <2>5. Cardinality(U) \in Nat /\ Cardinality(T) \in Nat
    BY <2>4, FS_CardinalityType
  <2>6. U \notin Bad
    <3> HIDE DEF Bad, U
    <3>. QED  BY <2>2, <2>4, <2>5
  <2>7. CASE U = {}
    <3>1. T = {x} /\ x \in Nat
      BY <2>2, <2>3, <2>7
    <3>. QED  BY <2>2, <3>1
  <2>8. CASE U # {}
    <3>1. PICK m \in U : \A y \in U : m >= y
      BY <2>2, <2>6, <2>8
    <3>2. m \in Nat /\ x \in Nat /\ m \in T /\ T \subseteq Nat /\ \A y \in T : y = x \/ y \in U
      BY <2>2, <2>3, <3>1
    <3>3. CASE m >= x
      <4>1. \A y \in T : m >= y
        BY <3>1, <3>2, <3>3
      <4>. QED  BY <2>2, <3>2, <4>1
    <3>4. CASE ~(m >= x)
      <4>1. \A y \in T : x >= y
        BY <3>1, <3>2, <3>4
      <4>. QED  BY <2>2, <2>3, <4>1
    <3>. QED  BY <3>3, <3>4
  <2>. QED  BY <2>7, <2>8
<1>2. PICK m \in S : \A y \in S : m >= y
  BY <1>1
<1>3. Max(S) \in S /\ \A y \in S : Max(S) >= y
  BY <1>2, Zenon DEF Max
<1>. QED  BY <1>3

(* The most that a call can cost.                                          *)
LEMMA MaxTokens == Max(CallTokens) \in Nat /\ \A n \in CallTokens : n \in Nat /\ n <= Max(CallTokens)
<1>1. CallTokens \subseteq Nat /\ IsFiniteSet(CallTokens) /\ CallTokens # {}
  BY PrimeAssumption
<1>. QED  BY <1>1, MaxIsOne

LEMMA KernelsFinite == IsFiniteSet(Kernels) /\ \A S \in SUBSET Kernels : IsFiniteSet(S) /\ Cardinality(S) \in Nat
<1>1. IsFiniteSet(Kernels)
  BY PrimeAssumption, FS_Interval DEF Kernels
<1>. QED  BY <1>1, FS_Subset, FS_CardinalityType

LEMMA Products ==
  ASSUME NEW a \in Nat, NEW b \in Nat, NEW m \in Nat, a <= b
  PROVE  /\ a * m \in Nat /\ b * m \in Nat /\ a * m <= b * m
         /\ (a + 1) * m = a * m + m
<1>1. PICK c \in Nat : b = a + c
  <2>1. b - a \in Nat /\ b = a + (b - a)
    OBVIOUS
  <2>. QED  BY <2>1
<1>2. b * m = a * m + c * m
  BY <1>1
<1>3. a * m \in Nat /\ c * m \in Nat /\ b * m \in Nat
  BY <1>1
<1>. QED  BY <1>2, <1>3

(* Nothing is reserved and nobody calls but who did.                       *)
LEMMA ChildrenStand ==
  ASSUME ChildrenCounted, UNCHANGED <<childRuns, children>>, Planning' \subseteq Planning
  PROVE  ChildrenCounted'
<1>1. Planning \subseteq Kernels
  BY DEF Planning
<1>2. /\ IsFiniteSet(Planning)
      /\ Cardinality(Planning) \in Nat /\ Cardinality(Planning') \in Nat
  BY <1>1, KernelsFinite
<1>3. Cardinality(Planning') <= Cardinality(Planning)
  BY <1>2, FS_Subset
<1>. QED  BY <1>2, <1>3 DEF ChildrenCounted

LEMMA TokensStand ==
  ASSUME TokensCounted, UNCHANGED <<tokens, receipts>>, Calling' \subseteq Calling,
         pc' = "asking" => pc = "asking"
  PROVE  TokensCounted'
<1>1. Calling \subseteq Kernels
  BY DEF Calling
<1>2. /\ IsFiniteSet(Calling)
      /\ Cardinality(Calling) \in Nat /\ Cardinality(Calling') \in Nat
  BY <1>1, KernelsFinite
<1>3. Cardinality(Calling') <= Cardinality(Calling)
  BY <1>2, FS_Subset
<1>4. InFlight \in Nat /\ InFlight' \in Nat /\ InFlight' <= InFlight
  BY <1>2, <1>3 DEF InFlight
<1> DEFINE M == Max(CallTokens)
           B == TokenCap + (1 + MaxChildRuns) * M
<1>5. M \in Nat /\ B \in Nat
  <2>1. M \in Nat
    BY MaxTokens
  <2>2. (1 + MaxChildRuns) * M \in Nat
    BY <2>1, PrimeAssumption, Products
  <2>. QED  BY <2>1, <2>2, PrimeAssumption
<1> HIDE DEF M
<1>6. InFlight' * M <= InFlight * M /\ InFlight' * M \in Nat /\ InFlight * M \in Nat
  BY <1>4, <1>5, Products
<1> HIDE DEF B
<1>7. tokens \in Nat /\ tokens = receipts /\ tokens + InFlight * M < B
  BY DEF TokensCounted, M, B
<1>8. tokens' + InFlight' * M < B
  BY <1>5, <1>6, <1>7
<1>. QED  BY <1>7, <1>8 DEF TokensCounted, M, B

(* A receipt is paid from what its call had reserved.                      *)
LEMMA TokensPaid ==
  ASSUME TokensCounted, NEW n \in CallTokens, tokens' = tokens + n, receipts' = receipts + n,
         InFlight \in Nat, InFlight' \in Nat, InFlight' + 1 = InFlight
  PROVE  TokensCounted'
<1> DEFINE M == Max(CallTokens)
           B == TokenCap + (1 + MaxChildRuns) * M
<1>1. M \in Nat /\ n \in Nat /\ n <= M
  BY MaxTokens
<1>2. B \in Nat
  <2>1. (1 + MaxChildRuns) * M \in Nat
    BY <1>1, PrimeAssumption, Products
  <2>. QED  BY <2>1, PrimeAssumption
<1> HIDE DEF M
<1> DEFINE a == InFlight'
<1>3. (a + 1) * M = a * M + M /\ a * M \in Nat
  <2>1. a \in Nat /\ a <= a
    OBVIOUS
  <2> HIDE DEF a
  <2>. QED  BY <1>1, <2>1, Products
<1> HIDE DEF B
<1>4. tokens \in Nat /\ tokens = receipts /\ tokens + InFlight * M < B
  BY DEF TokensCounted, M, B
<1>5. tokens' + a * M < B
  <2>1. tokens + (a + 1) * M < B
    BY <1>4
  <2> DEFINE x == a * M
             y == (a + 1) * M
  <2>2. y = x + M /\ x \in Nat /\ tokens + y < B
    BY <1>3, <2>1
  <2> HIDE DEF x, y
  <2>3. tokens + n + x < B
    BY <1>1, <1>2, <1>4, <2>2
  <2>. QED  BY <2>3 DEF x
<1>. QED  BY <1>1, <1>4, <1>5 DEF TokensCounted, M, B

(* A call may be made while tokens are left: no more calls can then be in  *)
(* flight than the parent's and those of the children.                     *)
LEMMA TokensReserved ==
  ASSUME TokensCounted, tokens < TokenCap, UNCHANGED <<tokens, receipts>>,
         InFlight' \in Nat, InFlight' <= 1 + MaxChildRuns
  PROVE  TokensCounted'
<1> DEFINE M == Max(CallTokens)
<1>1. M \in Nat
  BY MaxTokens
<1> HIDE DEF M
<1> DEFINE a == InFlight'
           b == 1 + MaxChildRuns
<1>2. a * M <= b * M /\ a * M \in Nat /\ b * M \in Nat
  <2>1. a \in Nat /\ b \in Nat /\ a <= b
    BY PrimeAssumption
  <2> HIDE DEF a, b
  <2>. QED  BY <1>1, <2>1, Products
<1>3. tokens \in Nat /\ tokens = receipts
  BY DEF TokensCounted
<1>4. tokens' + a * M < TokenCap + b * M
  <2> HIDE DEF a, b
  <2>. QED  BY <1>2, <1>3, PrimeAssumption
<1>. QED  BY <1>3, <1>4 DEF TokensCounted, M

LEMMA CallsBounded ==
  ASSUME ChildrenCounted, NEW C \in SUBSET Planning
  PROVE  Cardinality(C) \in Nat /\ Cardinality(C) <= MaxChildRuns
<1>1. C \subseteq Kernels /\ Planning \subseteq Kernels
  BY DEF Planning
<1>2. /\ IsFiniteSet(Planning)
      /\ Cardinality(Planning) \in Nat /\ Cardinality(C) \in Nat
  BY <1>1, KernelsFinite
<1>3. Cardinality(C) <= Cardinality(Planning)
  BY <1>2, FS_Subset
<1>. QED  BY <1>2, <1>3, PrimeAssumption DEF ChildrenCounted

-----------------------------------------------------------------------------
LEMMA NoCell == 0 \in 0 .. NumCells /\ \A n \in 0 .. NumCells : n # 0 => n \in 1 .. NumCells
BY PrimeAssumption

(* What a queue holds after a step: what it held, and what is new.         *)
From(t, s, new) == \A i \in DOMAIN t : t[i] \in new \/ \E j \in DOMAIN s : t[i] = s[j]

LEMMA Appended ==
  ASSUME NEW F, NEW s \in Seq(F), NEW f \in F
  PROVE  /\ Append(s, f) \in Seq(F) /\ Len(Append(s, f)) = Len(s) + 1
         /\ From(Append(s, f), s, {f})
         /\ \E i \in DOMAIN Append(s, f) : Append(s, f)[i] = f
<1>1. /\ Append(s, f) \in Seq(F) /\ Len(Append(s, f)) = Len(s) + 1 /\ Len(s) \in Nat
      /\ DOMAIN s = 1 .. Len(s) /\ DOMAIN Append(s, f) = 1 .. Len(s) + 1
      /\ Append(s, f)[Len(s) + 1] = f
  OBVIOUS
<1>2. ASSUME NEW i \in DOMAIN Append(s, f) PROVE Append(s, f)[i] = f \/ (i \in DOMAIN s /\ Append(s, f)[i] = s[i])
  OBVIOUS
<1>. QED  BY <1>1, <1>2 DEF From

LEMMA Shortened ==
  ASSUME NEW F, NEW s \in Seq(F), s # <<>>
  PROVE  /\ Tail(s) \in Seq(F) /\ Len(Tail(s)) = Len(s) - 1 /\ Len(s) \in Nat \ {0}
         /\ Head(s) \in F /\ 1 \in DOMAIN s /\ Head(s) = s[1]
         /\ From(Tail(s), s, {})
         /\ \A i \in DOMAIN s : s[i] = Head(s) \/ \E j \in DOMAIN Tail(s) : Tail(s)[j] = s[i]
<1>1. /\ Tail(s) \in Seq(F) /\ Len(Tail(s)) = Len(s) - 1 /\ Len(s) \in Nat \ {0}
      /\ DOMAIN s = 1 .. Len(s) /\ DOMAIN Tail(s) = 1 .. Len(s) - 1
      /\ Head(s) \in F /\ Head(s) = s[1]
  OBVIOUS
<1>2. ASSUME NEW i \in DOMAIN Tail(s) PROVE i + 1 \in DOMAIN s /\ Tail(s)[i] = s[i + 1]
  BY <1>1
<1>3. ASSUME NEW i \in DOMAIN s, i # 1 PROVE i - 1 \in DOMAIN Tail(s) /\ Tail(s)[i - 1] = s[i]
  BY <1>1, <1>3
<1>4. From(Tail(s), s, {})
  BY <1>2 DEF From
<1>5. ASSUME NEW i \in DOMAIN s
      PROVE  s[i] = Head(s) \/ \E j \in DOMAIN Tail(s) : Tail(s)[j] = s[i]
  BY <1>1, <1>3
<1>6. 1 \in DOMAIN s
  BY <1>1
<1>. QED  BY <1>1, <1>4, <1>5, <1>6

LEMMA Emptied == ASSUME NEW F, NEW s PROVE <<>> \in Seq(F) /\ Len(<<>>) = 0 /\ From(<<>>, s, {})
BY DEF From

LEMMA Kept == ASSUME NEW s PROVE From(s, s, {})
BY DEF From

(* The queues of one kernel change.                                        *)
LEMMA QueuesTyped ==
  ASSUME PipeTypes, NEW k \in Kernels, NEW p \in Seq(PipeFrame), NEW q \in Seq(EventFrame),
         Len(p) <= MaxPipe, Len(q) <= MaxPending,
         pipe' = [pipe EXCEPT ![k] = p], events' = [events EXCEPT ![k] = q]
  PROVE  PipeTypes'
<1>1. pipe' \in [Kernels -> Seq(PipeFrame)] /\ events' \in [Kernels -> Seq(EventFrame)]
  BY DEF PipeTypes
<1>2. ASSUME NEW j \in Kernels PROVE Len(events'[j]) <= MaxPending /\ Len(pipe'[j]) <= MaxPipe
  BY <1>2 DEF PipeTypes
<1>. QED  BY <1>1, <1>2 DEF PipeTypes

LEMMA QueuesTimely ==
  ASSUME FramesTimely, PipeTypes, NEW k \in Kernels, NEW p, NEW q,
         pipe' = [pipe EXCEPT ![k] = p], events' = [events EXCEPT ![k] = q],
         NEW P, NEW E, From(p, pipe[k], P), From(q, events[k], E),
         \A j \in Kernels : running'[j] \in {0, running[j]},
         cell' = cell, pc' = "ready" => pc = "ready",
         \A e \in P \cup E : Timely(e, k)'
  PROVE  FramesTimely'
<1>1. ASSUME NEW j \in Kernels, NEW e, Timely(e, j) PROVE Timely(e, j)'
  BY <1>1 DEF Timely
<1>2. /\ pipe'[k] = p /\ events'[k] = q
      /\ \A j \in Kernels : j # k => pipe'[j] = pipe[j] /\ events'[j] = events[j]
  BY DEF PipeTypes
<1>3. ASSUME NEW j \in Kernels, NEW i \in DOMAIN pipe'[j] PROVE Timely(pipe[j][i], j)'
  <2>1. CASE j = k
    <3>1. pipe'[k] = p /\ i \in DOMAIN p
      BY <1>2, <1>3, <2>1
    <3>2. p[i] \in P \/ \E l \in DOMAIN pipe[k] : p[i] = pipe[k][l]
      BY <3>1 DEF From
    <3>3. Timely(p[i], k)'
      <4>1. CASE p[i] \in P
        BY <4>1
      <4>2. ASSUME NEW l \in DOMAIN pipe[k], p[i] = pipe[k][l] PROVE Timely(p[i], k)'
        BY <1>1, <4>2 DEF FramesTimely
      <4>. QED  BY <3>2, <4>1, <4>2
    <3>. QED  BY <2>1, <3>1, <3>3 DEF Timely
  <2>2. CASE j # k
    BY <1>1, <1>2, <1>3, <2>2, Zenon DEF FramesTimely
  <2>. QED  BY <2>1, <2>2
<1>4. ASSUME NEW j \in Kernels, NEW i \in DOMAIN events'[j] PROVE Timely(events[j][i], j)'
  <2>1. CASE j = k
    <3>1. events'[k] = q /\ i \in DOMAIN q
      BY <1>2, <1>4, <2>1
    <3>2. q[i] \in E \/ \E l \in DOMAIN events[k] : q[i] = events[k][l]
      BY <3>1 DEF From
    <3>3. Timely(q[i], k)'
      <4>1. CASE q[i] \in E
        BY <4>1
      <4>2. ASSUME NEW l \in DOMAIN events[k], q[i] = events[k][l] PROVE Timely(q[i], k)'
        BY <1>1, <4>2 DEF FramesTimely
      <4>. QED  BY <3>2, <4>1, <4>2
    <3>. QED  BY <2>1, <3>1, <3>3 DEF Timely
  <2>2. CASE j # k
    BY <1>1, <1>2, <1>4, <2>2, Zenon DEF FramesTimely
  <2>. QED  BY <2>1, <2>2
<1>. QED  BY <1>3, <1>4 DEF FramesTimely

-----------------------------------------------------------------------------
LEMMA InitIInv == Init => IInv
<1> SUFFICES ASSUME Init PROVE IInv
  OBVIOUS
<1> USE DEF Init
<1>1. ParentTypes /\ KernelTypes
  BY PrimeAssumption DEF ParentTypes, KernelTypes, ReaderStates
<1>2. PipeTypes
  BY PrimeAssumption DEF PipeTypes
<1>3. ArtifactTypes
  BY FS_EmptySet DEF ArtifactTypes, NoTransfer
<1>4. /\ Placed /\ CodeRunsInsideExecute /\ FramesTimely /\ FailuresKill
      /\ FailureReachesParent
  BY DEF Placed, CodeRunsInsideExecute, FramesTimely, FailuresKill, FailureReachesParent
<1>5. Planning = {} /\ Calling = {}
  BY DEF Planning, Calling
<1>6. ChildrenCounted
  BY <1>5, FS_EmptySet, PrimeAssumption DEF ChildrenCounted
<1>7. TokensCounted
  <2> DEFINE M == Max(CallTokens)
  <2>1. InFlight = 0
    BY <1>5, FS_EmptySet DEF InFlight
  <2>2. M \in Nat
    BY MaxTokens
  <2> HIDE DEF M
  <2>3. 0 * M = 0 /\ (1 + MaxChildRuns) * M \in Nat
    BY <2>2, PrimeAssumption, Products
  <2>4. 0 + 0 * M < TokenCap + (1 + MaxChildRuns) * M
    BY <2>3, PrimeAssumption
  <2>. QED  BY <2>1, <2>4 DEF TokensCounted, M
<1>8. BytesAreOfStored
  BY SumOfNone, PrimeAssumption DEF BytesAreOfStored
<1>. QED  BY <1>1, <1>2, <1>3, <1>4, <1>6, <1>7, <1>8 DEF IInv

(* The three ways of reading a frame, the two of beginning a cell and of     *)
(* closing the adapter.                                                    *)
ReadRequest(k) ==
  /\ reader[k] = "reading" /\ pipe[k] # <<>>
  /\ reader' = Set(reader, k, "request")
  /\ pipe' = Set(pipe, k, Tail(pipe[k]))
  /\ UNCHANGED <<parent, alive, running, said, events, budget, artifacts, receipts, children>>

ReadEvent(k) ==
  /\ reader[k] = "reading" /\ pipe[k] # <<>>
  /\ Head(pipe[k]).kind \in {"stdout", "done"}
  /\ Len(events[k]) < MaxPending
  /\ events' = Set(events, k, Append(events[k], Head(pipe[k])))
  /\ pipe' = Set(pipe, k, Tail(pipe[k]))
  /\ UNCHANGED <<parent, alive, running, said, reader, budget, artifacts, receipts, children>>

ReadFailure(k) ==
  /\ reader[k] = "reading"
  /\ ProtocolFailure(k)
  /\ UNCHANGED <<parent, budget, artifacts, receipts, children>>

LEMMA ReadCases ==
  ASSUME NEW k \in Kernels, Read(k)
  PROVE  ReadRequest(k) \/ ReadEvent(k) \/ ReadFailure(k)
BY DEF Read, ReadRequest, ReadEvent, ReadFailure

BeginInKernel ==
  /\ pc = "idle" /\ cell < NumCells /\ Started
  /\ cell' = cell + 1 /\ pc' = "ready"
  /\ UNCHANGED <<kernel, kernels, reader, events, budget, artifacts, receipts, children>>

BeginInNew ==
  /\ pc = "idle" /\ cell < NumCells /\ ~Started
  /\ cell' = cell + 1
  /\ StartKernel
  /\ UNCHANGED <<running, said, pipe, budget, artifacts, receipts, children>>

CloseKernel ==
  /\ pc = "idle" /\ Started /\ pc' = "closed" /\ KillKernel(kernel)
  /\ UNCHANGED <<cell, kernel, reader, events, budget, artifacts, receipts, children>>

CloseNothing ==
  /\ pc = "idle" /\ pc' = "closed"
  /\ UNCHANGED <<cell, kernel, kernels, reader, events, budget, artifacts, receipts, children>>

LEMMA CloseCases == ASSUME Close PROVE CloseKernel \/ CloseNothing
BY DEF Close, CloseKernel, CloseNothing

LEMMA BeginCases == ASSUME BeginCell PROVE BeginInKernel \/ BeginInNew
BY DEF BeginCell, BeginInKernel, BeginInNew

-----------------------------------------------------------------------------
LEMMA OutputStep == ASSUME IInv, NEW k \in Kernels, Output(k) PROVE IInv'
<1> USE DEF IInv, Output
<1> DEFINE f == [kind |-> "stdout", id |-> running[k]]
<1>w. k = kernel /\ running[k] = cell /\ pc \in {"waiting", "interrupting"} /\ running[k] \in 1 .. NumCells
  BY NoCell DEF CodeRunsInsideExecute, KernelTypes
<1>f. f \in PipeFrame
  BY <1>w DEF PipeFrame
<1>r. /\ Append(pipe[k], f) \in Seq(PipeFrame) /\ events[k] \in Seq(EventFrame)
      /\ Len(Append(pipe[k], f)) <= MaxPipe /\ Len(events[k]) <= MaxPending
      /\ From(Append(pipe[k], f), pipe[k], {f}) /\ From(events[k], events[k], {})
  <2>1. pipe[k] \in Seq(PipeFrame) /\ events[k] \in Seq(EventFrame) /\ Len(events[k]) <= MaxPending
    BY DEF PipeTypes
  <2>2. Len(pipe[k]) \in Nat /\ Len(pipe[k]) < MaxPipe
    BY <2>1
  <2> HIDE DEF f
  <2>. QED  BY <1>f, <2>1, <2>2, Appended, Kept, PrimeAssumption
<1>q. pipe' = [pipe EXCEPT ![k] = Append(pipe[k], f)] /\ events' = [events EXCEPT ![k] = events[k]]
  BY DEF PipeTypes
<1>1. ParentTypes'
  BY DEF ParentTypes
<1>2. KernelTypes'
  BY NoCell DEF KernelTypes, ReaderStates, ParentTypes, Kernels
<1>3. PipeTypes'
  BY <1>q, <1>r, QueuesTyped
<1>4. ArtifactTypes'
  BY DEF ArtifactTypes
<1>5. Placed'
  BY DEF Placed, KernelTypes, ParentTypes
<1>6. CodeRunsInsideExecute'
  BY DEF CodeRunsInsideExecute, KernelTypes, ParentTypes, Placed
<1>7. FramesTimely'
  <2>1. \A e \in {f} \cup {} : Timely(e, k)'
    BY <1>w DEF Timely, KernelTypes, ParentTypes
  <2>2. /\ \A j \in Kernels : running'[j] \in {0, running[j]}
        /\ cell' = cell /\ (pc' = "ready" => pc = "ready")
    BY DEF KernelTypes
  <2>. QED  BY <1>q, <1>r, <2>1, <2>2, QueuesTimely
<1>8. FailuresKill'
  BY DEF FailuresKill, KernelTypes, PipeTypes
<1>9. FailureReachesParent'
  BY DEF FailureReachesParent, KernelTypes, ParentTypes, Placed
<1>10. ChildrenCounted'
  <2>1. Planning' \subseteq Planning
    BY DEF Planning, KernelTypes
  <2>. QED  BY <2>1, ChildrenStand
<1>11. TokensCounted'
  <2>1. Calling' \subseteq Calling /\ (pc' = "asking" => pc = "asking")
    BY DEF Calling, KernelTypes
  <2>. QED  BY <2>1, TokensStand
<1>12. BytesAreOfStored'
  BY DEF BytesAreOfStored
<1>. QED  BY <1>1, <1>2, <1>3, <1>4, <1>5, <1>6, <1>7, <1>8, <1>9, <1>10, <1>11, <1>12

LEMMA AskHostStep == ASSUME IInv, NEW k \in Kernels, AskHost(k) PROVE IInv'
<1> USE DEF IInv, AskHost
<1> DEFINE f == [kind |-> "run", id |-> running[k]]
<1>w. k = kernel /\ running[k] = cell /\ pc \in {"waiting", "interrupting"} /\ running[k] \in 1 .. NumCells
  BY NoCell DEF CodeRunsInsideExecute, KernelTypes
<1>f. f \in PipeFrame
  BY <1>w DEF PipeFrame
<1>r. /\ Append(pipe[k], f) \in Seq(PipeFrame) /\ events[k] \in Seq(EventFrame)
      /\ Len(Append(pipe[k], f)) <= MaxPipe /\ Len(events[k]) <= MaxPending
      /\ From(Append(pipe[k], f), pipe[k], {f}) /\ From(events[k], events[k], {})
  <2>1. pipe[k] \in Seq(PipeFrame) /\ events[k] \in Seq(EventFrame) /\ Len(events[k]) <= MaxPending
    BY DEF PipeTypes
  <2>2. Len(pipe[k]) \in Nat /\ Len(pipe[k]) < MaxPipe
    BY <2>1
  <2> HIDE DEF f
  <2>. QED  BY <1>f, <2>1, <2>2, Appended, Kept, PrimeAssumption
<1>q. pipe' = [pipe EXCEPT ![k] = Append(pipe[k], f)] /\ events' = [events EXCEPT ![k] = events[k]]
  BY DEF PipeTypes
<1>1. ParentTypes'
  BY DEF ParentTypes
<1>2. KernelTypes'
  BY NoCell DEF KernelTypes, ReaderStates, ParentTypes, Kernels
<1>3. PipeTypes'
  BY <1>q, <1>r, QueuesTyped
<1>4. ArtifactTypes'
  BY DEF ArtifactTypes
<1>5. Placed'
  BY DEF Placed, KernelTypes, ParentTypes
<1>6. CodeRunsInsideExecute'
  BY DEF CodeRunsInsideExecute, KernelTypes, ParentTypes, Placed
<1>7. FramesTimely'
  <2>1. \A e \in {f} \cup {} : Timely(e, k)'
    BY <1>w DEF Timely, KernelTypes, ParentTypes
  <2>2. /\ \A j \in Kernels : running'[j] \in {0, running[j]}
        /\ cell' = cell /\ (pc' = "ready" => pc = "ready")
    BY DEF KernelTypes
  <2>. QED  BY <1>q, <1>r, <2>1, <2>2, QueuesTimely
<1>8. FailuresKill'
  BY DEF FailuresKill, KernelTypes, PipeTypes
<1>9. FailureReachesParent'
  BY DEF FailureReachesParent, KernelTypes, ParentTypes, Placed
<1>10. ChildrenCounted'
  <2>1. Planning' \subseteq Planning
    BY DEF Planning, KernelTypes
  <2>. QED  BY <2>1, ChildrenStand
<1>11. TokensCounted'
  <2>1. Calling' \subseteq Calling /\ (pc' = "asking" => pc = "asking")
    BY DEF Calling, KernelTypes
  <2>. QED  BY <2>1, TokensStand
<1>12. BytesAreOfStored'
  BY DEF BytesAreOfStored
<1>. QED  BY <1>1, <1>2, <1>3, <1>4, <1>5, <1>6, <1>7, <1>8, <1>9, <1>10, <1>11, <1>12

LEMMA FinishCellStep == ASSUME IInv, NEW k \in Kernels, FinishCell(k) PROVE IInv'
<1> USE DEF IInv, FinishCell
<1> DEFINE f == [kind |-> "done", id |-> running[k]]
<1>w. k = kernel /\ running[k] = cell /\ pc \in {"waiting", "interrupting"} /\ running[k] \in 1 .. NumCells
  BY NoCell DEF CodeRunsInsideExecute, KernelTypes
<1>f. f \in PipeFrame
  BY <1>w DEF PipeFrame
<1>r. /\ Append(pipe[k], f) \in Seq(PipeFrame) /\ events[k] \in Seq(EventFrame)
      /\ Len(Append(pipe[k], f)) <= MaxPipe /\ Len(events[k]) <= MaxPending
      /\ From(Append(pipe[k], f), pipe[k], {f}) /\ From(events[k], events[k], {})
  <2>1. pipe[k] \in Seq(PipeFrame) /\ events[k] \in Seq(EventFrame) /\ Len(events[k]) <= MaxPending
    BY DEF PipeTypes
  <2>2. Len(pipe[k]) \in Nat /\ Len(pipe[k]) < MaxPipe
    BY <2>1
  <2> HIDE DEF f
  <2>. QED  BY <1>f, <2>1, <2>2, Appended, Kept, PrimeAssumption
<1>q. pipe' = [pipe EXCEPT ![k] = Append(pipe[k], f)] /\ events' = [events EXCEPT ![k] = events[k]]
  BY DEF PipeTypes
<1>1. ParentTypes'
  BY DEF ParentTypes
<1>2. KernelTypes'
  BY NoCell DEF KernelTypes, ReaderStates, ParentTypes, Kernels
<1>3. PipeTypes'
  BY <1>q, <1>r, QueuesTyped
<1>4. ArtifactTypes'
  BY DEF ArtifactTypes
<1>5. Placed'
  BY DEF Placed, KernelTypes, ParentTypes
<1>6. CodeRunsInsideExecute'
  BY DEF CodeRunsInsideExecute, KernelTypes, ParentTypes, Placed
<1>7. FramesTimely'
  <2>1. \A e \in {f} \cup {} : Timely(e, k)'
    BY <1>w DEF Timely, KernelTypes, ParentTypes
  <2>2. /\ \A j \in Kernels : running'[j] \in {0, running[j]}
        /\ cell' = cell /\ (pc' = "ready" => pc = "ready")
    BY DEF KernelTypes
  <2>. QED  BY <1>q, <1>r, <2>1, <2>2, QueuesTimely
<1>8. FailuresKill'
  BY DEF FailuresKill, KernelTypes, PipeTypes
<1>9. FailureReachesParent'
  BY DEF FailureReachesParent, KernelTypes, ParentTypes, Placed
<1>10. ChildrenCounted'
  <2>1. Planning' \subseteq Planning
    BY DEF Planning, KernelTypes
  <2>. QED  BY <2>1, ChildrenStand
<1>11. TokensCounted'
  <2>1. Calling' \subseteq Calling /\ (pc' = "asking" => pc = "asking")
    BY DEF Calling, KernelTypes
  <2>. QED  BY <2>1, TokensStand
<1>12. BytesAreOfStored'
  BY DEF BytesAreOfStored
<1>. QED  BY <1>1, <1>2, <1>3, <1>4, <1>5, <1>6, <1>7, <1>8, <1>9, <1>10, <1>11, <1>12

LEMMA CorruptStep == ASSUME IInv, NEW k \in Kernels, Corrupt(k) PROVE IInv'
<1> USE DEF IInv, Corrupt
<1> DEFINE f == [kind |-> "corrupt", id |-> 0]
<1>w. k = kernel /\ running[k] = cell /\ pc \in {"waiting", "interrupting"} /\ running[k] \in 1 .. NumCells
  BY NoCell DEF CodeRunsInsideExecute, KernelTypes
<1>f. f \in PipeFrame
  BY <1>w DEF PipeFrame
<1>r. /\ Append(pipe[k], f) \in Seq(PipeFrame) /\ events[k] \in Seq(EventFrame)
      /\ Len(Append(pipe[k], f)) <= MaxPipe /\ Len(events[k]) <= MaxPending
      /\ From(Append(pipe[k], f), pipe[k], {f}) /\ From(events[k], events[k], {})
  <2>1. pipe[k] \in Seq(PipeFrame) /\ events[k] \in Seq(EventFrame) /\ Len(events[k]) <= MaxPending
    BY DEF PipeTypes
  <2>2. Len(pipe[k]) \in Nat /\ Len(pipe[k]) < MaxPipe
    BY <2>1
  <2> HIDE DEF f
  <2>. QED  BY <1>f, <2>1, <2>2, Appended, Kept, PrimeAssumption
<1>q. pipe' = [pipe EXCEPT ![k] = Append(pipe[k], f)] /\ events' = [events EXCEPT ![k] = events[k]]
  BY DEF PipeTypes
<1>1. ParentTypes'
  BY DEF ParentTypes
<1>2. KernelTypes'
  BY NoCell DEF KernelTypes, ReaderStates, ParentTypes, Kernels
<1>3. PipeTypes'
  BY <1>q, <1>r, QueuesTyped
<1>4. ArtifactTypes'
  BY DEF ArtifactTypes
<1>5. Placed'
  BY DEF Placed, KernelTypes, ParentTypes
<1>6. CodeRunsInsideExecute'
  BY DEF CodeRunsInsideExecute, KernelTypes, ParentTypes, Placed
<1>7. FramesTimely'
  <2>1. \A e \in {f} \cup {} : Timely(e, k)'
    BY <1>w DEF Timely, KernelTypes, ParentTypes
  <2>2. /\ \A j \in Kernels : running'[j] \in {0, running[j]}
        /\ cell' = cell /\ (pc' = "ready" => pc = "ready")
    BY DEF KernelTypes
  <2>. QED  BY <1>q, <1>r, <2>1, <2>2, QueuesTimely
<1>8. FailuresKill'
  BY DEF FailuresKill, KernelTypes, PipeTypes
<1>9. FailureReachesParent'
  BY DEF FailureReachesParent, KernelTypes, ParentTypes, Placed
<1>10. ChildrenCounted'
  <2>1. Planning' \subseteq Planning
    BY DEF Planning, KernelTypes
  <2>. QED  BY <2>1, ChildrenStand
<1>11. TokensCounted'
  <2>1. Calling' \subseteq Calling /\ (pc' = "asking" => pc = "asking")
    BY DEF Calling, KernelTypes
  <2>. QED  BY <2>1, TokensStand
<1>12. BytesAreOfStored'
  BY DEF BytesAreOfStored
<1>. QED  BY <1>1, <1>2, <1>3, <1>4, <1>5, <1>6, <1>7, <1>8, <1>9, <1>10, <1>11, <1>12

LEMMA ExitStep == ASSUME IInv, NEW k \in Kernels, Exit(k) PROVE IInv'
<1> USE DEF IInv, Exit
<1>1. ParentTypes'
  BY DEF ParentTypes
<1>2. KernelTypes'
  BY NoCell DEF KernelTypes, ReaderStates, ParentTypes, Kernels
<1>3. PipeTypes'
  BY DEF PipeTypes, PipeFrame, EventFrame
<1>4. ArtifactTypes'
  BY DEF ArtifactTypes
<1>5. Placed'
  BY DEF Placed, KernelTypes, ParentTypes
<1>6. CodeRunsInsideExecute'
  BY DEF CodeRunsInsideExecute, KernelTypes, ParentTypes, Placed
<1>7. FramesTimely'
  BY DEF FramesTimely, Timely
<1>8. FailuresKill'
  BY DEF FailuresKill, KernelTypes, PipeTypes
<1>9. FailureReachesParent'
  BY DEF FailureReachesParent, KernelTypes, ParentTypes, Placed
<1>10. ChildrenCounted'
  <2>1. Planning' \subseteq Planning
    BY DEF Planning, KernelTypes
  <2>. QED  BY <2>1, ChildrenStand
<1>11. TokensCounted'
  <2>1. Calling' \subseteq Calling /\ (pc' = "asking" => pc = "asking")
    BY DEF Calling, KernelTypes
  <2>. QED  BY <2>1, TokensStand
<1>12. BytesAreOfStored'
  BY DEF BytesAreOfStored
<1>. QED  BY <1>1, <1>2, <1>3, <1>4, <1>5, <1>6, <1>7, <1>8, <1>9, <1>10, <1>11, <1>12

LEMMA ReadRequestStep == ASSUME IInv, NEW k \in Kernels, ReadRequest(k) PROVE IInv'
<1> USE DEF IInv, ReadRequest
<1>p. /\ pipe[k] \in Seq(PipeFrame) /\ events[k] \in Seq(EventFrame)
      /\ Len(events[k]) <= MaxPending /\ Len(pipe[k]) <= MaxPipe
  BY DEF PipeTypes
<1>h. /\ Tail(pipe[k]) \in Seq(PipeFrame) /\ Len(Tail(pipe[k])) <= MaxPipe
      /\ From(Tail(pipe[k]), pipe[k], {}) /\ Head(pipe[k]) \in PipeFrame
      /\ 1 \in DOMAIN pipe[k] /\ Head(pipe[k]) = pipe[k][1]
  BY <1>p, Shortened, PrimeAssumption
<1>r. /\ Tail(pipe[k]) \in Seq(PipeFrame) /\ events[k] \in Seq(EventFrame)
      /\ Len(Tail(pipe[k])) <= MaxPipe /\ Len(events[k]) <= MaxPending
      /\ From(Tail(pipe[k]), pipe[k], {}) /\ From(events[k], events[k], {})
  BY <1>p, <1>h, Kept
<1>q. pipe' = [pipe EXCEPT ![k] = Tail(pipe[k])] /\ events' = [events EXCEPT ![k] = events[k]]
  BY DEF PipeTypes
<1>1. ParentTypes'
  BY DEF ParentTypes
<1>2. KernelTypes'
  BY NoCell DEF KernelTypes, ReaderStates, ParentTypes, Kernels
<1>3. PipeTypes'
  BY <1>q, <1>r, QueuesTyped
<1>4. ArtifactTypes'
  BY DEF ArtifactTypes
<1>5. Placed'
  BY DEF Placed, KernelTypes, ParentTypes
<1>6. CodeRunsInsideExecute'
  BY DEF CodeRunsInsideExecute, KernelTypes, ParentTypes, Placed
<1>7. FramesTimely'
  <2>1. \A e \in {} \cup {} : Timely(e, k)'
    OBVIOUS
  <2>2. /\ \A j \in Kernels : running'[j] \in {0, running[j]}
        /\ cell' = cell /\ (pc' = "ready" => pc = "ready")
    BY DEF KernelTypes
  <2>. QED  BY <1>q, <1>r, <2>1, <2>2, QueuesTimely
<1>8. FailuresKill'
  BY DEF FailuresKill, KernelTypes, PipeTypes
<1>9. FailureReachesParent'
  BY DEF FailureReachesParent, KernelTypes, ParentTypes, Placed
<1>10. ChildrenCounted'
  <2>1. Planning' \subseteq Planning
    BY DEF Planning, KernelTypes
  <2>. QED  BY <2>1, ChildrenStand
<1>11. TokensCounted'
  <2>1. Calling' \subseteq Calling /\ (pc' = "asking" => pc = "asking")
    BY DEF Calling, KernelTypes
  <2>. QED  BY <2>1, TokensStand
<1>12. BytesAreOfStored'
  BY DEF BytesAreOfStored
<1>. QED  BY <1>1, <1>2, <1>3, <1>4, <1>5, <1>6, <1>7, <1>8, <1>9, <1>10, <1>11, <1>12

LEMMA ReadEventStep == ASSUME IInv, NEW k \in Kernels, ReadEvent(k) PROVE IInv'
<1> USE DEF IInv, ReadEvent
<1>p. /\ pipe[k] \in Seq(PipeFrame) /\ events[k] \in Seq(EventFrame)
      /\ Len(events[k]) <= MaxPending /\ Len(pipe[k]) <= MaxPipe
  BY DEF PipeTypes
<1>h. /\ Tail(pipe[k]) \in Seq(PipeFrame) /\ Len(Tail(pipe[k])) <= MaxPipe
      /\ From(Tail(pipe[k]), pipe[k], {}) /\ Head(pipe[k]) \in PipeFrame
      /\ 1 \in DOMAIN pipe[k] /\ Head(pipe[k]) = pipe[k][1]
  BY <1>p, Shortened, PrimeAssumption
<1> DEFINE f == Head(pipe[k])
<1>f. f \in EventFrame /\ f.kind # "fatal"
  BY <1>h DEF PipeFrame, EventFrame
<1>w. Timely(f, k)
  BY <1>h DEF FramesTimely
<1>r. /\ Tail(pipe[k]) \in Seq(PipeFrame) /\ Append(events[k], f) \in Seq(EventFrame)
      /\ Len(Tail(pipe[k])) <= MaxPipe /\ Len(Append(events[k], f)) <= MaxPending
      /\ From(Tail(pipe[k]), pipe[k], {}) /\ From(Append(events[k], f), events[k], {f})
  <2>1. Len(events[k]) \in Nat /\ Len(events[k]) < MaxPending /\ MaxPending \in Nat
    BY <1>p, PrimeAssumption
  <2> HIDE DEF f
  <2>. QED  BY <1>p, <1>h, <1>f, <2>1, Appended
<1>q. pipe' = [pipe EXCEPT ![k] = Tail(pipe[k])] /\ events' = [events EXCEPT ![k] = Append(events[k], f)]
  BY DEF PipeTypes
<1>1. ParentTypes'
  BY DEF ParentTypes
<1>2. KernelTypes'
  BY NoCell DEF KernelTypes, ReaderStates, ParentTypes, Kernels
<1>3. PipeTypes'
  BY <1>q, <1>r, QueuesTyped
<1>4. ArtifactTypes'
  BY DEF ArtifactTypes
<1>5. Placed'
  BY DEF Placed, KernelTypes, ParentTypes
<1>6. CodeRunsInsideExecute'
  BY DEF CodeRunsInsideExecute, KernelTypes, ParentTypes, Placed
<1>7. FramesTimely'
  <2>1. \A e \in {} \cup {f} : Timely(e, k)'
    BY <1>w DEF Timely
  <2>2. /\ \A j \in Kernels : running'[j] \in {0, running[j]}
        /\ cell' = cell /\ (pc' = "ready" => pc = "ready")
    BY DEF KernelTypes
  <2>. QED  BY <1>q, <1>r, <2>1, <2>2, QueuesTimely
<1>8. FailuresKill'
  <2>1. ASSUME NEW j \in Kernels, NEW i \in DOMAIN events'[j], events'[j][i].kind = "fatal"
        PROVE  \E l \in DOMAIN events[j] : events[j][l].kind = "fatal"
    <3>1. CASE j = k
      <4>1. events'[k] = Append(events[k], f)
        BY <1>q DEF PipeTypes
      <4> HIDE DEF f
      <4>2. From(events'[k], events[k], {f}) /\ i \in DOMAIN events'[k]
        BY <1>r, <2>1, <3>1, <4>1
      <4>. QED  BY <1>f, <2>1, <3>1, <4>2 DEF From
    <3>2. CASE j # k
      BY <1>q, <2>1, <3>2 DEF PipeTypes
    <3>. QED  BY <3>1, <3>2
  <2>. QED  BY <2>1 DEF FailuresKill
<1>9. FailureReachesParent'
  BY SMTT(30) DEF FailureReachesParent, KernelTypes, ParentTypes, Placed
<1>10. ChildrenCounted'
  <2>1. Planning' \subseteq Planning
    BY DEF Planning, KernelTypes
  <2>. QED  BY <2>1, ChildrenStand
<1>11. TokensCounted'
  <2>1. Calling' \subseteq Calling /\ (pc' = "asking" => pc = "asking")
    BY DEF Calling, KernelTypes
  <2>. QED  BY <2>1, TokensStand
<1>12. BytesAreOfStored'
  BY DEF BytesAreOfStored
<1>. QED  BY <1>1, <1>2, <1>3, <1>4, <1>5, <1>6, <1>7, <1>8, <1>9, <1>10, <1>11, <1>12

LEMMA ReadFailureStep == ASSUME IInv, NEW k \in Kernels, ReadFailure(k) PROVE IInv'
<1> USE DEF IInv, ReadFailure, ProtocolFailure
<1>p. /\ pipe[k] \in Seq(PipeFrame) /\ events[k] \in Seq(EventFrame)
      /\ Len(events[k]) <= MaxPending /\ Len(pipe[k]) <= MaxPipe
  BY DEF PipeTypes
<1> DEFINE f == [kind |-> "fatal", id |-> 0]
           s == IF Len(events[k]) < MaxPending THEN events[k] ELSE Tail(events[k])
<1>f. f \in EventFrame
  BY DEF EventFrame
<1>s. /\ s \in Seq(EventFrame) /\ Len(s) \in Nat /\ Len(s) < MaxPending
      /\ From(s, events[k], {})
  <2>1. MaxPending \in Nat \ {0} /\ Len(events[k]) \in Nat
    BY <1>p, PrimeAssumption
  <2>2. CASE Len(events[k]) < MaxPending
    BY <1>p, <2>1, <2>2, Kept
  <2>3. CASE ~(Len(events[k]) < MaxPending)
    <3>1. events[k] # <<>> /\ Len(events[k]) = MaxPending
      BY <1>p, <2>1, <2>3
    <3>2. Tail(events[k]) \in Seq(EventFrame) /\ Len(Tail(events[k])) = MaxPending - 1
      BY <1>p, <3>1, Shortened
    <3>3. From(Tail(events[k]), events[k], {})
      BY <1>p, <3>1, Shortened
    <3>. QED  BY <2>1, <2>3, <3>2, <3>3
  <2>. QED  BY <2>2, <2>3
<1>a. /\ WithFatal(events[k]) \in Seq(EventFrame) /\ Len(WithFatal(events[k])) <= MaxPending
      /\ From(WithFatal(events[k]), events[k], {f})
      /\ \E i \in DOMAIN WithFatal(events[k]) : WithFatal(events[k])[i] = f
  <2>1. WithFatal(events[k]) = Append(s, f)
    BY DEF WithFatal
  <2> HIDE DEF s, f
  <2>2. /\ Append(s, f) \in Seq(EventFrame) /\ Len(Append(s, f)) = Len(s) + 1
        /\ From(Append(s, f), s, {f})
        /\ \E i \in DOMAIN Append(s, f) : Append(s, f)[i] = f
    BY <1>f, <1>s, Appended
  <2>3. From(Append(s, f), events[k], {f})
    BY <1>s, <2>2 DEF From
  <2>. QED  BY <1>s, <2>1, <2>2, <2>3, PrimeAssumption
<1>r. /\ <<>> \in Seq(PipeFrame) /\ WithFatal(events[k]) \in Seq(EventFrame)
      /\ Len(<<>>) <= MaxPipe /\ Len(WithFatal(events[k])) <= MaxPending
      /\ From(<<>>, pipe[k], {}) /\ From(WithFatal(events[k]), events[k], {f})
  BY <1>a, Emptied, PrimeAssumption
<1>w. Timely(f, k)'
  <2>1. pc = "ready" => cell \in Nat \ {0}
    BY DEF Placed, Kernels, ParentTypes
  <2>. QED  BY <2>1 DEF Timely, ParentTypes
<1>q. pipe' = [pipe EXCEPT ![k] = <<>>] /\ events' = [events EXCEPT ![k] = WithFatal(events[k])]
  BY DEF PipeTypes
<1>1. ParentTypes'
  BY DEF ParentTypes
<1>2. KernelTypes'
  BY NoCell DEF KernelTypes, ReaderStates, ParentTypes, Kernels
<1>3. PipeTypes'
  BY <1>q, <1>r, QueuesTyped
<1>4. ArtifactTypes'
  BY DEF ArtifactTypes
<1>5. Placed'
  BY DEF Placed, KernelTypes, ParentTypes
<1>6. CodeRunsInsideExecute'
  BY DEF CodeRunsInsideExecute, KernelTypes, ParentTypes, Placed
<1>7. FramesTimely'
  <2>1. \A e \in {} \cup {f} : Timely(e, k)'
    BY <1>w
  <2>2. /\ \A j \in Kernels : running'[j] \in {0, running[j]}
        /\ cell' = cell /\ (pc' = "ready" => pc = "ready")
    BY DEF KernelTypes
  <2>. QED  BY <1>q, <1>r, <2>1, <2>2, QueuesTimely
<1>8. FailuresKill'
  <2>1. ASSUME NEW j \in Kernels, NEW i \in DOMAIN events'[j], events'[j][i].kind = "fatal"
        PROVE  alive'[j] = "killed"
    <3>1. CASE j = k
      BY <3>1 DEF KernelTypes
    <3>2. CASE j # k
      BY <1>q, <2>1, <3>2 DEF PipeTypes, FailuresKill, KernelTypes
    <3>. QED  BY <3>1, <3>2
  <2>. QED  BY <2>1 DEF FailuresKill
<1>9. FailureReachesParent'
  <2>1. CASE k = kernel
    <3>1. events'[kernel] = WithFatal(events[k])
      BY <1>q, <2>1 DEF PipeTypes
    <3>2. \E i \in DOMAIN WithFatal(events[k]) : WithFatal(events[k])[i].kind = "fatal"
      BY <1>a
    <3>. QED  BY <2>1, <3>1, <3>2 DEF FailureReachesParent
  <2>2. CASE k # kernel
    <3>1. pc = "waiting" => kernel \in Kernels /\ events'[kernel] = events[kernel] /\ alive'[kernel] = alive[kernel]
      BY <1>q, <2>2 DEF Placed, PipeTypes, KernelTypes
    <3>. QED  BY <3>1 DEF FailureReachesParent
  <2>. QED  BY <2>1, <2>2
<1>10. ChildrenCounted'
  <2>1. Planning' \subseteq Planning
    BY DEF Planning, KernelTypes
  <2>. QED  BY <2>1, ChildrenStand
<1>11. TokensCounted'
  <2>1. Calling' \subseteq Calling /\ (pc' = "asking" => pc = "asking")
    BY DEF Calling, KernelTypes
  <2>. QED  BY <2>1, TokensStand
<1>12. BytesAreOfStored'
  BY DEF BytesAreOfStored
<1>. QED  BY <1>1, <1>2, <1>3, <1>4, <1>5, <1>6, <1>7, <1>8, <1>9, <1>10, <1>11, <1>12

LEMMA ReadEOFStep == ASSUME IInv, NEW k \in Kernels, ReadEOF(k) PROVE IInv'
<1> USE DEF IInv, ReadEOF
<1>1. ParentTypes'
  BY DEF ParentTypes
<1>2. KernelTypes'
  BY NoCell DEF KernelTypes, ReaderStates, ParentTypes, Kernels
<1>3. PipeTypes'
  BY DEF PipeTypes, PipeFrame, EventFrame
<1>4. ArtifactTypes'
  BY DEF ArtifactTypes
<1>5. Placed'
  BY DEF Placed, KernelTypes, ParentTypes
<1>6. CodeRunsInsideExecute'
  BY DEF CodeRunsInsideExecute, KernelTypes, ParentTypes, Placed
<1>7. FramesTimely'
  BY DEF FramesTimely, Timely
<1>8. FailuresKill'
  BY DEF FailuresKill, KernelTypes, PipeTypes
<1>9. FailureReachesParent'
  BY DEF FailureReachesParent, KernelTypes, ParentTypes, Placed
<1>10. ChildrenCounted'
  <2>1. Planning' \subseteq Planning
    BY DEF Planning, KernelTypes
  <2>. QED  BY <2>1, ChildrenStand
<1>11. TokensCounted'
  <2>1. Calling' \subseteq Calling /\ (pc' = "asking" => pc = "asking")
    BY DEF Calling, KernelTypes
  <2>. QED  BY <2>1, TokensStand
<1>12. BytesAreOfStored'
  BY DEF BytesAreOfStored
<1>. QED  BY <1>1, <1>2, <1>3, <1>4, <1>5, <1>6, <1>7, <1>8, <1>9, <1>10, <1>11, <1>12

LEMMA ReserveStep == ASSUME IInv, NEW k \in Kernels, Reserve(k) PROVE IInv'
<1> USE DEF IInv, Reserve
<1>1. ParentTypes'
  BY DEF ParentTypes
<1>2. KernelTypes'
  BY NoCell DEF KernelTypes, ReaderStates, ParentTypes, Kernels
<1>3. PipeTypes'
  BY DEF PipeTypes, PipeFrame, EventFrame
<1>4. ArtifactTypes'
  BY DEF ArtifactTypes
<1>5. Placed'
  BY DEF Placed, KernelTypes, ParentTypes
<1>6. CodeRunsInsideExecute'
  BY DEF CodeRunsInsideExecute, KernelTypes, ParentTypes, Placed
<1>7. FramesTimely'
  BY DEF FramesTimely, Timely
<1>8. FailuresKill'
  BY DEF FailuresKill, KernelTypes, PipeTypes
<1>9. FailureReachesParent'
  BY DEF FailureReachesParent, KernelTypes, ParentTypes, Placed
<1>10. ChildrenCounted'
  <2>1. CASE UNCHANGED childRuns /\ reader' = [reader EXCEPT ![k] = "reply"]
    <3>1. Planning' \subseteq Planning
      BY <2>1 DEF Planning, KernelTypes
    <3>. QED  BY <2>1, <3>1, ChildrenStand
  <2>2. CASE childRuns < MaxChildRuns /\ reader' = [reader EXCEPT ![k] = "plan"] /\ childRuns' = childRuns + 1
    <3>1. Planning' = Planning \cup {k} /\ k \notin Planning /\ Planning \subseteq Kernels
      BY <2>2 DEF Planning, KernelTypes
    <3>2. IsFiniteSet(Planning) /\ Cardinality(Planning) \in Nat
      BY <3>1, KernelsFinite
    <3>3. Cardinality(Planning') = Cardinality(Planning) + 1
      BY <3>1, <3>2, FS_AddElement
    <3>. QED  BY <2>2, <3>2, <3>3, PrimeAssumption DEF ChildrenCounted
  <2>. QED  BY <2>1, <2>2, PrimeAssumption DEF ChildrenCounted
<1>11. TokensCounted'
  <2>1. Calling' \subseteq Calling /\ (pc' = "asking" => pc = "asking")
    BY DEF Calling, KernelTypes
  <2>. QED  BY <2>1, TokensStand
<1>12. BytesAreOfStored'
  BY DEF BytesAreOfStored
<1>. QED  BY <1>1, <1>2, <1>3, <1>4, <1>5, <1>6, <1>7, <1>8, <1>9, <1>10, <1>11, <1>12

LEMMA PlanStep == ASSUME IInv, NEW k \in Kernels, Plan(k) PROVE IInv'
<1> USE DEF IInv, Plan
<1>1. ParentTypes'
  BY DEF ParentTypes
<1>2. KernelTypes'
  BY NoCell DEF KernelTypes, ReaderStates, ParentTypes, Kernels
<1>3. PipeTypes'
  BY DEF PipeTypes, PipeFrame, EventFrame
<1>4. ArtifactTypes'
  BY DEF ArtifactTypes
<1>5. Placed'
  BY DEF Placed, KernelTypes, ParentTypes
<1>6. CodeRunsInsideExecute'
  BY DEF CodeRunsInsideExecute, KernelTypes, ParentTypes, Placed
<1>7. FramesTimely'
  BY DEF FramesTimely, Timely
<1>8. FailuresKill'
  BY DEF FailuresKill, KernelTypes, PipeTypes
<1>9. FailureReachesParent'
  BY DEF FailureReachesParent, KernelTypes, ParentTypes, Placed
<1>10. ChildrenCounted'
  <2>1. Planning' \subseteq Planning
    BY DEF Planning, KernelTypes
  <2>. QED  BY <2>1, ChildrenStand
<1>11. TokensCounted'
  <2>a. CASE MayCall
    <3>1. tokens < TokenCap /\ UNCHANGED <<tokens, receipts>>
      BY <2>a DEF MayCall
    <3>2. Cardinality(Calling') \in Nat /\ Cardinality(Calling') <= MaxChildRuns
      <4>1. Calling' \subseteq Planning
        BY <2>a DEF Calling, Planning, KernelTypes
      <4>. QED  BY <4>1, CallsBounded
    <3>3. InFlight' \in Nat /\ InFlight' <= 1 + MaxChildRuns
      BY <3>2, PrimeAssumption DEF InFlight
    <3>. QED  BY <3>1, <3>3, TokensReserved
  <2>b. CASE ~MayCall
    <3>1. Calling' \subseteq Calling /\ (pc' = "asking" => pc = "asking")
      BY <2>b DEF Calling, KernelTypes
    <3>. QED  BY <3>1, TokensStand
  <2>. QED  BY <2>a, <2>b
<1>12. BytesAreOfStored'
  BY DEF BytesAreOfStored
<1>. QED  BY <1>1, <1>2, <1>3, <1>4, <1>5, <1>6, <1>7, <1>8, <1>9, <1>10, <1>11, <1>12

LEMMA ReceivePlanStep == ASSUME IInv, NEW k \in Kernels, ReceivePlan(k) PROVE IInv'
<1> USE DEF IInv, ReceivePlan, Record
<1>1. ParentTypes'
  BY DEF ParentTypes
<1>2. KernelTypes'
  BY NoCell DEF KernelTypes, ReaderStates, ParentTypes, Kernels
<1>3. PipeTypes'
  BY DEF PipeTypes, PipeFrame, EventFrame
<1>4. ArtifactTypes'
  BY DEF ArtifactTypes
<1>5. Placed'
  BY DEF Placed, KernelTypes, ParentTypes
<1>6. CodeRunsInsideExecute'
  BY DEF CodeRunsInsideExecute, KernelTypes, ParentTypes, Placed
<1>7. FramesTimely'
  BY DEF FramesTimely, Timely
<1>8. FailuresKill'
  BY DEF FailuresKill, KernelTypes, PipeTypes
<1>9. FailureReachesParent'
  BY DEF FailureReachesParent, KernelTypes, ParentTypes, Placed
<1>10. ChildrenCounted'
  <2>1. Planning' \subseteq Planning
    BY DEF Planning, KernelTypes
  <2>. QED  BY <2>1, ChildrenStand
<1>11. TokensCounted'
  <2>1. Calling' = Calling \ {k} /\ k \in Calling
    BY DEF Calling, KernelTypes
  <2>2. pc' = pc
    OBVIOUS
  <2>3. PICK n \in CallTokens : tokens' = tokens + n /\ receipts' = receipts + n
    OBVIOUS
  <2>4. Calling \subseteq Kernels
    BY DEF Calling
  <2>5. IsFiniteSet(Calling) /\ Cardinality(Calling) \in Nat
    BY <2>4, KernelsFinite
  <2>6. Cardinality(Calling') = Cardinality(Calling) - 1 /\ Cardinality(Calling') \in Nat
    BY <2>1, <2>4, <2>5, FS_RemoveElement, KernelsFinite
  <2>7. InFlight \in Nat /\ InFlight' \in Nat /\ InFlight' + 1 = InFlight
    BY <2>2, <2>5, <2>6 DEF InFlight
  <2>. QED  BY <2>3, <2>7, TokensPaid
<1>12. BytesAreOfStored'
  BY DEF BytesAreOfStored
<1>. QED  BY <1>1, <1>2, <1>3, <1>4, <1>5, <1>6, <1>7, <1>8, <1>9, <1>10, <1>11, <1>12

LEMMA ModelFailsStep == ASSUME IInv, NEW k \in Kernels, ModelFails(k) PROVE IInv'
<1> USE DEF IInv, ModelFails
<1>1. ParentTypes'
  BY DEF ParentTypes
<1>2. KernelTypes'
  BY NoCell DEF KernelTypes, ReaderStates, ParentTypes, Kernels
<1>3. PipeTypes'
  BY DEF PipeTypes, PipeFrame, EventFrame
<1>4. ArtifactTypes'
  BY DEF ArtifactTypes
<1>5. Placed'
  BY DEF Placed, KernelTypes, ParentTypes
<1>6. CodeRunsInsideExecute'
  BY DEF CodeRunsInsideExecute, KernelTypes, ParentTypes, Placed
<1>7. FramesTimely'
  BY DEF FramesTimely, Timely
<1>8. FailuresKill'
  BY DEF FailuresKill, KernelTypes, PipeTypes
<1>9. FailureReachesParent'
  BY DEF FailureReachesParent, KernelTypes, ParentTypes, Placed
<1>10. ChildrenCounted'
  <2>1. Planning' \subseteq Planning
    BY DEF Planning, KernelTypes
  <2>. QED  BY <2>1, ChildrenStand
<1>11. TokensCounted'
  <2>1. Calling' \subseteq Calling /\ (pc' = "asking" => pc = "asking")
    BY DEF Calling, KernelTypes
  <2>. QED  BY <2>1, TokensStand
<1>12. BytesAreOfStored'
  BY DEF BytesAreOfStored
<1>. QED  BY <1>1, <1>2, <1>3, <1>4, <1>5, <1>6, <1>7, <1>8, <1>9, <1>10, <1>11, <1>12

LEMMA StartChildStep == ASSUME IInv, NEW k \in Kernels, StartChild(k) PROVE IInv'
<1> USE DEF IInv, StartChild
<1>1. ParentTypes'
  BY DEF ParentTypes
<1>2. KernelTypes'
  BY NoCell DEF KernelTypes, ReaderStates, ParentTypes, Kernels
<1>3. PipeTypes'
  BY DEF PipeTypes, PipeFrame, EventFrame
<1>4. ArtifactTypes'
  BY DEF ArtifactTypes
<1>5. Placed'
  BY DEF Placed, KernelTypes, ParentTypes
<1>6. CodeRunsInsideExecute'
  BY DEF CodeRunsInsideExecute, KernelTypes, ParentTypes, Placed
<1>7. FramesTimely'
  BY DEF FramesTimely, Timely
<1>8. FailuresKill'
  BY DEF FailuresKill, KernelTypes, PipeTypes
<1>9. FailureReachesParent'
  BY DEF FailureReachesParent, KernelTypes, ParentTypes, Placed
<1>10. ChildrenCounted'
  <2>1. /\ Planning' = Planning \ {k} /\ k \in Planning /\ Planning \subseteq Kernels
    BY DEF Planning, KernelTypes
  <2>2. IsFiniteSet(Planning) /\ Cardinality(Planning) \in Nat
    BY <2>1, KernelsFinite
  <2>3. Cardinality(Planning') = Cardinality(Planning) - 1
    BY <2>1, <2>2, FS_RemoveElement
  <2>. QED  BY <2>2, <2>3 DEF ChildrenCounted
<1>11. TokensCounted'
  <2>1. Calling' \subseteq Calling /\ (pc' = "asking" => pc = "asking")
    BY DEF Calling, KernelTypes
  <2>. QED  BY <2>1, TokensStand
<1>12. BytesAreOfStored'
  BY DEF BytesAreOfStored
<1>. QED  BY <1>1, <1>2, <1>3, <1>4, <1>5, <1>6, <1>7, <1>8, <1>9, <1>10, <1>11, <1>12

LEMMA EndChildStep == ASSUME IInv, NEW k \in Kernels, EndChild(k) PROVE IInv'
<1> USE DEF IInv, EndChild
<1>1. ParentTypes'
  BY DEF ParentTypes
<1>2. KernelTypes'
  BY NoCell DEF KernelTypes, ReaderStates, ParentTypes, Kernels
<1>3. PipeTypes'
  BY DEF PipeTypes, PipeFrame, EventFrame
<1>4. ArtifactTypes'
  BY DEF ArtifactTypes
<1>5. Placed'
  BY DEF Placed, KernelTypes, ParentTypes
<1>6. CodeRunsInsideExecute'
  BY DEF CodeRunsInsideExecute, KernelTypes, ParentTypes, Placed
<1>7. FramesTimely'
  BY DEF FramesTimely, Timely
<1>8. FailuresKill'
  BY DEF FailuresKill, KernelTypes, PipeTypes
<1>9. FailureReachesParent'
  BY DEF FailureReachesParent, KernelTypes, ParentTypes, Placed
<1>10. ChildrenCounted'
  <2>1. Planning' \subseteq Planning
    BY DEF Planning, KernelTypes
  <2>. QED  BY <2>1, ChildrenStand
<1>11. TokensCounted'
  <2>1. Calling' \subseteq Calling /\ (pc' = "asking" => pc = "asking")
    BY DEF Calling, KernelTypes
  <2>. QED  BY <2>1, TokensStand
<1>12. BytesAreOfStored'
  BY DEF BytesAreOfStored
<1>. QED  BY <1>1, <1>2, <1>3, <1>4, <1>5, <1>6, <1>7, <1>8, <1>9, <1>10, <1>11, <1>12

LEMMA ReplyStep == ASSUME IInv, NEW k \in Kernels, Reply(k) PROVE IInv'
<1> USE DEF IInv, Reply
<1>1. ParentTypes'
  BY DEF ParentTypes
<1>2. KernelTypes'
  BY NoCell DEF KernelTypes, ReaderStates, ParentTypes, Kernels
<1>3. PipeTypes'
  BY DEF PipeTypes, PipeFrame, EventFrame
<1>4. ArtifactTypes'
  BY DEF ArtifactTypes
<1>5. Placed'
  BY DEF Placed, KernelTypes, ParentTypes
<1>6. CodeRunsInsideExecute'
  BY DEF CodeRunsInsideExecute, KernelTypes, ParentTypes, Placed
<1>7. FramesTimely'
  BY DEF FramesTimely, Timely
<1>8. FailuresKill'
  BY DEF FailuresKill, KernelTypes, PipeTypes
<1>9. FailureReachesParent'
  BY DEF FailureReachesParent, KernelTypes, ParentTypes, Placed
<1>10. ChildrenCounted'
  <2>1. Planning' \subseteq Planning
    BY DEF Planning, KernelTypes
  <2>. QED  BY <2>1, ChildrenStand
<1>11. TokensCounted'
  <2>1. Calling' \subseteq Calling /\ (pc' = "asking" => pc = "asking")
    BY DEF Calling, KernelTypes
  <2>. QED  BY <2>1, TokensStand
<1>12. BytesAreOfStored'
  BY DEF BytesAreOfStored
<1>. QED  BY <1>1, <1>2, <1>3, <1>4, <1>5, <1>6, <1>7, <1>8, <1>9, <1>10, <1>11, <1>12

LEMMA AskModelStep == ASSUME IInv, AskModel PROVE IInv'
<1> USE DEF IInv, AskModel
<1>1. ParentTypes'
  BY DEF ParentTypes
<1>2. KernelTypes'
  BY NoCell DEF KernelTypes, ReaderStates, ParentTypes, Kernels
<1>3. PipeTypes'
  BY DEF PipeTypes, PipeFrame, EventFrame
<1>4. ArtifactTypes'
  BY DEF ArtifactTypes
<1>5. Placed'
  BY DEF Placed, KernelTypes, ParentTypes
<1>6. CodeRunsInsideExecute'
  BY DEF CodeRunsInsideExecute, KernelTypes, ParentTypes, Placed
<1>7. FramesTimely'
  BY DEF FramesTimely, Timely
<1>8. FailuresKill'
  BY DEF FailuresKill, KernelTypes, PipeTypes
<1>9. FailureReachesParent'
  BY DEF FailureReachesParent, KernelTypes, ParentTypes, Placed
<1>10. ChildrenCounted'
  <2>1. Planning' \subseteq Planning
    BY DEF Planning, KernelTypes
  <2>. QED  BY <2>1, ChildrenStand
<1>11. TokensCounted'
  <2>1. tokens < TokenCap /\ UNCHANGED <<tokens, receipts>>
    BY DEF MayCall
  <2>2. Calling' = Calling
    BY DEF Calling
  <2>3. Cardinality(Calling) \in Nat /\ Cardinality(Calling) <= MaxChildRuns
    BY CallsBounded DEF Calling, Planning
  <2>4. InFlight' \in Nat /\ InFlight' <= 1 + MaxChildRuns
    BY <2>2, <2>3, PrimeAssumption DEF InFlight
  <2>. QED  BY <2>1, <2>4, TokensReserved
<1>12. BytesAreOfStored'
  BY DEF BytesAreOfStored
<1>. QED  BY <1>1, <1>2, <1>3, <1>4, <1>5, <1>6, <1>7, <1>8, <1>9, <1>10, <1>11, <1>12

LEMMA ReceiveAnswerStep == ASSUME IInv, ReceiveAnswer PROVE IInv'
<1> USE DEF IInv, ReceiveAnswer, Record
<1>1. ParentTypes'
  BY DEF ParentTypes
<1>2. KernelTypes'
  BY NoCell DEF KernelTypes, ReaderStates, ParentTypes, Kernels
<1>3. PipeTypes'
  BY DEF PipeTypes, PipeFrame, EventFrame
<1>4. ArtifactTypes'
  BY DEF ArtifactTypes
<1>5. Placed'
  BY DEF Placed, KernelTypes, ParentTypes
<1>6. CodeRunsInsideExecute'
  BY DEF CodeRunsInsideExecute, KernelTypes, ParentTypes, Placed
<1>7. FramesTimely'
  BY DEF FramesTimely, Timely
<1>8. FailuresKill'
  BY DEF FailuresKill, KernelTypes, PipeTypes
<1>9. FailureReachesParent'
  BY DEF FailureReachesParent, KernelTypes, ParentTypes, Placed
<1>10. ChildrenCounted'
  <2>1. Planning' \subseteq Planning
    BY DEF Planning, KernelTypes
  <2>. QED  BY <2>1, ChildrenStand
<1>11. TokensCounted'
  <2>1. Calling' = Calling
    BY DEF Calling
  <2>2. pc = "asking" /\ pc' = "idle"
    OBVIOUS
  <2>3. PICK n \in CallTokens : tokens' = tokens + n /\ receipts' = receipts + n
    OBVIOUS
  <2>4. Calling \subseteq Kernels
    BY DEF Calling
  <2>5. IsFiniteSet(Calling) /\ Cardinality(Calling) \in Nat
    BY <2>4, KernelsFinite
  <2>6. InFlight \in Nat /\ InFlight' \in Nat /\ InFlight' + 1 = InFlight
    BY <2>1, <2>2, <2>5 DEF InFlight
  <2>. QED  BY <2>3, <2>6, TokensPaid
<1>12. BytesAreOfStored'
  BY DEF BytesAreOfStored
<1>. QED  BY <1>1, <1>2, <1>3, <1>4, <1>5, <1>6, <1>7, <1>8, <1>9, <1>10, <1>11, <1>12

LEMMA BeginInKernelStep == ASSUME IInv, BeginInKernel PROVE IInv'
<1> USE DEF IInv, BeginInKernel, Started
<1>1. ParentTypes'
  BY PrimeAssumption DEF ParentTypes
<1>2. KernelTypes'
  BY NoCell DEF KernelTypes, ReaderStates, ParentTypes, Kernels
<1>3. PipeTypes'
  BY DEF PipeTypes, PipeFrame, EventFrame
<1>4. ArtifactTypes'
  BY DEF ArtifactTypes
<1>5. Placed'
  BY DEF Placed, KernelTypes, ParentTypes
<1>6. CodeRunsInsideExecute'
  BY DEF CodeRunsInsideExecute, KernelTypes, ParentTypes, Placed
<1>7. FramesTimely'
  <2>1. ASSUME NEW j \in Kernels, NEW e \in PipeFrame \cup EventFrame, Timely(e, j)
        PROVE  Timely(e, j)'
    <3>1. e.id \in Nat /\ cell \in Nat /\ cell' = cell + 1 /\ e.id <= cell
      BY <2>1, NoCell DEF PipeFrame, EventFrame, ParentTypes, Timely
    <3>. QED  BY <3>1 DEF Timely
  <2>2. ASSUME NEW j \in Kernels, NEW i \in DOMAIN pipe[j]
        PROVE  pipe[j][i] \in PipeFrame /\ Timely(pipe[j][i], j)
    <3>1. pipe[j] \in Seq(PipeFrame)
      BY DEF PipeTypes
    <3>. QED  BY <3>1 DEF FramesTimely
  <2>3. ASSUME NEW j \in Kernels, NEW i \in DOMAIN events[j]
        PROVE  events[j][i] \in EventFrame /\ Timely(events[j][i], j)
    <3>1. events[j] \in Seq(EventFrame)
      BY DEF PipeTypes
    <3>. QED  BY <3>1 DEF FramesTimely
  <2>. QED  BY <2>1, <2>2, <2>3 DEF FramesTimely, Timely
<1>8. FailuresKill'
  BY DEF FailuresKill, KernelTypes, PipeTypes
<1>9. FailureReachesParent'
  BY DEF FailureReachesParent, KernelTypes, ParentTypes, Placed
<1>10. ChildrenCounted'
  <2>1. Planning' \subseteq Planning
    BY DEF Planning, KernelTypes
  <2>. QED  BY <2>1, ChildrenStand
<1>11. TokensCounted'
  <2>1. Calling' \subseteq Calling /\ (pc' = "asking" => pc = "asking")
    BY DEF Calling, KernelTypes
  <2>. QED  BY <2>1, TokensStand
<1>12. BytesAreOfStored'
  BY DEF BytesAreOfStored
<1>. QED  BY <1>1, <1>2, <1>3, <1>4, <1>5, <1>6, <1>7, <1>8, <1>9, <1>10, <1>11, <1>12

LEMMA BeginInNewStep == ASSUME IInv, BeginInNew PROVE IInv'
<1> USE DEF IInv, BeginInNew, StartKernel
<1>1. ParentTypes'
  BY PrimeAssumption DEF ParentTypes
<1>2. KernelTypes'
  BY NoCell DEF KernelTypes, ReaderStates, ParentTypes, Kernels
<1>3. PipeTypes'
  <2>1. events' = [j \in Kernels |-> <<>>] /\ pipe' = pipe
    OBVIOUS
  <2>2. \A j \in Kernels : events'[j] = <<>> /\ <<>> \in Seq(EventFrame) /\ Len(<<>>) = 0
    BY <2>1
  <2>. QED  BY <2>1, <2>2, PrimeAssumption DEF PipeTypes
<1>4. ArtifactTypes'
  BY DEF ArtifactTypes
<1>5. Placed'
  <2>1. kernel + 1 \in Kernels
    BY PrimeAssumption DEF ParentTypes, Kernels
  <2>2. \A j \in Kernels : running[j] = 0
    BY DEF CodeRunsInsideExecute
  <2>. QED  BY <2>1, <2>2 DEF Placed
<1>6. CodeRunsInsideExecute'
  BY DEF CodeRunsInsideExecute, KernelTypes, ParentTypes, Placed
<1>7. FramesTimely'
  <2>1. ASSUME NEW j \in Kernels, NEW e \in PipeFrame \cup EventFrame, Timely(e, j)
        PROVE  Timely(e, j)'
    <3>1. e.id \in Nat /\ cell \in Nat /\ cell' = cell + 1 /\ e.id <= cell
      BY <2>1, NoCell DEF PipeFrame, EventFrame, ParentTypes, Timely
    <3>. QED  BY <3>1 DEF Timely
  <2>2. ASSUME NEW j \in Kernels, NEW i \in DOMAIN pipe[j]
        PROVE  pipe[j][i] \in PipeFrame /\ Timely(pipe[j][i], j)
    <3>1. pipe[j] \in Seq(PipeFrame)
      BY DEF PipeTypes
    <3>. QED  BY <3>1 DEF FramesTimely
  <2>3. ASSUME NEW j \in Kernels, NEW i \in DOMAIN events[j]
        PROVE  events[j][i] \in EventFrame /\ Timely(events[j][i], j)
    <3>1. events[j] \in Seq(EventFrame)
      BY DEF PipeTypes
    <3>. QED  BY <3>1 DEF FramesTimely
  <2>4. ASSUME NEW j \in Kernels, NEW i \in DOMAIN events'[j] PROVE FALSE
    <3>1. events'[j] = <<>>
      BY DEF Kernels
    <3>. QED  BY <2>4, <3>1
  <2>. QED  BY <2>1, <2>2, <2>4 DEF FramesTimely, Timely
<1>8. FailuresKill'
  BY DEF FailuresKill, KernelTypes, PipeTypes
<1>9. FailureReachesParent'
  BY DEF FailureReachesParent, KernelTypes, ParentTypes, Placed
<1>10. ChildrenCounted'
  <2>1. Planning' \subseteq Planning
    BY DEF Planning, KernelTypes
  <2>. QED  BY <2>1, ChildrenStand
<1>11. TokensCounted'
  <2>1. Calling' \subseteq Calling /\ (pc' = "asking" => pc = "asking")
    BY DEF Calling, KernelTypes
  <2>. QED  BY <2>1, TokensStand
<1>12. BytesAreOfStored'
  BY DEF BytesAreOfStored
<1>. QED  BY <1>1, <1>2, <1>3, <1>4, <1>5, <1>6, <1>7, <1>8, <1>9, <1>10, <1>11, <1>12

LEMMA CloseKernelStep == ASSUME IInv, CloseKernel PROVE IInv'
<1> USE DEF IInv, CloseKernel, Started
<1>k. kernel \in Kernels
  BY DEF Started
<1>p. /\ pipe[kernel] \in Seq(PipeFrame) /\ events[kernel] \in Seq(EventFrame)
      /\ Len(events[kernel]) <= MaxPending /\ Len(pipe[kernel]) <= MaxPipe
  BY <1>k DEF PipeTypes
<1>r. /\ <<>> \in Seq(PipeFrame) /\ events[kernel] \in Seq(EventFrame)
      /\ Len(<<>>) <= MaxPipe /\ Len(events[kernel]) <= MaxPending
      /\ From(<<>>, pipe[kernel], {}) /\ From(events[kernel], events[kernel], {})
  BY <1>p, Emptied, Kept, PrimeAssumption
<1>q. pipe' = [pipe EXCEPT ![kernel] = <<>>] /\ events' = [events EXCEPT ![kernel] = events[kernel]]
  BY DEF PipeTypes
<1>1. ParentTypes'
  BY DEF ParentTypes
<1>2. KernelTypes'
  BY NoCell DEF KernelTypes, ReaderStates, ParentTypes, Kernels
<1>3. PipeTypes'
  BY <1>k, <1>q, <1>r, QueuesTyped
<1>4. ArtifactTypes'
  BY DEF ArtifactTypes
<1>5. Placed'
  BY DEF Placed, KernelTypes, ParentTypes
<1>6. CodeRunsInsideExecute'
  BY DEF CodeRunsInsideExecute, KernelTypes, ParentTypes, Placed
<1>7. FramesTimely'
  <2>1. \A e \in {} \cup {} : Timely(e, kernel)'
    OBVIOUS
  <2>2. /\ \A j \in Kernels : running'[j] \in {0, running[j]}
        /\ cell' = cell /\ (pc' = "ready" => pc = "ready")
    BY DEF KernelTypes
  <2>. QED  BY <1>k, <1>q, <1>r, <2>1, <2>2, QueuesTimely
<1>8. FailuresKill'
  BY DEF FailuresKill, KernelTypes, PipeTypes
<1>9. FailureReachesParent'
  BY DEF FailureReachesParent, KernelTypes, ParentTypes, Placed
<1>10. ChildrenCounted'
  <2>1. Planning' \subseteq Planning
    BY DEF Planning, KernelTypes
  <2>. QED  BY <2>1, ChildrenStand
<1>11. TokensCounted'
  <2>1. Calling' \subseteq Calling /\ (pc' = "asking" => pc = "asking")
    BY DEF Calling, KernelTypes
  <2>. QED  BY <2>1, TokensStand
<1>12. BytesAreOfStored'
  BY DEF BytesAreOfStored
<1>. QED  BY <1>1, <1>2, <1>3, <1>4, <1>5, <1>6, <1>7, <1>8, <1>9, <1>10, <1>11, <1>12

LEMMA CloseNothingStep == ASSUME IInv, CloseNothing PROVE IInv'
<1> USE DEF IInv, CloseNothing
<1>1. ParentTypes'
  BY DEF ParentTypes
<1>2. KernelTypes'
  BY NoCell DEF KernelTypes, ReaderStates, ParentTypes, Kernels
<1>3. PipeTypes'
  BY DEF PipeTypes, PipeFrame, EventFrame
<1>4. ArtifactTypes'
  BY DEF ArtifactTypes
<1>5. Placed'
  BY DEF Placed, KernelTypes, ParentTypes
<1>6. CodeRunsInsideExecute'
  BY DEF CodeRunsInsideExecute, KernelTypes, ParentTypes, Placed
<1>7. FramesTimely'
  BY DEF FramesTimely, Timely
<1>8. FailuresKill'
  BY DEF FailuresKill, KernelTypes, PipeTypes
<1>9. FailureReachesParent'
  BY DEF FailureReachesParent, KernelTypes, ParentTypes, Placed
<1>10. ChildrenCounted'
  <2>1. Planning' \subseteq Planning
    BY DEF Planning, KernelTypes
  <2>. QED  BY <2>1, ChildrenStand
<1>11. TokensCounted'
  <2>1. Calling' \subseteq Calling /\ (pc' = "asking" => pc = "asking")
    BY DEF Calling, KernelTypes
  <2>. QED  BY <2>1, TokensStand
<1>12. BytesAreOfStored'
  BY DEF BytesAreOfStored
<1>. QED  BY <1>1, <1>2, <1>3, <1>4, <1>5, <1>6, <1>7, <1>8, <1>9, <1>10, <1>11, <1>12

LEMMA RefuseCellStep == ASSUME IInv, RefuseCell PROVE IInv'
<1> USE DEF IInv, RefuseCell
<1>1. ParentTypes'
  BY DEF ParentTypes
<1>2. KernelTypes'
  BY NoCell DEF KernelTypes, ReaderStates, ParentTypes, Kernels
<1>3. PipeTypes'
  BY DEF PipeTypes, PipeFrame, EventFrame
<1>4. ArtifactTypes'
  BY DEF ArtifactTypes
<1>5. Placed'
  BY DEF Placed, KernelTypes, ParentTypes
<1>6. CodeRunsInsideExecute'
  BY DEF CodeRunsInsideExecute, KernelTypes, ParentTypes, Placed
<1>7. FramesTimely'
  BY DEF FramesTimely, Timely
<1>8. FailuresKill'
  BY DEF FailuresKill, KernelTypes, PipeTypes
<1>9. FailureReachesParent'
  BY DEF FailureReachesParent, KernelTypes, ParentTypes, Placed
<1>10. ChildrenCounted'
  <2>1. Planning' \subseteq Planning
    BY DEF Planning, KernelTypes
  <2>. QED  BY <2>1, ChildrenStand
<1>11. TokensCounted'
  <2>1. Calling' \subseteq Calling /\ (pc' = "asking" => pc = "asking")
    BY DEF Calling, KernelTypes
  <2>. QED  BY <2>1, TokensStand
<1>12. BytesAreOfStored'
  BY DEF BytesAreOfStored
<1>. QED  BY <1>1, <1>2, <1>3, <1>4, <1>5, <1>6, <1>7, <1>8, <1>9, <1>10, <1>11, <1>12

LEMMA SendCellStep == ASSUME IInv, SendCell PROVE IInv'
<1> USE DEF IInv, SendCell
<1>1. ParentTypes'
  BY DEF ParentTypes
<1>2. KernelTypes'
  BY NoCell DEF KernelTypes, ReaderStates, ParentTypes, Kernels
<1>3. PipeTypes'
  BY DEF PipeTypes, PipeFrame, EventFrame
<1>4. ArtifactTypes'
  BY DEF ArtifactTypes
<1>5. Placed'
  BY DEF Placed, KernelTypes, ParentTypes
<1>6. CodeRunsInsideExecute'
  BY DEF CodeRunsInsideExecute, KernelTypes, ParentTypes, Placed
<1>7. FramesTimely'
  BY DEF FramesTimely, Timely, ParentTypes
<1>8. FailuresKill'
  BY DEF FailuresKill, KernelTypes, PipeTypes
<1>9. FailureReachesParent'
  BY DEF FailureReachesParent, KernelTypes, ParentTypes, Placed
<1>10. ChildrenCounted'
  <2>1. Planning' \subseteq Planning
    BY DEF Planning, KernelTypes
  <2>. QED  BY <2>1, ChildrenStand
<1>11. TokensCounted'
  <2>1. Calling' \subseteq Calling /\ (pc' = "asking" => pc = "asking")
    BY DEF Calling, KernelTypes
  <2>. QED  BY <2>1, TokensStand
<1>12. BytesAreOfStored'
  BY DEF BytesAreOfStored
<1>. QED  BY <1>1, <1>2, <1>3, <1>4, <1>5, <1>6, <1>7, <1>8, <1>9, <1>10, <1>11, <1>12

LEMMA GetEventStep == ASSUME IInv, GetEvent PROVE IInv'
<1> USE DEF IInv, GetEvent
<1>k. kernel \in Kernels
  BY DEF Placed
<1>p. /\ pipe[kernel] \in Seq(PipeFrame) /\ events[kernel] \in Seq(EventFrame)
      /\ Len(events[kernel]) <= MaxPending /\ Len(pipe[kernel]) <= MaxPipe
  BY <1>k DEF PipeTypes
<1>h. /\ Tail(events[kernel]) \in Seq(EventFrame) /\ Len(Tail(events[kernel])) <= MaxPending
      /\ From(Tail(events[kernel]), events[kernel], {}) /\ Head(events[kernel]) \in EventFrame
      /\ 1 \in DOMAIN events[kernel] /\ Head(events[kernel]) = events[kernel][1]
  BY <1>p, Shortened, PrimeAssumption
<1>r. /\ pipe[kernel] \in Seq(PipeFrame) /\ Tail(events[kernel]) \in Seq(EventFrame)
      /\ Len(pipe[kernel]) <= MaxPipe /\ Len(Tail(events[kernel])) <= MaxPending
      /\ From(pipe[kernel], pipe[kernel], {}) /\ From(Tail(events[kernel]), events[kernel], {})
  BY <1>p, <1>h, Kept
<1>t. Timely(Head(events[kernel]), kernel)
  BY <1>k, <1>h DEF FramesTimely
<1>q. pipe' = [pipe EXCEPT ![kernel] = pipe[kernel]] /\ events' = [events EXCEPT ![kernel] = Tail(events[kernel])]
  BY DEF PipeTypes
<1>1. ParentTypes'
  BY DEF ParentTypes
<1>2. KernelTypes'
  BY NoCell DEF KernelTypes, ReaderStates, ParentTypes, Kernels
<1>3. PipeTypes'
  BY <1>k, <1>q, <1>r, QueuesTyped
<1>4. ArtifactTypes'
  BY DEF ArtifactTypes
<1>5. Placed'
  BY DEF Placed, KernelTypes, ParentTypes
<1>6. CodeRunsInsideExecute'
  <2>1. pc' = "idle" => running[kernel] = 0
    <3>1. CASE Head(events[kernel]).kind = "done" /\ Head(events[kernel]).id \in {cell, 0}
      BY <1>h, <1>t, <3>1 DEF EventFrame, Timely
    <3>2. CASE Head(events[kernel]).kind = "fatal"
      BY <1>k, <1>h, <3>2 DEF FailuresKill, Placed
    <3>. QED  BY <3>1, <3>2
  <2>. QED  BY <1>k, <2>1 DEF CodeRunsInsideExecute
<1>7. FramesTimely'
  <2>1. \A e \in {} \cup {} : Timely(e, kernel)'
    OBVIOUS
  <2>2. /\ \A j \in Kernels : running'[j] \in {0, running[j]}
        /\ cell' = cell /\ (pc' = "ready" => pc = "ready")
    BY DEF KernelTypes
  <2>. QED  BY <1>k, <1>q, <1>r, <2>1, <2>2, QueuesTimely
<1>8. FailuresKill'
  <2>1. ASSUME NEW j \in Kernels, NEW i \in DOMAIN events'[j], events'[j][i].kind = "fatal"
        PROVE  alive[j] = "killed"
    <3>1. CASE j = kernel
      <4>1. events'[kernel] = Tail(events[kernel])
        BY <1>k, <1>q DEF PipeTypes
      <4>2. \E l \in DOMAIN events[kernel] : events'[j][i] = events[kernel][l]
        BY <1>h, <2>1, <3>1, <4>1 DEF From
      <4>. QED  BY <1>k, <2>1, <3>1, <4>2 DEF FailuresKill
    <3>2. CASE j # kernel
      BY <1>q, <2>1, <3>2 DEF PipeTypes, FailuresKill
    <3>. QED  BY <3>1, <3>2
  <2>. QED  BY <2>1 DEF FailuresKill
<1>9. FailureReachesParent'
  <2> SUFFICES ASSUME pc' = "waiting", alive[kernel] = "killed"
      PROVE  \E i \in DOMAIN events'[kernel] : events'[kernel][i].kind = "fatal"
    BY DEF FailureReachesParent
  <2>1. Head(events[kernel]).kind # "fatal"
    BY <1>h DEF EventFrame
  <2>2. PICK i \in DOMAIN events[kernel] : events[kernel][i].kind = "fatal"
    BY DEF FailureReachesParent
  <2>3. \E j \in DOMAIN Tail(events[kernel]) : Tail(events[kernel])[j] = events[kernel][i]
    BY <1>p, <2>1, <2>2, Shortened
  <2>4. events'[kernel] = Tail(events[kernel])
    BY <1>k, <1>q DEF PipeTypes
  <2>. QED  BY <2>2, <2>3, <2>4
<1>10. ChildrenCounted'
  <2>1. Planning' \subseteq Planning
    BY DEF Planning, KernelTypes
  <2>. QED  BY <2>1, ChildrenStand
<1>11. TokensCounted'
  <2>1. Calling' \subseteq Calling /\ (pc' = "asking" => pc = "asking")
    BY DEF Calling, KernelTypes
  <2>. QED  BY <2>1, TokensStand
<1>12. BytesAreOfStored'
  BY DEF BytesAreOfStored
<1>. QED  BY <1>1, <1>2, <1>3, <1>4, <1>5, <1>6, <1>7, <1>8, <1>9, <1>10, <1>11, <1>12

LEMMA InterruptStep == ASSUME IInv, Interrupt PROVE IInv'
<1> USE DEF IInv, Interrupt
<1>1. ParentTypes'
  BY DEF ParentTypes
<1>2. KernelTypes'
  BY NoCell DEF KernelTypes, ReaderStates, ParentTypes, Kernels
<1>3. PipeTypes'
  BY DEF PipeTypes, PipeFrame, EventFrame
<1>4. ArtifactTypes'
  BY DEF ArtifactTypes
<1>5. Placed'
  BY DEF Placed, KernelTypes, ParentTypes
<1>6. CodeRunsInsideExecute'
  BY DEF CodeRunsInsideExecute, KernelTypes, ParentTypes, Placed
<1>7. FramesTimely'
  BY DEF FramesTimely, Timely
<1>8. FailuresKill'
  BY DEF FailuresKill, KernelTypes, PipeTypes
<1>9. FailureReachesParent'
  BY DEF FailureReachesParent, KernelTypes, ParentTypes, Placed
<1>10. ChildrenCounted'
  <2>1. Planning' \subseteq Planning
    BY DEF Planning, KernelTypes
  <2>. QED  BY <2>1, ChildrenStand
<1>11. TokensCounted'
  <2>1. Calling' \subseteq Calling /\ (pc' = "asking" => pc = "asking")
    BY DEF Calling, KernelTypes
  <2>. QED  BY <2>1, TokensStand
<1>12. BytesAreOfStored'
  BY DEF BytesAreOfStored
<1>. QED  BY <1>1, <1>2, <1>3, <1>4, <1>5, <1>6, <1>7, <1>8, <1>9, <1>10, <1>11, <1>12

LEMMA CollectInterruptedStep == ASSUME IInv, CollectInterrupted PROVE IInv'
<1> USE DEF IInv, CollectInterrupted
<1>k. kernel \in Kernels
  BY DEF Placed
<1>p. /\ pipe[kernel] \in Seq(PipeFrame) /\ events[kernel] \in Seq(EventFrame)
      /\ Len(events[kernel]) <= MaxPending /\ Len(pipe[kernel]) <= MaxPipe
  BY <1>k DEF PipeTypes
<1>h. /\ Tail(events[kernel]) \in Seq(EventFrame) /\ Len(Tail(events[kernel])) <= MaxPending
      /\ From(Tail(events[kernel]), events[kernel], {}) /\ Head(events[kernel]) \in EventFrame
      /\ 1 \in DOMAIN events[kernel] /\ Head(events[kernel]) = events[kernel][1]
  BY <1>p, Shortened, PrimeAssumption
<1>r. /\ pipe[kernel] \in Seq(PipeFrame) /\ Tail(events[kernel]) \in Seq(EventFrame)
      /\ Len(pipe[kernel]) <= MaxPipe /\ Len(Tail(events[kernel])) <= MaxPending
      /\ From(pipe[kernel], pipe[kernel], {}) /\ From(Tail(events[kernel]), events[kernel], {})
  BY <1>p, <1>h, Kept
<1>t. Timely(Head(events[kernel]), kernel)
  BY <1>k, <1>h DEF FramesTimely
<1>q. pipe' = [pipe EXCEPT ![kernel] = pipe[kernel]] /\ events' = [events EXCEPT ![kernel] = Tail(events[kernel])]
  BY DEF PipeTypes
<1>1. ParentTypes'
  BY DEF ParentTypes
<1>2. KernelTypes'
  BY NoCell DEF KernelTypes, ReaderStates, ParentTypes, Kernels
<1>3. PipeTypes'
  BY <1>k, <1>q, <1>r, QueuesTyped
<1>4. ArtifactTypes'
  BY DEF ArtifactTypes
<1>5. Placed'
  BY DEF Placed, KernelTypes, ParentTypes
<1>6. CodeRunsInsideExecute'
  <2>1. pc' = "idle" => running[kernel] = 0
    BY <1>h, <1>t DEF EventFrame, Timely
  <2>. QED  BY <1>k, <2>1 DEF CodeRunsInsideExecute
<1>7. FramesTimely'
  <2>1. \A e \in {} \cup {} : Timely(e, kernel)'
    OBVIOUS
  <2>2. /\ \A j \in Kernels : running'[j] \in {0, running[j]}
        /\ cell' = cell /\ (pc' = "ready" => pc = "ready")
    BY DEF KernelTypes
  <2>. QED  BY <1>k, <1>q, <1>r, <2>1, <2>2, QueuesTimely
<1>8. FailuresKill'
  <2>1. ASSUME NEW j \in Kernels, NEW i \in DOMAIN events'[j], events'[j][i].kind = "fatal"
        PROVE  alive[j] = "killed"
    <3>1. CASE j = kernel
      <4>1. events'[kernel] = Tail(events[kernel])
        BY <1>k, <1>q DEF PipeTypes
      <4>2. \E l \in DOMAIN events[kernel] : events'[j][i] = events[kernel][l]
        BY <1>h, <2>1, <3>1, <4>1 DEF From
      <4>. QED  BY <1>k, <2>1, <3>1, <4>2 DEF FailuresKill
    <3>2. CASE j # kernel
      BY <1>q, <2>1, <3>2 DEF PipeTypes, FailuresKill
    <3>. QED  BY <3>1, <3>2
  <2>. QED  BY <2>1 DEF FailuresKill
<1>9. FailureReachesParent'
  BY DEF FailureReachesParent, KernelTypes, ParentTypes, Placed
<1>10. ChildrenCounted'
  <2>1. Planning' \subseteq Planning
    BY DEF Planning, KernelTypes
  <2>. QED  BY <2>1, ChildrenStand
<1>11. TokensCounted'
  <2>1. Calling' \subseteq Calling /\ (pc' = "asking" => pc = "asking")
    BY DEF Calling, KernelTypes
  <2>. QED  BY <2>1, TokensStand
<1>12. BytesAreOfStored'
  BY DEF BytesAreOfStored
<1>. QED  BY <1>1, <1>2, <1>3, <1>4, <1>5, <1>6, <1>7, <1>8, <1>9, <1>10, <1>11, <1>12

LEMMA GiveUpStep == ASSUME IInv, GiveUp PROVE IInv'
<1> USE DEF IInv, GiveUp
<1>k. kernel \in Kernels
  BY DEF Placed
<1>p. /\ pipe[kernel] \in Seq(PipeFrame) /\ events[kernel] \in Seq(EventFrame)
      /\ Len(events[kernel]) <= MaxPending /\ Len(pipe[kernel]) <= MaxPipe
  BY <1>k DEF PipeTypes
<1>r. /\ <<>> \in Seq(PipeFrame) /\ events[kernel] \in Seq(EventFrame)
      /\ Len(<<>>) <= MaxPipe /\ Len(events[kernel]) <= MaxPending
      /\ From(<<>>, pipe[kernel], {}) /\ From(events[kernel], events[kernel], {})
  BY <1>p, Emptied, Kept, PrimeAssumption
<1>q. pipe' = [pipe EXCEPT ![kernel] = <<>>] /\ events' = [events EXCEPT ![kernel] = events[kernel]]
  BY DEF PipeTypes
<1>1. ParentTypes'
  BY DEF ParentTypes
<1>2. KernelTypes'
  BY NoCell DEF KernelTypes, ReaderStates, ParentTypes, Kernels
<1>3. PipeTypes'
  BY <1>k, <1>q, <1>r, QueuesTyped
<1>4. ArtifactTypes'
  BY DEF ArtifactTypes
<1>5. Placed'
  BY DEF Placed, KernelTypes, ParentTypes
<1>6. CodeRunsInsideExecute'
  BY DEF CodeRunsInsideExecute, KernelTypes, ParentTypes, Placed
<1>7. FramesTimely'
  <2>1. \A e \in {} \cup {} : Timely(e, kernel)'
    OBVIOUS
  <2>2. /\ \A j \in Kernels : running'[j] \in {0, running[j]}
        /\ cell' = cell /\ (pc' = "ready" => pc = "ready")
    BY DEF KernelTypes
  <2>. QED  BY <1>k, <1>q, <1>r, <2>1, <2>2, QueuesTimely
<1>8. FailuresKill'
  BY DEF FailuresKill, KernelTypes, PipeTypes
<1>9. FailureReachesParent'
  BY DEF FailureReachesParent, KernelTypes, ParentTypes, Placed
<1>10. ChildrenCounted'
  <2>1. Planning' \subseteq Planning
    BY DEF Planning, KernelTypes
  <2>. QED  BY <2>1, ChildrenStand
<1>11. TokensCounted'
  <2>1. Calling' \subseteq Calling /\ (pc' = "asking" => pc = "asking")
    BY DEF Calling, KernelTypes
  <2>. QED  BY <2>1, TokensStand
<1>12. BytesAreOfStored'
  BY DEF BytesAreOfStored
<1>. QED  BY <1>1, <1>2, <1>3, <1>4, <1>5, <1>6, <1>7, <1>8, <1>9, <1>10, <1>11, <1>12

LEMMA CancelStep == ASSUME IInv, Cancel PROVE IInv'
<1> USE DEF IInv, Cancel
<1>1. ParentTypes'
  BY DEF ParentTypes
<1>2. KernelTypes'
  BY NoCell DEF KernelTypes, ReaderStates, ParentTypes, Kernels
<1>3. PipeTypes'
  BY DEF PipeTypes, PipeFrame, EventFrame
<1>4. ArtifactTypes'
  BY DEF ArtifactTypes
<1>5. Placed'
  BY DEF Placed, KernelTypes, ParentTypes
<1>6. CodeRunsInsideExecute'
  BY DEF CodeRunsInsideExecute, KernelTypes, ParentTypes, Placed
<1>7. FramesTimely'
  BY DEF FramesTimely, Timely
<1>8. FailuresKill'
  BY DEF FailuresKill, KernelTypes, PipeTypes
<1>9. FailureReachesParent'
  BY DEF FailureReachesParent, KernelTypes, ParentTypes, Placed
<1>10. ChildrenCounted'
  <2>1. Planning' \subseteq Planning
    BY DEF Planning, KernelTypes
  <2>. QED  BY <2>1, ChildrenStand
<1>11. TokensCounted'
  <2>1. Calling' \subseteq Calling /\ (pc' = "asking" => pc = "asking")
    BY DEF Calling, KernelTypes
  <2>. QED  BY <2>1, TokensStand
<1>12. BytesAreOfStored'
  BY DEF BytesAreOfStored
<1>. QED  BY <1>1, <1>2, <1>3, <1>4, <1>5, <1>6, <1>7, <1>8, <1>9, <1>10, <1>11, <1>12

LEMMA BeginTransferStep == ASSUME IInv, NEW k \in Kernels, BeginTransfer(k) PROVE IInv'
<1> USE DEF IInv, BeginTransfer
<1>1. ParentTypes'
  BY DEF ParentTypes
<1>2. KernelTypes'
  BY NoCell DEF KernelTypes, ReaderStates, ParentTypes, Kernels
<1>3. PipeTypes'
  BY DEF PipeTypes, PipeFrame, EventFrame
<1>4. ArtifactTypes'
  <2>1. PICK n \in Sizes : transfer' = [owner |-> k, size |-> n, full |-> FALSE]
    OBVIOUS
  <2>2. n \in Nat
    BY PrimeAssumption
  <2>. QED  BY <2>1, <2>2 DEF ArtifactTypes
<1>5. Placed'
  BY DEF Placed, KernelTypes, ParentTypes
<1>6. CodeRunsInsideExecute'
  BY DEF CodeRunsInsideExecute, KernelTypes, ParentTypes, Placed
<1>7. FramesTimely'
  BY DEF FramesTimely, Timely
<1>8. FailuresKill'
  BY DEF FailuresKill, KernelTypes, PipeTypes
<1>9. FailureReachesParent'
  BY DEF FailureReachesParent, KernelTypes, ParentTypes, Placed
<1>10. ChildrenCounted'
  <2>1. Planning' \subseteq Planning
    BY DEF Planning, KernelTypes
  <2>. QED  BY <2>1, ChildrenStand
<1>11. TokensCounted'
  <2>1. Calling' \subseteq Calling /\ (pc' = "asking" => pc = "asking")
    BY DEF Calling, KernelTypes
  <2>. QED  BY <2>1, TokensStand
<1>12. BytesAreOfStored'
  BY DEF BytesAreOfStored
<1>. QED  BY <1>1, <1>2, <1>3, <1>4, <1>5, <1>6, <1>7, <1>8, <1>9, <1>10, <1>11, <1>12

LEMMA LastChunkStep == ASSUME IInv, NEW k \in Kernels, LastChunk(k) PROVE IInv'
<1> USE DEF IInv, LastChunk
<1>1. ParentTypes'
  BY DEF ParentTypes
<1>2. KernelTypes'
  BY NoCell DEF KernelTypes, ReaderStates, ParentTypes, Kernels
<1>3. PipeTypes'
  BY DEF PipeTypes, PipeFrame, EventFrame
<1>4. ArtifactTypes'
  BY DEF ArtifactTypes
<1>5. Placed'
  BY DEF Placed, KernelTypes, ParentTypes
<1>6. CodeRunsInsideExecute'
  BY DEF CodeRunsInsideExecute, KernelTypes, ParentTypes, Placed
<1>7. FramesTimely'
  BY DEF FramesTimely, Timely
<1>8. FailuresKill'
  BY DEF FailuresKill, KernelTypes, PipeTypes
<1>9. FailureReachesParent'
  BY DEF FailureReachesParent, KernelTypes, ParentTypes, Placed
<1>10. ChildrenCounted'
  <2>1. Planning' \subseteq Planning
    BY DEF Planning, KernelTypes
  <2>. QED  BY <2>1, ChildrenStand
<1>11. TokensCounted'
  <2>1. Calling' \subseteq Calling /\ (pc' = "asking" => pc = "asking")
    BY DEF Calling, KernelTypes
  <2>. QED  BY <2>1, TokensStand
<1>12. BytesAreOfStored'
  BY DEF BytesAreOfStored
<1>. QED  BY <1>1, <1>2, <1>3, <1>4, <1>5, <1>6, <1>7, <1>8, <1>9, <1>10, <1>11, <1>12

LEMMA AbortTransferStep == ASSUME IInv, NEW k \in Kernels, AbortTransfer(k) PROVE IInv'
<1> USE DEF IInv, AbortTransfer
<1>1. ParentTypes'
  BY DEF ParentTypes
<1>2. KernelTypes'
  BY NoCell DEF KernelTypes, ReaderStates, ParentTypes, Kernels
<1>3. PipeTypes'
  BY DEF PipeTypes, PipeFrame, EventFrame
<1>4. ArtifactTypes'
  BY FS_AddElement, PrimeAssumption DEF ArtifactTypes, NoTransfer
<1>5. Placed'
  BY DEF Placed, KernelTypes, ParentTypes
<1>6. CodeRunsInsideExecute'
  BY DEF CodeRunsInsideExecute, KernelTypes, ParentTypes, Placed
<1>7. FramesTimely'
  BY DEF FramesTimely, Timely
<1>8. FailuresKill'
  BY DEF FailuresKill, KernelTypes, PipeTypes
<1>9. FailureReachesParent'
  BY DEF FailureReachesParent, KernelTypes, ParentTypes, Placed
<1>10. ChildrenCounted'
  <2>1. Planning' \subseteq Planning
    BY DEF Planning, KernelTypes
  <2>. QED  BY <2>1, ChildrenStand
<1>11. TokensCounted'
  <2>1. Calling' \subseteq Calling /\ (pc' = "asking" => pc = "asking")
    BY DEF Calling, KernelTypes
  <2>. QED  BY <2>1, TokensStand
<1>12. BytesAreOfStored'
  BY DEF BytesAreOfStored
<1>. QED  BY <1>1, <1>2, <1>3, <1>4, <1>5, <1>6, <1>7, <1>8, <1>9, <1>10, <1>11, <1>12

LEMMA FinishTransferStep == ASSUME IInv, NEW k \in Kernels, FinishTransfer(k) PROVE IInv'
<1> USE DEF IInv, FinishTransfer
<1>1. ParentTypes'
  BY DEF ParentTypes
<1>2. KernelTypes'
  BY NoCell DEF KernelTypes, ReaderStates, ParentTypes, Kernels
<1>3. PipeTypes'
  BY DEF PipeTypes, PipeFrame, EventFrame
<1>4. ArtifactTypes'
  <2>1. transfer' \in [owner : {0} \cup Kernels, size : Nat, full : BOOLEAN]
    BY DEF NoTransfer
  <2>2. transfer.size \in Nat
    BY DEF ArtifactTypes
  <2>3. IsFiniteSet(stored \cup {transfer.size})
    BY FS_AddElement DEF ArtifactTypes
  <2>4. stored' = stored \/ stored' = stored \cup {transfer.size}
    OBVIOUS
  <2>5. bytes' = bytes \/ bytes' = bytes + transfer.size
    BY DEF Counted
  <2>6. stored' \subseteq Nat /\ IsFiniteSet(stored')
    BY <2>2, <2>3, <2>4 DEF ArtifactTypes
  <2>7. bytes' \in Nat
    BY <2>2, <2>5 DEF ArtifactTypes
  <2>. QED  BY <2>1, <2>6, <2>7 DEF ArtifactTypes
<1>5. Placed'
  BY DEF Placed, KernelTypes, ParentTypes
<1>6. CodeRunsInsideExecute'
  BY DEF CodeRunsInsideExecute, KernelTypes, ParentTypes, Placed
<1>7. FramesTimely'
  BY DEF FramesTimely, Timely
<1>8. FailuresKill'
  BY DEF FailuresKill, KernelTypes, PipeTypes
<1>9. FailureReachesParent'
  BY DEF FailureReachesParent, KernelTypes, ParentTypes, Placed
<1>10. ChildrenCounted'
  <2>1. Planning' \subseteq Planning
    BY DEF Planning, KernelTypes
  <2>. QED  BY <2>1, ChildrenStand
<1>11. TokensCounted'
  <2>1. Calling' \subseteq Calling /\ (pc' = "asking" => pc = "asking")
    BY DEF Calling, KernelTypes
  <2>. QED  BY <2>1, TokensStand
<1>12. BytesAreOfStored'
  <2> DEFINE n == transfer.size
  <2>1. n \in Nat /\ stored \subseteq Nat /\ IsFiniteSet(stored) /\ bytes \in Nat
    BY DEF ArtifactTypes
  <2>2. CASE UNCHANGED <<stored, bytes>>
    BY <2>2 DEF BytesAreOfStored
  <2>3. CASE n \notin stored /\ bytes + n <= MaxArtifactBytes /\ bytes' = bytes + n /\ stored' = stored \cup {n}
    <3> HIDE DEF n
    <3>1. SumSet(stored \cup {n}) = SumSet(stored) + n
      BY <2>1, <2>3, SumAdds
    <3>. QED  BY <2>3, <3>1 DEF BytesAreOfStored
  <2>. QED  BY <2>2, <2>3 DEF Counted
<1>. QED  BY <1>1, <1>2, <1>3, <1>4, <1>5, <1>6, <1>7, <1>8, <1>9, <1>10, <1>11, <1>12

LEMMA NextStep == IInv /\ [Next]_vars => IInv'
<1> SUFFICES ASSUME IInv, [Next]_vars PROVE IInv'
  OBVIOUS
<1>1. ASSUME NEW k \in Kernels, Kernel(k) PROVE IInv'
  BY <1>1, OutputStep, AskHostStep, FinishCellStep, CorruptStep, ExitStep DEF Kernel
<1>2. ASSUME NEW k \in Kernels, ReaderStep(k) PROVE IInv'
  <2>1. CASE Read(k)
    BY <2>1, ReadCases, ReadRequestStep, ReadEventStep, ReadFailureStep
  <2>. QED  BY <1>2, <2>1, ReadEOFStep, ReserveStep, PlanStep, ReceivePlanStep,
       ModelFailsStep, StartChildStep, EndChildStep, ReplyStep DEF ReaderStep
<1>3. ASSUME NEW k \in Kernels, Upload(k) PROVE IInv'
  BY <1>3, BeginTransferStep, LastChunkStep, AbortTransferStep, FinishTransferStep DEF Upload
<1>4. CASE ParentStep
  BY <1>4, ReceiveAnswerStep, RefuseCellStep, SendCellStep, GetEventStep, InterruptStep,
     CollectInterruptedStep, GiveUpStep DEF ParentStep
<1>5. CASE AskModel \/ BeginCell \/ Close \/ Cancel
  BY <1>5, AskModelStep, BeginCases, BeginInKernelStep, BeginInNewStep, CloseCases,
     CloseKernelStep, CloseNothingStep, CancelStep
<1>6. CASE UNCHANGED vars
  <2> USE <1>6 DEF vars, IInv
  <2>1. ParentTypes' /\ KernelTypes' /\ PipeTypes' /\ ArtifactTypes'
    BY DEF ParentTypes, KernelTypes, PipeTypes, ArtifactTypes
  <2>2. Placed' /\ CodeRunsInsideExecute'
    BY DEF Placed, CodeRunsInsideExecute
  <2>3. FramesTimely' /\ FailuresKill' /\ FailureReachesParent'
    BY DEF FramesTimely, Timely, FailuresKill, FailureReachesParent
  <2>4. ChildrenCounted' /\ TokensCounted' /\ BytesAreOfStored'
    BY DEF ChildrenCounted, Planning, TokensCounted, InFlight, Calling, BytesAreOfStored
  <2>. QED  BY <2>1, <2>2, <2>3, <2>4
<1>. QED  BY <1>1, <1>2, <1>3, <1>4, <1>5, <1>6 DEF Next

LEMMA Inductive == Spec => []IInv
BY InitIInv, NextStep, PTL DEF Spec

-----------------------------------------------------------------------------
(* A kernel works only while the parent is inside execute for its cell, a  *)
(* failure of it reaches the parent that waits, and the queue and the pipe *)
(* keep their limits.                                                      *)
THEOREM KernelIsContainedCorrect == Spec => []KernelIsContained
<1>1. IInv => TypeOK
  <2> SUFFICES ASSUME IInv PROVE TypeOK
    OBVIOUS
  <2>1. ParentTypes /\ KernelTypes /\ PipeTypes /\ transfer.owner \in {0} \cup Kernels
    BY DEF IInv, ArtifactTypes
  <2>. QED  BY <2>1 DEF ParentTypes, KernelTypes, PipeTypes, ReaderStates, TypeOK
<1>2. IInv => KernelIsContained
  BY <1>1 DEF IInv, KernelIsContained
<1>. QED  BY <1>2, Inductive, PTL

(* Over the parent and all readers, that of an abandoned kernel included,  *)
(* no child is started above the budget, no receipt is lost, the cap of    *)
(* the tokens is exceeded by no more than the calls in flight can cost,    *)
(* and the bytes counted are those of the artifacts stored.                *)
THEOREM BudgetHoldsCorrect == Spec => []BudgetHolds
<1>1. IInv => ChildrenWithinBudget
  <2> SUFFICES ASSUME IInv PROVE ChildrenWithinBudget
    OBVIOUS
  <2>1. Planning \subseteq Kernels
    BY DEF Planning
  <2>2. Cardinality(Planning) \in Nat
    BY <2>1, KernelsFinite
  <2>. QED  BY <2>2, PrimeAssumption DEF IInv, ChildrenCounted, ChildrenWithinBudget
<1>2. IInv => OverspendIsBounded
  <2> SUFFICES ASSUME IInv PROVE OverspendIsBounded
    OBVIOUS
  <2> DEFINE M == Max(CallTokens)
             B == TokenCap + (1 + MaxChildRuns) * M
  <2>1. Calling \subseteq Kernels
    BY DEF Calling
  <2>2. InFlight \in Nat /\ M \in Nat
    BY <2>1, KernelsFinite, MaxTokens DEF InFlight
  <2> HIDE DEF M
  <2>3. InFlight * M \in Nat /\ B \in Nat
    <3>1. (1 + MaxChildRuns) * M \in Nat
      BY <2>2, PrimeAssumption, Products
    <3>. QED  BY <2>2, <3>1, PrimeAssumption, Products
  <2> HIDE DEF B
  <2>4. tokens \in Nat /\ tokens + InFlight * M < B
    BY DEF IInv, TokensCounted, M, B
  <2>5. tokens < B
    BY <2>3, <2>4
  <2>. QED  BY <2>5 DEF OverspendIsBounded, M, B
<1>3. IInv => BudgetHolds
  BY <1>1, <1>2 DEF IInv, TokensCounted, NothingPaidIsLost, BudgetHolds
<1>. QED  BY <1>3, Inductive, PTL

(* A cancelled run sends no cell, pays for no plan and starts no child.    *)
THEOREM CancelStopsStartsCorrect == Spec => CancelStopsStarts
<1> DEFINE Stops == cancelled =>
             /\ children' = children
             /\ \A k \in Kernels : running'[k] \in {0, running[k]}
             /\ \A k \in Kernels : reader'[k] = "called" => reader[k] = "called"
<1>1. ASSUME IInv, cancelled, [Next]_vars PROVE Stops
  <2> USE <1>1 DEF IInv
  <2>1. ASSUME NEW k \in Kernels, Kernel(k) PROVE Stops
    BY <2>1 DEF Kernel, Output, AskHost, FinishCell, Corrupt, Exit, KernelTypes
  <2>2. ASSUME NEW k \in Kernels, ReaderStep(k) PROVE Stops
    BY <2>2 DEF ReaderStep, Read, ReadEOF, Reserve, Plan, ReceivePlan, ModelFails,
       StartChild, EndChild, Reply, MayCall, ProtocolFailure, KernelTypes
  <2>3. ASSUME NEW k \in Kernels, Upload(k) PROVE Stops
    BY <2>3 DEF Upload, BeginTransfer, LastChunk, AbortTransfer, FinishTransfer
  <2>4. CASE ParentStep
    BY <2>4 DEF ParentStep, ReceiveAnswer, RefuseCell, SendCell, GetEvent, Interrupt,
       CollectInterrupted, GiveUp, KernelTypes
  <2>5. CASE BeginCell
    BY <2>5, BeginCases DEF BeginInKernel, BeginInNew, StartKernel, KernelTypes
  <2>6. CASE AskModel \/ Close \/ Cancel \/ UNCHANGED vars
    BY <2>6 DEF AskModel, Close, Cancel, vars, KernelTypes
  <2>. QED  BY <2>1, <2>2, <2>3, <2>4, <2>5, <2>6 DEF Next
<1>2. IInv /\ [Next]_vars => Stops
  BY <1>1
<1>3. Stops \/ UNCHANGED vars => [Stops]_vars
  OBVIOUS
<1>. QED  BY <1>2, Inductive, PTL DEF Spec, CancelStopsStarts
=============================================================================
