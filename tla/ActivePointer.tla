--------------------------- MODULE ActivePointer ---------------------------
(***************************************************************************)
(* What the promotion service promises about the active bundle: there is   *)
(* one, it changes in one atomic step, and only from the bundle a          *)
(* candidate was built on to that candidate, or back to a bundle that was  *)
(* active before.                                                          *)
(***************************************************************************)
CONSTANTS Candidates, Genesis, None

VARIABLES
  active,  \* the active bundle, or None before the store is seeded
  lineage, \* the bundles that have been active
  base     \* the bundle each candidate was built on, or None

vars == <<active, lineage, base>>

Bundles == Candidates \cup {Genesis}

Init ==
  /\ active = None
  /\ lineage = {}
  /\ base = [c \in Candidates |-> None]

Seed ==
  /\ active = None
  /\ active' = Genesis
  /\ UNCHANGED <<lineage, base>>

RecordSeed ==
  /\ active = Genesis
  /\ lineage' = lineage \cup {Genesis}
  /\ UNCHANGED <<active, base>>

Build(c) ==
  /\ base[c] = None
  /\ active # None
  /\ base' = [base EXCEPT ![c] = active]
  /\ UNCHANGED <<active, lineage>>

Promote(c) ==
  /\ base[c] = active
  /\ active' = c
  /\ lineage' = lineage \cup {c}
  /\ UNCHANGED base

Restore(b) ==
  /\ b \in lineage
  /\ active' = b
  /\ UNCHANGED <<lineage, base>>

Next ==
  \/ Seed \/ RecordSeed
  \/ \E c \in Candidates : Build(c) \/ Promote(c)
  \/ \E b \in Bundles : Restore(b)

Spec == Init /\ [][Next]_vars
=============================================================================
