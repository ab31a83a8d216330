--------------------------- MODULE OperationLedger ---------------------------
(***************************************************************************)
(* What the tool broker promises of each operation of a run, an operation  *)
(* being an idempotency key: it is prepared before anything happens, it    *)
(* takes effect at most once and only while it is prepared, and it is      *)
(* resolved once, with a record that agrees with the effect or admits that *)
(* it is uncertain.  Nothing is said of threads, approvals, crashes or     *)
(* how the record comes about (SPEC.md, ToolOperation).                    *)
(***************************************************************************)
CONSTANT Keys

VARIABLES phase,  \* "new", "prepared" or "resolved"
          effect, \* whether the operation's effect took place
          record  \* what the resolved operation is recorded as

vars == <<phase, effect, record>>

Init ==
  /\ phase = [k \in Keys |-> "new"]
  /\ effect = [k \in Keys |-> FALSE]
  /\ record = [k \in Keys |-> "open"]

Prepare(k) ==
  /\ phase[k] = "new"
  /\ phase' = [phase EXCEPT ![k] = "prepared"]
  /\ UNCHANGED <<effect, record>>

TakeEffect(k) ==
  /\ phase[k] = "prepared"
  /\ ~effect[k]
  /\ effect' = [effect EXCEPT ![k] = TRUE]
  /\ UNCHANGED <<phase, record>>

Resolve(k) ==
  /\ phase[k] = "prepared"
  /\ phase' = [phase EXCEPT ![k] = "resolved"]
  /\ \E r \in {"uncertain", IF effect[k] THEN "took_effect" ELSE "no_effect"} :
       record' = [record EXCEPT ![k] = r]
  /\ UNCHANGED effect

Next == \E k \in Keys : Prepare(k) \/ TakeEffect(k) \/ Resolve(k)

Spec == Init /\ [][Next]_vars
=============================================================================
