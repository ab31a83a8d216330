---------------------------- MODULE MCPromotion ----------------------------
(* Small instances of promotion.                                           *)
EXTENDS Promotion, TLC

CONSTANTS c1, c2, e1, e2, g1, r1, r2

Interchangeable ==
  Permutations(Candidates) \cup Permutations(Evaluations) \cup Permutations(Rollbacks)
=============================================================================
