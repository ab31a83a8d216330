--------------------------- MODULE MCRunLifecycle ---------------------------
(* Small instances of the life of a run.                                   *)
EXTENDS RunLifecycle, TLC

CONSTANTS l1, l2, c1, c2, a1, s1, s2

Interchangeable ==
  Permutations(Launchers) \cup Permutations(Cancellers) \cup Permutations(Streams)
=============================================================================
