------------------------------- MODULE MCLogin -------------------------------
(* The symmetry of Login's instances: workers and sessions are alike. *)
EXTENDS Login, TLC

Symmetry == Permutations(Threads) \cup Permutations(Sessions)

=============================================================================
