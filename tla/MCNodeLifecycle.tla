-------------------------- MODULE MCNodeLifecycle --------------------------
(* NodeLifecycle for TLC: calls are model values.  They are interchangeable, *)
(* which larger instances of the safety properties alone can use.            *)
EXTENDS NodeLifecycle, TLC

Symmetry == Permutations(Runs) \cup Permutations(Stops)
=============================================================================
