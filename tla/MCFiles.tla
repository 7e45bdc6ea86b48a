------------------------------ MODULE MCFiles ------------------------------
(* Instances of PullCommand for TLC. *)
EXTENDS PullCommand, TLC

CONSTANTS v1, v2

Symmetry == Permutations(Fetches) \union Permutations({v1, v2})
============================================================================
