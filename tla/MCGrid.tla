------------------------------ MODULE MCGrid ------------------------------
(* Instances of Grid for TLC. *)
EXTENDS Grid, TLC

CONSTANTS w1, w2, c1, c2, r1, r2

\* One worker and one connection.
OneOwner == c1 :> w1

\* A worker that redials under the same ID.
TwiceOwner == c1 :> w1 @@ c2 :> w1

\* ... or two processes that were given the same ID.
TwoProcs == c1 :> c1 @@ c2 :> c2

\* Two workers, one connection each.
PairOwner == c1 :> w1 @@ c2 :> w2

Symmetry == Permutations({r1, r2})

\* TwoProcs and TwiceOwner tell the two connections apart in no way.
ConnSymmetry == Permutations({c1, c2})
============================================================================
