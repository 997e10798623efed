------------------------------ MODULE MCLoops -------------------------------
(***************************************************************************)
(* Two loops and the service thread; two workers with ids in one loop, one  *)
(* that works without ids in the other.                                    *)
(***************************************************************************)
EXTENDS Loops, TLC

CONSTANTS l1, l2, w1, w2, w3

Homes == w1 :> l1 @@ w2 :> l2 @@ w3 :> l1

Symmetry == Permutations({w1, w3})
=============================================================================
