------------------------------ MODULE MCLockout ------------------------------
(* A small instance of Lockout for TLC. *)
EXTENDS Lockout, TLC

CONSTANTS w1, w2, w3

ThreeWorkers == {w1, w2, w3}
Symmetry == Permutations(ThreeWorkers)
=============================================================================
