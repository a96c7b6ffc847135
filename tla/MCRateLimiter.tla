---------------------------- MODULE MCRateLimiter ----------------------------
(* A small instance of RateLimiter for TLC. *)
EXTENDS RateLimiter, TLC

CONSTANTS h1, h2, h3, p1, p2

ThreeHits == {h1, h2, h3}
TwoProcesses == {p1, p2}

(* Hits and processes are alike among themselves. *)
Symmetry == Permutations(ThreeHits) \union Permutations(TwoProcesses)
=============================================================================
