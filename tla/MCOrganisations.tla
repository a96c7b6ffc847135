--------------------------- MODULE MCOrganisations ---------------------------
(* A small instance of Organisations for TLC. *)
EXTENDS Organisations, TLC

CONSTANTS u1, u2, q1, q2

TwoUsers == {u1, u2}
TwoRequests == {q1, q2}

(* Accounts and worker slots are alike among themselves. *)
Symmetry == Permutations(TwoUsers) \union Permutations(TwoRequests)
=============================================================================
