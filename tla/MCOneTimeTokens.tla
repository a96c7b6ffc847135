--------------------------- MODULE MCOneTimeTokens ---------------------------
(* A small instance of OneTimeTokens for TLC. *)
EXTENDS OneTimeTokens, TLC

CONSTANTS t1, t2, q1, q2, home, work

TwoTokens == {t1, t2}
TwoRequests == {q1, q2}
TwoAddresses == {home, work}

(* Ids of rows, worker slots and addresses are alike among themselves. *)
Symmetry == Permutations(TwoTokens) \union Permutations(TwoRequests)
                \union Permutations(TwoAddresses)
=============================================================================
