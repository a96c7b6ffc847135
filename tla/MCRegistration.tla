---------------------------- MODULE MCRegistration ----------------------------
(* A small instance of Registration for TLC. *)
EXTENDS Registration, TLC

CONSTANTS u1, u2, a1, a2, s1, st1, q1, q2

TwoUsers == {u1, u2}
TwoAddresses == {a1, a2}
OneSubject == {s1}
OneState == {st1}
TwoRequests == {q1, q2}

(* Row ids, addresses and worker slots are alike among themselves. *)
Symmetry == Permutations(TwoUsers) \union Permutations(TwoAddresses)
            \union Permutations(TwoRequests)
=============================================================================
