----------------------------- MODULE MCSessions -----------------------------
(* Small instances of Sessions for TLC. *)
EXTENDS Sessions, TLC

CONSTANTS t1, t2, q1, q2

TwoTokens == {t1, t2}
TwoRequests == {q1, q2}

(* The ids of rows are random and the worker slots alike. *)
Symmetry == Permutations(Tokens) \union Permutations(Requests)
=============================================================================
