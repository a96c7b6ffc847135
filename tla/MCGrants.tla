------------------------------- MODULE MCGrants -------------------------------
(* A small instance of Grants for TLC. *)
EXTENDS Grants, TLC

CONSTANTS admin, other, org, g1, g2, q1, q2

TwoRoles == {admin, other}
OneOrg == {org}
TwoRows == {g1, g2}
TwoRequests == {q1, q2}

(* Roles, rows and requests are alike among themselves: both roles are      *)
(* standard ones.                                                           *)
Symmetry == Permutations(TwoRoles) \union Permutations(TwoRows)
            \union Permutations(TwoRequests)
=============================================================================
