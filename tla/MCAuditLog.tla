----------------------------- MODULE MCAuditLog -----------------------------
(* A small instance of AuditLog for TLC: of three emissions, two say the    *)
(* same (two sign-outs, say).                                               *)
EXTENDS AuditLog

CONSTANTS e1, e2, e3, logout, login

ThreeEmissions == {e1, e2, e3}
TwoPayloads == {logout, login}
SomeAlike == [e \in ThreeEmissions |-> IF e = e3 THEN login ELSE logout]
=============================================================================
