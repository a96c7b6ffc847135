--------------------------- MODULE MCPortalClient ---------------------------
(* A small instance of PortalClient for TLC: two plain calls and a switch.  *)
EXTENDS PortalClient, TLC

CONSTANTS c1, c2, c3

ThreeCalls == {c1, c2, c3}
OneSwitch == {c3}
=============================================================================
