---------------------------- MODULE MCPortLogin ----------------------------
(* Model-checking instance of PortLogin: one target port, FCP2 or not, on  *)
(* the fabric or not.                                                      *)
EXTENDS PortLogin

CONSTANTS p1

OnePort == {p1}
============================================================================
