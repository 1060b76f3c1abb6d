---------------------------- MODULE MCIdcState ----------------------------
(* Model-checking instances of IdcState: one or two FCoE functions, and a  *)
(* function with a driver of another protocol.                             *)
EXTENDS IdcState

BothFcoe == {2, 3}
UpperFcoe == {3}
Nic == {0}
NoOther == {}
==========================================================================
