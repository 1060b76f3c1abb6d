---------------------------- MODULE MCIdcLock ----------------------------
(* Model-checking instance of IdcLock: the functions 0, 1 and 2.           *)
EXTENDS IdcLock

MCDrivers == 0..2
==========================================================================
