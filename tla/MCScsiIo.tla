---------------------------- MODULE MCScsiIo -----------------------------
(* Model-checking instance of ScsiIo: three commands and two handles, so   *)
(* that handles run out and are reused, and an abort that crosses the end  *)
(* of one command can reach another.                                       *)
EXTENDS ScsiIo

CONSTANTS c1, c2, c3

MCCmds == {c1, c2, c3}

\* Bound: a third command, or a second fault.  This restrains the midlayer's
\* submissions and the faults, of which no fairness is assumed.
MCNext == Next /\ (faults' < 2 \/ phase'[c3] = "idle")
MCSpec == Init /\ [][MCNext]_vars /\ Fairness

\* A command of the driver goes back to the midlayer, or after a fault
\* eh_abort reports its failure.  ScsiIo names no command, so that what holds
\* of the first one holds of the others.
FirstEventuallyReturned == EventuallyReturned(c1)
==========================================================================
