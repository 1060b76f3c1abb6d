---------------------------- MODULE MCMailbox ----------------------------
(* Model-checking instance of Mailbox: a thread beside the DPC thread.     *)
EXTENDS Mailbox

CONSTANTS u1

MCUsers == {u1}
==========================================================================
