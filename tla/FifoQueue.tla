---------------------------- MODULE FifoQueue ----------------------------
(***************************************************************************)
(* What the request ring promises to the code above it: a bounded first-in *)
(* first-out queue of IOCB entries between the driver and the firmware.    *)
(* Batches are appended whole, entries leave one by one from the front,    *)
(* and a chip reset throws the whole queue away.  The ring does not defend *)
(* itself against a batch too many: that breaks the queue, and nothing is  *)
(* promised until the next reset.                                          *)
(***************************************************************************)
EXTENDS Naturals, Sequences

CONSTANTS
  Entries,    \* the values an entry can have
  Capacity    \* the most entries that are ever queued

VARIABLES queue, broken

QInit == queue = << >> /\ broken = FALSE

Append1(batch) ==
  /\ ~broken /\ Len(queue) + Len(batch) <= Capacity
  /\ queue' = queue \o batch
  /\ broken' = FALSE

Take ==
  /\ ~broken /\ queue # << >>
  /\ queue' = Tail(queue)
  /\ broken' = FALSE

Break ==
  /\ ~broken /\ broken' = TRUE
  /\ queue' = << >>

Drop == queue' = << >> /\ broken' = FALSE

\* A batch is never longer than the queue itself can become.
Batches == UNION { [1..n -> Entries] : n \in 1..Capacity }

QNext == Take \/ Break \/ Drop \/ \E batch \in Batches : Append1(batch)

QVars == <<queue, broken>>

QSpec == QInit /\ [][QNext]_QVars /\ WF_QVars(Take)
==========================================================================
