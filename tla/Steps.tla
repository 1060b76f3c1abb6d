------------------------------- MODULE Steps -------------------------------
(***************************************************************************)
(* The shape the long set-up routines of the driver share: acquire one     *)
(* thing after the other and, when a step fails, leave through a ladder of *)
(* labels that gives back what was acquired so far.  A routine is written  *)
(* down as the sequence of its steps; each step that can fail carries what *)
(* the label it jumps to releases.                                         *)
(***************************************************************************)
EXTENDS Integers, Sequences

\* What leaving through a label does: it releases the things in all without
\* looking, those in some after testing that they are there and tries to
\* release those in hope; it frees the interrupts (irqs), calls job_done
\* (done) and returns zero (zero).
None == [all |-> {}, some |-> {}, hope |-> {},
         irqs |-> FALSE, done |-> FALSE, zero |-> FALSE]
All(S) == [None EXCEPT !.all = S]
Some(S) == [None EXCEPT !.some = S]
Hope(S) == [None EXCEPT !.hope = S]
Irqs == [None EXCEPT !.irqs = TRUE]
And(F, G) == [all |-> F.all \cup G.all, some |-> F.some \cup G.some,
              hope |-> F.hope \cup G.hope, irqs |-> F.irqs \/ G.irqs,
              done |-> F.done \/ G.done, zero |-> F.zero \/ G.zero]

\* A step: what it does, on which things, where a failure leads, and how far
\* the routine jumps (0: a failure ends it).
Step(op, res, exit) == [op |-> op, res |-> res, exit |-> exit, jump |-> 0]

Get(r, exit) == Step("get", {r}, exit)      \* acquire r, or fail
Take(S) == Step("take", S, None)            \* acquire S, without fail
Try(exit) == Step("try", {}, exit)          \* a test or a call that may fail
Refuse(exit) == Step("refuse", {}, exit)    \* always fails
Put(exit) == Step("put", {}, exit)          \* release, in passing
Use(S) == Step("use", S, None)              \* follows pointers to S
Submit(exit) == Step("submit", {}, exit)    \* hand over to the firmware
JobDone == Step("done", {}, None)           \* bsg_job->job_done()
Jump(n) == [Step("jump", {}, None) EXCEPT !.jump = n]
Maybe(S) == Step("maybe", S, None)          \* some of S acquired meanwhile

MayFail(s) == s.op \in {"get", "try", "refuse", "submit"} /\ s.jump = 0

\* A is called by a routine that leaves through exit when A fails.
Within(A, exit) ==
  [i \in 1..Len(A) |->
     IF MayFail(A[i]) THEN [A[i] EXCEPT !.exit = And(A[i].exit, exit)] ELSE A[i]]

\* Slip: a failure lands one step too far.
PastSlip(A, n) ==
  [i \in 1..Len(A) |->
     IF MayFail(A[i]) THEN [A[i] EXCEPT !.jump = Len(A) - i + 2 + n] ELSE A[i]]

\* A failure of A is not an end: the routine goes on behind A plus n steps.
Past(A, n) ==
  [i \in 1..Len(A) |->
     IF MayFail(A[i]) THEN [A[i] EXCEPT !.jump = Len(A) - i + 1 + n] ELSE A[i]]

\* The failure of A is not noticed, or does not matter.
Attempt(A) == Past(A, 0)

\* B is tried when A has failed.
OrElse(A, B) == Past(A, 1) \o <<Jump(Len(B) + 1)>> \o B

\* A only if r is held.
Given(r, A) == <<[Step("given", {r}, None) EXCEPT !.jump = Len(A) + 1]>> \o A

If(b, S) == IF b THEN S ELSE {}
When(b, A) == IF b THEN A ELSE <<>>

\* A routine: later is what the completion of the request handed to the
\* firmware releases, job says that a transport waits for job_done, enters
\* is what the caller holds and keeps what a success leaves held.
Routine(name, A, enters, keeps) ==
  [name |-> name, steps |-> A, enters |-> enters, keeps |-> keeps,
   job |-> FALSE, later |-> {}]
=============================================================================
