----------------------------- MODULE AsyncSrb ------------------------------
(***************************************************************************)
(* Requests that are not SCSI commands: logins, logouts and discoveries,   *)
(* task management and aborts that a thread waits for, and the CT and ELS  *)
(* pass-throughs.  Each is an srb that outstanding_cmds leads to; most     *)
(* carry a timer.  An srb can be ended by the response to it, by its       *)
(* timer, by the thread that waits for it, by a reset of the adapter or by *)
(* the transport, and there is no reference count: whoever ends it frees   *)
(* it.  The module is about what keeps these apart, and what does not.     *)
(*                                                                         *)
(* hardware_lock is held by start_sp, by the interrupt handler, by         *)
(* sp_timeout and by abort_all_cmds: each is one action.  The timer's      *)
(* handler waits for the lock, and del_timer does not wait for the         *)
(* handler: that it has begun is a state of its own.                       *)
(***************************************************************************)
EXTENDS Integers, FiniteSets

CONSTANTS
  Srbs,            \* requests, each made once
  Kinds,           \* what they may be: functions from Srbs
  NumOutstanding,  \* req->num_outstanding_cmds: handles 1..NumOutstanding-1
  MaxResets,       \* bound: resets of the adapter
  NoSrb

Logins  == {"login", "logout", "adisc"}   \* end by posting work
Awaited == {"tmf", "abort"}               \* a thread waits for them
Jobs    == {"ct", "els_host", "els_rport"}
Timed   == Logins \cup Awaited            \* qla2x00_init_timer is called

ASSUME AsyncSrbAssumption ==
  /\ IsFiniteSet(Srbs) /\ NoSrb \notin Srbs
  /\ Kinds \subseteq [Srbs -> Logins \cup Awaited \cup Jobs]
  /\ NumOutstanding \in Nat /\ NumOutstanding >= 2
  /\ MaxResets \in Nat

VARIABLES
  kind,         \* sp->type
  phase,        \* "new", "ready" (to be sent), "issued", "done"; of a job also
                \* "expired": the transport has timed it out
  frees,        \* how often the srb has been given back to the pool
  timer,        \* "off", "armed", "begun": sp_timeout waits for the lock, "ran"
  slot,         \* req->outstanding_cmds
  handle,       \* sp->handle
  current,      \* req->current_outstanding_cmd
  fw,           \* the requests the firmware works on, with their handles
  woken,        \* requests whose completion (u.tmf.comp, u.abt.comp) is done
  comp_status,  \* u.tmf.comp_status, u.abt.comp_status of these
  told,         \* what the requester has learnt
  said,         \* what the firmware has answered
  ender,        \* whose answer has ended the request, if an answer has
  late,         \* requests whose timer ran after they had left their slot
  unroomed,     \* requests that found a slot and no room in the ring
  resets        \* bound: resets so far

lifeVars == <<phase, frees, timer>>
slotVars == <<slot, handle, current, unroomed>>
waitVars == <<woken, comp_status>>
seenVars == <<told, said, ender, late>>
vars == <<kind, lifeVars, slotVars, fw, waitVars, seenVars, resets>>

Handles == 1..NumOutstanding - 1
NoHandle == 0
Results == {"none", "ok", "error"}

TypeOK ==
  /\ kind \in Kinds
  /\ phase \in [Srbs -> {"new", "ready", "issued", "expired", "done"}]
  /\ frees \in [Srbs -> 0..2]
  /\ timer \in [Srbs -> {"off", "armed", "begun", "ran"}]
  /\ slot \in [Handles -> Srbs \cup {NoSrb}]
  /\ handle \in [Srbs -> Handles \cup {NoHandle}]
  /\ current \in Handles
  /\ fw \subseteq Srbs
  /\ woken \subseteq {s \in Srbs : kind[s] \in Awaited}
  /\ comp_status \in [Srbs -> {"ok", "error", "timeout"}]
  /\ told \in [Srbs -> Results] /\ said \in [Srbs -> Results]
  /\ ender \in [Srbs -> Srbs \cup {NoSrb}]
  /\ late \subseteq Srbs /\ unroomed \subseteq Srbs
  /\ resets \in 0..MaxResets

Init ==
  /\ kind \in Kinds
  /\ phase = [s \in Srbs |-> "new"]
  /\ frees = [s \in Srbs |-> 0]
  /\ timer = [s \in Srbs |-> "off"]
  /\ slot = [h \in Handles |-> NoSrb]
  /\ handle = [s \in Srbs |-> NoHandle]
  /\ current \in Handles
  /\ fw = {} /\ woken = {}
  /\ comp_status = [s \in Srbs |-> "ok"]      \* the srb is zeroed
  /\ told = [s \in Srbs |-> "none"] /\ said = [s \in Srbs |-> "none"]
  /\ ender = [s \in Srbs |-> NoSrb]
  /\ late = {} /\ unroomed = {}
  /\ resets = 0

--------------------------------------------------------------------------
(* Freeing and ending.                                                     *)

\* sp->free for each of S: del_timer stops a timer that has not begun.
Free(S) ==
  /\ frees' = [s \in Srbs |-> IF s \in S THEN frees[s] + 1 ELSE frees[s]]
  /\ timer' = [s \in Srbs |-> IF s \in S /\ timer[s] = "armed" THEN "off" ELSE timer[s]]

Ended(S, what) ==
  /\ phase' = [s \in Srbs |-> IF s \in S THEN "done" ELSE phase[s]]
  /\ told' = [s \in Srbs |-> IF s \in S THEN what ELSE told[s]]

\* Slip: the srb is freed before the waiting thread has read it.
DoneSlip(S, what) ==
  LET waiting == {s \in S : kind[s] \in Awaited}
  IN /\ woken' = woken \cup waiting
     /\ Free(S)
     /\ Ended(S \ waiting, what)

\* sp->done for each of S with what the handler has made of the answer: a
\* waiting thread is woken; otherwise the work is posted or the job answered,
\* and the srb is freed.
Done(S, what) ==
  LET waiting == {s \in S : kind[s] \in Awaited}
  IN /\ woken' = woken \cup waiting
     /\ Free(S \ waiting)
     /\ Ended(S \ waiting, what)

--------------------------------------------------------------------------
(* Sending.                                                                *)

\* Slip: only logins are given a timer.
GetSpSlip(s) ==
  /\ phase[s] = "new"
  /\ phase' = [phase EXCEPT ![s] = "ready"]
  /\ timer' = [timer EXCEPT ![s] = IF kind[s] \in Logins THEN "armed" ELSE "off"]
  /\ UNCHANGED <<kind, frees, slotVars, fw, waitVars, seenVars, resets>>

\* The srb is allocated and its timer started, before it is sent.
GetSp(s) ==
  /\ phase[s] = "new"
  /\ phase' = [phase EXCEPT ![s] = "ready"]
  /\ timer' = [timer EXCEPT ![s] = IF kind[s] \in Timed THEN "armed" ELSE "off"]
  /\ UNCHANGED <<kind, frees, slotVars, fw, waitVars, seenVars, resets>>

\* Handles are tried in turn, from the one given out last.
Turn(d) == ((current - 1 + d) % (NumOutstanding - 1)) + 1
FreeTurns == {d \in Handles : slot[Turn(d)] = NoSrb}

Enter(s, h) ==
  /\ current' = h
  /\ handle' = [handle EXCEPT ![s] = h]
  /\ slot' = [slot EXCEPT ![h] = s]

\* Slip: a slot with a request in it is taken for a free one.
alloc_iocbsSlip(s) == Enter(s, Turn(1))

\* The part of qla2x00_alloc_iocbs that enters the request.
alloc_iocbs(s) ==
  \E d \in FreeTurns : (\A e \in FreeTurns : d <= e) /\ Enter(s, Turn(d))

StartSp(s) ==
  /\ phase[s] = "ready"
  /\ alloc_iocbs(s)
  /\ fw' = fw \cup {s}
  /\ phase' = [phase EXCEPT ![s] = "issued"]
  /\ UNCHANGED <<kind, frees, timer, unroomed, waitVars, seenVars, resets>>

\* No handle is free: the caller frees the srb.
NoHandleFree(s) ==
  /\ phase[s] = "ready"
  /\ FreeTurns = {}
  /\ Free({s}) /\ Ended({s}, "error")
  /\ UNCHANGED <<kind, slotVars, fw, waitVars, said, ender, late, resets>>

\* The ring is full, which is found out when the slot has been taken.
NoRoom(s) ==
  /\ phase[s] = "ready"
  /\ alloc_iocbs(s)
  /\ unroomed' = unroomed \cup {s}
  /\ Free({s}) /\ Ended({s}, "error")
  /\ UNCHANGED <<kind, fw, waitVars, said, ender, late, resets>>

--------------------------------------------------------------------------
(* Responses.                                                              *)

\* Slip: the status is not looked at.
ReadAsSlip(s, answer) == "ok"

\* What the handler of the response to s makes of it.  els_ct_entry passes
\* zero to sp->done whatever the status; tm_iocb_entry notes an error in
\* u.tmf.data, which is only logged.
ReadAs(s, answer) == IF kind[s] \in Jobs THEN "ok" ELSE answer

\* els_ct_entry leaves alone what is neither CT nor ELS; the slot is empty by
\* then.
Recognised(s, t) == kind[s] \in Jobs => kind[t] \in Jobs

\* Slip: the slot is left for the caller to clear.
get_sp_from_handleSlip(s) == UNCHANGED slot

get_sp_from_handle(s) == slot' = [slot EXCEPT ![handle[s]] = NoSrb]

\* The firmware answers s; the driver finds in the slot the request t.
Response(s) ==
  /\ s \in fw
  /\ fw' = fw \ {s}
  /\ get_sp_from_handle(s)
  /\ \E answer \in {"ok", "error"} :
       LET t == slot[handle[s]]
           heard == t # NoSrb /\ handle[t] = handle[s] /\ Recognised(s, t)
       IN /\ said' = [said EXCEPT ![s] = answer]
          /\ Done(IF heard THEN {t} ELSE {}, ReadAs(s, answer))
          /\ ender' = IF heard THEN [ender EXCEPT ![t] = s] ELSE ender
          /\ comp_status' = IF heard /\ kind[t] = "abort"
                            THEN [comp_status EXCEPT ![t] = answer] ELSE comp_status
  /\ UNCHANGED <<kind, handle, current, unroomed, late, resets>>

\* Slip: the thread may be woken twice.
WakeSlip(s) ==
  /\ s \in woken /\ frees[s] < 3
  /\ Free({s})
  /\ Ended({s}, IF comp_status[s] = "ok" THEN "ok" ELSE "error")
  /\ UNCHANGED <<kind, slotVars, fw, waitVars, said, ender, late, resets>>

\* The waiting thread reads the status and frees the srb.
Wake(s) ==
  /\ s \in woken /\ phase[s] = "issued"
  /\ Free({s})
  /\ Ended({s}, IF comp_status[s] = "ok" THEN "ok" ELSE "error")
  /\ UNCHANGED <<kind, slotVars, fw, waitVars, said, ender, late, resets>>

--------------------------------------------------------------------------
(* Timers.                                                                 *)

\* The handler begins; from here del_timer comes too late.
TimerExpires(s) ==
  /\ phase[s] = "issued" /\ timer[s] = "armed"
  /\ timer' = [timer EXCEPT ![s] = "begun"]
  /\ UNCHANGED <<kind, phase, frees, slotVars, fw, waitVars, seenVars, resets>>

\* sp_timeout under the lock: it empties the slot of its handle, whoever is in
\* it by now, and frees the srb, whether it is there or not.  An async login
\* posts its failure; a waiting thread is woken.
TimerRuns(s) ==
  /\ timer[s] = "begun"
  /\ slot' = [slot EXCEPT ![handle[s]] = NoSrb]
  /\ late' = IF slot[handle[s]] = s THEN late ELSE late \cup {s}
  /\ frees' = [frees EXCEPT ![s] = @ + 1]
  /\ timer' = [timer EXCEPT ![s] = "ran"]
  /\ IF kind[s] \in Awaited
     THEN /\ woken' = woken \cup {s}
          /\ comp_status' = [comp_status EXCEPT ![s] = "timeout"]
          /\ UNCHANGED <<phase, told>>
     ELSE /\ Ended(IF phase[s] = "issued" THEN {s} ELSE {}, "error")
          /\ UNCHANGED waitVars
  /\ UNCHANGED <<kind, handle, current, unroomed, fw, said, ender, resets>>

--------------------------------------------------------------------------
(* The transport's timeout of a job, and resets.                           *)

\* qla24xx_bsg_timeout looks for the job among three types of request, and
\* empties its slot before it sends the abort.
BsgTimeout(s) ==
  /\ kind[s] \in {"ct", "els_host"} /\ phase[s] = "issued"
  /\ slot[handle[s]] = s
  /\ slot' = [slot EXCEPT ![handle[s]] = NoSrb]
  /\ phase' = [phase EXCEPT ![s] = "expired"]
  /\ UNCHANGED <<kind, frees, timer, handle, current, unroomed, fw, waitVars, seenVars, resets>>

\* abort_command does not find the slot; the job ends with an error and the
\* srb is freed, with its mappings.
BsgTimeoutDone(s) ==
  /\ phase[s] = "expired"
  /\ Free({s}) /\ Ended({s}, "error")
  /\ UNCHANGED <<kind, slotVars, fw, waitVars, said, ender, late, resets>>

\* The chip is reset and forgets everything; abort_all_cmds ends what is in
\* a slot.  comp_status is not touched.
abort_all_cmds ==
  /\ resets < MaxResets
  /\ resets' = resets + 1
  /\ fw' = {}
  /\ slot' = [h \in Handles |-> NoSrb]
  /\ Done({slot[h] : h \in Handles} \ {NoSrb}, "error")
  /\ UNCHANGED <<kind, handle, current, unroomed, comp_status, said, ender, late>>

Next ==
  \/ \E s \in Srbs :
       \/ GetSp(s) \/ StartSp(s) \/ NoHandleFree(s) \/ NoRoom(s)
       \/ Response(s) \/ Wake(s)
       \/ TimerExpires(s) \/ TimerRuns(s)
       \/ BsgTimeout(s) \/ BsgTimeoutDone(s)
  \/ abort_all_cmds

\* Timers expire and their handlers get the lock; a thread that was woken
\* runs.  Nothing is assumed of the firmware.
Fairness ==
  \A s \in Srbs : WF_vars(TimerExpires(s)) /\ WF_vars(TimerRuns(s)) /\ WF_vars(Wake(s))

Spec == Init /\ [][Next]_vars /\ Fairness

--------------------------------------------------------------------------
(* Properties.                                                             *)

TimedOut(s) == timer[s] \in {"begun", "ran"}
GivenUp(s) == TimedOut(s) \/ phase[s] \in {"expired", "done"}

\* What ended another request with the same handle, its late timer or the
\* answer that did not find it any more, may have taken the slot from s.
Displaced(s) ==
  \E u \in Srbs \ {s} :
    /\ handle[u] = handle[s]
    /\ u \in late \/ (said[u] # "none" /\ ender[u] # u)

\* Whoever finds a request in a slot may use it: it has not been freed.  The
\* exception is qla2x00_alloc_iocbs, which enters the request before it has
\* looked for room (qla_iocb.c:1810).
SlotsAreLive ==
  \A h \in Handles :
    slot[h] # NoSrb => \/ frees[slot[h]] = 0
                       \/ slot[h] \in unroomed

\* However the response, the timer, the reset, the transport and the waiting
\* thread meet, a request is freed once.  The exceptions: the timer of a task
\* management or abort request frees what the thread it wakes frees again;
\* a handler that had begun when the request was ended otherwise frees it
\* again; and a request that found no room is ended again by a reset.
FreedOnce ==
  \A s \in Srbs :
    frees[s] > 1 => \/ kind[s] \in Awaited /\ TimedOut(s)
                    \/ s \in late
                    \/ s \in unroomed

\* As long as a request waits for its answer, the answer finds it: its slot
\* holds it, unless the late timer of another has emptied it, or a response
\* took it for another's.
AnswerFindsIt ==
  \A s \in Srbs :
    s \in fw /\ phase[s] = "issued" /\ s \notin woken /\ timer[s] # "ran"
    => slot[handle[s]] = s \/ Displaced(s)

\* A request is ended by the answer to it.  The answer to a request that was
\* given up, or that lost its slot, may end the next owner of its handle:
\* nothing in the response tells the two apart.
OwnAnswer ==
  \A s \in Srbs : ender[s] \in {NoSrb, s} \/ GivenUp(ender[s]) \/ Displaced(ender[s])

\* The requester learns success only if the firmware has said so.  CT and ELS
\* jobs and task management requests are told success whatever the answer,
\* and a waiting thread that a reset wakes finds the status at zero.
SuccessIsReported ==
  \A s \in Srbs :
    told[s] = "ok" => \/ said[s] = "ok"
                      \/ kind[s] \in Jobs /\ ender[s] # NoSrb
                      \/ kind[s] = "tmf" /\ ender[s] # NoSrb
                      \/ kind[s] \in Awaited /\ resets > 0
                      \/ ender[s] \notin {NoSrb, s}

\* A request with a timer ends, whatever the firmware and the others do: no
\* thread of the error handler sleeps for good.
TimedRequestsEnd ==
  \A s \in Srbs :
    (kind[s] \in Timed /\ phase[s] = "issued") ~> phase[s] = "done"

\* An srb is freed once, and nobody finds it in a slot after that.
SrbsAreSound == SlotsAreLive /\ FreedOnce

\* Requests and answers stay together: an answer finds the request that waits
\* for it, and ends no other.
AnswersReachTheirRequest == TypeOK /\ AnswerFindsIt /\ OwnAnswer
=============================================================================
