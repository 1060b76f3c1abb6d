-------------------------- MODULE AsyncSrb_proof --------------------------
(***************************************************************************)
(* An asynchronous request is freed once, and whoever finds it in a slot   *)
(* may use it: for any number of requests, handles and resets, whichever   *)
(* way answers, timers, waiting threads, the transport and resets meet,    *)
(* and but for the exceptions that SlotsAreLive and FreedOnce name.        *)
(*                                                                         *)
(* Neither is inductive: a request is freed by the thread that was woken,  *)
(* by the transport's timeout or by a late timer, none of which looks      *)
(* whether it is in a slot or freed already.  What keeps it out is that it *)
(* can be in no slot but that of its handle (SlotOfHandle), that whoever   *)
(* wakes a thread or expires a job has emptied that slot first             *)
(* (OutOfSlot), that a request is entered once, when it is new (Fresh),    *)
(* and that freeing ends it, but for the exceptions (FreedIsDone).         *)
(*                                                                         *)
(* The second half is about answers: they reach the request they answer,   *)
(* and success is reported only where the firmware has reported it, again  *)
(* but for the exceptions that the properties name.                        *)
(***************************************************************************)
EXTENDS AsyncSrb, TLAPS

Shape ==
  /\ slot \in [Handles -> Srbs \cup {NoSrb}]
  /\ frees \in [Srbs -> Nat]
  /\ phase \in [Srbs -> {"new", "ready", "issued", "expired", "done"}]
  /\ timer \in [Srbs -> {"off", "armed", "begun", "ran"}]
  /\ handle \in [Srbs -> Handles \cup {NoHandle}]
  /\ current \in Handles
  /\ woken \subseteq Srbs

\* What is in a slot has that handle, and has been sent or given up for want
\* of room.
SlotOfHandle ==
  \A h \in Handles : slot[h] # NoSrb =>
    /\ handle[slot[h]] = h
    /\ phase[slot[h]] = "issued" \/ slot[h] \in unroomed

\* Before it is sent a request has no handle and nobody to free it.
Fresh ==
  \A s \in Srbs : phase[s] \in {"new", "ready"} =>
    /\ handle[s] = NoHandle /\ frees[s] = 0
    /\ s \notin woken /\ timer[s] \in {"off", "armed"}

\* Answers and timers come with a handle.
HasHandle ==
  /\ fw \subseteq Srbs
  /\ \A s \in Srbs :
       s \in fw \/ phase[s] = "issued" \/ timer[s] = "begun" => handle[s] # NoHandle

\* What a thread or the transport is about to free is in no slot.
OutOfSlot ==
  \A s \in Srbs : s \in woken \/ phase[s] = "expired" => \A h \in Handles : slot[h] # s

\* The exceptions of FreedOnce.
Excepted(s) == (kind[s] \in Awaited /\ TimedOut(s)) \/ s \in late \/ s \in unroomed

FreedIsDone == \A s \in Srbs : frees[s] > 0 => phase[s] = "done" \/ Excepted(s)

IInv == /\ Shape /\ SlotOfHandle /\ Fresh /\ HasHandle /\ OutOfSlot
        /\ SlotsAreLive /\ FreedIsDone /\ FreedOnce
--------------------------------------------------------------------------
LEMMA HandlesPositive == NoHandle \notin Handles
BY DEF NoHandle, Handles

LEMMA TurnInHandles ==
  ASSUME current \in Handles, NEW d \in Handles
  PROVE  Turn(d) \in Handles
BY AsyncSrbAssumption DEF Turn, Handles

LEMMA InitInv == Init => IInv
BY AsyncSrbAssumption, HandlesPositive
DEF Init, IInv, Shape, SlotOfHandle, Fresh, HasHandle, OutOfSlot, SlotsAreLive,
    FreedIsDone, FreedOnce, NoHandle

\* alloc_iocbs takes a slot that is empty.
LEMMA EntersEmpty ==
  ASSUME IInv, NEW s \in Srbs, alloc_iocbs(s)
  PROVE  \E h \in Handles : slot[h] = NoSrb /\ Enter(s, h)
<1>1. PICK d \in FreeTurns : Enter(s, Turn(d))
  BY DEF alloc_iocbs
<1>2. d \in Handles /\ slot[Turn(d)] = NoSrb
  BY DEF FreeTurns
<1>3. Turn(d) \in Handles
  BY <1>2, TurnInHandles DEF IInv, Shape
<1> QED BY <1>1, <1>2, <1>3

--------------------------------------------------------------------------
(* Each action keeps the invariant.                                        *)
USE AsyncSrbAssumption, HandlesPositive

\* The request is made.
LEMMA GetSpStep ==
  ASSUME IInv, NEW s \in Srbs, GetSp(s)
  PROVE  IInv'
<1> USE DEF IInv, GetSp
<1>1. Shape'
  BY DEF Shape, slotVars, waitVars, seenVars
<1>2. SlotOfHandle'
  BY DEF SlotOfHandle, slotVars, waitVars, seenVars
<1>3. Fresh'
  BY DEF Fresh, slotVars, waitVars, seenVars
<1>4. HasHandle'
  BY DEF HasHandle, slotVars, waitVars, seenVars
<1>5. OutOfSlot'
  BY DEF OutOfSlot, slotVars, waitVars, seenVars
<1>6. SlotsAreLive'
  BY DEF SlotsAreLive, slotVars, waitVars, seenVars
<1>7. FreedIsDone'
  BY DEF
    Fresh, FreedIsDone, Excepted, TimedOut, slotVars, waitVars, seenVars
<1>8. FreedOnce'
  BY DEF Fresh, FreedOnce, TimedOut, slotVars, waitVars, seenVars
<1> QED BY <1>1, <1>2, <1>3, <1>4, <1>5, <1>6, <1>7, <1>8

\* The request enters the slot of a free handle.
LEMMA StartSpStep ==
  ASSUME IInv, NEW s \in Srbs, StartSp(s)
  PROVE  IInv'
<1> USE DEF IInv, StartSp
<1> PICK h \in Handles : slot[h] = NoSrb /\ Enter(s, h)
  BY EntersEmpty
<1>1. Shape'
  BY DEF Shape, slotVars, waitVars, seenVars, Enter
<1>2. SlotOfHandle'
  BY DEF Shape, SlotOfHandle, Fresh, slotVars, waitVars, seenVars, Enter
<1>3. Fresh'
  BY DEF Shape, Fresh, slotVars, waitVars, seenVars, Enter
<1>4. HasHandle'
  BY DEF Shape, HasHandle, slotVars, waitVars, seenVars, Enter
<1>5. OutOfSlot'
  BY DEF Fresh, OutOfSlot, slotVars, waitVars, seenVars, Enter
<1>6. SlotsAreLive'
  BY DEF Fresh, SlotsAreLive, slotVars, waitVars, seenVars, Enter
<1>7. FreedIsDone'
  BY DEF
    FreedIsDone, Excepted, TimedOut, slotVars, waitVars, seenVars, Enter
<1>8. FreedOnce'
  BY DEF FreedOnce, TimedOut, slotVars, waitVars, seenVars, Enter
<1> QED BY <1>1, <1>2, <1>3, <1>4, <1>5, <1>6, <1>7, <1>8

\* A new request, which is in no slot, is freed.
LEMMA NoHandleFreeStep ==
  ASSUME IInv, NEW s \in Srbs, NoHandleFree(s)
  PROVE  IInv'
<1> USE DEF IInv, NoHandleFree
<1>1. Shape'
  BY DEF Shape, slotVars, waitVars, seenVars, Free, Ended
<1>2. SlotOfHandle'
  BY DEF Shape, SlotOfHandle, slotVars, waitVars, seenVars, Free, Ended
<1>3. Fresh'
  BY DEF Fresh, slotVars, waitVars, seenVars, Free, Ended
<1>4. HasHandle'
  BY DEF HasHandle, slotVars, waitVars, seenVars, Free, Ended
<1>5. OutOfSlot'
  BY DEF OutOfSlot, slotVars, waitVars, seenVars, Free, Ended
<1>6. SlotsAreLive'
  BY DEF
    Shape, SlotOfHandle, SlotsAreLive, slotVars, waitVars, seenVars, Free,
    Ended
<1>7. FreedIsDone'
  BY DEF
    FreedIsDone, Excepted, TimedOut, slotVars, waitVars, seenVars, Free,
    Ended
<1>8. FreedOnce'
  BY DEF
    Fresh, FreedOnce, TimedOut, slotVars, waitVars, seenVars, Free, Ended
<1> QED BY <1>1, <1>2, <1>3, <1>4, <1>5, <1>6, <1>7, <1>8

\* The request enters a slot and is freed: the exception.
LEMMA NoRoomStep ==
  ASSUME IInv, NEW s \in Srbs, NoRoom(s)
  PROVE  IInv'
<1> USE DEF IInv, NoRoom
<1> PICK h \in Handles : slot[h] = NoSrb /\ Enter(s, h)
  BY EntersEmpty
<1>1. Shape'
  BY DEF Shape, slotVars, waitVars, seenVars, Enter, Free, Ended
<1>2. SlotOfHandle'
  BY DEF
    Shape, SlotOfHandle, Fresh, slotVars, waitVars, seenVars, Enter, Free,
    Ended
<1>3. Fresh'
  BY DEF Fresh, slotVars, waitVars, seenVars, Enter, Free, Ended
<1>4. HasHandle'
  BY DEF HasHandle, slotVars, waitVars, seenVars, Enter, Free, Ended
<1>5. OutOfSlot'
  BY DEF Fresh, OutOfSlot, slotVars, waitVars, seenVars, Enter, Free, Ended
<1>6. SlotsAreLive'
  BY DEF
    Shape, SlotsAreLive, slotVars, waitVars, seenVars, Enter, Free, Ended
<1>7. FreedIsDone'
  BY DEF
    FreedIsDone, Excepted, TimedOut, slotVars, waitVars, seenVars, Enter,
    Free, Ended
<1>8. FreedOnce'
  BY DEF
    FreedOnce, TimedOut, slotVars, waitVars, seenVars, Enter, Free, Ended
<1> QED BY <1>1, <1>2, <1>3, <1>4, <1>5, <1>6, <1>7, <1>8

\* What the answer ends has left its slot, and was not new.
LEMMA ResponseStep ==
  ASSUME IInv, NEW s \in Srbs, Response(s)
  PROVE  IInv'
<1> USE DEF IInv, Response
<1>1. Shape'
  BY DEF
    Shape, HasHandle, slotVars, waitVars, seenVars, Done, Free, Ended,
    get_sp_from_handle
<1>2. SlotOfHandle'
  BY DEF
    Shape, SlotOfHandle, slotVars, waitVars, seenVars, Done, Free, Ended,
    get_sp_from_handle
<1>3. Fresh'
  BY DEF
    Fresh, HasHandle, slotVars, waitVars, seenVars, Done, Free, Ended,
    get_sp_from_handle
<1>4. HasHandle'
  BY DEF
    HasHandle, slotVars, waitVars, seenVars, Done, Free, Ended,
    get_sp_from_handle
<1>5. OutOfSlot'
  BY DEF
    Shape, SlotOfHandle, OutOfSlot, slotVars, waitVars, seenVars, Done, Free,
    Ended, get_sp_from_handle
<1>6. SlotsAreLive'
  BY DEF
    Shape, SlotOfHandle, SlotsAreLive, slotVars, waitVars, seenVars, Done,
    Free, Ended, get_sp_from_handle
<1>7. FreedIsDone'
  BY DEF
    FreedIsDone, Excepted, TimedOut, slotVars, waitVars, seenVars, Done,
    Free, Ended, get_sp_from_handle
<1>8. FreedOnce'
  BY DEF
    Shape, HasHandle, SlotsAreLive, FreedOnce, TimedOut, slotVars, waitVars,
    seenVars, Done, Free, Ended, get_sp_from_handle
<1> QED BY <1>1, <1>2, <1>3, <1>4, <1>5, <1>6, <1>7, <1>8

\* The thread frees what is in no slot.
LEMMA WakeStep ==
  ASSUME IInv, NEW s \in Srbs, Wake(s)
  PROVE  IInv'
<1> USE DEF IInv, Wake
<1>1. Shape'
  BY DEF Shape, slotVars, waitVars, seenVars, Free, Ended
<1>2. SlotOfHandle'
  BY DEF
    Shape, SlotOfHandle, OutOfSlot, slotVars, waitVars, seenVars, Free,
    Ended
<1>3. Fresh'
  BY DEF Fresh, slotVars, waitVars, seenVars, Free, Ended
<1>4. HasHandle'
  BY DEF HasHandle, slotVars, waitVars, seenVars, Free, Ended
<1>5. OutOfSlot'
  BY DEF OutOfSlot, slotVars, waitVars, seenVars, Free, Ended
<1>6. SlotsAreLive'
  BY DEF
    Shape, OutOfSlot, SlotsAreLive, slotVars, waitVars, seenVars, Free,
    Ended
<1>7. FreedIsDone'
  BY DEF
    FreedIsDone, Excepted, TimedOut, slotVars, waitVars, seenVars, Free,
    Ended
<1>8. FreedOnce'
  BY DEF
    Shape, FreedIsDone, FreedOnce, Excepted, TimedOut, slotVars, waitVars,
    seenVars, Free, Ended
<1> QED BY <1>1, <1>2, <1>3, <1>4, <1>5, <1>6, <1>7, <1>8

\* The handler begins.
LEMMA TimerExpiresStep ==
  ASSUME IInv, NEW s \in Srbs, TimerExpires(s)
  PROVE  IInv'
<1> USE DEF IInv, TimerExpires
<1>1. Shape'
  BY DEF Shape, slotVars, waitVars, seenVars
<1>2. SlotOfHandle'
  BY DEF SlotOfHandle, slotVars, waitVars, seenVars
<1>3. Fresh'
  BY DEF Fresh, slotVars, waitVars, seenVars
<1>4. HasHandle'
  BY DEF HasHandle, slotVars, waitVars, seenVars
<1>5. OutOfSlot'
  BY DEF OutOfSlot, slotVars, waitVars, seenVars
<1>6. SlotsAreLive'
  BY DEF SlotsAreLive, slotVars, waitVars, seenVars
<1>7. FreedIsDone'
  BY DEF FreedIsDone, Excepted, TimedOut, slotVars, waitVars, seenVars
<1>8. FreedOnce'
  BY DEF FreedOnce, TimedOut, slotVars, waitVars, seenVars
<1> QED BY <1>1, <1>2, <1>3, <1>4, <1>5, <1>6, <1>7, <1>8

\* The handler empties the slot of the handle, so that what it frees is in none;
\* what was freed before is late.
LEMMA TimerRunsStep ==
  ASSUME IInv, NEW s \in Srbs, TimerRuns(s)
  PROVE  IInv'
<1> USE DEF IInv, TimerRuns
<1>1. Shape'
  BY DEF Shape, HasHandle, slotVars, waitVars, seenVars, Ended
<1>2. SlotOfHandle'
  BY DEF Shape, SlotOfHandle, slotVars, waitVars, seenVars, Ended
<1>3. Fresh'
  BY DEF Fresh, slotVars, waitVars, seenVars, Ended
<1>4. HasHandle'
  BY DEF HasHandle, slotVars, waitVars, seenVars, Ended
<1>5. OutOfSlot'
  BY DEF Shape, SlotOfHandle, OutOfSlot, slotVars, waitVars, seenVars, Ended
<1>6. SlotsAreLive'
  BY DEF
    Shape, SlotOfHandle, SlotsAreLive, slotVars, waitVars, seenVars, Ended
<1>7. FreedIsDone'
  BY DEF
    Shape, Fresh, HasHandle, OutOfSlot, FreedIsDone, Excepted, TimedOut,
    slotVars, waitVars, seenVars, Ended
<1>8. FreedOnce'
  BY DEF
    Shape, HasHandle, SlotsAreLive, FreedOnce, TimedOut, slotVars, waitVars,
    seenVars, Ended
<1> QED BY <1>1, <1>2, <1>3, <1>4, <1>5, <1>6, <1>7, <1>8

\* The job leaves its slot.
LEMMA BsgTimeoutStep ==
  ASSUME IInv, NEW s \in Srbs, BsgTimeout(s)
  PROVE  IInv'
<1> USE DEF IInv, BsgTimeout
<1>1. Shape'
  BY DEF Shape, slotVars, waitVars, seenVars
<1>2. SlotOfHandle'
  BY DEF Shape, SlotOfHandle, slotVars, waitVars, seenVars
<1>3. Fresh'
  BY DEF Fresh, slotVars, waitVars, seenVars
<1>4. HasHandle'
  BY DEF HasHandle, slotVars, waitVars, seenVars
<1>5. OutOfSlot'
  BY DEF Shape, SlotOfHandle, OutOfSlot, slotVars, waitVars, seenVars
<1>6. SlotsAreLive'
  BY DEF SlotsAreLive, slotVars, waitVars, seenVars
<1>7. FreedIsDone'
  BY DEF FreedIsDone, Excepted, TimedOut, slotVars, waitVars, seenVars
<1>8. FreedOnce'
  BY DEF FreedOnce, TimedOut, slotVars, waitVars, seenVars
<1> QED BY <1>1, <1>2, <1>3, <1>4, <1>5, <1>6, <1>7, <1>8

\* A job that has left its slot is freed.
LEMMA BsgTimeoutDoneStep ==
  ASSUME IInv, NEW s \in Srbs, BsgTimeoutDone(s)
  PROVE  IInv'
<1> USE DEF IInv, BsgTimeoutDone
<1>1. Shape'
  BY DEF Shape, slotVars, waitVars, seenVars, Free, Ended
<1>2. SlotOfHandle'
  BY DEF Shape, SlotOfHandle, slotVars, waitVars, seenVars, Free, Ended
<1>3. Fresh'
  BY DEF Fresh, slotVars, waitVars, seenVars, Free, Ended
<1>4. HasHandle'
  BY DEF HasHandle, slotVars, waitVars, seenVars, Free, Ended
<1>5. OutOfSlot'
  BY DEF OutOfSlot, slotVars, waitVars, seenVars, Free, Ended
<1>6. SlotsAreLive'
  BY DEF
    Shape, OutOfSlot, SlotsAreLive, slotVars, waitVars, seenVars, Free,
    Ended
<1>7. FreedIsDone'
  BY DEF
    FreedIsDone, Excepted, TimedOut, slotVars, waitVars, seenVars, Free,
    Ended
<1>8. FreedOnce'
  BY DEF
    Shape, FreedIsDone, FreedOnce, Excepted, TimedOut, slotVars, waitVars,
    seenVars, Free, Ended
<1> QED BY <1>1, <1>2, <1>3, <1>4, <1>5, <1>6, <1>7, <1>8

\* All slots are emptied; what was in them has not been freed.
LEMMA abort_all_cmdsStep ==
  ASSUME IInv, abort_all_cmds
  PROVE  IInv'
<1> USE DEF IInv, abort_all_cmds
<1>1. Shape'
  BY DEF Shape, slotVars, waitVars, seenVars, Done, Free, Ended
<1>2. SlotOfHandle'
  BY DEF SlotOfHandle, slotVars, waitVars, seenVars, Done, Free, Ended
<1>3. Fresh'
  BY DEF
    SlotOfHandle, Fresh, slotVars, waitVars, seenVars, Done, Free, Ended
<1>4. HasHandle'
  BY DEF HasHandle, slotVars, waitVars, seenVars, Done, Free, Ended
<1>5. OutOfSlot'
  BY DEF OutOfSlot, slotVars, waitVars, seenVars, Done, Free, Ended
<1>6. SlotsAreLive'
  BY DEF SlotsAreLive, slotVars, waitVars, seenVars, Done, Free, Ended
<1>7. FreedIsDone'
  BY DEF
    FreedIsDone, Excepted, TimedOut, slotVars, waitVars, seenVars, Done,
    Free, Ended
<1>8. FreedOnce'
  BY DEF
    SlotsAreLive, FreedOnce, TimedOut, slotVars, waitVars, seenVars, Done,
    Free, Ended
<1> QED BY <1>1, <1>2, <1>3, <1>4, <1>5, <1>6, <1>7, <1>8

--------------------------------------------------------------------------
LEMMA InvStep == IInv /\ [Next]_vars => IInv'
<1> SUFFICES ASSUME IInv, [Next]_vars PROVE IInv'
  OBVIOUS
<1>1. CASE UNCHANGED vars
  BY <1>1 DEF vars, lifeVars, slotVars, waitVars, seenVars, IInv, Shape, SlotOfHandle,
    Fresh, HasHandle, OutOfSlot, SlotsAreLive, FreedIsDone, FreedOnce, Excepted, TimedOut
<1>2. CASE Next
  BY <1>2, GetSpStep, StartSpStep, NoHandleFreeStep, NoRoomStep, ResponseStep, WakeStep,
    TimerExpiresStep, TimerRunsStep, BsgTimeoutStep, BsgTimeoutDoneStep, abort_all_cmdsStep
  DEF Next
<1> QED BY <1>1, <1>2

\* Whoever finds a request in a slot, in interrupt, timer, reset or abort, may
\* use it; and no way of ending a request frees it a second time, but for the
\* exceptions that are named.
THEOREM SrbsAlwaysSound == Spec => []SrbsAreSound
<1>1. IInv => SrbsAreSound
  BY DEF IInv, SrbsAreSound
<1> QED BY InitInv, InvStep, <1>1, PTL DEF Spec

--------------------------------------------------------------------------
(* Answers and their requests.                                             *)
(*                                                                         *)
(* AnswerFindsIt is lost when a slot is emptied or reused, and OwnAnswer   *)
(* when an answer then finds another request; both are excused by what     *)
(* happened to the handle (Displaced), which has to be shown to last: what *)
(* the firmware has said and who was ended by it never change              *)
(* (AnsweredOnce).  A request that sleeps in spite of an answer on the way *)
(* was woken by its timer or by the answer to another (WokenByOther).      *)

Types ==
  /\ kind \in Kinds
  /\ woken \subseteq {s \in Srbs : kind[s] \in Awaited}
  /\ comp_status \in [Srbs -> {"ok", "error", "timeout"}]
  /\ told \in [Srbs -> Results] /\ said \in [Srbs -> Results]
  /\ ender \in [Srbs -> Srbs \cup {NoSrb}]
  /\ late \subseteq Srbs /\ unroomed \subseteq Srbs
  /\ resets \in 0..MaxResets

\* A timer that runs and the end of the request free it, each once; a request
\* that found no room is freed by a second end only while it is in its slot.
Counted ==
  \A s \in Srbs :
    IF s \in unroomed
    THEN /\ phase[s] = "done" /\ timer[s] = "off" /\ frees[s] <= 2
         /\ (\E h \in Handles : slot[h] = s) => frees[s] = 1
    ELSE frees[s] <= (IF timer[s] = "ran" THEN 1 ELSE 0)
                       + (IF phase[s] = "done" THEN 1 ELSE 0)

Unheard ==
  \A s \in Srbs : phase[s] \in {"new", "ready"} =>
    said[s] = "none" /\ ender[s] = NoSrb /\ s \notin late /\ s \notin fw

\* The firmware answers a request once, and an answer ends a request once.
AnsweredOnce ==
  /\ \A s \in fw : said[s] = "none" /\ s \notin unroomed
  /\ \A s \in Srbs : ender[s] # NoSrb => said[ender[s]] # "none"
  /\ \A h \in Handles : slot[h] # NoSrb => ender[slot[h]] = NoSrb

WokenByOther == \A s \in woken \cap fw : timer[s] = "ran" \/ Displaced(s)

\* The reasons of SuccessIsReported.
Reason(s) ==
  \/ said[s] = "ok"
  \/ kind[s] \in Jobs /\ ender[s] # NoSrb
  \/ kind[s] = "tmf" /\ ender[s] # NoSrb
  \/ kind[s] \in Awaited /\ resets > 0
  \/ ender[s] \notin {NoSrb, s}

\* The status a woken thread will read.
StatusIsSound == \A s \in woken : comp_status[s] = "ok" => Reason(s)

AnswersInv ==
  /\ IInv /\ Types /\ Counted /\ Unheard /\ AnsweredOnce /\ WokenByOther
  /\ AnswerFindsIt /\ OwnAnswer /\ StatusIsSound /\ SuccessIsReported

LEMMA AnswersInit == Init => AnswersInv
<1> SUFFICES ASSUME Init PROVE AnswersInv
  OBVIOUS
<1>1. IInv
  BY InitInv
<1>2. Types
  BY DEF Init, Types, Results
<1>3. Counted /\ Unheard
  BY DEF Init, Counted, Unheard
<1>4. AnsweredOnce /\ WokenByOther /\ AnswerFindsIt /\ StatusIsSound
  BY DEF Init, AnsweredOnce, WokenByOther, AnswerFindsIt, StatusIsSound
<1>5. OwnAnswer /\ SuccessIsReported
  BY DEF Init, OwnAnswer, SuccessIsReported
<1> QED BY <1>1, <1>2, <1>3, <1>4, <1>5 DEF AnswersInv

\* What the answer to s does: it is dropped, or the request t in the slot is
\* woken or ended by it.
Dropped(s) ==
  /\ slot[handle[s]] # s
  /\ slot[handle[s]] # NoSrb => ~Recognised(s, slot[handle[s]])
  /\ UNCHANGED <<woken, frees, timer, phase, told, ender, comp_status>>

Heard(s, t, answer) ==
  /\ slot[handle[s]] = t /\ handle[t] = handle[s] /\ Recognised(s, t)
  /\ ender' = [ender EXCEPT ![t] = s]
  /\ comp_status' = IF kind[t] = "abort" THEN [comp_status EXCEPT ![t] = answer]
                                         ELSE comp_status

Wakes(t) ==
  /\ kind[t] \in Awaited
  /\ woken' = woken \cup {t} /\ UNCHANGED <<frees, timer, phase, told>>

Ends(s, t, answer) ==
  /\ kind[t] \notin Awaited
  /\ frees' = [frees EXCEPT ![t] = frees[t] + 1]
  /\ timer' = [timer EXCEPT ![t] = IF timer[t] = "armed" THEN "off" ELSE timer[t]]
  /\ phase' = [phase EXCEPT ![t] = "done"]
  /\ told' = [told EXCEPT ![t] = ReadAs(s, answer)]
  /\ UNCHANGED woken

LEMMA ResponseMeans ==
  ASSUME AnswersInv, NEW s \in Srbs, Response(s)
  PROVE  \E answer \in {"ok", "error"} :
           /\ handle[s] \in Handles
           /\ slot' = [slot EXCEPT ![handle[s]] = NoSrb]
           /\ said' = [said EXCEPT ![s] = answer]
           /\ \/ Dropped(s)
              \/ \E t \in Srbs : Heard(s, t, answer) /\ (Wakes(t) \/ Ends(s, t, answer))
<1>1. /\ Shape /\ SlotOfHandle /\ s \in fw /\ handle[s] \in Handles
      /\ told \in [Srbs -> Results] /\ DOMAIN frees = Srbs
  BY DEF AnswersInv, IInv, HasHandle, Shape, Types, Response
<1> DEFINE t == slot[handle[s]]
           heard == t # NoSrb /\ handle[t] = handle[s] /\ Recognised(s, t)
<1>2. PICK answer \in {"ok", "error"} :
        /\ said' = [said EXCEPT ![s] = answer]
        /\ Done(IF heard THEN {t} ELSE {}, ReadAs(s, answer))
        /\ ender' = IF heard THEN [ender EXCEPT ![t] = s] ELSE ender
        /\ comp_status' = IF heard /\ kind[t] = "abort"
                          THEN [comp_status EXCEPT ![t] = answer] ELSE comp_status
  BY DEF Response
<1>3. slot' = [slot EXCEPT ![handle[s]] = NoSrb]
  BY DEF Response, get_sp_from_handle
<1>4. CASE ~heard
  <2>1. t # s
    BY <1>4 DEF Recognised
  <2>2. t # NoSrb => ~Recognised(s, t)
    BY <1>1, <1>4 DEF SlotOfHandle
  <2>3. Done({}, ReadAs(s, answer)) /\ UNCHANGED <<ender, comp_status>>
    BY <1>2, <1>4
  <2>4. UNCHANGED <<woken, frees, timer, phase, told>>
    BY <1>1, <2>3 DEF Done, Free, Ended, Shape
  <2> QED BY <1>1, <1>2, <1>3, <2>1, <2>2, <2>3, <2>4 DEF Dropped
<1>5. CASE heard
  <2>1. t \in Srbs
    BY <1>1, <1>5 DEF Shape
  <2>2. Done({t}, ReadAs(s, answer))
    BY <1>2, <1>5
  <2>3. Heard(s, t, answer)
    BY <1>2, <1>5 DEF Heard
  <2>4. CASE kind[t] \in Awaited
    <3>1. woken' = woken \cup {t} /\ Free({}) /\ Ended({}, ReadAs(s, answer))
      BY <2>2, <2>4 DEF Done
    <3>2. Wakes(t)
      BY <1>1, <2>4, <3>1 DEF Wakes, Free, Ended, Shape
    <3> QED BY <1>1, <1>2, <1>3, <2>1, <2>3, <3>2
  <2>5. CASE kind[t] \notin Awaited
    <3>1. woken' = woken /\ Free({t}) /\ Ended({t}, ReadAs(s, answer))
      BY <2>2, <2>5 DEF Done
    <3>2. Ends(s, t, answer)
      BY <1>1, <2>1, <2>5, <3>1 DEF Ends, Free, Ended, Shape
    <3> QED BY <1>1, <1>2, <1>3, <2>1, <2>3, <3>2
  <2> QED BY <2>4, <2>5
<1> QED BY <1>4, <1>5

\* What is never taken back.
Lasts(u) ==
  /\ handle[u] # NoHandle => handle'[u] = handle[u]
  /\ u \in late => u \in late'
  /\ said[u] # "none" => said'[u] = said[u]
  /\ ender[u] # NoSrb => ender'[u] # NoSrb
  /\ ender[u] \notin {NoSrb, u} => ender'[u] \notin {NoSrb, u}
  /\ said[u] # "none" /\ ender[u] # u => ender'[u] # u
  /\ GivenUp(u) => GivenUp(u)'

LEMMA Onward ==
  ASSUME AnswersInv, Next
  PROVE  kind' = kind /\ (resets > 0 => resets' > 0) /\ \A u \in Srbs : Lasts(u)
<1>0. /\ IInv /\ Shape /\ Fresh /\ SlotOfHandle /\ Types /\ AnsweredOnce
  BY DEF AnswersInv, IInv
<1>1. ASSUME NEW s \in Srbs,
             GetSp(s) \/ NoHandleFree(s) \/ Wake(s) \/ TimerExpires(s)
               \/ BsgTimeout(s) \/ BsgTimeoutDone(s)
      PROVE  kind' = kind /\ resets' = resets /\ \A u \in Srbs : Lasts(u)
  <2>1. UNCHANGED <<kind, resets, handle, late, said, ender>>
    BY <1>1 DEF GetSp, NoHandleFree, Wake, TimerExpires, BsgTimeout, BsgTimeoutDone,
       slotVars, seenVars
  <2>2. \A u \in Srbs : GivenUp(u) => GivenUp(u)'
    BY <1>0, <1>1 DEF GetSp, NoHandleFree, Wake, TimerExpires, BsgTimeout, BsgTimeoutDone,
       Free, Ended, GivenUp, TimedOut, Shape, Fresh
  <2> QED BY <2>1, <2>2 DEF Lasts
<1>2. ASSUME NEW s \in Srbs, StartSp(s) \/ NoRoom(s)
      PROVE  kind' = kind /\ resets' = resets /\ \A u \in Srbs : Lasts(u)
  <2>1. PICK h \in Handles : Enter(s, h)
    BY <1>0, <1>2, EntersEmpty DEF StartSp, NoRoom
  <2>2. /\ UNCHANGED <<kind, resets, late, said, ender>>
        /\ phase[s] = "ready" /\ handle[s] = NoHandle
    BY <1>0, <1>2 DEF StartSp, NoRoom, seenVars, Fresh
  <2>3. \A u \in Srbs : handle[u] # NoHandle => handle'[u] = handle[u]
    BY <1>0, <2>1, <2>2 DEF Enter, Shape
  <2>4. \A u \in Srbs : GivenUp(u) => GivenUp(u)'
    BY <1>0, <1>2 DEF StartSp, NoRoom, Free, Ended, GivenUp, TimedOut, Shape, Fresh
  <2> QED BY <2>2, <2>3, <2>4 DEF Lasts
<1>3. ASSUME NEW s \in Srbs, Response(s)
      PROVE  kind' = kind /\ resets' = resets /\ \A u \in Srbs : Lasts(u)
  <2>1. PICK answer \in {"ok", "error"} :
          /\ handle[s] \in Handles
          /\ said' = [said EXCEPT ![s] = answer]
          /\ \/ Dropped(s)
             \/ \E t \in Srbs : Heard(s, t, answer) /\ (Wakes(t) \/ Ends(s, t, answer))
    BY <1>3, ResponseMeans
  <2>2. s \in fw /\ said[s] = "none" /\ UNCHANGED <<kind, resets, handle, late>>
    BY <1>0, <1>3 DEF Response, AnsweredOnce
  <2>3. \A u \in Srbs : said[u] # "none" => said'[u] = said[u]
    BY <1>0, <2>1, <2>2 DEF Types
  <2>4. CASE Dropped(s)
    BY <2>2, <2>3, <2>4 DEF Dropped, Lasts, GivenUp, TimedOut
  <2>5. ASSUME NEW t \in Srbs, Heard(s, t, answer), Wakes(t) \/ Ends(s, t, answer)
        PROVE  \A u \in Srbs : Lasts(u)
    <3>1. \A u \in Srbs : ender'[u] = IF u = t THEN s ELSE ender[u]
      BY <1>0, <2>5 DEF Heard, Types
    <3>2. ender[t] = NoSrb
      BY <1>0, <2>1, <2>5 DEF Heard, AnsweredOnce
    <3>3. \A u \in Srbs : GivenUp(u) => GivenUp(u)'
      BY <1>0, <2>5 DEF Wakes, Ends, GivenUp, TimedOut, Shape
    <3> QED BY <2>2, <2>3, <3>1, <3>2, <3>3 DEF Lasts
  <2> QED BY <2>1, <2>2, <2>4, <2>5
<1>4. ASSUME NEW s \in Srbs, TimerRuns(s)
      PROVE  kind' = kind /\ resets' = resets /\ \A u \in Srbs : Lasts(u)
  <2>1. UNCHANGED <<kind, resets, handle, said, ender>> /\ late \subseteq late'
    BY <1>4 DEF TimerRuns
  <2>2. \A u \in Srbs : GivenUp(u) => GivenUp(u)'
    BY <1>0, <1>4 DEF TimerRuns, Ended, GivenUp, TimedOut, Shape
  <2> QED BY <2>1, <2>2 DEF Lasts
<1>5. CASE abort_all_cmds
  <2>1. UNCHANGED <<kind, handle, late, said, ender>> /\ resets' = resets + 1
    BY <1>5 DEF abort_all_cmds
  <2>2. \A u \in Srbs : GivenUp(u) => GivenUp(u)'
    BY <1>0, <1>5 DEF abort_all_cmds, Done, Free, Ended, GivenUp, TimedOut, Shape
  <2> QED BY <1>0, <2>1, <2>2 DEF Lasts, Types
<1>6. resets \in Nat
  BY <1>0 DEF Types
<1> QED BY <1>1, <1>2, <1>3, <1>4, <1>5, <1>6 DEF Next

LEMMA DisplacedLasts ==
  ASSUME AnswersInv, Next, NEW s \in Srbs, handle[s] # NoHandle, Displaced(s)
  PROVE  Displaced(s)'
<1>1. PICK u \in Srbs \ {s} :
        handle[u] = handle[s] /\ (u \in late \/ (said[u] # "none" /\ ender[u] # u))
  BY DEF Displaced
<1>2. Lasts(u) /\ Lasts(s)
  BY <1>1, Onward
<1>3. handle'[u] = handle'[s] /\ (u \in late' \/ (said'[u] # "none" /\ ender'[u] # u))
  BY <1>1, <1>2 DEF Lasts
<1> QED BY <1>1, <1>3 DEF Displaced

LEMMA ReasonLasts ==
  ASSUME AnswersInv, Next, NEW s \in Srbs, Reason(s)
  PROVE  Reason(s)'
<1>1. Lasts(s) /\ kind' = kind /\ (resets > 0 => resets' > 0)
  BY Onward
<1> QED BY <1>1 DEF Reason, Lasts

--------------------------------------------------------------------------
(* Each part of AnswersInv is kept.                                        *)

LEMMA TypesStep ==
  ASSUME AnswersInv, Next
  PROVE  Types'
<1> USE DEF Types
<1>0. IInv /\ Types /\ SlotOfHandle /\ {"ok", "error"} \subseteq Results
  BY DEF AnswersInv, IInv, Results
<1>1. ASSUME NEW s \in Srbs,
             GetSp(s) \/ StartSp(s) \/ TimerExpires(s) \/ BsgTimeout(s)
      PROVE  Types'
  BY <1>0, <1>1, EntersEmpty DEF GetSp, StartSp, TimerExpires, BsgTimeout, Enter, slotVars,
     waitVars, seenVars
<1>2. ASSUME NEW s \in Srbs, NoHandleFree(s) \/ NoRoom(s) \/ Wake(s) \/ BsgTimeoutDone(s)
      PROVE  Types'
  <2>1. told' \in [Srbs -> Results]
    BY <1>0, <1>2 DEF NoHandleFree, NoRoom, Wake, BsgTimeoutDone, Ended
  <2> QED BY <1>0, <1>2, <2>1 DEF NoHandleFree, NoRoom, Wake, BsgTimeoutDone, slotVars,
     waitVars
<1>3. ASSUME NEW s \in Srbs, Response(s)
      PROVE  Types'
  <2>1. PICK answer \in {"ok", "error"} :
          /\ said' = [said EXCEPT ![s] = answer]
          /\ \/ Dropped(s)
             \/ \E t \in Srbs : Heard(s, t, answer) /\ (Wakes(t) \/ Ends(s, t, answer))
    BY <1>3, ResponseMeans
  <2>2. said' \in [Srbs -> Results] /\ UNCHANGED <<kind, unroomed, late, resets>>
    BY <1>0, <1>3, <2>1 DEF Response
  <2>3. CASE Dropped(s)
    BY <1>0, <2>2, <2>3 DEF Dropped
  <2>4. ASSUME NEW t \in Srbs, Heard(s, t, answer), Wakes(t) \/ Ends(s, t, answer)
        PROVE  Types'
    <3>1. ender' \in [Srbs -> Srbs \cup {NoSrb}]
      BY <1>0, <2>4 DEF Heard
    <3>2. comp_status' \in [Srbs -> {"ok", "error", "timeout"}]
      BY <1>0, <2>4 DEF Heard
    <3>3. told' \in [Srbs -> Results]
      BY <1>0, <2>4 DEF Wakes, Ends, ReadAs
    <3> QED BY <1>0, <2>2, <2>4, <3>1, <3>2, <3>3 DEF Wakes, Ends
  <2> QED BY <2>1, <2>3, <2>4
<1>4. ASSUME NEW s \in Srbs, TimerRuns(s)
      PROVE  Types'
  BY <1>0, <1>4 DEF TimerRuns, Ended, waitVars
<1>5. CASE abort_all_cmds
  <2>1. told' \in [Srbs -> Results] /\ resets' \in 0..MaxResets
    BY <1>0, <1>5 DEF abort_all_cmds, Done, Ended
  <2>2. woken' \subseteq {s \in Srbs : kind[s] \in Awaited}
    BY <1>0, <1>5 DEF abort_all_cmds, Done, AnswersInv, IInv, Shape
  <2> QED BY <1>0, <1>5, <2>1, <2>2 DEF abort_all_cmds
<1> QED BY <1>1, <1>2, <1>3, <1>4, <1>5 DEF Next

LEMMA CountedStep ==
  ASSUME AnswersInv, Next
  PROVE  Counted'
<1> USE DEF Counted
<1>0. /\ IInv /\ Shape /\ SlotOfHandle /\ Fresh /\ OutOfSlot /\ SlotsAreLive
      /\ Types /\ Counted
  BY DEF AnswersInv, IInv
<1>1. ASSUME NEW s \in Srbs, GetSp(s)
      PROVE  Counted'
  BY <1>0, <1>1 DEF GetSp, slotVars, Shape, Fresh
<1>2. ASSUME NEW s \in Srbs, StartSp(s)
      PROVE  Counted'
  <2>1. PICK h \in Handles : slot[h] = NoSrb /\ Enter(s, h)
    BY <1>0, <1>2, EntersEmpty DEF StartSp
  <2> QED BY <1>0, <1>2, <2>1 DEF StartSp, Enter, Shape, Fresh
<1>3. ASSUME NEW s \in Srbs, NoHandleFree(s)
      PROVE  Counted'
  BY <1>0, <1>3 DEF NoHandleFree, Free, Ended, slotVars, Shape, Fresh
<1>4. ASSUME NEW s \in Srbs, NoRoom(s)
      PROVE  Counted'
  <2>1. PICK h \in Handles : slot[h] = NoSrb /\ Enter(s, h)
    BY <1>0, <1>4, EntersEmpty DEF NoRoom
  <2> QED BY <1>0, <1>4, <2>1 DEF NoRoom, Free, Ended, Enter, Shape, Fresh
<1>5. ASSUME NEW s \in Srbs, Response(s)
      PROVE  Counted'
  <2>1. PICK answer \in {"ok", "error"} :
          /\ handle[s] \in Handles
          /\ slot' = [slot EXCEPT ![handle[s]] = NoSrb]
          /\ \/ Dropped(s)
             \/ \E t \in Srbs : Heard(s, t, answer) /\ (Wakes(t) \/ Ends(s, t, answer))
    BY <1>5, ResponseMeans
  <2>2. UNCHANGED unroomed
    BY <1>5 DEF Response
  <2>3. CASE Dropped(s)
    BY <1>0, <2>1, <2>2, <2>3 DEF Dropped, Shape
  <2>4. ASSUME NEW t \in Srbs, Heard(s, t, answer), Wakes(t) \/ Ends(s, t, answer)
        PROVE  Counted'
    <3>1. CASE Wakes(t)
      BY <1>0, <2>1, <2>2, <3>1 DEF Wakes, Shape
    <3>2. CASE Ends(s, t, answer)
      BY <1>0, <2>1, <2>2, <2>4, <3>2 DEF Heard, Ends, Shape, SlotOfHandle
    <3> QED BY <2>4, <3>1, <3>2
  <2> QED BY <2>1, <2>3, <2>4
<1>6. ASSUME NEW s \in Srbs, Wake(s)
      PROVE  Counted'
  BY <1>0, <1>6 DEF Wake, Free, Ended, slotVars, Shape
<1>7. ASSUME NEW s \in Srbs, TimerExpires(s)
      PROVE  Counted'
  BY <1>0, <1>7 DEF TimerExpires, slotVars, Shape
<1>8. ASSUME NEW s \in Srbs, TimerRuns(s)
      PROVE  Counted'
  BY <1>0, <1>8 DEF TimerRuns, Ended, Shape
<1>9. ASSUME NEW s \in Srbs, BsgTimeout(s)
      PROVE  Counted'
  BY <1>0, <1>9 DEF BsgTimeout, Shape
<1>10. ASSUME NEW s \in Srbs, BsgTimeoutDone(s)
      PROVE  Counted'
  BY <1>0, <1>10 DEF BsgTimeoutDone, Free, Ended, slotVars, Shape
<1>11. CASE abort_all_cmds
  BY <1>0, <1>11 DEF abort_all_cmds, Done, Free, Ended, Shape, SlotOfHandle
<1> QED BY <1>1, <1>2, <1>3, <1>4, <1>5, <1>6, <1>7, <1>8, <1>9, <1>10, <1>11 DEF Next

\* How the steps move what the following lemmas speak of.
LEMMA Quiet ==
  ASSUME AnswersInv, NEW s \in Srbs,
         GetSp(s) \/ NoHandleFree(s) \/ Wake(s) \/ TimerExpires(s) \/ BsgTimeoutDone(s)
  PROVE  /\ UNCHANGED <<kind, slot, handle, fw, woken, comp_status, said, ender, late,
                       unroomed, resets>>
         /\ \A u \in Srbs : /\ timer[u] = "ran" <=> timer'[u] = "ran"
                            /\ phase'[u] # phase[u] => phase'[u] \in {"ready", "done"}
                            /\ phase'[u] = "ready" => phase[u] \in {"new", "ready"}
<1>0. Shape /\ Fresh
  BY DEF AnswersInv, IInv
<1>1. CASE GetSp(s)
  BY <1>0, <1>1 DEF GetSp, slotVars, waitVars, seenVars, Shape, Fresh
<1>2. CASE TimerExpires(s)
  BY <1>0, <1>2 DEF TimerExpires, slotVars, waitVars, seenVars, Shape
<1>3. CASE NoHandleFree(s)
  BY <1>0, <1>3 DEF NoHandleFree, slotVars, waitVars, Free, Ended, Shape
<1>4. CASE Wake(s)
  BY <1>0, <1>4 DEF Wake, slotVars, waitVars, Free, Ended, Shape
<1>5. CASE BsgTimeoutDone(s)
  BY <1>0, <1>5 DEF BsgTimeoutDone, slotVars, waitVars, Free, Ended, Shape
<1> QED BY <1>1, <1>2, <1>3, <1>4, <1>5

LEMMA UnheardStep ==
  ASSUME AnswersInv, Next
  PROVE  Unheard'
<1> USE DEF Unheard
<1>0. /\ IInv /\ Shape /\ SlotOfHandle /\ Fresh /\ HasHandle /\ Types /\ Unheard
      /\ AnsweredOnce
  BY DEF AnswersInv, IInv
<1>1. ASSUME NEW s \in Srbs,
             GetSp(s) \/ NoHandleFree(s) \/ Wake(s) \/ TimerExpires(s) \/ BsgTimeoutDone(s)
      PROVE  Unheard'
  <2>1. GetSp(s) => phase[s] = "new"
    BY DEF GetSp
  <2> QED BY <1>0, <1>1, Quiet DEF GetSp, NoHandleFree, Wake, TimerExpires, BsgTimeoutDone,
             Free, Ended, Shape
<1>2. ASSUME NEW s \in Srbs, StartSp(s) \/ NoRoom(s)
      PROVE  Unheard'
  BY <1>0, <1>2 DEF StartSp, NoRoom, Ended, Free, Shape, seenVars
<1>3. ASSUME NEW s \in Srbs, Response(s)
      PROVE  Unheard'
  <2>1. PICK answer \in {"ok", "error"} :
          /\ handle[s] \in Handles
          /\ said' = [said EXCEPT ![s] = answer]
          /\ \/ Dropped(s)
             \/ \E t \in Srbs : Heard(s, t, answer) /\ (Wakes(t) \/ Ends(s, t, answer))
    BY <1>3, ResponseMeans
  <2>2. s \in fw /\ phase[s] \notin {"new", "ready"} /\ fw' = fw \ {s} /\ UNCHANGED late
    BY <1>0, <1>3 DEF Response
  <2>3. CASE Dropped(s)
    BY <1>0, <2>1, <2>2, <2>3 DEF Dropped, Types
  <2>4. ASSUME NEW t \in Srbs, Heard(s, t, answer), Wakes(t) \/ Ends(s, t, answer)
        PROVE  Unheard'
    <3>1. phase[t] \notin {"new", "ready"}
      BY <1>0, <2>1, <2>4 DEF Heard, SlotOfHandle, Fresh
    <3>2. phase'[s] = phase[s] \/ phase'[s] = "done"
      BY <1>0, <2>4 DEF Wakes, Ends, Shape
    <3>3. \A u \in Srbs : phase'[u] \in {"new", "ready"} => u # t /\ u # s /\ phase'[u] = phase[u]
      BY <1>0, <2>2, <2>4, <3>1, <3>2 DEF Wakes, Ends, Shape
    <3> QED BY <1>0, <2>1, <2>2, <2>4, <3>3 DEF Heard, Types
  <2> QED BY <2>1, <2>3, <2>4
<1>4. ASSUME NEW s \in Srbs, TimerRuns(s)
      PROVE  Unheard'
  BY <1>0, <1>4 DEF TimerRuns, Ended, Fresh, Shape
<1>5. ASSUME NEW s \in Srbs, BsgTimeout(s)
      PROVE  Unheard'
  BY <1>0, <1>5 DEF BsgTimeout, Shape, seenVars
<1>6. CASE abort_all_cmds
  BY <1>0, <1>6 DEF abort_all_cmds, Done, Ended, Shape
<1> QED BY <1>1, <1>2, <1>3, <1>4, <1>5, <1>6 DEF Next

LEMMA AnsweredOnceStep ==
  ASSUME AnswersInv, Next
  PROVE  AnsweredOnce'
<1> USE DEF AnsweredOnce
<1>0. /\ IInv /\ Shape /\ SlotOfHandle /\ Fresh /\ HasHandle /\ Types /\ Unheard
      /\ Counted /\ AnsweredOnce
  BY DEF AnswersInv, IInv
<1>1. ASSUME NEW s \in Srbs,
             GetSp(s) \/ NoHandleFree(s) \/ Wake(s) \/ TimerExpires(s) \/ BsgTimeoutDone(s)
      PROVE  AnsweredOnce'
  BY <1>0, <1>1, Quiet
<1>2. ASSUME NEW s \in Srbs, StartSp(s) \/ NoRoom(s)
      PROVE  AnsweredOnce'
  <2>1. PICK h \in Handles : slot[h] = NoSrb /\ Enter(s, h)
    BY <1>0, <1>2, EntersEmpty DEF StartSp, NoRoom
  <2>2. said[s] = "none" /\ ender[s] = NoSrb /\ s \notin fw /\ s \notin unroomed
    BY <1>0, <1>2 DEF StartSp, NoRoom, Unheard, Counted
  <2>3. /\ UNCHANGED <<said, ender>>
        /\ \/ fw' = fw \cup {s} /\ unroomed' = unroomed
           \/ fw' = fw /\ unroomed' = unroomed \cup {s}
    BY <1>2 DEF StartSp, NoRoom, seenVars
  <2> QED BY <1>0, <2>1, <2>2, <2>3 DEF Enter, Shape
<1>3. ASSUME NEW s \in Srbs, Response(s)
      PROVE  AnsweredOnce'
  <2>1. PICK answer \in {"ok", "error"} :
          /\ handle[s] \in Handles
          /\ slot' = [slot EXCEPT ![handle[s]] = NoSrb]
          /\ said' = [said EXCEPT ![s] = answer]
          /\ \/ Dropped(s)
             \/ \E t \in Srbs : Heard(s, t, answer) /\ (Wakes(t) \/ Ends(s, t, answer))
    BY <1>3, ResponseMeans
  <2>2. s \in fw /\ fw' = fw \ {s} /\ UNCHANGED unroomed
    BY <1>0, <1>3 DEF Response
  <2>3. CASE Dropped(s)
    BY <1>0, <2>1, <2>2, <2>3 DEF Dropped, Types, Shape, HasHandle
  <2>4. ASSUME NEW t \in Srbs, Heard(s, t, answer)
        PROVE  AnsweredOnce'
    <3>1. \A h \in Handles : slot'[h] # NoSrb => slot'[h] = slot[h] /\ slot[h] # t
      BY <1>0, <2>1, <2>4 DEF Heard, Shape, SlotOfHandle
    <3>2. \A u \in Srbs : ender'[u] = IF u = t THEN s ELSE ender[u]
      BY <1>0, <2>4 DEF Heard, Types
    <3>3. \A u \in Srbs : said'[u] = IF u = s THEN answer ELSE said[u]
      BY <1>0, <2>1 DEF Types
    <3>4. \A u \in Srbs : ender[u] # NoSrb => ender[u] \in Srbs
      BY <1>0 DEF Types
    <3>5. \A h \in Handles : slot[h] # NoSrb => slot[h] \in Srbs
      BY <1>0 DEF Shape
    <3> QED BY <1>0, <2>2, <3>1, <3>2, <3>3, <3>4, <3>5 DEF HasHandle
  <2> QED BY <2>1, <2>3, <2>4
<1>4. ASSUME NEW s \in Srbs, TimerRuns(s) \/ BsgTimeout(s)
      PROVE  AnsweredOnce'
  <2>1. slot' = [slot EXCEPT ![handle[s]] = NoSrb] /\ UNCHANGED <<fw, said, ender, unroomed>>
    BY <1>4 DEF TimerRuns, BsgTimeout, seenVars
  <2> QED BY <1>0, <2>1 DEF Shape
<1>5. CASE abort_all_cmds
  BY <1>0, <1>5 DEF abort_all_cmds
<1> QED BY <1>1, <1>2, <1>3, <1>4, <1>5 DEF Next


LEMMA AnswerFindsItStep ==
  ASSUME AnswersInv, Next
  PROVE  AnswerFindsIt'
<1>0. /\ IInv /\ Shape /\ SlotOfHandle /\ Fresh /\ HasHandle /\ Types /\ AnsweredOnce
      /\ AnswerFindsIt
  BY DEF AnswersInv, IInv
<1> SUFFICES ASSUME NEW u \in Srbs, u \in fw', phase'[u] = "issued", u \notin woken',
                    timer'[u] # "ran"
             PROVE  slot'[handle'[u]] = u \/ Displaced(u)'
  BY DEF AnswerFindsIt
\* If u waited before, nothing else than the loss of its slot matters.
<1>1. ASSUME u \in fw, phase[u] = "issued", u \notin woken, timer[u] # "ran",
             slot[handle[u]] = u => slot'[handle[u]] = u \/ Displaced(u)'
      PROVE  slot'[handle'[u]] = u \/ Displaced(u)'
  <2>1. handle[u] # NoHandle
    BY <1>0, <1>1 DEF HasHandle
  <2>2. handle'[u] = handle[u]
    BY <2>1, Onward DEF Lasts
  <2>3. slot[handle[u]] = u \/ Displaced(u)
    BY <1>0, <1>1 DEF AnswerFindsIt
  <2> QED BY <1>1, <2>1, <2>2, <2>3, DisplacedLasts
<1>2. ASSUME NEW s \in Srbs,
             GetSp(s) \/ NoHandleFree(s) \/ Wake(s) \/ TimerExpires(s) \/ BsgTimeoutDone(s)
      PROVE  slot'[handle'[u]] = u \/ Displaced(u)'
  BY <1>1, <1>2, Quiet
<1>3. ASSUME NEW s \in Srbs, StartSp(s) \/ NoRoom(s)
      PROVE  slot'[handle'[u]] = u \/ Displaced(u)'
  <2>1. PICK h \in Handles : slot[h] = NoSrb /\ Enter(s, h)
    BY <1>0, <1>3, EntersEmpty DEF StartSp, NoRoom
  <2>2. CASE u = s
    BY <1>0, <2>1, <2>2 DEF Enter, Shape
  <2>3. CASE u # s
    <3>1. u \in fw /\ phase[u] = "issued" /\ u \notin woken /\ timer[u] # "ran"
      BY <1>0, <1>3, <2>3 DEF StartSp, NoRoom, Free, Ended, waitVars, Shape
    <3>2. handle[u] \in Handles
      BY <1>0, <3>1 DEF HasHandle, Shape
    <3>3. slot[handle[u]] = u => slot'[handle[u]] = u
      BY <1>0, <2>1, <3>2 DEF Enter, Shape
    <3> QED BY <1>1, <3>1, <3>3
  <2> QED BY <2>2, <2>3
<1>4. ASSUME NEW s \in Srbs, Response(s)
      PROVE  slot'[handle'[u]] = u \/ Displaced(u)'
  <2>1. PICK answer \in {"ok", "error"} :
          /\ handle[s] \in Handles
          /\ slot' = [slot EXCEPT ![handle[s]] = NoSrb]
          /\ said' = [said EXCEPT ![s] = answer]
          /\ \/ Dropped(s)
             \/ \E t \in Srbs : Heard(s, t, answer) /\ (Wakes(t) \/ Ends(s, t, answer))
    BY <1>4, ResponseMeans
  <2>2. s \in fw /\ fw' = fw \ {s} /\ UNCHANGED handle
    BY <1>4 DEF Response
  <2>3. said'[s] # "none" /\ ender[s] # s
    BY <1>0, <2>1, <2>2 DEF AnsweredOnce, Types
  <2>4. u # s /\ u \in fw /\ handle[u] \in Handles
    BY <1>0, <2>2 DEF HasHandle, Shape
  <2>5. phase[u] = "issued" /\ u \notin woken /\ timer[u] # "ran"
    BY <1>0, <2>1 DEF Dropped, Wakes, Ends, Shape
  <2>6. ASSUME slot[handle[u]] = u PROVE slot'[handle[u]] = u \/ Displaced(u)'
    <3>1. CASE handle[u] # handle[s]
      BY <1>0, <2>1, <2>4, <2>6, <3>1 DEF Shape
    <3>2. CASE handle[u] = handle[s]
      <4>1. Dropped(s)
        BY <1>0, <2>1, <2>6, <3>2 DEF Heard, Wakes, Ends, Shape
      <4>2. ender'[s] # s
        BY <2>3, <4>1 DEF Dropped
      <4> QED BY <2>2, <2>3, <2>4, <3>2, <4>2 DEF Displaced
    <3> QED BY <3>1, <3>2
  <2> QED BY <1>1, <2>4, <2>5, <2>6
<1>5. ASSUME NEW s \in Srbs, TimerRuns(s)
      PROVE  slot'[handle'[u]] = u \/ Displaced(u)'
  <2>1. u # s /\ u \in fw /\ phase[u] = "issued" /\ u \notin woken /\ timer[u] # "ran"
    BY <1>0, <1>5 DEF TimerRuns, Ended, waitVars, Shape
  <2>2. handle[u] \in Handles
    BY <1>0, <2>1 DEF HasHandle, Shape
  <2>3. ASSUME slot[handle[u]] = u PROVE slot'[handle[u]] = u \/ Displaced(u)'
    <3>1. CASE handle[u] # handle[s]
      BY <1>0, <1>5, <2>2, <2>3, <3>1 DEF TimerRuns, Shape
    <3>2. CASE handle[u] = handle[s]
      BY <1>5, <2>1, <2>3, <3>2 DEF TimerRuns, Displaced
    <3> QED BY <3>1, <3>2
  <2> QED BY <1>1, <2>1, <2>3
<1>6. ASSUME NEW s \in Srbs, BsgTimeout(s)
      PROVE  slot'[handle'[u]] = u \/ Displaced(u)'
  <2>1. u # s /\ u \in fw /\ phase[u] = "issued" /\ u \notin woken /\ timer[u] # "ran"
    BY <1>0, <1>6 DEF BsgTimeout, waitVars, Shape
  <2>2. handle[u] \in Handles
    BY <1>0, <2>1 DEF HasHandle, Shape
  <2>3. slot[handle[u]] = u => slot'[handle[u]] = u
    BY <1>0, <1>6, <2>1, <2>2 DEF BsgTimeout, Shape
  <2> QED BY <1>1, <2>1, <2>3
<1>7. CASE abort_all_cmds
  BY <1>7 DEF abort_all_cmds
<1> QED BY <1>2, <1>3, <1>4, <1>5, <1>6, <1>7 DEF Next

LEMMA WokenByOtherStep ==
  ASSUME AnswersInv, Next
  PROVE  WokenByOther'
<1>0. /\ IInv /\ Shape /\ SlotOfHandle /\ Fresh /\ HasHandle /\ Types /\ AnsweredOnce
      /\ WokenByOther
  BY DEF AnswersInv, IInv
<1> SUFFICES ASSUME NEW u \in Srbs, u \in fw', u \in woken'
             PROVE  timer'[u] = "ran" \/ Displaced(u)'
  BY <1>0, TypesStep DEF WokenByOther, Types
<1>1. ASSUME u \in fw, u \in woken, timer[u] = "ran" => timer'[u] = "ran"
      PROVE  timer'[u] = "ran" \/ Displaced(u)'
  <2>1. handle[u] # NoHandle
    BY <1>0, <1>1 DEF HasHandle
  <2> QED BY <1>0, <1>1, <2>1, DisplacedLasts DEF WokenByOther
<1>2. ASSUME NEW s \in Srbs,
             GetSp(s) \/ NoHandleFree(s) \/ Wake(s) \/ TimerExpires(s) \/ BsgTimeoutDone(s)
      PROVE  timer'[u] = "ran" \/ Displaced(u)'
  BY <1>1, <1>2, Quiet
<1>3. ASSUME NEW s \in Srbs, StartSp(s) \/ NoRoom(s) \/ BsgTimeout(s)
      PROVE  timer'[u] = "ran" \/ Displaced(u)'
  <2>1. u \in woken /\ u \in fw \cup {s} /\ (timer[u] = "ran" => timer'[u] = "ran")
    BY <1>0, <1>3 DEF StartSp, NoRoom, BsgTimeout, Free, waitVars, Shape
  <2>2. u \in fw
    BY <1>0, <1>3, <2>1 DEF StartSp, NoRoom, BsgTimeout, Fresh
  <2> QED BY <1>1, <2>1, <2>2
<1>4. ASSUME NEW s \in Srbs, Response(s)
      PROVE  timer'[u] = "ran" \/ Displaced(u)'
  <2>1. PICK answer \in {"ok", "error"} :
          /\ said' = [said EXCEPT ![s] = answer]
          /\ \/ Dropped(s)
             \/ \E t \in Srbs : Heard(s, t, answer) /\ (Wakes(t) \/ Ends(s, t, answer))
    BY <1>4, ResponseMeans
  <2>2. s \in fw /\ fw' = fw \ {s} /\ UNCHANGED handle
    BY <1>4 DEF Response
  <2>3. said'[s] # "none" /\ ender[s] # s /\ u \in fw /\ u # s
    BY <1>0, <2>1, <2>2 DEF AnsweredOnce, Types
  <2>4. timer[u] = "ran" => timer'[u] = "ran"
    BY <1>0, <2>1 DEF Dropped, Wakes, Ends, Shape
  <2>5. CASE u \in woken
    BY <1>1, <2>3, <2>4, <2>5
  <2>6. CASE u \notin woken
    <3>1. Heard(s, u, answer)
      BY <2>1, <2>6 DEF Dropped, Wakes, Ends
    <3>2. ender'[s] # s /\ handle[u] = handle[s]
      BY <1>0, <2>3, <3>1 DEF Heard, Types
    <3> QED BY <2>2, <2>3, <3>2 DEF Displaced
  <2> QED BY <2>5, <2>6
<1>5. ASSUME NEW s \in Srbs, TimerRuns(s)
      PROVE  timer'[u] = "ran" \/ Displaced(u)'
  <2>1. /\ u \in fw /\ (u # s => u \in woken) /\ (u = s => timer'[u] = "ran")
        /\ (timer[u] = "ran" => timer'[u] = "ran")
    BY <1>0, <1>5 DEF TimerRuns, waitVars, Shape
  <2> QED BY <1>1, <2>1
<1>6. CASE abort_all_cmds
  BY <1>6 DEF abort_all_cmds
<1> QED BY <1>2, <1>3, <1>4, <1>5, <1>6 DEF Next

LEMMA OwnAnswerStep ==
  ASSUME AnswersInv, Next
  PROVE  OwnAnswer'
<1>0. /\ IInv /\ Shape /\ SlotOfHandle /\ Fresh /\ HasHandle /\ Types /\ AnsweredOnce
      /\ Unheard /\ AnswerFindsIt /\ WokenByOther /\ OwnAnswer
  BY DEF AnswersInv, IInv
<1> SUFFICES ASSUME NEW u \in Srbs, NEW e \in Srbs \ {u}, ender'[u] = e
             PROVE  GivenUp(e)' \/ Displaced(e)'
  BY <1>0, TypesStep DEF OwnAnswer, Types
\* The excuses last.
<1>1. ASSUME GivenUp(e) \/ Displaced(e), phase[e] \notin {"new", "ready"}
      PROVE  GivenUp(e)' \/ Displaced(e)'
  <2>1. GivenUp(e) => GivenUp(e)'
    BY Onward DEF Lasts
  <2>2. ~GivenUp(e) => handle[e] # NoHandle
    BY <1>0, <1>1 DEF GivenUp, HasHandle, Shape
  <2> QED BY <1>1, <2>1, <2>2, DisplacedLasts
<1>2. ASSUME ender[u] = e PROVE GivenUp(e)' \/ Displaced(e)'
  <2>1. GivenUp(e) \/ Displaced(e)
    BY <1>0, <1>2 DEF OwnAnswer
  <2>2. said[e] # "none"
    BY <1>0, <1>2 DEF AnsweredOnce
  <2> QED BY <1>0, <1>1, <2>1, <2>2 DEF Unheard
<1>3. ASSUME NEW s \in Srbs,
             GetSp(s) \/ NoHandleFree(s) \/ Wake(s) \/ TimerExpires(s) \/ BsgTimeoutDone(s)
      PROVE  GivenUp(e)' \/ Displaced(e)'
  BY <1>2, <1>3, Quiet
<1>4. ASSUME NEW s \in Srbs, StartSp(s) \/ NoRoom(s) \/ TimerRuns(s) \/ BsgTimeout(s)
      PROVE  GivenUp(e)' \/ Displaced(e)'
  BY <1>2, <1>4 DEF StartSp, NoRoom, TimerRuns, BsgTimeout, seenVars
<1>5. ASSUME NEW s \in Srbs, Response(s)
      PROVE  GivenUp(e)' \/ Displaced(e)'
  <2>1. PICK answer \in {"ok", "error"} :
          \/ Dropped(s)
          \/ \E t \in Srbs : Heard(s, t, answer) /\ (Wakes(t) \/ Ends(s, t, answer))
    BY <1>5, ResponseMeans
  <2>2. s \in fw
    BY <1>5 DEF Response
  <2>3. CASE ender'[u] = ender[u]
    BY <1>2, <2>3
  <2>4. CASE ender'[u] # ender[u]
    <3>1. e = s /\ slot[handle[s]] = u
      BY <1>0, <2>1, <2>4 DEF Dropped, Heard, Types
    <3>2. phase[s] \notin {"new", "ready"}
      BY <1>0, <2>2 DEF Unheard
    <3>3. GivenUp(s) \/ (phase[s] = "issued" /\ timer[s] # "ran")
      BY <1>0, <3>2 DEF GivenUp, TimedOut, Shape
    <3>4. GivenUp(s) \/ Displaced(s)
      BY <1>0, <2>2, <3>1, <3>3 DEF AnswerFindsIt, WokenByOther
    <3> QED BY <1>1, <3>1, <3>2, <3>4
  <2> QED BY <2>3, <2>4
<1>6. CASE abort_all_cmds
  BY <1>2, <1>6 DEF abort_all_cmds
<1> QED BY <1>3, <1>4, <1>5, <1>6 DEF Next

LEMMA StatusIsSoundStep ==
  ASSUME AnswersInv, Next
  PROVE  StatusIsSound'
<1>0. IInv /\ Shape /\ Types /\ StatusIsSound
  BY DEF AnswersInv, IInv
<1> SUFFICES ASSUME NEW u \in Srbs, u \in woken', comp_status'[u] = "ok"
             PROVE  Reason(u)'
  BY <1>0, TypesStep DEF StatusIsSound, Types
<1>1. ASSUME u \in woken, comp_status[u] = "ok" PROVE Reason(u)'
  BY <1>0, <1>1, ReasonLasts DEF StatusIsSound
<1>2. ASSUME NEW s \in Srbs,
             GetSp(s) \/ NoHandleFree(s) \/ Wake(s) \/ TimerExpires(s) \/ BsgTimeoutDone(s)
      PROVE  Reason(u)'
  BY <1>1, <1>2, Quiet
<1>3. ASSUME NEW s \in Srbs, StartSp(s) \/ NoRoom(s) \/ BsgTimeout(s)
      PROVE  Reason(u)'
  BY <1>1, <1>3 DEF StartSp, NoRoom, BsgTimeout, waitVars
<1>4. ASSUME NEW s \in Srbs, Response(s)
      PROVE  Reason(u)'
  <2>1. PICK answer \in {"ok", "error"} :
          /\ said' = [said EXCEPT ![s] = answer]
          /\ \/ Dropped(s)
             \/ \E t \in Srbs : Heard(s, t, answer) /\ (Wakes(t) \/ Ends(s, t, answer))
    BY <1>4, ResponseMeans
  <2>2. CASE Dropped(s)
    BY <1>1, <2>2 DEF Dropped
  <2>3. ASSUME NEW t \in Srbs, Heard(s, t, answer), Wakes(t) \/ Ends(s, t, answer)
        PROVE  Reason(u)'
    <3>1. CASE u # t
      BY <1>0, <1>1, <2>3, <3>1 DEF Heard, Wakes, Ends, Types
    <3>2. CASE u = t
      <4>1. kind[t] \in Awaited /\ kind' = kind
        BY <1>0, <1>4, <2>3, <3>2 DEF Wakes, Ends, Types, Response
      <4>2. ender'[t] = s /\ s # NoSrb
        BY <1>0, <2>3 DEF Heard, Types
      <4>3. CASE kind[t] = "tmf" \/ s # t
        BY <3>2, <4>1, <4>2, <4>3 DEF Reason
      <4>4. CASE kind[t] = "abort" /\ s = t
        <5>1. said'[t] = "ok"
          BY <1>0, <2>1, <2>3, <3>2, <4>4 DEF Heard, Types
        <5> QED BY <3>2, <5>1 DEF Reason
      <4> QED BY <4>1, <4>3, <4>4 DEF Awaited
    <3> QED BY <3>1, <3>2
  <2> QED BY <2>1, <2>2, <2>3
<1>5. ASSUME NEW s \in Srbs, TimerRuns(s)
      PROVE  Reason(u)'
  <2>1. u \in woken /\ comp_status[u] = "ok"
    BY <1>0, <1>5 DEF TimerRuns, waitVars, Types
  <2> QED BY <1>1, <2>1
<1>6. CASE abort_all_cmds
  <2>1. kind'[u] \in Awaited
    BY TypesStep DEF Types
  <2>2. resets' > 0
    BY <1>0, <1>6 DEF abort_all_cmds, Types
  <2> QED BY <2>1, <2>2 DEF Reason
<1> QED BY <1>2, <1>3, <1>4, <1>5, <1>6 DEF Next

LEMMA SuccessIsReportedStep ==
  ASSUME AnswersInv, Next
  PROVE  SuccessIsReported'
<1>0. /\ IInv /\ Shape /\ Types /\ StatusIsSound /\ SuccessIsReported
  BY DEF AnswersInv, IInv
<1> SUFFICES ASSUME NEW u \in Srbs, told'[u] = "ok"
             PROVE  Reason(u)'
  BY DEF SuccessIsReported, Reason
<1>1. ASSUME told[u] = "ok" PROVE Reason(u)'
  <2>1. Reason(u)
    BY <1>0, <1>1 DEF SuccessIsReported, Reason
  <2> QED BY <2>1, ReasonLasts
<1>2. ASSUME NEW s \in Srbs,
             GetSp(s) \/ StartSp(s) \/ TimerExpires(s) \/ BsgTimeout(s)
      PROVE  Reason(u)'
  BY <1>1, <1>2 DEF GetSp, StartSp, TimerExpires, BsgTimeout, seenVars
<1>3. ASSUME NEW s \in Srbs, NoHandleFree(s) \/ NoRoom(s) \/ BsgTimeoutDone(s)
      PROVE  Reason(u)'
  <2>1. told[u] = "ok"
    BY <1>0, <1>3 DEF NoHandleFree, NoRoom, BsgTimeoutDone, Ended, Types
  <2> QED BY <1>1, <2>1
<1>4. ASSUME NEW s \in Srbs, Response(s)
      PROVE  Reason(u)'
  <2>1. PICK answer \in {"ok", "error"} :
          /\ said' = [said EXCEPT ![s] = answer]
          /\ \/ Dropped(s)
             \/ \E t \in Srbs : Heard(s, t, answer) /\ (Wakes(t) \/ Ends(s, t, answer))
    BY <1>4, ResponseMeans
  <2>2. CASE told'[u] = told[u]
    BY <1>1, <2>2
  <2>3. CASE told'[u] # told[u]
    <3>1. Heard(s, u, answer) /\ Ends(s, u, answer)
      BY <1>0, <2>1, <2>3 DEF Dropped, Wakes, Ends, Types
    <3>2. ender'[u] = s /\ s # NoSrb /\ ReadAs(s, answer) = "ok" /\ kind' = kind
      BY <1>0, <1>4, <3>1 DEF Heard, Ends, Types, Response
    <3>3. CASE kind[s] \in Jobs
      BY <3>1, <3>2, <3>3 DEF Heard, Recognised, Reason
    <3>4. CASE kind[s] \notin Jobs
      <4>1. said'[s] = "ok"
        BY <1>0, <2>1, <3>2, <3>4 DEF ReadAs, Types
      <4> QED BY <3>2, <4>1 DEF Reason
    <3> QED BY <3>3, <3>4
  <2> QED BY <2>2, <2>3
<1>5. ASSUME NEW s \in Srbs, Wake(s)
      PROVE  Reason(u)'
  <2>1. CASE u = s
    <3>1. s \in woken /\ comp_status[s] = "ok"
      BY <1>0, <1>5, <2>1 DEF Wake, Ended, Types
    <3> QED BY <1>0, <2>1, <3>1, ReasonLasts DEF StatusIsSound
  <2>2. CASE u # s
    <3>1. told[u] = "ok"
      BY <1>0, <1>5, <2>2 DEF Wake, Ended, Types
    <3> QED BY <1>1, <3>1
  <2> QED BY <2>1, <2>2
<1>6. ASSUME NEW s \in Srbs, TimerRuns(s)
      PROVE  Reason(u)'
  <2>1. told[u] = "ok"
    BY <1>0, <1>6 DEF TimerRuns, Ended, Types
  <2> QED BY <1>1, <2>1
<1>7. CASE abort_all_cmds
  <2>1. told[u] = "ok"
    BY <1>0, <1>7 DEF abort_all_cmds, Done, Ended, Types
  <2> QED BY <1>1, <2>1
<1> QED BY <1>2, <1>3, <1>4, <1>5, <1>6, <1>7 DEF Next

LEMMA AnswersStep == AnswersInv /\ [Next]_vars => AnswersInv'
<1> SUFFICES ASSUME AnswersInv, [Next]_vars PROVE AnswersInv'
  OBVIOUS
<1>0. IInv'
  BY InvStep DEF AnswersInv
<1>1. CASE UNCHANGED vars
  <2>1. UNCHANGED <<kind, phase, frees, timer, slot, handle, fw, woken, comp_status, told,
                    said, ender, late, unroomed, resets>>
    BY <1>1 DEF vars, lifeVars, slotVars, waitVars, seenVars
  <2>2. Types' /\ Counted' /\ Unheard' /\ AnsweredOnce'
    BY <2>1 DEF AnswersInv, Types, Counted, Unheard, AnsweredOnce
  <2>3. WokenByOther' /\ AnswerFindsIt' /\ OwnAnswer'
    BY <2>1 DEF AnswersInv, WokenByOther, AnswerFindsIt, OwnAnswer, GivenUp, TimedOut, Displaced
  <2>4. StatusIsSound' /\ SuccessIsReported'
    BY <2>1 DEF AnswersInv, StatusIsSound, SuccessIsReported, Reason
  <2> QED BY <1>0, <2>2, <2>3, <2>4 DEF AnswersInv
<1>2. CASE Next
  BY <1>0, <1>2, TypesStep, CountedStep, UnheardStep, AnsweredOnceStep, WokenByOtherStep,
     AnswerFindsItStep, OwnAnswerStep, StatusIsSoundStep, SuccessIsReportedStep DEF AnswersInv
<1> QED BY <1>1, <1>2

\* The answer to a request finds it as long as the request waits, and ends no
\* other, unless one of the two was given up or has lost its slot to what
\* ended another request with the same handle.
THEOREM AnswersAlwaysReach == Spec => []AnswersReachTheirRequest
<1>1. AnswersInv => AnswersReachTheirRequest
  <2> SUFFICES ASSUME AnswersInv PROVE AnswersReachTheirRequest
    OBVIOUS
  <2>1. \A s \in Srbs : frees[s] \in 0..2
    BY DEF AnswersInv, IInv, Shape, Counted
  <2>2. frees \in [Srbs -> 0..2]
    BY <2>1 DEF AnswersInv, IInv, Shape
  <2>3. TypeOK
    BY <2>2 DEF TypeOK, AnswersInv, IInv, Shape, HasHandle, Types
  <2> QED BY <2>3 DEF AnswersReachTheirRequest, AnswersInv
<1> QED BY AnswersInit, AnswersStep, <1>1, PTL DEF Spec

\* Whoever learns that his request succeeded learns it from the firmware, or
\* for one of the reasons that SuccessIsReported lists: what els_ct_entry and
\* tm_iocb_entry make of a status, a reset that wakes a thread, an answer to
\* another request with the same handle.
THEOREM SuccessAlwaysReported == Spec => []SuccessIsReported
<1>1. AnswersInv => SuccessIsReported
  BY DEF AnswersInv
<1> QED BY AnswersInit, AnswersStep, <1>1, PTL DEF Spec
============================================================================
