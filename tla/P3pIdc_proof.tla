--------------------------- MODULE P3pIdc_proof ---------------------------
(***************************************************************************)
(* Proofs about P3pIdc for any of the functions 1 to 7 of either adapter:  *)
(* prepared starts of the firmware, running functions that take part, and  *)
(* one reset for every hang.  IInv holds as long as no thread is late;     *)
(* AllDue, which the last theorem needs, is inductive where IInv holds.    *)
(***************************************************************************)
EXTENDS P3pIdc, FiniteSetTheorems, TLAPS

\* The adapter's function 0 is not an FCoE function: with it, two functions may
\* own the recovery of a PCI error (EehOwner).
NoFunction0 == 0 \notin Fcoe

\* Whoever is in the state handler has been called.
Called ==
  \A f \in Fcoe :
    at[f] \in InHandler =>
      caller[f] \in {"load", "abort", "failed"} \/ (at[f] = "start" /\ caller[f] = "eeh")

InReset == {"cleanup", "ack", "acks"}

\* Only the DPC thread's reset gets to NEED_RESET, and only it starts the
\* firmware on the way, besides a driver that is first loaded.
CallersFit ==
  \A f \in Fcoe :
    /\ at[f] \in {"idle", "abort", "fcoe_ctx"} => caller[f] \in {"none", "failed"}
    /\ at[f] \in {"handler", "failing"} => caller[f] \in {"load", "abort", "failed"}
    /\ at[f] \in InReset \cup {"clear", "gave_up", "restart_isp"} => caller[f] = "abort"
    /\ at[f] = "start" => caller[f] \in {"load", "abort", "eeh"}
    /\ at[f] = "probing" => caller[f] = "load"
    /\ at[f] = "recovered" => caller[f] \in {"none", "failed", "eeh"}
    /\ at[f] = "unloaded" => caller[f] # "eeh"

\* A reset is asked for when nobody else is in the handler.
OthersNotAsked ==
  \A f \in Fcoe :
    at[f] = "handler" /\ caller[f] \in {"load", "failed"} => dev_state # "need_reset"

\* After a PCI error the functions are recovered in their order, and nothing
\* else is done.
Recovering(f) == at[f] = "recovered" \/ caller[f] = "eeh"
EehPlaces ==
  \A f \in Fcoe :
    /\ Recovering(f) => eeh[f] = "frozen" /\ at[f] \in {"start", "recovered"}
    /\ at[f] = "recovered" => dev_state = "ready"
EehAlone ==
  \A f \in Fcoe : EehBusy(f) =>
    /\ Is82xx /\ lock = Nobody /\ dev_failed = {}
    /\ at[f] = "idle" \/ Recovering(f)
    /\ \A g \in Fcoe : at[g] # "unloaded" => EehBusy(g)
EehInOrder ==
  /\ \A f \in Fcoe : eeh[f] = "enabled" =>
       /\ at[f] = "idle" /\ dev_state \in {"ready", "failed"}
       /\ \A g \in Fcoe : g < f /\ EehBusy(g) => eeh[g] = "enabled"
  /\ \A f, g \in Fcoe : Recovering(f) /\ EehBusy(g) /\ g < f => eeh[g] = "enabled"

\* A failed function does nothing more, and a thread gives up only there.
FailedRests ==
  /\ \A f \in dev_failed : at[f] \in {"idle", "gave_up"} /\ f \notin drv_active
  /\ \A f \in Fcoe : at[f] = "gave_up" => f \in dev_failed
  /\ \A f \in Fcoe : Is82xx /\ at[f] = "failing" => f \notin drv_active

\* Who is there takes part, but for those that have just failed.
PresentIsActive ==
  /\ Is82xx => taken_out = {}
  /\ \A f \in Fcoe :
       \/ at[f] \in {"unloaded", "failing"}
       \/ f \in dev_failed \cup drv_active \cup taken_out
       \/ dev_state = "failed" /\ ((lock = f /\ at[f] = "handler") \/ eeh[f] = "enabled")

\* Functions that are set up, acknowledge, or start the firmware are offline.
OfflinePlaces ==
  \A f \in online :
    /\ at[f] \notin {"unloaded", "probing", "fcoe_ctx", "ack", "acks"}
    /\ caller[f] # "load" /\ (at[f] = "start" => caller[f] = "eeh")
    /\ f \in drv_state => at[f] # "handler"

\* An acknowledgement is given in the need-reset handler and withdrawn when the
\* handler has returned.  Who gives it a second time has kept the lock.
AcksFit ==
  \A f \in drv_state :
    /\ caller[f] = "abort"
    /\ at[f] \in {"handler", "ack", "acks", "start", "failing", "clear", "gave_up"}
    /\ at[f] = "ack" => lock = f

\* Once the device is READY no participant is in the need-reset handler; while
\* the device is asked to be reset none is about to leave the last reset.
ResetsApart ==
  /\ dev_state = "ready" => \A f \in drv_active : at[f] \notin InReset
  /\ dev_state = "need_reset" => \A f \in Fcoe : at[f] # "clear"
  /\ (\E f \in Fcoe : at[f] = "clear") => \A f \in drv_active : at[f] \notin InReset

\* A participant that waits while the firmware is started.
Waits(f) ==
  \/ at[f] = "handler" /\ (caller[f] = "load" \/ (caller[f] = "abort" /\ f \notin online))
  \/ at[f] = "acks"

\* COLD is as before the first driver, or written by the function that has the
\* lock, on an 82xx.
ColdIsQuiet ==
  dev_state = "cold" =>
    /\ \A f \in drv_active : Waits(f)
    /\ \/ \A f \in Fcoe : at[f] # "unloaded" =>
            /\ at[f] = "handler" /\ caller[f] = "load" /\ f \in drv_active
            /\ Is82xx => lock = f
       \/ Is82xx /\ \E f \in drv_state : lock = f /\ at[f] = "handler"

\* While the firmware is started, its state says so, but on an 8044 a function
\* that was taken out may declare it FAILED; the participants wait, and have not
\* yet looked from their wait for acknowledgements.
StartIsQuiet ==
  \A f \in Fcoe : at[f] = "start" =>
    /\ dev_state = "initializing" \/ (~Is82xx /\ dev_state = "failed")
    /\ \A g \in Fcoe : at[g] = "start" => g = f
    /\ ~Is82xx => f \in drv_active
    /\ caller[f] # "eeh" => \A g \in drv_active \ {f} :
         (Waits(g) /\ (at[g] = "acks" => g \notin seen)) \/ at[g] = "failing"

\* Nobody else can start an 8044 meanwhile: the owner is the lowest function,
\* and a function 7 that starts it is alone.
OwnerIsLowest == ~Is82xx => \A f \in owner : \A g \in Fcoe : f <= g
StarterIsOwner ==
  \A f \in Fcoe : ~Is82xx /\ at[f] = "start" =>
    /\ (\E g \in Fcoe : at[g] \in InReset) => f \in drv_state
    /\ (\E g \in drv_active : at[g] = "acks") => \A g \in Fcoe : f <= g

\* Who is online has initialised its rings, but for those that have to do it
\* again after a PCI error.
OnlineIsInited ==
  \A f \in online :
    \/ f \in inited \cup taken_out \cup dev_failed \/ at[f] = "failing"
    \/ eeh[f] = "frozen" \/ (eeh[f] = "enabled" /\ dev_state = "failed")

IInv == /\ TypeOK /\ InTime /\ CallersFit /\ OthersNotAsked /\ EehPlaces /\ EehAlone
        /\ EehInOrder /\ FailedRests
        /\ PresentIsActive /\ OfflinePlaces /\ AcksFit /\ ResetsApart /\ ColdIsQuiet
        /\ StartIsQuiet /\ OwnerIsLowest /\ StarterIsOwner /\ OnlineIsInited
--------------------------------------------------------------------------
\* Two functions have different numbers.
LEMMA Apart ==
  /\ \A f \in Fcoe : f \in Int /\ f # Nobody
  /\ MaxEvents \in Nat
BY P3pIdcAssumption DEF Nobody

\* Who returns from the handler goes on where it was called.
LEMMA Returns ==
  ASSUME TypeOK, NEW f \in Fcoe, NEW ok \in BOOLEAN, Return(f, ok),
         caller[f] \in {"load", "abort", "failed"}
  PROVE  /\ fresh' = fresh \ {f}
         /\ \E p \in Places :
              /\ at' = [at EXCEPT ![f] = p]
              /\ \/ caller[f] = "load" /\ p = (IF ok THEN "probing" ELSE "unloaded")
                 \/ caller[f] = "abort" /\ p = (IF ok THEN "clear" ELSE "gave_up")
                 \/ caller[f] = "failed" /\ p = "idle"
<1>1. fresh' = fresh \ {f}
  BY DEF Return
<1>2. CASE caller[f] = "load"
  BY <1>1, <1>2 DEF Return, Goto, Places
<1>3. CASE caller[f] = "abort"
  BY <1>1, <1>3 DEF Return, Goto, Places
<1>4. CASE caller[f] = "failed"
  BY <1>1, <1>4 DEF Return, Goto, Places
<1> QED BY <1>2, <1>3, <1>4

\* The handler returns to a place, with flags of the DPC thread.
LEMMA ReturnType ==
  ASSUME TypeOK, Called, NEW f \in Fcoe, at[f] \in {"handler", "failing"},
         NEW ok \in BOOLEAN, Return(f, ok)
  PROVE  at' \in [Fcoe -> Places] /\ fresh' \subseteq Fcoe
BY Returns DEF Called, InHandler, TypeOK

\* Setting a flag keeps the types.
LEMMA SetFlagType ==
  ASSUME TypeOK, NEW f \in Fcoe, NEW flag \in Flags, SetFlag(f, flag)
  PROVE  dpc_flags' \in [Fcoe -> SUBSET Flags]
BY DEF TypeOK, SetFlag

\* So does the flag of the watchdogs.
LEMMA HealthFlag == FlagForHealth \in Flags
BY DEF FlagForHealth, Flags

\* Outside of a PCI error, nobody is recovered from one.
LEMMA NoEeh ==
  ASSUME IInv, NEW f \in Fcoe, at[f] # "unloaded", ~Recovering(f),
         ~EehBusy(f) \/ at[f] # "idle"
  PROVE  \A g \in Fcoe : eeh[g] = "none" /\ ~Recovering(g)
<1>1. ~EehBusy(f)
  BY DEF IInv, EehAlone
<1>2. \A g \in Fcoe : ~EehBusy(g)
  BY <1>1 DEF IInv, EehAlone
<1> QED BY <1>2 DEF IInv, EehPlaces, EehBusy

\* Types are kept, action by action.
LEMMA TypeStep == TypeOK /\ Called /\ [Next]_vars => TypeOK'
<1> USE P3pIdcAssumption DEF TypeOK, States, Flags, Callers, Places
<1> SUFFICES ASSUME TypeOK, Called, [Next]_vars PROVE TypeOK'
  OBVIOUS
<1>1. CASE UNCHANGED vars
  BY <1>1 DEF vars, registers, ownFlags, place, outside, history
<1>2. ASSUME NEW f \in Fcoe, Sleep(f) PROVE TypeOK'
  BY <1>2 DEF Sleep, Briefly, registers, ownFlags, place, outside, history
<1>3. ASSUME NEW f \in Fcoe, InitTimeout(f) PROVE TypeOK'
  BY <1>3, ReturnType DEF InitTimeout, Within, Locked, Briefly, registers, ownFlags,
      place, outside, history
<1>4. ASSUME NEW f \in Fcoe, SeeReady(f) PROVE TypeOK'
  BY <1>4, ReturnType DEF SeeReady, Briefly, registers, ownFlags, place,
      outside, history
<1>5. ASSUME NEW f \in Fcoe, SeeFailed(f) PROVE TypeOK'
  BY <1>5 DEF SeeFailed, Briefly, Goto, registers, ownFlags, place, outside,
      history
<1>6. ASSUME NEW f \in Fcoe, DevFailed(f) PROVE TypeOK'
  BY <1>6, ReturnType DEF DevFailed, Within, ClearDrvActive, registers, ownFlags, place,
      outside, history
<1>7. ASSUME NEW f \in Fcoe, Bootstrap(f) PROVE TypeOK'
  BY <1>7 DEF Bootstrap, Goto, registers, ownFlags, place, outside, history
<1>8. ASSUME NEW f \in Fcoe, Started(f) PROVE TypeOK'
  <2>1. at' \in [Fcoe -> Places] /\ lock' = f
    BY <1>8 DEF Started, Locked, Goto
  <2>2. events' \in 0..MaxEvents
    BY <1>8 DEF Started, Event
  <2>3. dev_state' \in States /\ fw' \in {"off", "alive", "hung", "dead"}
    BY <1>8 DEF Started
  <2>4. drv_active' \subseteq Fcoe /\ late' \subseteq Fcoe
    BY <1>8 DEF Started, ClearDrvActive, Within
  <2> QED BY <1>8, <2>1, <2>2, <2>3, <2>4 DEF Started, registers, ownFlags,
      place, outside, history
<1>9. ASSUME NEW f \in Fcoe, SeeNeedReset(f) PROVE TypeOK'
  BY <1>9 DEF SeeNeedReset, Locked, Briefly, Goto, registers, ownFlags, place,
      outside, history
<1>10. ASSUME NEW f \in Fcoe, Cleanup(f) PROVE TypeOK'
  BY <1>10 DEF Cleanup, Goto, ClearFlag, registers, ownFlags, place, outside,
      history
<1>11. ASSUME NEW f \in Fcoe, Ack82xx(f) PROVE TypeOK'
  BY <1>11 DEF Ack82xx, Look82xx, Within, Goto, registers, ownFlags, place, outside,
      history
<1>12. ASSUME NEW f \in Fcoe, AwaitAcks82xx(f) PROVE TypeOK'
  BY <1>12 DEF AwaitAcks82xx, Look82xx, Within, Goto, registers, ownFlags, place,
      outside, history
<1>13. ASSUME NEW f \in Fcoe, Ack8044(f) PROVE TypeOK'
  BY <1>13 DEF Ack8044, Briefly, Goto, registers, ownFlags, place, outside,
      history
<1>14. ASSUME NEW f \in Fcoe, AwaitAcks8044(f) PROVE TypeOK'
  <2>1. /\ at' \in [Fcoe -> Places] /\ lock' \in Fcoe \cup {Nobody}
       /\ dev_state' \in States
    BY <1>14 DEF AwaitAcks8044, Recover8044, Goto
  <2>2. /\ drv_active' \subseteq Fcoe /\ taken_out' \subseteq Fcoe
        /\ owner' \subseteq Fcoe
        /\ seen' \subseteq Fcoe /\ late' \subseteq Fcoe
    BY <1>14 DEF AwaitAcks8044, Recover8044, Within
  <2> QED BY <1>14, <2>1, <2>2 DEF AwaitAcks8044, registers, ownFlags, place,
      outside, history
<1>15. ASSUME NEW f \in Fcoe, Load(f) PROVE TypeOK'
  BY <1>15 DEF Load, Within, SetDrvActive, Ownership, Enter, Goto, registers, ownFlags,
      place, outside, history
<1>16. ASSUME NEW f \in Fcoe, ProbeEnd(f) PROVE TypeOK'
  BY <1>16 DEF ProbeEnd, Goto, registers, ownFlags, place, outside, history
<1>17. ASSUME NEW f \in Fcoe, ProbeFails(f) PROVE TypeOK'
  BY <1>17 DEF ProbeFails, Goto, Event, ClearDrvActive, registers, ownFlags,
      place, outside, history
<1>18. ASSUME NEW f \in Fcoe, Unload(f) PROVE TypeOK'
  BY <1>18 DEF Unload, Goto, Event, ClearDrvActive, registers, ownFlags, place,
      outside, history
<1>19. ASSUME NEW f \in Fcoe, Watchdog82xx(f) PROVE TypeOK'
  <2>1. dpc_flags' \in [Fcoe -> SUBSET Flags]
    BY <1>19, SetFlagType, HealthFlag DEF Watchdog82xx
  <2>2. fw_hung' \subseteq Fcoe /\ late' \subseteq Fcoe
    BY <1>19 DEF Watchdog82xx, Within
  <2> QED BY <1>19, <2>1, <2>2 DEF Watchdog82xx, registers, ownFlags, place,
      outside, history
<1>20. ASSUME NEW f \in Fcoe, Watchdog8044(f) PROVE TypeOK'
  <2>1. dpc_flags' \in [Fcoe -> SUBSET Flags]
    BY <1>20, SetFlagType, HealthFlag DEF Watchdog8044
  <2>2. fw_hung' \subseteq Fcoe
    BY <1>20 DEF Watchdog8044
  <2> QED BY <1>20, <2>1, <2>2 DEF Watchdog8044, registers, ownFlags, place,
      outside, history
<1>21. ASSUME NEW f \in Fcoe, LoopDown(f) PROVE TypeOK'
  BY <1>21 DEF LoopDown, SetFlag, Event, registers, ownFlags, place, outside,
      history
<1>22. ASSUME NEW f \in Fcoe, DpcUnrecoverable(f) PROVE TypeOK'
  BY <1>22 DEF DpcUnrecoverable, DpcTakes, ClearFlag, Enter, Goto, registers,
      ownFlags, place, outside, history
<1>23. ASSUME NEW f \in Fcoe, DpcFcoeCtx(f) PROVE TypeOK'
  BY <1>23 DEF DpcFcoeCtx, Goto, registers, ownFlags, place, outside, history
<1>24. ASSUME NEW f \in Fcoe, FcoeCtxEnd(f) PROVE TypeOK'
  <2>1. dpc_flags' \in [Fcoe -> SUBSET Flags]
    BY <1>24, SetFlagType DEF FcoeCtxEnd
  <2>2. at' \in [Fcoe -> Places]
    BY <1>24 DEF FcoeCtxEnd, Goto
  <2>3. online' \subseteq Fcoe /\ inited' \subseteq Fcoe
    BY <1>24 DEF FcoeCtxEnd
  <2> QED BY <1>24, <2>1, <2>2, <2>3 DEF FcoeCtxEnd, registers, ownFlags, place,
      outside, history
<1>25. ASSUME NEW f \in Fcoe, DpcAbort(f) PROVE TypeOK'
  BY <1>25 DEF DpcAbort, DpcTakes, ClearFlag, Goto, registers, ownFlags, place,
      outside, history
<1>26. ASSUME NEW f \in Fcoe, AbortIsp(f) PROVE TypeOK'
  BY <1>26 DEF AbortIsp, Within, Ownership, Enter, Goto, registers, ownFlags, place,
      outside, history
<1>27. ASSUME NEW f \in Fcoe, ClearReady(f) PROVE TypeOK'
  BY <1>27 DEF ClearReady, Goto, registers, ownFlags, place, outside, history
<1>28. ASSUME NEW f \in Fcoe, RestartIsp(f) PROVE TypeOK'
  <2>1. dpc_flags' \in [Fcoe -> SUBSET Flags]
    BY <1>28, SetFlagType DEF RestartIsp
  <2>2. at' \in [Fcoe -> Places]
    BY <1>28 DEF RestartIsp, Goto
  <2>3. online' \subseteq Fcoe /\ inited' \subseteq Fcoe
    BY <1>28 DEF RestartIsp
  <2> QED BY <1>28, <2>1, <2>2, <2>3 DEF RestartIsp, registers, ownFlags, place,
      outside, history
<1>29. ASSUME NEW f \in Fcoe, GiveUp(f) PROVE TypeOK'
  <2>1. dpc_flags' \in [Fcoe -> SUBSET Flags]
    BY <1>29, SetFlagType DEF GiveUp
  <2>2. at' \in [Fcoe -> Places]
    BY <1>29 DEF GiveUp, Goto
  <2>3. online' \subseteq Fcoe /\ drv_state' \subseteq Fcoe
    BY <1>29 DEF GiveUp
  <2> QED BY <1>29, <2>1, <2>2, <2>3 DEF GiveUp, registers, ownFlags, place,
      outside, history
<1>30. ASSUME NEW f \in Fcoe, UnrecoverableEnd(f) PROVE TypeOK'
  BY <1>30 DEF UnrecoverableEnd, registers, ownFlags, place, outside, history
<1>31. ASSUME NEW f \in Fcoe, SetResetOwner(f) PROVE TypeOK'
  BY <1>31 DEF SetResetOwner, Within, Settled, Event, OwnerWhenAsking, registers,
      ownFlags, place, outside, history
<1>32. ASSUME NEW f \in Fcoe, SlotReset(f) PROVE TypeOK'
  <2>1. dpc_flags' \in [Fcoe -> SUBSET Flags]
    BY <1>32 DEF SlotReset, ClearFlag
  <2>2. at' \in [Fcoe -> Places] /\ caller' \in [Fcoe -> Callers]
    BY <1>32 DEF SlotReset, Goto
  <2>3. /\ dev_state' \in States /\ seen' \subseteq Fcoe /\ fw_hung' \subseteq Fcoe
       /\ eeh' \in [Fcoe -> {"none", "frozen", "enabled"}]
    BY <1>32 DEF SlotReset
  <2>4. asked' \in BOOLEAN
    BY <1>32, ZenonT(20) DEF SlotReset
  <2> QED BY <1>32, <2>1, <2>2, <2>3, <2>4 DEF SlotReset, registers, ownFlags,
      place, outside, history
<1>33. ASSUME NEW f \in Fcoe, EehStarted(f) PROVE TypeOK'
  <2>1. at' \in [Fcoe -> Places] /\ caller' \in [Fcoe -> Callers]
    BY <1>33 DEF EehStarted, Goto
  <2>2. events' \in 0..MaxEvents
    BY <1>33 DEF EehStarted, Event
  <2>3. dev_state' \in States /\ fw' \in {"off", "alive", "hung", "dead"}
    BY <1>33 DEF EehStarted
  <2>4. drv_active' \subseteq Fcoe /\ fw_hung' \subseteq Fcoe
    BY <1>33 DEF EehStarted, ClearDrvActive
  <2>5. eeh' \in [Fcoe -> {"none", "frozen", "enabled"}]
    BY <1>33 DEF EehStarted
  <2> QED BY <1>33, <2>1, <2>2, <2>3, <2>4, <2>5 DEF EehStarted, registers,
      ownFlags, place, outside, history
<1>34. ASSUME NEW f \in Fcoe, EehRecovered(f) PROVE TypeOK'
  BY <1>34 DEF EehRecovered, SetDrvActive, Goto, registers, ownFlags, place,
      outside, history
<1>35. CASE Frozen
  <2>1. eeh' \in [Fcoe -> {"none", "frozen", "enabled"}]
    BY <1>35 DEF Frozen
  <2>2. events' \in 0..MaxEvents
    BY <1>35 DEF Frozen, Event
  <2>3. fw_hung' \subseteq Fcoe /\ fw' = "off"
    BY <1>35 DEF Frozen, Loaded
  <2> QED BY <1>35, <2>1, <2>2, <2>3 DEF Frozen, registers, ownFlags, place,
      outside, history
<1>36. CASE Resume
  BY <1>36 DEF Resume, registers, ownFlags, place, outside, history
<1>37. CASE FwHangs
  BY <1>37 DEF FwHangs, Event, registers, ownFlags, place, outside, history
<1> QED BY <1>1, <1>2, <1>3, <1>4, <1>5, <1>6, <1>7, <1>8, <1>9, <1>10, <1>11,
    <1>12, <1>13, <1>14, <1>15, <1>16, <1>17, <1>18, <1>19, <1>20, <1>21,
    <1>22, <1>23, <1>24, <1>25, <1>26, <1>27, <1>28, <1>29, <1>30, <1>31,
    <1>32, <1>33, <1>34, <1>35, <1>36, <1>37 DEF Next, HandlerStep, ThreadStep

\* Who is in the handler was called, action by action.
LEMMA CalledStep == TypeOK /\ Called /\ [Next]_vars => Called'
<1> USE DEF TypeOK, Called, InHandler
<1> SUFFICES ASSUME TypeOK, Called, [Next]_vars PROVE Called'
  OBVIOUS
<1>1. CASE UNCHANGED vars
  BY <1>1 DEF vars, place
<1>2. ASSUME NEW f \in Fcoe, Sleep(f) PROVE Called'
  BY <1>2 DEF Sleep, place
<1>3. ASSUME NEW f \in Fcoe, InitTimeout(f) PROVE Called'
  BY <1>3, Returns DEF InitTimeout
<1>4. ASSUME NEW f \in Fcoe, SeeReady(f) PROVE Called'
  BY <1>4, Returns DEF SeeReady
<1>5. ASSUME NEW f \in Fcoe, SeeFailed(f) PROVE Called'
  BY <1>5 DEF SeeFailed, Goto
<1>6. ASSUME NEW f \in Fcoe, DevFailed(f) PROVE Called'
  BY <1>6, Returns DEF DevFailed
<1>7. ASSUME NEW f \in Fcoe, Bootstrap(f) PROVE Called'
  BY <1>7 DEF Bootstrap, Goto
<1>8. ASSUME NEW f \in Fcoe, Started(f) PROVE Called'
  BY <1>8 DEF Started, Goto
<1>9. ASSUME NEW f \in Fcoe, SeeNeedReset(f) PROVE Called'
  BY <1>9 DEF SeeNeedReset, Goto
<1>10. ASSUME NEW f \in Fcoe, Cleanup(f) PROVE Called'
  BY <1>10 DEF Cleanup, Goto
<1>11. ASSUME NEW f \in Fcoe, Ack82xx(f) PROVE Called'
  BY <1>11 DEF Ack82xx, Look82xx, Goto
<1>12. ASSUME NEW f \in Fcoe, AwaitAcks82xx(f) PROVE Called'
  BY <1>12 DEF AwaitAcks82xx, Look82xx, Goto
<1>13. ASSUME NEW f \in Fcoe, Ack8044(f) PROVE Called'
  BY <1>13 DEF Ack8044, Goto
<1>14. ASSUME NEW f \in Fcoe, AwaitAcks8044(f) PROVE Called'
  BY <1>14 DEF AwaitAcks8044, Recover8044, Goto
<1>15. ASSUME NEW f \in Fcoe, Load(f) PROVE Called'
  BY <1>15 DEF Load, Enter, Goto
<1>16. ASSUME NEW f \in Fcoe, ProbeEnd(f) PROVE Called'
  BY <1>16 DEF ProbeEnd, Goto
<1>17. ASSUME NEW f \in Fcoe, ProbeFails(f) PROVE Called'
  BY <1>17 DEF ProbeFails, Goto
<1>18. ASSUME NEW f \in Fcoe, Unload(f) PROVE Called'
  BY <1>18 DEF Unload, Goto
<1>19. ASSUME NEW f \in Fcoe, Watchdog82xx(f) PROVE Called'
  BY <1>19 DEF Watchdog82xx, place
<1>20. ASSUME NEW f \in Fcoe, Watchdog8044(f) PROVE Called'
  BY <1>20 DEF Watchdog8044, place
<1>21. ASSUME NEW f \in Fcoe, LoopDown(f) PROVE Called'
  BY <1>21 DEF LoopDown, place
<1>22. ASSUME NEW f \in Fcoe, DpcUnrecoverable(f) PROVE Called'
  BY <1>22 DEF DpcUnrecoverable, Enter, Goto
<1>23. ASSUME NEW f \in Fcoe, DpcFcoeCtx(f) PROVE Called'
  BY <1>23 DEF DpcFcoeCtx, Goto
<1>24. ASSUME NEW f \in Fcoe, FcoeCtxEnd(f) PROVE Called'
  BY <1>24 DEF FcoeCtxEnd, Goto
<1>25. ASSUME NEW f \in Fcoe, DpcAbort(f) PROVE Called'
  BY <1>25 DEF DpcAbort, Goto
<1>26. ASSUME NEW f \in Fcoe, AbortIsp(f) PROVE Called'
  BY <1>26 DEF AbortIsp, Enter, Goto
<1>27. ASSUME NEW f \in Fcoe, ClearReady(f) PROVE Called'
  BY <1>27 DEF ClearReady, Goto
<1>28. ASSUME NEW f \in Fcoe, RestartIsp(f) PROVE Called'
  BY <1>28 DEF RestartIsp, Goto
<1>29. ASSUME NEW f \in Fcoe, GiveUp(f) PROVE Called'
  BY <1>29 DEF GiveUp, Goto
<1>30. ASSUME NEW f \in Fcoe, UnrecoverableEnd(f) PROVE Called'
  BY <1>30 DEF UnrecoverableEnd
<1>31. ASSUME NEW f \in Fcoe, SetResetOwner(f) PROVE Called'
  BY <1>31 DEF SetResetOwner, place
<1>32. ASSUME NEW f \in Fcoe, SlotReset(f) PROVE Called'
  BY <1>32 DEF SlotReset, Goto
<1>33. ASSUME NEW f \in Fcoe, EehStarted(f) PROVE Called'
  BY <1>33 DEF EehStarted, Goto
<1>34. ASSUME NEW f \in Fcoe, EehRecovered(f) PROVE Called'
  BY <1>34 DEF EehRecovered, Goto
<1>35. CASE Frozen
  BY <1>35 DEF Frozen, place
<1>36. CASE Resume
  BY <1>36 DEF Resume, place
<1>37. CASE FwHangs
  BY <1>37 DEF FwHangs, place
<1> QED BY <1>1, <1>2, <1>3, <1>4, <1>5, <1>6, <1>7, <1>8, <1>9, <1>10, <1>11,
    <1>12, <1>13, <1>14, <1>15, <1>16, <1>17, <1>18, <1>19, <1>20, <1>21,
    <1>22, <1>23, <1>24, <1>25, <1>26, <1>27, <1>28, <1>29, <1>30, <1>31,
    <1>32, <1>33, <1>34, <1>35, <1>36, <1>37 DEF Next, HandlerStep, ThreadStep

\* What CallersFit says of the handler.
LEMMA CallersFitCalled == CallersFit => Called
BY DEF CallersFit, Called, InHandler, InReset

--------------------------------------------------------------------------
(* The state handler.                                                      *)

\* Sleeping changes nothing: the participant goes on waiting.
LEMMA SleepKeeps ==
  ASSUME IInv, TypeOK', NEW f \in Fcoe, Sleep(f)
  PROVE  IInv'
<1>1. InTime' /\ CallersFit' /\ OthersNotAsked' /\ EehPlaces' /\ EehInOrder'
    /\ FailedRests' /\ OfflinePlaces' /\ ResetsApart' /\ OwnerIsLowest' /\
    StarterIsOwner' /\ OnlineIsInited'
  BY DEF IInv, Sleep, registers, ownFlags, place, outside, history, InTime,
      CallersFit, OthersNotAsked, EehPlaces, Recovering, EehInOrder, EehBusy,
      FailedRests, Is82xx, OfflinePlaces, ResetsApart, OwnerIsLowest,
      StarterIsOwner, OnlineIsInited
<1>2. EehAlone'
  BY DEF IInv, Sleep, Briefly, ownFlags, outside, EehAlone, Recovering, EehBusy,
      Is82xx
<1>3. PresentIsActive'
  BY DEF IInv, Sleep, Briefly, registers, ownFlags, outside, history,
      PresentIsActive, Is82xx
<1>4. AcksFit'
  BY DEF IInv, Sleep, Briefly, registers, AcksFit
<1>5. ColdIsQuiet'
  BY DEF IInv, Sleep, Briefly, registers, ColdIsQuiet
<1>6. StartIsQuiet'
  BY DEF IInv, Sleep, registers, ownFlags, outside, StartIsQuiet, Waits, Is82xx
<1> QED BY <1>1, <1>2, <1>3, <1>4, <1>5, <1>6 DEF IInv

\* Who reads READY leaves the handler for where it was called from; the need-
\* reset handler is behind it.
LEMMA SeeReadyKeeps ==
  ASSUME IInv, TypeOK', NEW f \in Fcoe, SeeReady(f)
  PROVE  IInv'
<1>1. caller[f] \in {"load", "abort", "failed"}
  BY DEF IInv, CallersFit, SeeReady
<1>2. PICK p \in Places :
         /\ at' = [at EXCEPT ![f] = p]
         /\ \/ caller[f] = "load" /\ p = "probing"
            \/ caller[f] = "abort" /\ p = "clear"
            \/ caller[f] = "failed" /\ p = "idle"
  BY <1>1, Returns DEF IInv, SeeReady
<1>3. InTime'
  BY DEF IInv, SeeReady, registers, ownFlags, place, outside, history, InTime
<1>4. CallersFit'
  BY <1>2 DEF IInv, SeeReady, Briefly, ownFlags, place, outside, TypeOK,
      CallersFit, InReset
<1>5. OthersNotAsked'
  BY <1>2 DEF IInv, SeeReady, registers, OthersNotAsked
<1>6. EehPlaces'
  BY <1>2 DEF IInv, SeeReady, registers, outside, EehPlaces, Recovering
<1>7. EehAlone'
  BY <1>2 DEF IInv, SeeReady, outside, EehAlone, Recovering, EehBusy
<1>8. EehInOrder'
  BY <1>2 DEF IInv, SeeReady, registers, outside, EehInOrder, Recovering,
      EehBusy
<1>9. FailedRests'
  BY <1>2 DEF IInv, SeeReady, registers, outside, FailedRests, Is82xx
<1>10. PresentIsActive'
  BY <1>2 DEF IInv, SeeReady, registers, outside, history, PresentIsActive,
      Is82xx
<1>11. OfflinePlaces'
  BY <1>2 DEF IInv, SeeReady, registers, OfflinePlaces
<1>12. AcksFit'
  BY <1>2 DEF IInv, SeeReady, Briefly, registers, AcksFit
<1>13. ResetsApart'
  BY <1>2 DEF IInv, SeeReady, Briefly, registers, ResetsApart, InReset
<1>14. ColdIsQuiet'
  BY <1>2 DEF IInv, SeeReady, registers, ColdIsQuiet
<1>15. StartIsQuiet'
  BY <1>2 DEF IInv, SeeReady, StartIsQuiet
<1>16. OwnerIsLowest'
  BY <1>2 DEF IInv, SeeReady, outside, OwnerIsLowest, Is82xx
<1>17. StarterIsOwner'
  BY <1>2 DEF IInv, SeeReady, registers, outside, StarterIsOwner, InReset,
      Is82xx
<1>18. OnlineIsInited'
  BY <1>2 DEF IInv, SeeReady, outside, history, OnlineIsInited
<1> QED BY <1>3, <1>4, <1>5, <1>6, <1>7, <1>8, <1>9, <1>10, <1>11, <1>12,
    <1>13, <1>14, <1>15, <1>16, <1>17, <1>18 DEF IInv

\* Who reads FAILED fails, with the lock.
LEMMA SeeFailedKeeps ==
  ASSUME IInv, TypeOK', NEW f \in Fcoe, SeeFailed(f)
  PROVE  IInv'
<1>1. InTime'
  BY DEF IInv, SeeFailed, registers, ownFlags, place, outside, InTime
<1>2. CallersFit'
  BY DEF IInv, SeeFailed, Goto, registers, ownFlags, place, outside, TypeOK,
      CallersFit, InReset
<1>3. OthersNotAsked'
  BY DEF IInv, SeeFailed, OthersNotAsked
<1>4. EehPlaces'
  BY DEF IInv, SeeFailed, Goto, outside, EehPlaces, Recovering
<1>5. EehAlone'
  BY DEF IInv, SeeFailed, Briefly, Goto, outside, EehAlone, Recovering, EehBusy,
      Is82xx
<1>6. EehInOrder'
  BY DEF IInv, SeeFailed, Briefly, Goto, outside, EehInOrder, Recovering,
      EehBusy
<1>7. FailedRests'
  BY DEF IInv, SeeFailed, Goto, outside, FailedRests, Is82xx
<1>8. PresentIsActive'
  BY DEF IInv, SeeFailed, Briefly, Goto, registers, ownFlags, place, outside,
      history, TypeOK, PresentIsActive, Is82xx
<1>9. OfflinePlaces'
  BY DEF IInv, SeeFailed, Goto, OfflinePlaces
<1>10. AcksFit'
  BY DEF IInv, SeeFailed, Briefly, Goto, AcksFit
<1>11. ResetsApart'
  BY DEF IInv, SeeFailed, Briefly, Goto, ResetsApart, InReset
<1>12. ColdIsQuiet'
  BY DEF IInv, SeeFailed, Goto, ColdIsQuiet
<1>13. StartIsQuiet'
  BY DEF IInv, SeeFailed, Goto, outside, StartIsQuiet, Waits, Is82xx
<1>14. OwnerIsLowest'
  BY DEF IInv, SeeFailed, Goto, outside, OwnerIsLowest, Is82xx
<1>15. StarterIsOwner'
  BY DEF IInv, SeeFailed, Goto, outside, StarterIsOwner, InReset, Is82xx
<1>16. OnlineIsInited'
  BY DEF IInv, SeeFailed, Goto, outside, history, OnlineIsInited
<1> QED BY <1>1, <1>2, <1>3, <1>4, <1>5, <1>6, <1>7, <1>8, <1>9, <1>10, <1>11,
    <1>12, <1>13, <1>14, <1>15, <1>16 DEF IInv

\* The failed function leaves the participants before it is at rest.
LEMMA DevFailedKeeps ==
  ASSUME IInv, TypeOK', InTime', NEW f \in Fcoe, DevFailed(f)
  PROVE  IInv'
<1>1. caller[f] \in {"load", "abort", "failed"}
  BY DEF IInv, CallersFit, DevFailed
<1>2. PICK p \in Places :
         /\ at' = [at EXCEPT ![f] = p]
         /\ \/ caller[f] = "load" /\ p = "unloaded"
            \/ caller[f] = "abort" /\ p = "gave_up"
            \/ caller[f] = "failed" /\ p = "idle"
  BY <1>1, Returns DEF IInv, DevFailed
<1>3. drv_active' = drv_active \ {f}
  BY DEF IInv, FailedRests, InTime, Within, DevFailed, ClearDrvActive
<1>4. InTime' /\ OwnerIsLowest'
  BY DEF IInv, DevFailed, registers, ownFlags, place, outside, history, InTime,
      OwnerIsLowest, Is82xx
<1>5. CallersFit'
  BY <1>2, <1>3 DEF IInv, DevFailed, CallersFit, InReset
<1>6. OthersNotAsked'
  BY <1>2, <1>3 DEF IInv, DevFailed, OthersNotAsked
<1>7. EehPlaces'
  BY <1>2, <1>3 DEF IInv, DevFailed, outside, EehPlaces, Recovering
<1>8. EehAlone'
  BY <1>2, <1>3 DEF IInv, DevFailed, outside, EehAlone, Recovering, EehBusy
<1>9. EehInOrder'
  BY <1>2, <1>3 DEF IInv, DevFailed, outside, EehInOrder, Recovering, EehBusy
<1>10. FailedRests'
  BY <1>2, <1>3 DEF IInv, DevFailed, registers, ownFlags, place, outside,
      TypeOK, FailedRests, Is82xx
<1>11. PresentIsActive'
  BY <1>2, <1>3 DEF IInv, DevFailed, outside, history, PresentIsActive, Is82xx
<1>12. OfflinePlaces'
  BY <1>2, <1>3 DEF IInv, DevFailed, OfflinePlaces
<1>13. AcksFit'
  BY <1>2, <1>3 DEF IInv, DevFailed, AcksFit
<1>14. ResetsApart'
  BY <1>2, <1>3 DEF IInv, DevFailed, ResetsApart
<1>15. ColdIsQuiet'
  BY <1>2, <1>3 DEF IInv, DevFailed, outside, ColdIsQuiet, Waits, Is82xx
<1>16. StartIsQuiet'
  BY <1>2, <1>3 DEF IInv, DevFailed, outside, StartIsQuiet, Waits, Is82xx
<1>17. StarterIsOwner'
  BY <1>2, <1>3 DEF IInv, DevFailed, outside, StarterIsOwner, InReset, Is82xx
<1>18. OnlineIsInited'
  BY <1>2, <1>3 DEF IInv, DevFailed, outside, history, OnlineIsInited
<1> QED BY <1>4, <1>5, <1>6, <1>7, <1>8, <1>9, <1>10, <1>11, <1>12, <1>13,
    <1>14, <1>15, <1>16, <1>17, <1>18 DEF IInv

\* COLD is found by a function that has the lock, while all participants wait.
LEMMA BootstrapKeeps ==
  ASSUME IInv, TypeOK', NEW f \in Fcoe, Bootstrap(f)
  PROVE  IInv'
<1>1. \A g \in Fcoe : eeh[g] = "none" /\ ~Recovering(g)
  BY NoEeh DEF IInv, CallersFit, Recovering, Bootstrap
<1>2. caller[f] \in {"load", "abort"} /\ f \notin online
  <2>1. CASE \A g \in Fcoe : at[g] # "unloaded" => caller[g] = "load"
    BY <2>1 DEF IInv, OfflinePlaces, Bootstrap
  <2>2. CASE \E g \in drv_state : lock = g
    <3>1. f \in drv_state
      BY <2>2, Apart DEF IInv, Bootstrap, TypeOK
    <3> QED BY <3>1 DEF IInv, OfflinePlaces, AcksFit, Bootstrap
  <2> QED BY <2>1, <2>2 DEF IInv, ColdIsQuiet, Bootstrap
<1>3. InTime' /\ OwnerIsLowest'
  BY DEF IInv, Bootstrap, registers, ownFlags, place, outside, history, InTime,
      OwnerIsLowest, Is82xx
<1>4. CallersFit'
  BY <1>1, <1>2, Apart DEF IInv, Bootstrap, Goto, registers, TypeOK, CallersFit,
      InReset
<1>5. OthersNotAsked'
  BY <1>1, <1>2, Apart DEF IInv, Bootstrap, OthersNotAsked
<1>6. EehPlaces'
  BY <1>1, <1>2, Apart DEF IInv, Bootstrap, Goto, registers, TypeOK, EehPlaces,
      Recovering
<1>7. EehAlone'
  BY <1>1, <1>2, Apart DEF IInv, Bootstrap, outside, EehAlone, Recovering,
      EehBusy
<1>8. EehInOrder'
  BY <1>1, <1>2, Apart DEF IInv, Bootstrap, outside, EehInOrder, EehBusy
<1>9. FailedRests'
  BY <1>1, <1>2, Apart DEF IInv, Bootstrap, Goto, registers, ownFlags, place,
      outside, TypeOK, FailedRests, Is82xx
<1>10. PresentIsActive'
  BY <1>1, <1>2, Apart DEF IInv, Bootstrap, Goto, registers, ownFlags, place,
      outside, history, TypeOK, PresentIsActive, Is82xx
<1>11. OfflinePlaces'
  BY <1>1, <1>2, Apart DEF IInv, Bootstrap, Goto, registers, ownFlags, place,
      TypeOK, OfflinePlaces
<1>12. AcksFit'
  BY <1>1, <1>2, Apart DEF IInv, Bootstrap, Goto, registers, TypeOK, AcksFit
<1>13. ResetsApart'
  BY <1>1, <1>2, Apart DEF IInv, Bootstrap, NeedReset, Goto, registers, TypeOK,
      ResetsApart, InReset, ColdIsQuiet, AcksFit
<1>14. ColdIsQuiet'
  BY <1>1, <1>2, Apart DEF IInv, Bootstrap, ColdIsQuiet
<1>15. StartIsQuiet'
  BY <1>1, <1>2, Apart DEF IInv, Bootstrap, Goto, registers, ownFlags, place,
      outside, TypeOK, StartIsQuiet, Waits, Is82xx, ColdIsQuiet
<1>16. StarterIsOwner'
  BY <1>1, <1>2, Apart DEF IInv, Bootstrap, Goto, registers, outside, TypeOK,
      StarterIsOwner, InReset, Is82xx, ColdIsQuiet
<1>17. OnlineIsInited'
  BY <1>1, <1>2, Apart DEF IInv, Bootstrap, Goto, registers, ownFlags, place,
      history, TypeOK, OnlineIsInited
<1> QED BY <1>3, <1>4, <1>5, <1>6, <1>7, <1>8, <1>9, <1>10, <1>11, <1>12,
    <1>13, <1>14, <1>15, <1>16, <1>17 DEF IInv

\* When the start is over its state is READY or FAILED, and nobody else was
\* starting.
LEMMA StartedKeeps ==
  ASSUME IInv, TypeOK', InTime', NEW f \in Fcoe, Started(f)
  PROVE  IInv'
<1>1. \A g \in Fcoe : eeh[g] = "none" /\ ~Recovering(g)
  BY NoEeh DEF IInv, CallersFit, Recovering, Started
<1>2. InTime' /\ OwnerIsLowest'
  BY DEF IInv, Started, registers, ownFlags, place, outside, history, InTime,
      OwnerIsLowest, Is82xx
<1>3. CallersFit'
  BY <1>1, Apart DEF IInv, Started, Goto, CallersFit, InReset
<1>4. OthersNotAsked'
  BY <1>1, Apart DEF IInv, Started, OthersNotAsked
<1>5. EehPlaces'
  BY <1>1, Apart DEF IInv, Started, Goto, EehPlaces, Recovering
<1>6. EehAlone'
  BY <1>1, Apart DEF IInv, Started, EehAlone, Recovering, EehBusy
<1>7. EehInOrder'
  BY <1>1, Apart DEF IInv, Started, EehInOrder, EehBusy
<1>8. FailedRests'
  BY <1>1, Apart DEF IInv, Started, ClearDrvActive, Goto, ownFlags, FailedRests,
      Is82xx
<1>9. PresentIsActive'
  BY <1>1, Apart DEF IInv, Started, Locked, ClearDrvActive, Goto, registers,
      ownFlags, place, outside, history, TypeOK, PresentIsActive, Is82xx,
      StartIsQuiet
<1>10. OfflinePlaces'
  BY <1>1, Apart DEF IInv, Started, Goto, ownFlags, OfflinePlaces
<1>11. AcksFit'
  BY <1>1, Apart DEF IInv, Started, Locked, Goto, registers, TypeOK, AcksFit
<1>12. ResetsApart'
  BY <1>1, Apart DEF IInv, Started, Within, Timely, Locked, ClearDrvActive, Goto,
      registers, TypeOK, ResetsApart, InReset, StartIsQuiet, Waits, InTime, Within
<1>13. ColdIsQuiet'
  BY <1>1, Apart DEF IInv, Started, ColdIsQuiet
<1>14. StartIsQuiet'
  BY <1>1, Apart DEF IInv, Started, Goto, registers, TypeOK, StartIsQuiet
<1>15. StarterIsOwner'
  BY <1>1, Apart DEF IInv, Started, ClearDrvActive, Goto, StarterIsOwner,
      InReset, Is82xx
<1>16. OnlineIsInited'
  BY <1>1, Apart DEF IInv, Started, Locked, Goto, registers, ownFlags, place,
      outside, history, TypeOK, OnlineIsInited, PresentIsActive, OfflinePlaces,
      StartIsQuiet, Waits
<1> QED BY <1>2, <1>3, <1>4, <1>5, <1>6, <1>7, <1>8, <1>9, <1>10, <1>11,
    <1>12, <1>13, <1>14, <1>15, <1>16 DEF IInv

\* Only a function whose DPC thread has called the handler sees NEED_RESET, and
\* it enters the need-reset handler.
LEMMA SeeNeedResetKeeps ==
  ASSUME IInv, TypeOK', NEW f \in Fcoe, SeeNeedReset(f)
  PROVE  IInv'
<1>1. \A g \in Fcoe : eeh[g] = "none" /\ ~Recovering(g)
  BY NoEeh DEF IInv, CallersFit, Recovering, SeeNeedReset
<1>2. InTime' /\ OwnerIsLowest'
  BY DEF IInv, SeeNeedReset, registers, ownFlags, place, outside, history,
      InTime, OwnerIsLowest, Is82xx
<1>3. CallersFit'
  BY <1>1, Apart DEF IInv, SeeNeedReset, Goto, TypeOK, CallersFit,
      OthersNotAsked
<1>4. OthersNotAsked'
  BY <1>1, Apart DEF IInv, SeeNeedReset, Goto, TypeOK, OthersNotAsked
<1>5. EehPlaces'
  BY <1>1, Apart DEF IInv, SeeNeedReset, Goto, TypeOK, EehPlaces, Recovering
<1>6. EehAlone'
  BY <1>1, Apart DEF IInv, SeeNeedReset, outside, EehAlone, Recovering, EehBusy
<1>7. EehInOrder'
  BY <1>1, Apart DEF IInv, SeeNeedReset, outside, EehInOrder, EehBusy
<1>8. FailedRests'
  BY <1>1, Apart DEF IInv, SeeNeedReset, Goto, registers, ownFlags, place,
      outside, TypeOK, FailedRests, Is82xx
<1>9. PresentIsActive'
  BY <1>1, Apart DEF IInv, SeeNeedReset, Goto, registers, ownFlags, place,
      outside, history, TypeOK, PresentIsActive, Is82xx
<1>10. OfflinePlaces'
  BY <1>1, Apart DEF IInv, SeeNeedReset, Goto, registers, ownFlags, place,
      TypeOK, OfflinePlaces
<1>11. AcksFit'
  BY <1>1, Apart DEF IInv, SeeNeedReset, Locked, Briefly, Goto, registers,
      TypeOK, AcksFit, OfflinePlaces, OthersNotAsked, CallersFit
<1>12. ResetsApart'
  BY <1>1, Apart DEF IInv, SeeNeedReset, Goto, registers, TypeOK, ResetsApart
<1>13. ColdIsQuiet'
  BY <1>1, Apart DEF IInv, SeeNeedReset, registers, ColdIsQuiet
<1>14. StartIsQuiet'
  BY <1>1, Apart DEF IInv, SeeNeedReset, Goto, TypeOK, StartIsQuiet
<1>15. StarterIsOwner'
  BY <1>1, Apart DEF IInv, SeeNeedReset, Goto, TypeOK, StarterIsOwner,
      StartIsQuiet
<1>16. OnlineIsInited'
  BY <1>1, Apart DEF IInv, SeeNeedReset, Goto, ownFlags, history, TypeOK,
      OnlineIsInited
<1> QED BY <1>2, <1>3, <1>4, <1>5, <1>6, <1>7, <1>8, <1>9, <1>10, <1>11,
    <1>12, <1>13, <1>14, <1>15, <1>16 DEF IInv

\* The function goes offline on its way to the acknowledgement.
LEMMA CleanupKeeps ==
  ASSUME IInv, TypeOK', NEW f \in Fcoe, Cleanup(f)
  PROVE  IInv'
<1>1. InTime' /\ OwnerIsLowest'
  BY DEF IInv, Cleanup, outside, InTime, OwnerIsLowest, Is82xx
<1>2. CallersFit'
  BY DEF IInv, Cleanup, Goto, outside, CallersFit, InReset
<1>3. OthersNotAsked'
  BY DEF IInv, Cleanup, Goto, registers, OthersNotAsked
<1>4. EehPlaces'
  BY DEF IInv, Cleanup, Goto, registers, outside, EehPlaces, Recovering
<1>5. EehAlone'
  BY DEF IInv, Cleanup, Goto, outside, EehAlone, Recovering, EehBusy, Is82xx
<1>6. EehInOrder'
  BY DEF IInv, Cleanup, Goto, registers, outside, EehInOrder, Recovering,
      EehBusy
<1>7. FailedRests'
  BY DEF IInv, Cleanup, Goto, registers, outside, FailedRests, Is82xx
<1>8. PresentIsActive'
  BY DEF IInv, Cleanup, Goto, registers, outside, history, PresentIsActive,
      Is82xx
<1>9. OfflinePlaces'
  BY DEF IInv, Cleanup, Goto, registers, OfflinePlaces
<1>10. AcksFit'
  BY DEF IInv, Cleanup, Goto, registers, AcksFit
<1>11. ResetsApart'
  BY DEF IInv, Cleanup, Goto, registers, ResetsApart, InReset
<1>12. ColdIsQuiet'
  BY DEF IInv, Cleanup, Goto, registers, outside, ColdIsQuiet, Waits, Is82xx
<1>13. StartIsQuiet'
  BY DEF IInv, Cleanup, Goto, registers, outside, StartIsQuiet, Waits, Is82xx
<1>14. StarterIsOwner'
  BY DEF IInv, Cleanup, Goto, registers, outside, StarterIsOwner, InReset,
      Is82xx
<1>15. OnlineIsInited'
  BY DEF IInv, Cleanup, Goto, registers, outside, history, OnlineIsInited
<1> QED BY <1>1, <1>2, <1>3, <1>4, <1>5, <1>6, <1>7, <1>8, <1>9, <1>10, <1>11,
    <1>12, <1>13, <1>14, <1>15 DEF IInv

\* When the last participant of an 82xx has acknowledged, COLD is written while
\* all of them wait.
LEMMA Ack82xxKeeps ==
  ASSUME IInv, TypeOK', InTime', NEW f \in Fcoe, Ack82xx(f)
  PROVE  IInv'
<1>1. \A g \in Fcoe : eeh[g] = "none" /\ ~Recovering(g)
  BY NoEeh DEF IInv, CallersFit, Recovering, Ack82xx, InReset
<1>2. InTime' /\ OwnerIsLowest'
  BY DEF IInv, Ack82xx, registers, ownFlags, place, outside, history, InTime,
      OwnerIsLowest, Is82xx
<1>3. CallersFit'
  BY <1>1, Apart DEF IInv, Ack82xx, Look82xx, Goto, registers, TypeOK,
      CallersFit, InReset
<1>4. OthersNotAsked'
  BY <1>1, Apart DEF IInv, Ack82xx, Look82xx, Goto, registers, TypeOK,
      OthersNotAsked
<1>5. EehPlaces'
  BY <1>1, Apart DEF IInv, Ack82xx, Look82xx, Goto, registers, TypeOK,
      EehPlaces, Recovering
<1>6. EehAlone'
  BY <1>1, Apart DEF IInv, Ack82xx, outside, EehAlone, Recovering, EehBusy
<1>7. EehInOrder'
  BY <1>1, Apart DEF IInv, Ack82xx, outside, EehInOrder, EehBusy
<1>8. FailedRests'
  BY <1>1, Apart DEF IInv, Ack82xx, Look82xx, Goto, registers, ownFlags, place,
      TypeOK, FailedRests
<1>9. PresentIsActive'
  BY <1>1, Apart DEF IInv, Ack82xx, Look82xx, Goto, registers, ownFlags, place,
      history, TypeOK, PresentIsActive
<1>10. OfflinePlaces'
  BY <1>1, Apart DEF IInv, Ack82xx, Look82xx, Goto, registers, ownFlags, place,
      TypeOK, OfflinePlaces
<1>11. AcksFit'
  BY <1>1, Apart DEF IInv, Ack82xx, Look82xx, Goto, registers, TypeOK, AcksFit,
      CallersFit, InReset
<1>12. ResetsApart'
  BY <1>1, Apart DEF IInv, Ack82xx, Look82xx, Goto, registers, TypeOK,
      ResetsApart, InReset
<1>13. ColdIsQuiet'
  <2> SUFFICES ASSUME dev_state' = "cold" PROVE ColdIsQuiet'
    BY DEF ColdIsQuiet
  <2>1. at[f] \in InReset /\ caller[f] = "abort" /\ f \notin online
    BY DEF IInv, CallersFit, OfflinePlaces, InReset, Ack82xx
  <2>2. dev_state \notin {"cold", "initializing"}
    <3>1. dev_state # "cold"
      BY <2>1, Apart DEF IInv, ColdIsQuiet, TypeOK, Ack82xx
    <3> QED BY <3>1 DEF Ack82xx, Look82xx
  <2>3. /\ drv_active \subseteq drv_state \cup {f}
        /\ drv_state' = drv_state \cup {f}
        /\ lock' = f /\ at' = [at EXCEPT ![f] = "handler"]
    BY <2>2 DEF IInv, InTime, Within, Ack82xx, Look82xx, Goto
  <2>4. f \in drv_active
    BY <1>1, <2>1 DEF IInv, PresentIsActive, FailedRests, InReset, Ack82xx
  <2>5. ASSUME NEW g \in drv_active, g # f
        PROVE  at[g] = "acks" \/ (at[g] = "handler" /\ caller[g] = "abort" /\ g \notin online)
    <3>1. g \in drv_state /\ g \in Fcoe
      BY <2>3, <2>5 DEF IInv, TypeOK
    <3>2. at[g] \in {"handler", "ack", "acks", "start", "failing", "clear", "gave_up"}
      BY <3>1 DEF IInv, AcksFit
    <3>3. at[g] # "ack"
      BY <2>5, <3>1, Apart DEF IInv, AcksFit, TypeOK, Ack82xx
    <3>4. at[g] # "start"
      BY <2>2, <3>1 DEF IInv, StartIsQuiet, Ack82xx
    <3>5. at[g] \notin {"failing", "gave_up"}
      BY <2>5, <3>1 DEF IInv, FailedRests, Ack82xx
    <3>6. at[g] # "clear"
      BY <2>1, <2>4, <3>1 DEF IInv, ResetsApart
    <3>7. at[g] = "handler" => caller[g] = "abort" /\ g \notin online
      BY <3>1 DEF IInv, AcksFit, OfflinePlaces
    <3> QED BY <3>2, <3>3, <3>4, <3>5, <3>6, <3>7
  <2>6. caller' = caller /\ online' = online /\ drv_active' = drv_active /\ chip' = chip
    BY DEF Ack82xx, ownFlags, outside
  <2>7. at'[f] = "handler" /\ \A g \in drv_active \ {f} : at'[g] = at[g]
    BY <2>3 DEF IInv, TypeOK
  <2>8. \A g \in drv_active' : Waits(g)'
    BY <2>1, <2>5, <2>6, <2>7 DEF Waits
  <2>9. Is82xx' /\ f \in drv_state' /\ lock' = f /\ at'[f] = "handler"
    BY <2>3, <2>6, <2>7 DEF Ack82xx, Is82xx
  <2> QED BY <2>8, <2>9 DEF ColdIsQuiet
<1>14. StartIsQuiet'
  BY <1>1, Apart DEF IInv, Ack82xx, Look82xx, Goto, registers, ownFlags, place,
      outside, history, TypeOK, StartIsQuiet, Waits, Is82xx, OfflinePlaces
<1>15. StarterIsOwner'
  BY <1>1, Apart DEF IInv, Ack82xx, outside, StarterIsOwner, Is82xx
<1>16. OnlineIsInited'
  BY <1>1, Apart DEF IInv, Ack82xx, Look82xx, Goto, registers, ownFlags, place,
      history, TypeOK, OnlineIsInited
<1> QED BY <1>2, <1>3, <1>4, <1>5, <1>6, <1>7, <1>8, <1>9, <1>10, <1>11,
    <1>12, <1>13, <1>14, <1>15, <1>16 DEF IInv

\* The same for a function that has waited for the others.
LEMMA AwaitAcks82xxKeeps ==
  ASSUME IInv, TypeOK', InTime', NEW f \in Fcoe, AwaitAcks82xx(f)
  PROVE  IInv'
<1>1. \A g \in Fcoe : eeh[g] = "none" /\ ~Recovering(g)
  BY NoEeh DEF IInv, CallersFit, Recovering, AwaitAcks82xx, InReset
<1>2. InTime' /\ OwnerIsLowest'
  BY DEF IInv, AwaitAcks82xx, registers, ownFlags, place, outside, history,
      InTime, OwnerIsLowest, Is82xx
<1>3. CallersFit'
  BY <1>1, Apart DEF IInv, AwaitAcks82xx, Look82xx, Goto, registers, TypeOK,
      CallersFit, InReset
<1>4. OthersNotAsked'
  BY <1>1, Apart DEF IInv, AwaitAcks82xx, Look82xx, Goto, registers, TypeOK,
      OthersNotAsked
<1>5. EehPlaces'
  BY <1>1, Apart DEF IInv, AwaitAcks82xx, Look82xx, Goto, registers, TypeOK,
      EehPlaces, Recovering
<1>6. EehAlone'
  BY <1>1, Apart DEF IInv, AwaitAcks82xx, outside, EehAlone, EehBusy
<1>7. EehInOrder'
  BY <1>1, Apart DEF IInv, AwaitAcks82xx, outside, EehInOrder, EehBusy
<1>8. FailedRests'
  BY <1>1, Apart DEF IInv, AwaitAcks82xx, Look82xx, Goto, registers, ownFlags,
      place, TypeOK, FailedRests
<1>9. PresentIsActive'
  BY <1>1, Apart DEF IInv, AwaitAcks82xx, Look82xx, Goto, registers, ownFlags,
      place, history, TypeOK, PresentIsActive
<1>10. OfflinePlaces'
  BY <1>1, Apart DEF IInv, AwaitAcks82xx, Look82xx, Goto, registers, ownFlags,
      place, TypeOK, OfflinePlaces
<1>11. AcksFit'
  BY <1>1, Apart DEF IInv, AwaitAcks82xx, Look82xx, Goto, registers, TypeOK,
      AcksFit, CallersFit, InReset
<1>12. ResetsApart'
  BY <1>1, Apart DEF IInv, AwaitAcks82xx, Look82xx, Goto, registers, TypeOK,
      ResetsApart, InReset
<1>13. ColdIsQuiet'
  <2> SUFFICES ASSUME dev_state' = "cold" PROVE ColdIsQuiet'
    BY DEF ColdIsQuiet
  <2>1. at[f] \in InReset /\ caller[f] = "abort" /\ f \notin online
    BY DEF IInv, CallersFit, OfflinePlaces, InReset, AwaitAcks82xx
  <2>2. dev_state \notin {"cold", "initializing"}
    <3>1. dev_state # "cold"
      BY <2>1, Apart DEF IInv, ColdIsQuiet, TypeOK, AwaitAcks82xx
    <3> QED BY <3>1 DEF AwaitAcks82xx, Look82xx
  <2>3. /\ \A g \in drv_active \ {f} : g \in drv_state \/ at[g] = "acks"
        /\ drv_state' = drv_state \cup {f}
        /\ lock' = f /\ at' = [at EXCEPT ![f] = "handler"]
    BY <2>2 DEF IInv, InTime, Within, AwaitAcks82xx, Look82xx, Goto, Awaited,
        OwnersWait
  <2>4. f \in drv_active
    BY <1>1, <2>1 DEF IInv, PresentIsActive, FailedRests, InReset, AwaitAcks82xx
  <2>5. ASSUME NEW g \in drv_active, g # f
        PROVE  at[g] = "acks" \/ (at[g] = "handler" /\ caller[g] = "abort" /\ g \notin online)
    <3> SUFFICES ASSUME at[g] # "acks"
                 PROVE  at[g] = "handler" /\ caller[g] = "abort" /\ g \notin online
      OBVIOUS
    <3>1. g \in drv_state /\ g \in Fcoe
      BY <2>3, <2>5 DEF IInv, TypeOK
    <3>2. at[g] \in {"handler", "ack", "acks", "start", "failing", "clear", "gave_up"}
      BY <3>1 DEF IInv, AcksFit
    <3>3. at[g] # "ack"
      BY <2>5, <3>1, Apart DEF IInv, AcksFit, TypeOK, AwaitAcks82xx
    <3>4. at[g] # "start"
      BY <2>2, <3>1 DEF IInv, StartIsQuiet, AwaitAcks82xx
    <3>5. at[g] \notin {"failing", "gave_up"}
      BY <2>5, <3>1 DEF IInv, FailedRests, AwaitAcks82xx
    <3>6. at[g] # "clear"
      BY <2>1, <2>4, <3>1 DEF IInv, ResetsApart
    <3>7. at[g] = "handler" => caller[g] = "abort" /\ g \notin online
      BY <3>1 DEF IInv, AcksFit, OfflinePlaces
    <3> QED BY <3>2, <3>3, <3>4, <3>5, <3>6, <3>7
  <2>6. caller' = caller /\ online' = online /\ drv_active' = drv_active /\ chip' = chip
    BY DEF AwaitAcks82xx, ownFlags, outside
  <2>7. at'[f] = "handler" /\ \A g \in drv_active \ {f} : at'[g] = at[g]
    BY <2>3 DEF IInv, TypeOK
  <2>8. \A g \in drv_active' : Waits(g)'
    BY <2>1, <2>5, <2>6, <2>7 DEF Waits
  <2>9. Is82xx' /\ f \in drv_state' /\ lock' = f /\ at'[f] = "handler"
    BY <2>3, <2>6, <2>7 DEF AwaitAcks82xx, Is82xx
  <2> QED BY <2>8, <2>9 DEF ColdIsQuiet
<1>14. StartIsQuiet'
  BY <1>1, Apart DEF IInv, AwaitAcks82xx, Look82xx, Awaited, Goto, registers,
      ownFlags, place, outside, history, TypeOK, StartIsQuiet, Waits, Is82xx,
      OfflinePlaces, CallersFit, InReset
<1>15. StarterIsOwner'
  BY <1>1, Apart DEF IInv, AwaitAcks82xx, outside, StarterIsOwner, Is82xx
<1>16. OnlineIsInited'
  BY <1>1, Apart DEF IInv, AwaitAcks82xx, Look82xx, Goto, registers, ownFlags,
      place, history, TypeOK, OnlineIsInited
<1> QED BY <1>2, <1>3, <1>4, <1>5, <1>6, <1>7, <1>8, <1>9, <1>10, <1>11,
    <1>12, <1>13, <1>14, <1>15, <1>16 DEF IInv

\* On an 8044 the acknowledgement leaves the state alone.
LEMMA Ack8044Keeps ==
  ASSUME IInv, TypeOK', NEW f \in Fcoe, Ack8044(f)
  PROVE  IInv'
<1>1. \A g \in Fcoe : eeh[g] = "none" /\ ~Recovering(g)
  BY NoEeh DEF IInv, CallersFit, Recovering, Ack8044, InReset
<1>2. InTime' /\ OwnerIsLowest'
  BY DEF IInv, Ack8044, registers, ownFlags, place, outside, history, InTime,
      OwnerIsLowest, Is82xx
<1>3. CallersFit'
  BY <1>1, Apart DEF IInv, Ack8044, Goto, CallersFit, InReset
<1>4. OthersNotAsked'
  BY <1>1, Apart DEF IInv, Ack8044, Goto, OthersNotAsked
<1>5. EehPlaces'
  BY <1>1, Apart DEF IInv, Ack8044, Goto, EehPlaces, Recovering
<1>6. EehAlone'
  BY <1>1, Apart DEF IInv, Ack8044, Goto, outside, EehAlone, Recovering, EehBusy
<1>7. EehInOrder'
  BY <1>1, Apart DEF IInv, Ack8044, outside, EehInOrder, EehBusy
<1>8. FailedRests'
  BY <1>1, Apart DEF IInv, Ack8044, Goto, ownFlags, outside, FailedRests, Is82xx
<1>9. PresentIsActive'
  BY <1>1, Apart DEF IInv, Ack8044, Briefly, Goto, ownFlags, outside, history,
      PresentIsActive, Is82xx
<1>10. OfflinePlaces'
  BY <1>1, Apart DEF IInv, Ack8044, Goto, ownFlags, OfflinePlaces
<1>11. AcksFit'
  BY <1>1, Apart DEF IInv, Ack8044, Briefly, Goto, registers, TypeOK, AcksFit,
      CallersFit, InReset
<1>12. ResetsApart'
  BY <1>1, Apart DEF IInv, Ack8044, Goto, ResetsApart, InReset
<1>13. ColdIsQuiet'
  BY <1>1, Apart DEF IInv, Ack8044, Goto, ColdIsQuiet
<1>14. StartIsQuiet'
  BY <1>1, Apart DEF IInv, Ack8044, Goto, ownFlags, outside, StartIsQuiet,
      Waits, Is82xx
<1>15. StarterIsOwner'
  <2>1. ASSUME NEW g \in Fcoe, at[g] = "start" PROVE f \notin drv_active
    <3>1. caller[g] # "eeh" /\ f # g /\ at[f] = "ack"
      BY <1>1, <2>1 DEF Recovering, Ack8044
    <3> QED BY <2>1, <3>1 DEF IInv, StartIsQuiet, Waits
  <2>2. at' = [at EXCEPT ![f] = "acks"] /\ at[f] = "ack" /\ drv_state' = drv_state \cup {f}
    BY DEF Ack8044, Goto
  <2>3. drv_active' = drv_active /\ chip' = chip
    BY DEF Ack8044, outside
  <2>4. at'[f] = "acks" /\ \A g \in Fcoe \ {f} : at'[g] = at[g]
    BY <2>2 DEF IInv, TypeOK
  <2> SUFFICES ASSUME NEW g \in Fcoe, ~Is82xx, at'[g] = "start"
               PROVE  /\ (\E h \in Fcoe : at'[h] \in InReset) => g \in drv_state'
                      /\ (\E h \in drv_active' : at'[h] = "acks") => \A h \in Fcoe : g <= h
    BY <2>3 DEF StarterIsOwner, Is82xx
  <2>5. at[g] = "start" /\ f \notin drv_active
    BY <2>1, <2>4
  <2>6. g \in drv_state
    BY <2>2, <2>5 DEF IInv, StarterIsOwner, InReset
  <2>7. ASSUME NEW h \in drv_active', at'[h] = "acks" PROVE at[h] = "acks"
    BY <2>3, <2>4, <2>5, <2>7 DEF IInv, TypeOK
  <2> QED BY <2>2, <2>3, <2>5, <2>6, <2>7 DEF IInv, StarterIsOwner
<1>16. OnlineIsInited'
  BY <1>1, Apart DEF IInv, Ack8044, Briefly, Goto, registers, ownFlags, place,
      outside, history, TypeOK, OnlineIsInited
<1> QED BY <1>2, <1>3, <1>4, <1>5, <1>6, <1>7, <1>8, <1>9, <1>10, <1>11,
    <1>12, <1>13, <1>14, <1>15, <1>16 DEF IInv

\* On an 8044 the owner starts the firmware when all have acknowledged; the
\* others wait for its state.
LEMMA AwaitAcks8044Keeps ==
  ASSUME IInv, TypeOK', InTime', NEW f \in Fcoe, AwaitAcks8044(f)
  PROVE  IInv'
<1>1. \A g \in Fcoe : eeh[g] = "none" /\ ~Recovering(g)
  BY NoEeh DEF IInv, CallersFit, Recovering, AwaitAcks8044, InReset
<1>2. /\ ~Is82xx /\ at[f] = "acks" /\ lock \in {f, Nobody} /\ caller[f] = "abort"
      /\ f \notin online
      /\ drv_state' = drv_state /\ caller' = caller /\ online' = online
      /\ chip' = chip
  BY DEF IInv, CallersFit, OfflinePlaces, InReset, AwaitAcks8044, outside
<1>3. ASSUME NEW g \in Fcoe, at[g] = "start"
      PROVE  /\ g # f /\ g \in drv_state \cap drv_active /\ dev_state # "need_reset"
             /\ f \in drv_active => f \notin seen /\ f \notin owner /\ \A h \in Fcoe : g <= h
  <2>1. g # f /\ g \in drv_state /\ g \in drv_active /\ dev_state # "need_reset"
    BY <1>2, <1>3 DEF IInv, StartIsQuiet, StarterIsOwner, InReset
  <2>2. ASSUME f \in drv_active PROVE f \notin seen /\ \A h \in Fcoe : g <= h
    BY <1>1, <1>2, <1>3, <2>1, <2>2 DEF IInv, StartIsQuiet, StarterIsOwner,
        Recovering
  <2>3. ASSUME f \in drv_active, f \in owner PROVE FALSE
    <3>1. g <= f /\ f <= g
      BY <1>2, <2>2, <2>3 DEF IInv, OwnerIsLowest
    <3> QED BY <2>1, <3>1, Apart
  <2> QED BY <2>1, <2>2, <2>3
<1>4. \/ /\ dev_state = "need_reset" /\ at' = at /\ drv_active' = drv_active
         /\ dev_state' = dev_state
         /\ seen' = seen \cup {f} /\ lock' = Nobody /\ taken_out' = taken_out
         /\ owner' = owner
      \/ /\ drv_active' \subseteq drv_active \cap drv_state
         /\ drv_active \cap drv_state \subseteq drv_active'
         /\ at' = [at EXCEPT ![f] = "handler"] /\ dev_state' = dev_state
         /\ lock' = f
         /\ seen' = seen \cup {f}
      \/ /\ drv_active' \subseteq drv_active \cap drv_state
         /\ drv_active \cap drv_state \subseteq drv_active'
         /\ at' = [at EXCEPT ![f] = "start"] /\ dev_state' = "initializing"
         /\ lock' = Nobody
         /\ seen' = {} /\ f \in drv_active' /\ (f \in owner \/ drv_state \cap drv_active' = {7})
  BY DEF IInv, InTime, Within, AwaitAcks8044, Recover8044, Goto
<1>5. InTime'
  BY DEF IInv, AwaitAcks8044, registers, ownFlags, place, outside, history,
      InTime
<1>6. CallersFit'
  BY <1>1, Apart DEF IInv, AwaitAcks8044, Recover8044, Goto, registers,
      ownFlags, place, outside, history, TypeOK, CallersFit, InReset
<1>7. OthersNotAsked'
  BY <1>1, Apart DEF IInv, AwaitAcks8044, Recover8044, Goto, registers,
      ownFlags, place, TypeOK, OthersNotAsked, CallersFit, InReset
<1>8. EehPlaces'
  BY <1>1, Apart DEF IInv, AwaitAcks8044, Recover8044, Goto, registers,
      ownFlags, place, TypeOK, EehPlaces, Recovering
<1>9. EehAlone'
  BY <1>1, Apart DEF IInv, AwaitAcks8044, outside, EehAlone, EehBusy
<1>10. EehInOrder'
  BY <1>1, Apart DEF IInv, AwaitAcks8044, outside, EehInOrder, EehBusy
<1>11. FailedRests'
  BY <1>1, Apart DEF IInv, AwaitAcks8044, Recover8044, Goto, registers,
      ownFlags, place, outside, history, TypeOK, FailedRests, Is82xx
<1>12. PresentIsActive'
  BY <1>1, Apart DEF IInv, AwaitAcks8044, Recover8044, Goto, registers,
      ownFlags, place, outside, history, TypeOK, PresentIsActive, Is82xx
<1>13. OfflinePlaces'
  BY <1>1, Apart DEF IInv, AwaitAcks8044, Recover8044, Goto, registers,
      ownFlags, place, TypeOK, OfflinePlaces
<1>14. AcksFit'
  BY <1>1, Apart DEF IInv, AwaitAcks8044, Recover8044, Goto, registers,
      ownFlags, place, TypeOK, AcksFit, CallersFit
<1>15. ResetsApart'
  BY <1>1, Apart DEF IInv, AwaitAcks8044, Recover8044, Goto, registers,
      ownFlags, place, TypeOK, ResetsApart, InReset
<1>16. ColdIsQuiet'
  BY <1>1, Apart DEF IInv, AwaitAcks8044, Recover8044, ColdIsQuiet
<1>17. StartIsQuiet'
  <2>1. CASE dev_state = "need_reset" /\ at' = at
    <3>1. \A g \in Fcoe : at[g] # "start"
      BY <1>3, <2>1
    <3> QED BY <2>1, <3>1 DEF StartIsQuiet
  <2>2. CASE /\ drv_active' \subseteq drv_active \cap drv_state
             /\ drv_active \cap drv_state \subseteq drv_active'
             /\ at' = [at EXCEPT ![f] = "handler"] /\ dev_state' = dev_state
             /\ seen' = seen \cup {f}
    <3>1. at'[f] = "handler" /\ \A g \in Fcoe \ {f} : at'[g] = at[g]
      BY <2>2 DEF IInv, TypeOK
    <3>2. Waits(f)'
      BY <1>2, <3>1 DEF Waits
    <3>3. \A g \in Fcoe \ {f} : Waits(g) => Waits(g)'
      BY <1>2, <3>1 DEF Waits
    <3> SUFFICES ASSUME NEW g \in Fcoe, at'[g] = "start"
                 PROVE  /\ dev_state' = "initializing" \/ (~Is82xx' /\ dev_state' = "failed")
                        /\ \A h \in Fcoe : at'[h] = "start" => h = g
                        /\ ~Is82xx' => g \in drv_active'
                        /\ caller'[g] # "eeh" => \A h \in drv_active' \ {g} :
                             (Waits(h)' /\ (at'[h] = "acks" => h \notin seen')) \/ at'[h] = "failing"
      BY DEF StartIsQuiet
    <3>4. at[g] = "start" /\ g # f /\ caller[g] # "eeh"
      BY <1>1, <3>1 DEF Recovering
    <3>5. g \in drv_active'
      BY <1>3, <2>2, <3>4
    <3>6. Is82xx' = Is82xx
      BY <1>2 DEF Is82xx
    <3>7. \A h \in drv_active' \ {g} :
            (Waits(h)' /\ (at'[h] = "acks" => h \notin seen')) \/ at'[h] = "failing"
      <4> SUFFICES ASSUME NEW h \in drv_active' \ {g}
                   PROVE  (Waits(h)' /\ (at'[h] = "acks" => h \notin seen')) \/ at'[h] = "failing"
        OBVIOUS
      <4>1. h \in drv_active /\ h \in Fcoe
        BY <2>2 DEF IInv, TypeOK
      <4>2. (Waits(h) /\ (at[h] = "acks" => h \notin seen)) \/ at[h] = "failing"
        BY <3>4, <4>1 DEF IInv, StartIsQuiet
      <4>3. CASE h = f
        BY <3>1, <3>2, <4>3
      <4>4. CASE h # f
        BY <2>2, <3>1, <3>3, <4>1, <4>2, <4>4
      <4> QED BY <4>3, <4>4
    <3> QED BY <2>2, <3>1, <3>4, <3>5, <3>6, <3>7 DEF IInv, StartIsQuiet
  <2>3. CASE /\ drv_active' \subseteq drv_active \cap drv_state
             /\ at' = [at EXCEPT ![f] = "start"] /\ dev_state' = "initializing"
             /\ seen' = {} /\ f \in drv_active' /\ (f \in owner \/ drv_state \cap drv_active' = {7})
             /\ drv_active \cap drv_state \subseteq drv_active'
    <3>1. at'[f] = "start" /\ \A g \in Fcoe \ {f} : at'[g] = at[g]
      BY <2>3 DEF IInv, TypeOK
    <3>2. \A g \in Fcoe : at[g] # "start"
      <4> SUFFICES ASSUME NEW g \in Fcoe, at[g] = "start" PROVE FALSE
        OBVIOUS
      <4>1. /\ g # f /\ g \in drv_active' /\ g \in drv_state
            /\ f \in drv_active' /\ f \in drv_state /\ f \notin owner
        BY <1>3, <2>3
      <4>2. drv_state \cap drv_active' = {7}
        BY <2>3, <4>1
      <4> QED BY <4>1, <4>2
    <3>3. ASSUME NEW g \in drv_active', g # f
          PROVE  (Waits(g)' /\ (at'[g] = "acks" => g \notin seen')) \/ at'[g] = "failing"
      <4>1. g \in drv_state /\ g \in drv_active /\ g \in Fcoe /\ f \in drv_active
        BY <2>3, <3>3 DEF IInv, TypeOK
      <4>2. at[g] \in {"handler", "ack", "acks", "start", "failing", "clear", "gave_up"}
        BY <4>1 DEF IInv, AcksFit
      <4>3. at[g] # "ack"
        BY <1>2, <3>3, <4>1, Apart DEF IInv, AcksFit, TypeOK
      <4>4. at[g] # "clear"
        BY <1>2, <4>1 DEF IInv, ResetsApart, InReset
      <4>5. at[g] # "gave_up"
        BY <4>1 DEF IInv, FailedRests
      <4>6. at[g] = "handler" => caller[g] = "abort" /\ g \notin online
        BY <4>1 DEF IInv, AcksFit, OfflinePlaces
      <4>7. at[g] \in {"handler", "acks", "failing"}
        BY <3>2, <4>1, <4>2, <4>3, <4>4, <4>5
      <4> QED BY <1>2, <2>3, <3>1, <3>3, <4>1, <4>6, <4>7 DEF Waits
    <3> QED BY <2>3, <3>1, <3>2, <3>3 DEF StartIsQuiet
  <2> QED BY <1>4, <2>1, <2>2, <2>3
<1>18. OwnerIsLowest'
  BY <1>1, Apart DEF IInv, AwaitAcks8044, Recover8044, Goto, registers,
      ownFlags, place, outside, history, TypeOK, OwnerIsLowest, Is82xx
<1>19. StarterIsOwner'
  <2>1. CASE at' = at /\ drv_active' = drv_active
    BY <1>2, <2>1 DEF IInv, StarterIsOwner
  <2>2. CASE drv_active' \subseteq drv_active \cap drv_state /\ at' = [at EXCEPT ![f] = "handler"]
    <3>1. at'[f] = "handler" /\ \A g \in Fcoe \ {f} : at'[g] = at[g]
      BY <2>2 DEF IInv, TypeOK
    <3>2. \A g \in Fcoe : at'[g] = "start" => at[g] = "start"
      BY <3>1
    <3>3. ASSUME NEW h \in drv_active', at'[h] = "acks" PROVE h \in drv_active /\ at[h] = "acks"
      BY <2>2, <3>1, <3>3 DEF IInv, TypeOK
    <3> QED BY <1>2, <1>3, <3>2, <3>3 DEF IInv, StarterIsOwner, Is82xx
  <2>3. CASE /\ drv_active' \subseteq drv_active \cap drv_state
             /\ drv_active \cap drv_state \subseteq drv_active'
             /\ at' = [at EXCEPT ![f] = "start"]
             /\ f \in drv_active' /\ (f \in owner \/ drv_state \cap drv_active' = {7})
    <3>1. at'[f] = "start" /\ \A g \in Fcoe \ {f} : at'[g] = at[g]
      BY <2>3 DEF IInv, TypeOK
    <3>2. f \in owner => \A h \in Fcoe : f <= h
      BY <1>2 DEF IInv, OwnerIsLowest
    <3>3. f \notin owner => drv_active' = {f}
      BY <2>3
    <3>4. ASSUME NEW g \in Fcoe, at'[g] = "start" PROVE g = f
      <4> SUFFICES ASSUME g # f PROVE FALSE
        OBVIOUS
      <4>1. /\ g \in drv_active' /\ g \in drv_state /\ f \in drv_active'
            /\ f \in drv_state
            /\ f \notin owner
        BY <1>3, <2>3, <3>1, <3>4
      <4> QED BY <3>3, <4>1
    <3>5. (\E h \in drv_active' : at'[h] = "acks") => \A h \in Fcoe : f <= h
      BY <3>1, <3>2, <3>3
    <3>6. f \in drv_state'
      BY <1>2, <2>3
    <3> QED BY <3>4, <3>5, <3>6 DEF StarterIsOwner
  <2> QED BY <1>4, <2>1, <2>2, <2>3
<1>20. OnlineIsInited'
  BY <1>1, Apart DEF IInv, AwaitAcks8044, Recover8044, Goto, registers,
      ownFlags, place, outside, history, TypeOK, OnlineIsInited
<1> QED BY <1>5, <1>6, <1>7, <1>8, <1>9, <1>10, <1>11, <1>12, <1>13, <1>14,
    <1>15, <1>16, <1>17, <1>18, <1>19, <1>20 DEF IInv

--------------------------------------------------------------------------
(* Probe, remove, and the DPC thread.                                      *)

\* A driver is loaded outside resets: it waits for its turn like a participant.
LEMMA LoadKeeps ==
  ASSUME IInv, TypeOK', InTime', NEW f \in Fcoe, Load(f)
  PROVE  IInv'
<1>1. \A g \in Fcoe : eeh[g] = "none"
  BY DEF Load, EehBusy
<1>2. InTime'
  BY DEF IInv, Load, registers, ownFlags, place, outside, history, InTime
<1>3. CallersFit'
  BY <1>1, Apart DEF IInv, Load, SetDrvActive, Ownership, Enter, Goto,
      registers, ownFlags, place, outside, TypeOK, CallersFit, InReset
<1>4. OthersNotAsked'
  BY <1>1, Apart DEF IInv, Load, OthersNotAsked, InTime, Within
<1>5. EehPlaces'
  BY <1>1, Apart DEF IInv, Load, Enter, Goto, EehPlaces, Recovering
<1>6. EehAlone'
  BY <1>1, Apart DEF IInv, Load, Enter, outside, EehAlone, Recovering, EehBusy
<1>7. EehInOrder'
  BY <1>1, Apart DEF IInv, Load, outside, EehInOrder, EehBusy
<1>8. FailedRests'
  BY <1>1, Apart DEF IInv, Load, SetDrvActive, Enter, Goto, outside,
      FailedRests, Is82xx
<1>9. PresentIsActive'
  BY <1>1, Apart DEF IInv, Load, SetDrvActive, Enter, Goto, outside, history,
      PresentIsActive, Is82xx
<1>10. OfflinePlaces'
  BY <1>1, Apart DEF IInv, Load, Enter, Goto, OfflinePlaces
<1>11. AcksFit'
  BY <1>1, Apart DEF IInv, Load, Enter, Goto, registers, ownFlags, place,
      TypeOK, AcksFit
<1>12. ResetsApart'
  BY <1>1, Apart DEF IInv, Load, SetDrvActive, Enter, Goto, ResetsApart, InReset
<1>13. ColdIsQuiet'
  BY <1>1, Apart DEF IInv, Load, SetDrvActive, Enter, Goto, registers, ownFlags,
      place, outside, TypeOK, ColdIsQuiet, Waits, Is82xx
<1>14. StartIsQuiet'
  BY <1>1, Apart DEF IInv, Load, SetDrvActive, Enter, Goto, registers, ownFlags,
      place, outside, TypeOK, StartIsQuiet, Waits, Is82xx
<1>15. OwnerIsLowest'
  BY <1>1, Apart DEF IInv, Load, Ownership, outside, OwnerIsLowest, Is82xx
<1>16. StarterIsOwner'
  BY <1>1, Apart DEF IInv, Load, SetDrvActive, Ownership, Enter, Goto, outside,
      StarterIsOwner, InReset, Is82xx
<1>17. OnlineIsInited'
  BY <1>1, Apart DEF IInv, Load, Enter, Goto, outside, history, OnlineIsInited
<1> QED BY <1>2, <1>3, <1>4, <1>5, <1>6, <1>7, <1>8, <1>9, <1>10, <1>11,
    <1>12, <1>13, <1>14, <1>15, <1>16, <1>17 DEF IInv

\* A driver whose firmware is ready goes online with new rings.
LEMMA ProbeEndKeeps ==
  ASSUME IInv, TypeOK', NEW f \in Fcoe, ProbeEnd(f)
  PROVE  IInv'
<1>1. InTime' /\ OwnerIsLowest'
  BY DEF IInv, ProbeEnd, outside, InTime, OwnerIsLowest, Is82xx
<1>2. CallersFit'
  BY DEF IInv, ProbeEnd, Goto, outside, TypeOK, CallersFit, InReset
<1>3. OthersNotAsked'
  BY DEF IInv, ProbeEnd, Goto, registers, OthersNotAsked
<1>4. EehPlaces'
  BY DEF IInv, ProbeEnd, Goto, registers, outside, EehPlaces, Recovering
<1>5. EehAlone'
  BY DEF IInv, ProbeEnd, Goto, outside, TypeOK, EehAlone, Recovering, EehBusy,
      Is82xx
<1>6. EehInOrder'
  BY DEF IInv, ProbeEnd, Goto, registers, outside, EehInOrder, Recovering,
      EehBusy
<1>7. FailedRests'
  BY DEF IInv, ProbeEnd, Goto, registers, outside, FailedRests, Is82xx
<1>8. PresentIsActive'
  BY DEF IInv, ProbeEnd, Goto, registers, outside, PresentIsActive, Is82xx
<1>9. OfflinePlaces'
  BY DEF IInv, ProbeEnd, Goto, registers, ownFlags, place, outside, history,
      TypeOK, OfflinePlaces
<1>10. AcksFit'
  BY DEF IInv, ProbeEnd, Goto, registers, AcksFit
<1>11. ResetsApart'
  BY DEF IInv, ProbeEnd, Goto, registers, ResetsApart, InReset
<1>12. ColdIsQuiet'
  BY DEF IInv, ProbeEnd, Goto, registers, outside, ColdIsQuiet, Waits, Is82xx
<1>13. StartIsQuiet'
  BY DEF IInv, ProbeEnd, Goto, registers, outside, StartIsQuiet, Waits, Is82xx
<1>14. StarterIsOwner'
  BY DEF IInv, ProbeEnd, Goto, registers, outside, StarterIsOwner, InReset,
      Is82xx
<1>15. OnlineIsInited'
  BY DEF IInv, ProbeEnd, Goto, registers, outside, OnlineIsInited
<1> QED BY <1>1, <1>2, <1>3, <1>4, <1>5, <1>6, <1>7, <1>8, <1>9, <1>10, <1>11,
    <1>12, <1>13, <1>14, <1>15 DEF IInv

\* A probe that fails declares the device FAILED and takes its function out.
LEMMA ProbeFailsKeeps ==
  ASSUME IInv, TypeOK', NEW f \in Fcoe, ProbeFails(f)
  PROVE  IInv'
<1>1. \A g \in Fcoe : eeh[g] = "none" /\ ~Recovering(g)
  BY NoEeh DEF IInv, CallersFit, Recovering, ProbeFails
<1>2. InTime'
  BY DEF IInv, ProbeFails, registers, ownFlags, place, outside, history, InTime
<1>3. CallersFit'
  BY <1>1, Apart DEF IInv, ProbeFails, Goto, Event, ClearDrvActive, registers,
      ownFlags, place, outside, TypeOK, CallersFit, InReset
<1>4. OthersNotAsked'
  BY <1>1, Apart DEF IInv, ProbeFails, OthersNotAsked
<1>5. EehPlaces'
  BY <1>1, Apart DEF IInv, ProbeFails, Goto, EehPlaces, Recovering
<1>6. EehAlone'
  BY <1>1, Apart DEF IInv, ProbeFails, EehAlone, Recovering, EehBusy
<1>7. EehInOrder'
  BY <1>1, Apart DEF IInv, ProbeFails, EehInOrder, EehBusy
<1>8. FailedRests'
  BY <1>1, Apart DEF IInv, ProbeFails, Goto, ClearDrvActive, FailedRests, Is82xx
<1>9. PresentIsActive'
  BY <1>1, Apart DEF IInv, ProbeFails, Goto, ClearDrvActive, registers,
      ownFlags, place, outside, history, TypeOK, PresentIsActive, Is82xx
<1>10. OfflinePlaces'
  BY <1>1, Apart DEF IInv, ProbeFails, Goto, OfflinePlaces
<1>11. AcksFit'
  BY <1>1, Apart DEF IInv, ProbeFails, Goto, AcksFit
<1>12. ResetsApart'
  BY <1>1, Apart DEF IInv, ProbeFails, Goto, ClearDrvActive, ResetsApart
<1>13. ColdIsQuiet'
  BY <1>1, Apart DEF IInv, ProbeFails, ClearDrvActive, ColdIsQuiet
<1>14. StartIsQuiet'
  <2>1. ASSUME NEW g \in Fcoe, at[g] = "start", Is82xx PROVE FALSE
    <3>1. dev_state = "initializing" /\ caller[g] # "eeh" /\ f # g
      BY <1>1, <2>1 DEF IInv, StartIsQuiet, Recovering, ProbeFails
    <3>2. f \in drv_active
      BY <1>1, <2>1, <3>1 DEF IInv, PresentIsActive, FailedRests, ProbeFails
    <3> QED BY <2>1, <3>1, <3>2 DEF IInv, StartIsQuiet, Waits, ProbeFails
  <2>2. /\ dev_state' = "failed" /\ drv_active' \subseteq drv_active
        /\ online' = online /\ seen' = seen
        /\ at' = [at EXCEPT ![f] = "unloaded"] /\ chip' = chip
        /\ \A g \in Fcoe \ {f} : caller'[g] = caller[g]
    BY DEF IInv, ProbeFails, ClearDrvActive, Goto
  <2>3. ASSUME NEW g \in Fcoe, at[g] = "start"
        PROVE  /\ ~Is82xx /\ g # f /\ g \in drv_active /\ f \notin drv_active
               /\ \A h \in drv_active \ {g} :
                    (Waits(h) /\ (at[h] = "acks" => h \notin seen)) \/ at[h] = "failing"
    <3>1. caller[g] # "eeh" /\ g # f
      BY <1>1, <2>3 DEF Recovering, ProbeFails
    <3> QED BY <2>1, <2>3, <3>1 DEF IInv, StartIsQuiet, Waits, ProbeFails
  <2>4. \A g \in Fcoe : g # f => at'[g] = at[g]
    BY <2>2 DEF IInv, TypeOK
  <2>5. at'[f] # "start"
    BY <2>2 DEF IInv, TypeOK
  <2>6. drv_active' \subseteq Fcoe /\ \A g \in Fcoe : g \in drv_active /\ g # f => g \in drv_active'
    BY DEF TypeOK, ProbeFails, ClearDrvActive, registers
  <2> QED BY <2>2, <2>3, <2>4, <2>5, <2>6 DEF IInv, StartIsQuiet, Waits, Is82xx
<1>15. OwnerIsLowest'
  BY <1>1, Apart DEF IInv, ProbeFails, Goto, Event, ClearDrvActive, registers,
      ownFlags, place, outside, history, TypeOK, OwnerIsLowest, Is82xx
<1>16. StarterIsOwner'
  BY <1>1, Apart DEF IInv, ProbeFails, Goto, ClearDrvActive, StarterIsOwner,
      InReset, Is82xx
<1>17. OnlineIsInited'
  BY <1>1, Apart DEF IInv, ProbeFails, Goto, ClearDrvActive, history,
      OnlineIsInited
<1> QED BY <1>2, <1>3, <1>4, <1>5, <1>6, <1>7, <1>8, <1>9, <1>10, <1>11,
    <1>12, <1>13, <1>14, <1>15, <1>16, <1>17 DEF IInv

\* A driver that is removed is idle: it leaves DRV_ACTIVE, and has no
\* acknowledgement there.
LEMMA UnloadKeeps ==
  ASSUME IInv, TypeOK', NEW f \in Fcoe, Unload(f)
  PROVE  IInv'
<1>1. InTime'
  BY DEF IInv, Unload, registers, ownFlags, place, outside, history, InTime
<1>2. CallersFit'
  BY DEF IInv, Unload, Goto, Event, ClearDrvActive, registers, ownFlags, place,
      outside, history, TypeOK, CallersFit, InReset
<1>3. OthersNotAsked'
  BY DEF IInv, Unload, Goto, OthersNotAsked
<1>4. EehPlaces'
  BY DEF IInv, Unload, Goto, EehPlaces, Recovering
<1>5. EehAlone'
  BY DEF IInv, Unload, Goto, EehAlone, Recovering, EehBusy
<1>6. EehInOrder'
  BY DEF IInv, Unload, Goto, EehInOrder, Recovering, EehBusy
<1>7. FailedRests'
  BY DEF IInv, Unload, Goto, ClearDrvActive, FailedRests, Is82xx
<1>8. PresentIsActive'
  BY DEF IInv, Unload, Goto, ClearDrvActive, registers, ownFlags, place,
      outside, history, TypeOK, PresentIsActive, Is82xx
<1>9. OfflinePlaces'
  BY DEF IInv, Unload, Goto, OfflinePlaces
<1>10. AcksFit'
  BY DEF IInv, Unload, Goto, AcksFit
<1>11. ResetsApart'
  BY DEF IInv, Unload, Goto, ClearDrvActive, ResetsApart
<1>12. ColdIsQuiet'
  BY DEF IInv, Unload, Goto, ClearDrvActive, ColdIsQuiet, Waits, Is82xx
<1>13. StartIsQuiet'
  BY DEF IInv, Unload, Goto, ClearDrvActive, StartIsQuiet, Waits, Is82xx
<1>14. OwnerIsLowest'
  BY DEF IInv, Unload, Goto, ClearDrvActive, OwnerIsLowest, Is82xx
<1>15. StarterIsOwner'
  BY DEF IInv, Unload, Goto, ClearDrvActive, StarterIsOwner, InReset, Is82xx
<1>16. OnlineIsInited'
  BY DEF IInv, Unload, Goto, ClearDrvActive, OnlineIsInited
<1> QED BY <1>1, <1>2, <1>3, <1>4, <1>5, <1>6, <1>7, <1>8, <1>9, <1>10, <1>11,
    <1>12, <1>13, <1>14, <1>15, <1>16 DEF IInv

\* A DPC thread that was told to give up declares the device FAILED, with the
\* lock.
LEMMA DpcUnrecoverableKeeps ==
  ASSUME IInv, TypeOK', NEW f \in Fcoe, DpcUnrecoverable(f)
  PROVE  IInv'
<1>1. \A g \in Fcoe : eeh[g] = "none" /\ ~Recovering(g)
  BY NoEeh DEF IInv, CallersFit, Recovering, DpcUnrecoverable, DpcTakes
<1>2. InTime' /\ OwnerIsLowest'
  BY DEF IInv, DpcUnrecoverable, registers, ownFlags, place, outside, history,
      InTime, OwnerIsLowest, Is82xx
<1>3. CallersFit'
  BY <1>1, Apart DEF IInv, DpcUnrecoverable, Enter, Goto, registers, TypeOK,
      CallersFit, InReset
<1>4. OthersNotAsked'
  BY <1>1, Apart DEF IInv, DpcUnrecoverable, OthersNotAsked
<1>5. EehPlaces'
  BY <1>1, Apart DEF IInv, DpcUnrecoverable, Enter, Goto, EehPlaces, Recovering
<1>6. EehAlone'
  BY <1>1, Apart DEF IInv, DpcUnrecoverable, outside, EehAlone, Recovering,
      EehBusy
<1>7. EehInOrder'
  BY <1>1, Apart DEF IInv, DpcUnrecoverable, outside, EehInOrder, EehBusy
<1>8. FailedRests'
  BY <1>1, Apart DEF IInv, DpcUnrecoverable, DpcTakes, Enter, Goto, ownFlags,
      outside, FailedRests, Is82xx
<1>9. PresentIsActive'
  BY <1>1, Apart DEF IInv, DpcUnrecoverable, DpcTakes, Enter, Goto, ownFlags,
      outside, history, PresentIsActive, Is82xx
<1>10. OfflinePlaces'
  BY <1>1, Apart DEF IInv, DpcUnrecoverable, DpcTakes, Enter, Goto, ownFlags,
      OfflinePlaces, AcksFit
<1>11. AcksFit'
  BY <1>1, Apart DEF IInv, DpcUnrecoverable, DpcTakes, Enter, Goto, AcksFit
<1>12. ResetsApart'
  BY <1>1, Apart DEF IInv, DpcUnrecoverable, DpcTakes, Enter, Goto, ResetsApart,
      InReset
<1>13. ColdIsQuiet'
  BY <1>1, Apart DEF IInv, DpcUnrecoverable, ColdIsQuiet
<1>14. StartIsQuiet'
  <2>1. ASSUME NEW g \in Fcoe, at[g] = "start", Is82xx PROVE FALSE
    <3>1. dev_state = "initializing" /\ caller[g] # "eeh" /\ f # g
      BY <1>1, <2>1 DEF IInv, StartIsQuiet, Recovering, DpcTakes,
          DpcUnrecoverable
    <3>2. f \in drv_active
      BY <1>1, <2>1, <3>1 DEF IInv, PresentIsActive, FailedRests, DpcTakes,
          DpcUnrecoverable
    <3> QED BY <2>1, <3>1, <3>2 DEF IInv, StartIsQuiet, Waits, DpcTakes,
        DpcUnrecoverable
  <2>2. /\ dev_state' = "failed" /\ drv_active' \subseteq drv_active
        /\ online' = online /\ seen' = seen
        /\ at' = [at EXCEPT ![f] = "handler"] /\ chip' = chip
        /\ \A g \in Fcoe \ {f} : caller'[g] = caller[g]
    BY DEF IInv, DpcUnrecoverable, Enter, Goto, ownFlags, outside
  <2>3. ASSUME NEW g \in Fcoe, at[g] = "start"
        PROVE  /\ ~Is82xx /\ g # f /\ g \in drv_active /\ f \notin drv_active
               /\ \A h \in drv_active \ {g} :
                    (Waits(h) /\ (at[h] = "acks" => h \notin seen)) \/ at[h] = "failing"
    <3>1. caller[g] # "eeh" /\ g # f
      BY <1>1, <2>3 DEF Recovering, DpcTakes, DpcUnrecoverable
    <3> QED BY <2>1, <2>3, <3>1 DEF IInv, StartIsQuiet, Waits, DpcTakes,
        DpcUnrecoverable
  <2>4. \A g \in Fcoe : g # f => at'[g] = at[g]
    BY <2>2 DEF IInv
  <2>5. at'[f] # "start"
    BY <2>2 DEF IInv, TypeOK
  <2>6. drv_active' \subseteq Fcoe /\ \A g \in Fcoe : g \in drv_active /\ g # f => g \in drv_active'
    BY DEF TypeOK, DpcUnrecoverable, ClearDrvActive, registers
  <2> QED BY <2>2, <2>3, <2>4, <2>5, <2>6 DEF IInv, StartIsQuiet, Waits, Is82xx
<1>15. StarterIsOwner'
  BY <1>1, Apart DEF IInv, DpcUnrecoverable, DpcTakes, ClearFlag, Enter, Goto,
      registers, ownFlags, place, outside, history, TypeOK, StarterIsOwner,
      InReset, Is82xx
<1>16. OnlineIsInited'
  BY <1>1, Apart DEF IInv, DpcUnrecoverable, DpcTakes, Enter, Goto, ownFlags,
      outside, history, OnlineIsInited
<1> QED BY <1>2, <1>3, <1>4, <1>5, <1>6, <1>7, <1>8, <1>9, <1>10, <1>11,
    <1>12, <1>13, <1>14, <1>15, <1>16 DEF IInv

\* A reset of the FCoE context alone takes the function offline.
LEMMA DpcFcoeCtxKeeps ==
  ASSUME IInv, TypeOK', NEW f \in Fcoe, DpcFcoeCtx(f)
  PROVE  IInv'
<1>1. InTime' /\ OwnerIsLowest'
  BY DEF IInv, DpcFcoeCtx, outside, InTime, OwnerIsLowest, Is82xx
<1>2. CallersFit'
  BY DEF IInv, DpcFcoeCtx, Goto, outside, CallersFit, InReset
<1>3. OthersNotAsked'
  BY DEF IInv, DpcFcoeCtx, Goto, registers, OthersNotAsked
<1>4. EehPlaces'
  BY DEF IInv, DpcFcoeCtx, Goto, registers, outside, EehPlaces, Recovering
<1>5. EehAlone'
  BY DEF IInv, DpcFcoeCtx, Goto, outside, EehAlone, Recovering, EehBusy
<1>6. EehInOrder'
  BY DEF IInv, DpcFcoeCtx, Goto, registers, outside, EehInOrder, Recovering,
      EehBusy
<1>7. FailedRests'
  BY DEF IInv, DpcFcoeCtx, Goto, registers, outside, FailedRests, Is82xx
<1>8. PresentIsActive'
  BY DEF IInv, DpcFcoeCtx, Goto, registers, outside, PresentIsActive, Is82xx
<1>9. OfflinePlaces'
  BY DEF IInv, DpcFcoeCtx, Goto, registers, outside, OfflinePlaces
<1>10. AcksFit'
  BY DEF IInv, DpcFcoeCtx, Goto, registers, AcksFit
<1>11. ResetsApart'
  BY DEF IInv, DpcFcoeCtx, Goto, registers, ResetsApart, InReset
<1>12. ColdIsQuiet'
  BY DEF IInv, DpcFcoeCtx, Goto, registers, outside, ColdIsQuiet, Waits, Is82xx
<1>13. StartIsQuiet'
  BY DEF IInv, DpcFcoeCtx, Goto, registers, outside, StartIsQuiet, Waits, Is82xx
<1>14. StarterIsOwner'
  BY DEF IInv, DpcFcoeCtx, Goto, registers, outside, StarterIsOwner, InReset,
      Is82xx
<1>15. OnlineIsInited'
  BY DEF IInv, DpcFcoeCtx, Goto, registers, outside, OnlineIsInited
<1> QED BY <1>1, <1>2, <1>3, <1>4, <1>5, <1>6, <1>7, <1>8, <1>9, <1>10, <1>11,
    <1>12, <1>13, <1>14, <1>15 DEF IInv

\* It comes back on new rings.
LEMMA FcoeCtxEndKeeps ==
  ASSUME IInv, TypeOK', NEW f \in Fcoe, FcoeCtxEnd(f)
  PROVE  IInv'
<1>1. InTime' /\ OwnerIsLowest'
  BY DEF IInv, FcoeCtxEnd, outside, InTime, OwnerIsLowest, Is82xx
<1>2. CallersFit'
  BY DEF IInv, FcoeCtxEnd, Goto, outside, CallersFit, InReset
<1>3. OthersNotAsked'
  BY DEF IInv, FcoeCtxEnd, Goto, registers, OthersNotAsked
<1>4. EehPlaces'
  BY DEF IInv, FcoeCtxEnd, Goto, registers, outside, EehPlaces, Recovering
<1>5. EehAlone'
  BY DEF IInv, FcoeCtxEnd, Goto, outside, EehAlone, Recovering, EehBusy, Is82xx
<1>6. EehInOrder'
  BY DEF IInv, FcoeCtxEnd, Goto, registers, outside, EehInOrder, Recovering,
      EehBusy
<1>7. FailedRests'
  BY DEF IInv, FcoeCtxEnd, Goto, registers, outside, FailedRests, Is82xx
<1>8. PresentIsActive'
  BY DEF IInv, FcoeCtxEnd, Goto, registers, outside, PresentIsActive, Is82xx
<1>9. OfflinePlaces'
  BY DEF IInv, FcoeCtxEnd, Goto, registers, ownFlags, place, TypeOK,
      OfflinePlaces, CallersFit
<1>10. AcksFit'
  BY DEF IInv, FcoeCtxEnd, Goto, registers, AcksFit
<1>11. ResetsApart'
  BY DEF IInv, FcoeCtxEnd, Goto, registers, ResetsApart, InReset
<1>12. ColdIsQuiet'
  BY DEF IInv, FcoeCtxEnd, Goto, registers, outside, ColdIsQuiet, Waits, Is82xx
<1>13. StartIsQuiet'
  BY DEF IInv, FcoeCtxEnd, Goto, registers, outside, StartIsQuiet, Waits, Is82xx
<1>14. StarterIsOwner'
  BY DEF IInv, FcoeCtxEnd, Goto, registers, outside, StarterIsOwner, InReset,
      Is82xx
<1>15. OnlineIsInited'
  BY DEF IInv, FcoeCtxEnd, Goto, registers, outside, OnlineIsInited
<1> QED BY <1>1, <1>2, <1>3, <1>4, <1>5, <1>6, <1>7, <1>8, <1>9, <1>10, <1>11,
    <1>12, <1>13, <1>14, <1>15 DEF IInv

\* The DPC thread starts a reset only where nothing else is under way.
LEMMA DpcAbortKeeps ==
  ASSUME IInv, TypeOK', NEW f \in Fcoe, DpcAbort(f)
  PROVE  IInv'
<1>1. InTime' /\ OwnerIsLowest'
  BY DEF IInv, DpcAbort, ownFlags, outside, InTime, OwnerIsLowest, Is82xx
<1>2. CallersFit'
  BY DEF IInv, DpcAbort, DpcTakes, Goto, ownFlags, outside, CallersFit, InReset
<1>3. OthersNotAsked'
  BY DEF IInv, DpcAbort, DpcTakes, Goto, registers, OthersNotAsked
<1>4. EehPlaces'
  BY DEF IInv, DpcAbort, DpcTakes, Goto, registers, outside, EehPlaces,
      Recovering
<1>5. EehAlone'
  BY DEF IInv, DpcAbort, DpcTakes, outside, EehAlone, Recovering, EehBusy
<1>6. EehInOrder'
  BY DEF IInv, DpcAbort, DpcTakes, Goto, registers, outside, EehInOrder,
      Recovering, EehBusy
<1>7. FailedRests'
  BY DEF IInv, DpcAbort, DpcTakes, Goto, registers, ownFlags, outside,
      FailedRests, Is82xx
<1>8. PresentIsActive'
  BY DEF IInv, DpcAbort, DpcTakes, Goto, registers, ownFlags, outside, history,
      PresentIsActive, Is82xx
<1>9. OfflinePlaces'
  BY DEF IInv, DpcAbort, Goto, registers, ownFlags, OfflinePlaces
<1>10. AcksFit'
  BY DEF IInv, DpcAbort, DpcTakes, Goto, registers, AcksFit
<1>11. ResetsApart'
  BY DEF IInv, DpcAbort, DpcTakes, Goto, registers, ResetsApart, InReset
<1>12. ColdIsQuiet'
  BY DEF IInv, DpcAbort, DpcTakes, Goto, registers, ownFlags, outside,
      ColdIsQuiet, Waits, Is82xx
<1>13. StartIsQuiet'
  BY DEF IInv, DpcAbort, DpcTakes, Goto, registers, ownFlags, outside,
      StartIsQuiet, Waits, Is82xx
<1>14. StarterIsOwner'
  BY DEF IInv, DpcAbort, Goto, registers, outside, StarterIsOwner, InReset,
      Is82xx
<1>15. OnlineIsInited'
  BY DEF IInv, DpcAbort, DpcTakes, Goto, registers, ownFlags, outside, history,
      OnlineIsInited
<1> QED BY <1>1, <1>2, <1>3, <1>4, <1>5, <1>6, <1>7, <1>8, <1>9, <1>10, <1>11,
    <1>12, <1>13, <1>14, <1>15 DEF IInv

\* abort_isp asks for NEED_RESET only from READY, when nobody is in the handler
\* of the last reset.
LEMMA AbortIspKeeps ==
  ASSUME IInv, TypeOK', InTime', NEW f \in Fcoe, AbortIsp(f)
  PROVE  IInv'
<1>1. \A g \in Fcoe : eeh[g] = "none" /\ ~Recovering(g)
  BY NoEeh DEF IInv, CallersFit, Recovering, AbortIsp
<1>2. InTime'
  BY DEF IInv, AbortIsp, registers, ownFlags, place, outside, history, InTime
<1>3. CallersFit'
  BY <1>1, Apart DEF IInv, AbortIsp, Within, Settled, Ownership, Enter, Goto, registers,
      ownFlags, place, outside, TypeOK, CallersFit, InReset
<1>4. OthersNotAsked'
  BY <1>1, Apart DEF IInv, AbortIsp, Within, Settled, Enter, Goto, registers, ownFlags,
      place, TypeOK, OthersNotAsked, InTime, Within
<1>5. EehPlaces'
  BY <1>1, Apart DEF IInv, AbortIsp, Enter, Goto, EehPlaces, Recovering
<1>6. EehAlone'
  BY <1>1, Apart DEF IInv, AbortIsp, outside, EehAlone, Recovering, EehBusy
<1>7. EehInOrder'
  BY <1>1, Apart DEF IInv, AbortIsp, outside, EehInOrder, EehBusy
<1>8. FailedRests'
  BY <1>1, Apart DEF IInv, AbortIsp, Enter, Goto, outside, FailedRests, Is82xx
<1>9. PresentIsActive'
  BY <1>1, Apart DEF IInv, AbortIsp, Enter, Goto, outside, history,
      PresentIsActive, Is82xx
<1>10. OfflinePlaces'
  BY <1>1, Apart DEF IInv, AbortIsp, Enter, Goto, OfflinePlaces, AcksFit
<1>11. AcksFit'
  BY <1>1, Apart DEF IInv, AbortIsp, Enter, Goto, AcksFit
<1>12. ResetsApart'
  BY <1>1, Apart DEF IInv, AbortIsp, Within, Settled, Enter, Goto, ResetsApart, InReset,
      InTime, Within
<1>13. ColdIsQuiet'
  BY <1>1, Apart DEF IInv, AbortIsp, Enter, Goto, outside, ColdIsQuiet, Waits,
      Is82xx
<1>14. StartIsQuiet'
  BY <1>1, Apart DEF IInv, AbortIsp, Enter, Goto, outside, StartIsQuiet, Waits,
      Is82xx
<1>15. OwnerIsLowest'
  BY <1>1, Apart DEF IInv, AbortIsp, Ownership, outside, OwnerIsLowest, Is82xx
<1>16. StarterIsOwner'
  BY <1>1, Apart DEF IInv, AbortIsp, Ownership, Enter, Goto, outside,
      StarterIsOwner, InReset, Is82xx
<1>17. OnlineIsInited'
  BY <1>1, Apart DEF IInv, AbortIsp, Enter, Goto, outside, history,
      OnlineIsInited
<1> QED BY <1>2, <1>3, <1>4, <1>5, <1>6, <1>7, <1>8, <1>9, <1>10, <1>11,
    <1>12, <1>13, <1>14, <1>15, <1>16, <1>17 DEF IInv

\* The acknowledgement is withdrawn when the handler has returned.
LEMMA ClearReadyKeeps ==
  ASSUME IInv, TypeOK', NEW f \in Fcoe, ClearReady(f)
  PROVE  IInv'
<1>1. InTime' /\ OwnerIsLowest'
  BY DEF IInv, ClearReady, registers, ownFlags, place, outside, InTime,
      OwnerIsLowest, Is82xx
<1>2. CallersFit'
  BY DEF IInv, ClearReady, Goto, CallersFit
<1>3. OthersNotAsked'
  BY DEF IInv, ClearReady, Goto, OthersNotAsked
<1>4. EehPlaces'
  BY DEF IInv, ClearReady, Goto, outside, EehPlaces, Recovering
<1>5. EehAlone'
  BY DEF IInv, ClearReady, Goto, outside, EehAlone, Recovering, EehBusy, Is82xx
<1>6. EehInOrder'
  BY DEF IInv, ClearReady, Goto, outside, EehInOrder, Recovering, EehBusy
<1>7. FailedRests'
  BY DEF IInv, ClearReady, Goto, outside, FailedRests, Is82xx
<1>8. PresentIsActive'
  BY DEF IInv, ClearReady, Goto, outside, history, PresentIsActive, Is82xx
<1>9. OfflinePlaces'
  BY DEF IInv, ClearReady, Goto, outside, history, OfflinePlaces
<1>10. AcksFit'
  BY DEF IInv, ClearReady, Goto, AcksFit
<1>11. ResetsApart'
  BY DEF IInv, ClearReady, Goto, ResetsApart, InReset
<1>12. ColdIsQuiet'
  BY DEF IInv, ClearReady, Goto, outside, ColdIsQuiet, Waits, Is82xx
<1>13. StartIsQuiet'
  BY DEF IInv, ClearReady, Goto, outside, StartIsQuiet, Waits, Is82xx
<1>14. StarterIsOwner'
  BY DEF IInv, ClearReady, Goto, outside, StarterIsOwner, InReset, Is82xx
<1>15. OnlineIsInited'
  BY DEF IInv, ClearReady, Goto, outside, history, OnlineIsInited
<1> QED BY <1>1, <1>2, <1>3, <1>4, <1>5, <1>6, <1>7, <1>8, <1>9, <1>10, <1>11,
    <1>12, <1>13, <1>14, <1>15 DEF IInv

\* The function goes online with rings that the new firmware knows.
LEMMA RestartIspKeeps ==
  ASSUME IInv, TypeOK', NEW f \in Fcoe, RestartIsp(f)
  PROVE  IInv'
<1>1. InTime' /\ OwnerIsLowest'
  BY DEF IInv, RestartIsp, outside, InTime, OwnerIsLowest, Is82xx
<1>2. CallersFit'
  BY DEF IInv, RestartIsp, Goto, outside, TypeOK, CallersFit, InReset
<1>3. OthersNotAsked'
  BY DEF IInv, RestartIsp, Goto, registers, OthersNotAsked
<1>4. EehPlaces'
  BY DEF IInv, RestartIsp, Goto, registers, outside, EehPlaces, Recovering
<1>5. EehAlone'
  BY DEF IInv, RestartIsp, Goto, outside, TypeOK, EehAlone, Recovering, EehBusy,
      Is82xx
<1>6. EehInOrder'
  BY DEF IInv, RestartIsp, Goto, registers, outside, EehInOrder, Recovering,
      EehBusy
<1>7. FailedRests'
  BY DEF IInv, RestartIsp, Goto, registers, outside, FailedRests, Is82xx
<1>8. PresentIsActive'
  BY DEF IInv, RestartIsp, Goto, registers, outside, PresentIsActive, Is82xx
<1>9. OfflinePlaces'
  BY DEF IInv, RestartIsp, Goto, registers, ownFlags, place, TypeOK,
      OfflinePlaces
<1>10. AcksFit'
  BY DEF IInv, RestartIsp, Goto, registers, AcksFit
<1>11. ResetsApart'
  BY DEF IInv, RestartIsp, Goto, registers, ResetsApart, InReset
<1>12. ColdIsQuiet'
  BY DEF IInv, RestartIsp, Goto, registers, outside, ColdIsQuiet, Waits, Is82xx
<1>13. StartIsQuiet'
  BY DEF IInv, RestartIsp, Goto, registers, outside, StartIsQuiet, Waits, Is82xx
<1>14. StarterIsOwner'
  BY DEF IInv, RestartIsp, Goto, registers, outside, StarterIsOwner, InReset,
      Is82xx
<1>15. OnlineIsInited'
  BY DEF IInv, RestartIsp, Goto, registers, outside, OnlineIsInited
<1> QED BY <1>1, <1>2, <1>3, <1>4, <1>5, <1>6, <1>7, <1>8, <1>9, <1>10, <1>11,
    <1>12, <1>13, <1>14, <1>15 DEF IInv

\* A function that gives up has failed, and withdraws its acknowledgement.
LEMMA GiveUpKeeps ==
  ASSUME IInv, TypeOK', NEW f \in Fcoe, GiveUp(f)
  PROVE  IInv'
<1>1. InTime' /\ OwnerIsLowest'
  BY DEF IInv, GiveUp, registers, ownFlags, place, outside, InTime,
      OwnerIsLowest, Is82xx
<1>2. CallersFit'
  BY DEF IInv, GiveUp, Goto, registers, ownFlags, place, TypeOK, CallersFit,
      InReset
<1>3. OthersNotAsked'
  BY DEF IInv, GiveUp, Goto, OthersNotAsked
<1>4. EehPlaces'
  BY DEF IInv, GiveUp, Goto, outside, EehPlaces, Recovering
<1>5. EehAlone'
  BY DEF IInv, GiveUp, Goto, registers, ownFlags, place, outside, TypeOK,
      EehAlone, Recovering, EehBusy, Is82xx
<1>6. EehInOrder'
  BY DEF IInv, GiveUp, Goto, outside, EehInOrder, Recovering, EehBusy
<1>7. FailedRests'
  BY DEF IInv, GiveUp, Goto, outside, FailedRests, Is82xx
<1>8. PresentIsActive'
  BY DEF IInv, GiveUp, Goto, outside, history, PresentIsActive, Is82xx
<1>9. OfflinePlaces'
  BY DEF IInv, GiveUp, Goto, registers, ownFlags, place, outside, history,
      TypeOK, OfflinePlaces
<1>10. AcksFit'
  BY DEF IInv, GiveUp, Goto, AcksFit
<1>11. ResetsApart'
  BY DEF IInv, GiveUp, Goto, ResetsApart, InReset
<1>12. ColdIsQuiet'
  BY DEF IInv, GiveUp, Goto, outside, ColdIsQuiet, Waits, Is82xx
<1>13. StartIsQuiet'
  BY DEF IInv, GiveUp, Goto, outside, StartIsQuiet, Waits, Is82xx
<1>14. StarterIsOwner'
  BY DEF IInv, GiveUp, Goto, outside, StarterIsOwner, InReset, Is82xx
<1>15. OnlineIsInited'
  BY DEF IInv, GiveUp, Goto, outside, history, OnlineIsInited, FailedRests
<1> QED BY <1>1, <1>2, <1>3, <1>4, <1>5, <1>6, <1>7, <1>8, <1>9, <1>10, <1>11,
    <1>12, <1>13, <1>14, <1>15 DEF IInv

\* The DPC thread goes on after a failed device was seen to.
LEMMA UnrecoverableEndKeeps ==
  ASSUME IInv, TypeOK', NEW f \in Fcoe, UnrecoverableEnd(f)
  PROVE  IInv'
<1>1. InTime' /\ FailedRests' /\ PresentIsActive' /\ ResetsApart' /\
    OwnerIsLowest' /\ StarterIsOwner' /\ OnlineIsInited'
  BY DEF IInv, UnrecoverableEnd, registers, ownFlags, place, outside, history,
      InTime, FailedRests, Is82xx, PresentIsActive, ResetsApart, OwnerIsLowest,
      StarterIsOwner, OnlineIsInited
<1>2. CallersFit'
  BY DEF IInv, UnrecoverableEnd, CallersFit
<1>3. OthersNotAsked'
  BY DEF IInv, UnrecoverableEnd, registers, OthersNotAsked
<1>4. EehPlaces'
  BY DEF IInv, UnrecoverableEnd, registers, outside, EehPlaces, Recovering
<1>5. EehAlone'
  BY DEF IInv, UnrecoverableEnd, ownFlags, outside, EehAlone, Recovering,
      EehBusy, Is82xx
<1>6. EehInOrder'
  BY DEF IInv, UnrecoverableEnd, registers, outside, EehInOrder, Recovering,
      EehBusy
<1>7. OfflinePlaces'
  BY DEF IInv, UnrecoverableEnd, registers, ownFlags, OfflinePlaces
<1>8. AcksFit'
  BY DEF IInv, UnrecoverableEnd, registers, AcksFit
<1>9. ColdIsQuiet'
  BY DEF IInv, UnrecoverableEnd, registers, ownFlags, outside, ColdIsQuiet,
      Waits, Is82xx
<1>10. StartIsQuiet'
  BY DEF IInv, UnrecoverableEnd, registers, ownFlags, outside, StartIsQuiet,
      Waits, Is82xx
<1> QED BY <1>1, <1>2, <1>3, <1>4, <1>5, <1>6, <1>7, <1>8, <1>9, <1>10 DEF
    IInv

\* A user asks when the device is READY; the owner of an 8044 is its lowest
\* function.
LEMMA SetResetOwnerKeeps ==
  ASSUME IInv, TypeOK', InTime', NEW f \in Fcoe, SetResetOwner(f)
  PROVE  IInv'
<1>1. \A g \in Fcoe : eeh[g] = "none" /\ ~Recovering(g)
  BY NoEeh DEF IInv, EehPlaces, EehBusy, SetResetOwner
<1>2. InTime' /\ CallersFit' /\ EehAlone' /\ FailedRests' /\ OfflinePlaces' /\
    AcksFit' /\ StarterIsOwner'
  BY DEF IInv, SetResetOwner, registers, ownFlags, place, outside, history,
      InTime, CallersFit, EehAlone, EehBusy, Is82xx, FailedRests, OfflinePlaces,
      AcksFit, StarterIsOwner
<1>3. OthersNotAsked'
  BY <1>1, Apart DEF IInv, SetResetOwner, Within, Settled, OwnerWhenAsking, place,
      OthersNotAsked, InTime, Within
<1>4. EehPlaces'
  BY <1>1, Apart DEF IInv, SetResetOwner, OwnerWhenAsking, place, EehPlaces,
      Recovering
<1>5. EehInOrder'
  BY <1>1, Apart DEF IInv, SetResetOwner, OwnerWhenAsking, EehInOrder,
      Recovering, EehBusy
<1>6. PresentIsActive'
  BY <1>1, Apart DEF IInv, SetResetOwner, OwnerWhenAsking, place,
      PresentIsActive, Is82xx
<1>7. ResetsApart'
  BY <1>1, Apart DEF IInv, SetResetOwner, Within, Settled, OwnerWhenAsking, place,
      ResetsApart, InTime, Within
<1>8. ColdIsQuiet'
  BY <1>1, Apart DEF IInv, SetResetOwner, OwnerWhenAsking, ColdIsQuiet
<1>9. StartIsQuiet'
  BY <1>1, Apart DEF IInv, SetResetOwner, OwnerWhenAsking, place, StartIsQuiet
<1>10. OwnerIsLowest'
  BY <1>1, Apart DEF IInv, SetResetOwner, OwnerWhenAsking, OwnerIsLowest, Is82xx
<1>11. OnlineIsInited'
  BY <1>1, Apart DEF IInv, SetResetOwner, OwnerWhenAsking, place, OnlineIsInited
<1> QED BY <1>2, <1>3, <1>4, <1>5, <1>6, <1>7, <1>8, <1>9, <1>10, <1>11 DEF
    IInv

--------------------------------------------------------------------------
(* PCI errors.                                                             *)

\* Whose slot is reset is the only one that is not at rest.
LEMMA SlotResetAlone ==
  ASSUME NoFunction0, IInv, NEW f \in Fcoe, SlotReset(f)
  PROVE  /\ Is82xx /\ dev_failed = {} /\ lock = Nobody /\ eeh[f] = "frozen"
         /\ at[f] = "idle"
         /\ \A g \in Fcoe : EehBusy(g) => g \in Loaded
         /\ \A g \in Fcoe : ~Recovering(g)
         /\ \A g \in Fcoe : at[g] \in {"idle", "unloaded"}
         /\ EehOwner(f) => \A g \in Fcoe : eeh[g] # "enabled"
         /\ ~EehOwner(f) => dev_state \in {"ready", "failed"}
<1>1. Is82xx /\ dev_failed = {} /\ lock = Nobody /\ eeh[f] = "frozen" /\ at[f] = "idle"
  BY DEF IInv, EehAlone, EehBusy, SlotReset
<1>2. \A g \in Fcoe : EehBusy(g) => g \in Loaded
  BY DEF IInv, EehAlone, EehPlaces, Loaded
<1>3. \A g \in Fcoe : ~Recovering(g)
  <2> SUFFICES ASSUME NEW g \in Fcoe, Recovering(g) PROVE FALSE
    OBVIOUS
  <2>1. g \in Loaded /\ at[g] # "idle" /\ g # f
    BY <1>1 DEF IInv, EehPlaces, Loaded
  <2>2. f < g
    BY <2>1, Apart DEF SlotReset
  <2> QED BY <1>1, <2>2 DEF IInv, EehInOrder, EehBusy
<1>4. \A g \in Fcoe : at[g] \in {"idle", "unloaded"}
  BY <1>1, <1>3 DEF IInv, EehAlone, EehBusy
<1>5. EehOwner(f) => \A g \in Fcoe : eeh[g] # "enabled"
  <2> SUFFICES ASSUME EehOwner(f), NEW g \in Fcoe, eeh[g] = "enabled" PROVE FALSE
    OBVIOUS
  <2>1. g \in Loaded
    BY <1>2 DEF EehBusy
  <2>2. g # f /\ g # 0
    BY <1>1, NoFunction0 DEF NoFunction0
  <2>3. ~(g < f)
    BY <2>1, <2>2 DEF EehOwner
  <2>4. f < g
    BY <2>2, <2>3, Apart
  <2> QED BY <1>1, <2>4 DEF IInv, EehInOrder, EehBusy
<1>6. ~EehOwner(f) => dev_state \in {"ready", "failed"}
  <2>1. ASSUME NEW g \in Loaded, g < f PROVE eeh[g] = "enabled"
    BY <2>1 DEF SlotReset
  <2> QED BY <2>1 DEF IInv, EehInOrder, EehOwner, Loaded
<1> QED BY <1>1, <1>2, <1>3, <1>4, <1>5, <1>6

\* Nobody else is being recovered then, nor has been.
LEMMA EehStartedAlone ==
  ASSUME IInv, NEW f \in Fcoe, EehStarted(f)
  PROVE  /\ Is82xx /\ lock = Nobody /\ eeh[f] = "frozen"
         /\ dev_state = "initializing"
         /\ \A g \in Fcoe \ {f} : at[g] \in {"idle", "unloaded"}
         /\ \A g \in Fcoe : eeh[g] # "enabled" /\ (at[g] # "unloaded" => eeh[g] = "frozen")
<1>1. Is82xx /\ lock = Nobody /\ eeh[f] = "frozen" /\ dev_state = "initializing"
  BY DEF IInv, EehAlone, EehBusy, EehPlaces, Recovering, StartIsQuiet,
      EehStarted
<1>2. \A g \in Fcoe \ {f} : at[g] \in {"idle", "unloaded"}
  <2> SUFFICES ASSUME NEW g \in Fcoe \ {f}, Recovering(g) PROVE FALSE
    BY <1>1 DEF IInv, EehAlone, EehBusy
  <2>1. eeh[g] = "frozen" /\ Recovering(f)
    BY DEF IInv, EehPlaces, EehStarted, Recovering
  <2>2. f < g \/ g < f
    BY Apart
  <2> QED BY <1>1, <2>1, <2>2 DEF IInv, EehInOrder, EehBusy
<1>3. \A g \in Fcoe : eeh[g] # "enabled" /\ (at[g] # "unloaded" => eeh[g] = "frozen")
  BY <1>1 DEF IInv, EehInOrder, EehAlone, EehBusy, TypeOK
<1> QED BY <1>1, <1>2, <1>3

\* Nobody else is being recovered.
LEMMA EehRecoveredAlone ==
  ASSUME IInv, NEW f \in Fcoe, EehRecovered(f)
  PROVE  /\ Is82xx /\ lock = Nobody /\ eeh[f] = "frozen" /\ dev_state = "ready"
         /\ \A g \in Fcoe \ {f} : at[g] \in {"idle", "unloaded"} /\ ~Recovering(g)
<1>1. Is82xx /\ lock = Nobody /\ eeh[f] = "frozen" /\ dev_state = "ready"
  BY DEF IInv, EehAlone, EehBusy, EehPlaces, Recovering, EehRecovered
<1>2. \A g \in Fcoe \ {f} : at[g] \in {"idle", "unloaded"} /\ ~Recovering(g)
  <2> SUFFICES ASSUME NEW g \in Fcoe \ {f}, Recovering(g) PROVE FALSE
    BY <1>1 DEF IInv, EehAlone, EehBusy
  <2>1. eeh[g] = "frozen" /\ Recovering(f)
    BY DEF IInv, EehPlaces, EehRecovered, Recovering
  <2>2. f < g \/ g < f
    BY Apart
  <2> QED BY <1>1, <2>1, <2>2 DEF IInv, EehInOrder, EehBusy
<1> QED BY <1>1, <1>2

\* One PCI error is over before the next.
LEMMA FrozenFirst ==
  ASSUME IInv, Frozen
  PROVE  /\ \A g \in Fcoe : eeh[g] = "none" /\ ~Recovering(g)
<1>1. \A g \in Fcoe : eeh[g] = "none" /\ ~Recovering(g)
  <2>1. PICK f \in Fcoe : at[f] = "idle" /\ ~EehBusy(f)
    BY DEF Frozen, Loaded
  <2>2. ~Recovering(f)
    BY <2>1 DEF IInv, EehPlaces, EehBusy
  <2> QED BY <2>1, <2>2, NoEeh
<1> QED BY <1>1

\* Only the lowest function that is frozen starts the firmware after a PCI
\* error.
LEMMA SlotResetKeeps ==
  ASSUME IInv, TypeOK', NoFunction0, NEW f \in Fcoe, SlotReset(f)
  PROVE  IInv'
<1>1. InTime' /\ OwnerIsLowest'
  BY DEF IInv, SlotReset, registers, ownFlags, place, outside, history, InTime,
      OwnerIsLowest, Is82xx
<1>2. CallersFit'
  BY SlotResetAlone, Apart DEF IInv, SlotReset, Goto, registers, ownFlags,
      place, outside, history, TypeOK, CallersFit, InReset
<1>3. OthersNotAsked'
  BY SlotResetAlone, Apart DEF IInv, SlotReset, OthersNotAsked
<1>4. EehPlaces'
  BY SlotResetAlone, Apart DEF IInv, SlotReset, Goto, registers, ownFlags,
      place, outside, history, TypeOK, EehPlaces, Recovering
<1>5. EehAlone'
  BY SlotResetAlone, Apart DEF IInv, SlotReset, Goto, registers, ownFlags,
      place, outside, history, TypeOK, EehAlone, Recovering, EehBusy, Is82xx
<1>6. EehInOrder'
  BY SlotResetAlone, Apart DEF IInv, SlotReset, Goto, registers, ownFlags,
      place, outside, history, TypeOK, EehInOrder, Recovering, EehBusy
<1>7. FailedRests'
  BY SlotResetAlone, Apart DEF IInv, SlotReset, Goto, registers, ownFlags,
      place, outside, history, TypeOK, FailedRests
<1>8. PresentIsActive'
  BY SlotResetAlone, Apart DEF IInv, SlotReset, Goto, registers, ownFlags,
      place, outside, history, TypeOK, PresentIsActive
<1>9. OfflinePlaces'
  BY SlotResetAlone, Apart DEF IInv, SlotReset, Goto, registers, ownFlags,
      place, outside, history, TypeOK, OfflinePlaces
<1>10. AcksFit'
  BY SlotResetAlone, Apart DEF IInv, SlotReset, registers, ownFlags, place,
      outside, history, TypeOK, AcksFit
<1>11. ResetsApart'
  BY SlotResetAlone, Apart DEF IInv, SlotReset, Goto, registers, ownFlags,
      place, outside, history, TypeOK, ResetsApart, InReset
<1>12. ColdIsQuiet'
  BY SlotResetAlone, Apart DEF IInv, SlotReset, ColdIsQuiet
<1>13. StartIsQuiet'
  BY SlotResetAlone, Apart DEF IInv, SlotReset, Goto, registers, ownFlags,
      place, outside, history, TypeOK, StartIsQuiet, Is82xx
<1>14. StarterIsOwner'
  BY SlotResetAlone, Apart DEF IInv, SlotReset, StarterIsOwner, Is82xx
<1>15. OnlineIsInited'
  BY SlotResetAlone, Apart DEF IInv, SlotReset, registers, ownFlags, place,
      outside, history, TypeOK, OnlineIsInited
<1> QED BY <1>1, <1>2, <1>3, <1>4, <1>5, <1>6, <1>7, <1>8, <1>9, <1>10, <1>11,
    <1>12, <1>13, <1>14, <1>15 DEF IInv

\* The start after a PCI error ends like any other.
LEMMA EehStartedKeeps ==
  ASSUME IInv, TypeOK', NEW f \in Fcoe, EehStarted(f)
  PROVE  IInv'
<1>1. InTime' /\ OwnerIsLowest'
  BY DEF IInv, EehStarted, registers, ownFlags, place, outside, history, InTime,
      OwnerIsLowest, Is82xx
<1>2. CallersFit'
  BY EehStartedAlone, Apart DEF IInv, EehStarted, Goto, registers, ownFlags,
      place, outside, history, TypeOK, CallersFit, InReset
<1>3. OthersNotAsked'
  BY EehStartedAlone, Apart DEF IInv, EehStarted, OthersNotAsked
<1>4. EehPlaces'
  BY EehStartedAlone, Apart DEF IInv, EehStarted, Goto, registers, ownFlags,
      place, outside, history, TypeOK, EehPlaces, Recovering
<1>5. EehAlone'
  BY EehStartedAlone, Apart DEF IInv, EehStarted, Goto, registers, ownFlags,
      place, outside, history, TypeOK, EehAlone, Recovering, EehBusy, Is82xx
<1>6. EehInOrder'
  BY EehStartedAlone, Apart DEF IInv, EehStarted, Goto, registers, ownFlags,
      place, outside, history, TypeOK, EehInOrder, Recovering, EehBusy
<1>7. FailedRests'
  BY EehStartedAlone, Apart DEF IInv, EehStarted, ClearDrvActive, Goto,
      registers, ownFlags, place, outside, history, TypeOK, FailedRests
<1>8. PresentIsActive'
  BY EehStartedAlone, Apart DEF IInv, EehStarted, ClearDrvActive, Goto,
      registers, ownFlags, place, outside, history, TypeOK, PresentIsActive
<1>9. OfflinePlaces'
  BY EehStartedAlone, Apart DEF IInv, EehStarted, Goto, registers, ownFlags,
      place, outside, history, TypeOK, OfflinePlaces
<1>10. AcksFit'
  BY EehStartedAlone, Apart DEF IInv, EehStarted, registers, ownFlags, place,
      outside, history, TypeOK, AcksFit
<1>11. ResetsApart'
  BY EehStartedAlone, Apart DEF IInv, EehStarted, Goto, registers, ownFlags,
      place, outside, history, TypeOK, ResetsApart, InReset
<1>12. ColdIsQuiet'
  BY EehStartedAlone, Apart DEF IInv, EehStarted, ColdIsQuiet
<1>13. StartIsQuiet'
  BY EehStartedAlone, Apart DEF IInv, EehStarted, Goto, registers, ownFlags,
      place, outside, history, TypeOK, StartIsQuiet
<1>14. StarterIsOwner'
  BY EehStartedAlone, Apart DEF IInv, EehStarted, StarterIsOwner, Is82xx
<1>15. OnlineIsInited'
  BY EehStartedAlone, Apart DEF IInv, EehStarted, registers, ownFlags, place,
      outside, history, TypeOK, OnlineIsInited, OfflinePlaces
<1> QED BY <1>1, <1>2, <1>3, <1>4, <1>5, <1>6, <1>7, <1>8, <1>9, <1>10, <1>11,
    <1>12, <1>13, <1>14, <1>15 DEF IInv

\* A function is recovered when those below it have been.
LEMMA EehRecoveredKeeps ==
  ASSUME IInv, TypeOK', NEW f \in Fcoe, EehRecovered(f)
  PROVE  IInv'
<1>1. Is82xx /\ lock = Nobody /\ eeh[f] = "frozen" /\ dev_state = "ready"
  BY EehRecoveredAlone
<1>2. \A g \in Fcoe \ {f} : at[g] \in {"idle", "unloaded"} /\ ~Recovering(g)
  BY EehRecoveredAlone
<1>3. InTime' /\ OwnerIsLowest'
  BY DEF IInv, EehRecovered, registers, ownFlags, place, outside, history,
      InTime, OwnerIsLowest, Is82xx
<1>4. CallersFit'
  BY <1>1, <1>2, Apart DEF IInv, EehRecovered, Goto, registers, ownFlags, place,
      outside, history, TypeOK, CallersFit, InReset
<1>5. OthersNotAsked'
  BY <1>1, <1>2, Apart DEF IInv, EehRecovered, OthersNotAsked
<1>6. EehPlaces'
  BY <1>1, <1>2, Apart DEF IInv, EehRecovered, Goto, registers, ownFlags, place,
      outside, history, TypeOK, EehPlaces, Recovering
<1>7. EehAlone'
  BY <1>1, <1>2, Apart DEF IInv, EehRecovered, Goto, EehAlone, Recovering,
      EehBusy, Is82xx
<1>8. EehInOrder'
  BY <1>1, <1>2, Apart DEF IInv, EehRecovered, Goto, registers, ownFlags, place,
      outside, history, TypeOK, EehInOrder, Recovering, EehBusy
<1>9. FailedRests'
  BY <1>1, <1>2, Apart DEF IInv, EehRecovered, SetDrvActive, Goto, FailedRests
<1>10. PresentIsActive'
  BY <1>1, <1>2, Apart DEF IInv, EehRecovered, SetDrvActive, Goto,
      PresentIsActive
<1>11. OfflinePlaces'
  BY <1>1, <1>2, Apart DEF IInv, EehRecovered, SetDrvActive, Goto, registers,
      ownFlags, place, outside, history, TypeOK, OfflinePlaces
<1>12. AcksFit'
  BY <1>1, <1>2, Apart DEF IInv, EehRecovered, Goto, AcksFit
<1>13. ResetsApart'
  BY <1>1, <1>2, Apart DEF IInv, EehRecovered, SetDrvActive, Goto, ResetsApart,
      InReset
<1>14. ColdIsQuiet'
  BY <1>1, <1>2, Apart DEF IInv, EehRecovered, SetDrvActive, ColdIsQuiet
<1>15. StartIsQuiet'
  BY <1>1, <1>2, Apart DEF IInv, EehRecovered, Goto, StartIsQuiet
<1>16. StarterIsOwner'
  BY <1>1, <1>2, Apart DEF IInv, EehRecovered, StarterIsOwner, Is82xx
<1>17. OnlineIsInited'
  BY <1>1, <1>2, Apart DEF IInv, EehRecovered, Goto, OnlineIsInited
<1> QED BY <1>3, <1>4, <1>5, <1>6, <1>7, <1>8, <1>9, <1>10, <1>11, <1>12,
    <1>13, <1>14, <1>15, <1>16, <1>17 DEF IInv

\* A PCI error comes when no reset is under way, and freezes all functions.
LEMMA FrozenKeeps ==
  ASSUME IInv, TypeOK', Frozen
  PROVE  IInv'
<1>1. InTime' /\ CallersFit' /\ OthersNotAsked' /\ FailedRests' /\
    OfflinePlaces' /\ AcksFit' /\ ResetsApart' /\ ColdIsQuiet' /\
    StartIsQuiet' /\ OwnerIsLowest' /\ StarterIsOwner'
  BY DEF IInv, Frozen, registers, ownFlags, place, outside, InTime, CallersFit,
      OthersNotAsked, FailedRests, Is82xx, OfflinePlaces, AcksFit, ResetsApart,
      ColdIsQuiet, Waits, StartIsQuiet, OwnerIsLowest, StarterIsOwner
<1>2. EehPlaces'
  BY FrozenFirst, Apart DEF IInv, Frozen, place, EehPlaces, Recovering
<1>3. EehAlone'
  BY FrozenFirst, Apart DEF IInv, Frozen, Loaded, place, EehAlone, Recovering,
      EehBusy, Is82xx
<1>4. EehInOrder'
  BY FrozenFirst, Apart DEF IInv, Frozen, place, EehInOrder, Recovering
<1>5. PresentIsActive'
  BY FrozenFirst, Apart DEF IInv, Frozen, registers, place, history,
      PresentIsActive
<1>6. OnlineIsInited'
  BY FrozenFirst, Apart DEF IInv, Frozen, Loaded, TypeOK, OnlineIsInited,
      OfflinePlaces
<1> QED BY <1>1, <1>2, <1>3, <1>4, <1>5, <1>6 DEF IInv

\* Functions go on when all of them were recovered.
LEMMA ResumeKeeps ==
  ASSUME IInv, TypeOK', Resume
  PROVE  IInv'
<1>1. InTime' /\ CallersFit' /\ OthersNotAsked' /\ FailedRests' /\
    OfflinePlaces' /\ AcksFit' /\ ResetsApart' /\ ColdIsQuiet' /\
    StartIsQuiet' /\ OwnerIsLowest' /\ StarterIsOwner'
  BY DEF IInv, Resume, registers, ownFlags, place, outside, InTime, CallersFit,
      OthersNotAsked, FailedRests, Is82xx, OfflinePlaces, AcksFit, ResetsApart,
      ColdIsQuiet, Waits, StartIsQuiet, OwnerIsLowest, StarterIsOwner
<1>2. EehPlaces'
  BY DEF IInv, Resume, Loaded, place, EehPlaces, Recovering
<1>3. EehAlone'
  BY DEF IInv, Resume, Loaded, place, EehAlone, Recovering, EehBusy
<1>4. EehInOrder'
  BY DEF IInv, Resume, EehInOrder, EehBusy
<1>5. PresentIsActive'
  BY DEF IInv, Resume, registers, ownFlags, place, history, PresentIsActive,
      Is82xx
<1>6. OnlineIsInited'
  BY DEF IInv, Resume, Loaded, ownFlags, history, TypeOK, OnlineIsInited,
      OfflinePlaces
<1> QED BY <1>1, <1>2, <1>3, <1>4, <1>5, <1>6 DEF IInv

--------------------------------------------------------------------------
\* The other steps change nothing that the invariant tells of.
LEMMA Quiet ==
  ASSUME IInv, TypeOK', InTime',
         UNCHANGED <<chip, dev_state, drv_active, drv_state, lock, at, caller, seen,
                     eeh, owner, online, dev_failed, inited, taken_out>>
  PROVE  IInv'
<1>1. /\ InTime' /\ CallersFit' /\ OthersNotAsked' /\ EehPlaces' /\ EehAlone'
      /\ EehInOrder'
      /\ FailedRests' /\ PresentIsActive' /\ OfflinePlaces' /\ AcksFit'
  BY DEF IInv, InTime, CallersFit, OthersNotAsked, EehPlaces, EehAlone,
      EehInOrder, EehBusy, Recovering, Is82xx, FailedRests, PresentIsActive,
      OfflinePlaces, AcksFit
<1>2. /\ ResetsApart' /\ ColdIsQuiet' /\ StartIsQuiet' /\ OwnerIsLowest'
      /\ StarterIsOwner'
      /\ OnlineIsInited'
  BY DEF IInv, Is82xx, ResetsApart, ColdIsQuiet, StartIsQuiet, Waits,
      OwnerIsLowest, StarterIsOwner, OnlineIsInited
<1> QED BY <1>1, <1>2 DEF IInv

\* The invariant is inductive.
LEMMA InvStep == NoFunction0 /\ IInv /\ InTime' /\ [Next]_vars => IInv'
<1> SUFFICES ASSUME NoFunction0, IInv, InTime', [Next]_vars PROVE IInv'
  OBVIOUS
<1>0. TypeOK'
  BY TypeStep, CallersFitCalled DEF IInv
<1>1. CASE UNCHANGED vars
  BY <1>0, <1>1, Quiet DEF vars, registers, ownFlags, place, outside, history
<1>2. ASSUME NEW f \in Fcoe, Sleep(f) PROVE IInv'
  BY <1>0, <1>2, SleepKeeps
<1>3. ASSUME NEW f \in Fcoe, SeeReady(f) PROVE IInv'
  BY <1>0, <1>3, SeeReadyKeeps
<1>4. ASSUME NEW f \in Fcoe, SeeFailed(f) PROVE IInv'
  BY <1>0, <1>4, SeeFailedKeeps
<1>5. ASSUME NEW f \in Fcoe, DevFailed(f) PROVE IInv'
  BY <1>0, <1>5, DevFailedKeeps
<1>6. ASSUME NEW f \in Fcoe, Bootstrap(f) PROVE IInv'
  BY <1>0, <1>6, BootstrapKeeps
<1>7. ASSUME NEW f \in Fcoe, Started(f) PROVE IInv'
  BY <1>0, <1>7, StartedKeeps
<1>8. ASSUME NEW f \in Fcoe, SeeNeedReset(f) PROVE IInv'
  BY <1>0, <1>8, SeeNeedResetKeeps
<1>9. ASSUME NEW f \in Fcoe, Cleanup(f) PROVE IInv'
  BY <1>0, <1>9, CleanupKeeps
<1>10. ASSUME NEW f \in Fcoe, Ack82xx(f) PROVE IInv'
  BY <1>0, <1>10, Ack82xxKeeps
<1>11. ASSUME NEW f \in Fcoe, AwaitAcks82xx(f) PROVE IInv'
  BY <1>0, <1>11, AwaitAcks82xxKeeps
<1>12. ASSUME NEW f \in Fcoe, Ack8044(f) PROVE IInv'
  BY <1>0, <1>12, Ack8044Keeps
<1>13. ASSUME NEW f \in Fcoe, AwaitAcks8044(f) PROVE IInv'
  BY <1>0, <1>13, AwaitAcks8044Keeps
<1>14. ASSUME NEW f \in Fcoe, Load(f) PROVE IInv'
  BY <1>0, <1>14, LoadKeeps
<1>15. ASSUME NEW f \in Fcoe, ProbeEnd(f) PROVE IInv'
  BY <1>0, <1>15, ProbeEndKeeps
<1>16. ASSUME NEW f \in Fcoe, ProbeFails(f) PROVE IInv'
  BY <1>0, <1>16, ProbeFailsKeeps
<1>17. ASSUME NEW f \in Fcoe, Unload(f) PROVE IInv'
  BY <1>0, <1>17, UnloadKeeps
<1>18. ASSUME NEW f \in Fcoe, DpcUnrecoverable(f) PROVE IInv'
  BY <1>0, <1>18, DpcUnrecoverableKeeps
<1>19. ASSUME NEW f \in Fcoe, DpcFcoeCtx(f) PROVE IInv'
  BY <1>0, <1>19, DpcFcoeCtxKeeps
<1>20. ASSUME NEW f \in Fcoe, FcoeCtxEnd(f) PROVE IInv'
  BY <1>0, <1>20, FcoeCtxEndKeeps
<1>21. ASSUME NEW f \in Fcoe, DpcAbort(f) PROVE IInv'
  BY <1>0, <1>21, DpcAbortKeeps
<1>22. ASSUME NEW f \in Fcoe, AbortIsp(f) PROVE IInv'
  BY <1>0, <1>22, AbortIspKeeps
<1>23. ASSUME NEW f \in Fcoe, ClearReady(f) PROVE IInv'
  BY <1>0, <1>23, ClearReadyKeeps
<1>24. ASSUME NEW f \in Fcoe, RestartIsp(f) PROVE IInv'
  BY <1>0, <1>24, RestartIspKeeps
<1>25. ASSUME NEW f \in Fcoe, GiveUp(f) PROVE IInv'
  BY <1>0, <1>25, GiveUpKeeps
<1>26. ASSUME NEW f \in Fcoe, UnrecoverableEnd(f) PROVE IInv'
  BY <1>0, <1>26, UnrecoverableEndKeeps
<1>27. ASSUME NEW f \in Fcoe, SetResetOwner(f) PROVE IInv'
  BY <1>0, <1>27, SetResetOwnerKeeps
<1>28. ASSUME NEW f \in Fcoe, SlotReset(f) PROVE IInv'
  BY <1>0, <1>28, SlotResetKeeps
<1>29. ASSUME NEW f \in Fcoe, EehStarted(f) PROVE IInv'
  BY <1>0, <1>29, EehStartedKeeps
<1>30. ASSUME NEW f \in Fcoe, EehRecovered(f) PROVE IInv'
  BY <1>0, <1>30, EehRecoveredKeeps
<1>31. ASSUME NEW f \in Fcoe, InitTimeout(f) PROVE IInv'
  BY <1>31 DEF IInv, InTime, InitTimeout, Within
<1>32. ASSUME NEW f \in Fcoe, Watchdog82xx(f) \/ Watchdog8044(f) \/ LoopDown(f) PROVE IInv'
  BY <1>0, <1>32, Quiet DEF Watchdog82xx, Watchdog8044, LoopDown, registers,
      ownFlags, place, outside, history
<1>33. CASE Frozen
  BY <1>0, <1>33, FrozenKeeps
<1>34. CASE Resume
  BY <1>0, <1>34, ResumeKeeps
<1>35. CASE FwHangs
  BY <1>0, <1>35, Quiet DEF FwHangs, registers, ownFlags, place, outside,
      history
<1> QED BY <1>1, <1>2, <1>3, <1>4, <1>5, <1>6, <1>7, <1>8, <1>9, <1>10, <1>11,
    <1>12, <1>13, <1>14, <1>15, <1>16, <1>17, <1>18, <1>19, <1>20, <1>21,
    <1>22, <1>23, <1>24, <1>25, <1>26, <1>27, <1>28, <1>29, <1>30, <1>31,
    <1>32, <1>33, <1>34, <1>35 DEF Next, HandlerStep, ThreadStep

--------------------------------------------------------------------------
(* A reset is due: what has to be so besides.                               *)

\* A reset of the firmware is due: it is not alive, or someone asked for it.
Due == fw # "alive" \/ asked \/ taken_out # {}

\* Who is asked to abort is so because a reset is due; but for a function that
\* is given up, or whose slot will be reset first.
FlagsAreDue ==
  \A f \in Fcoe : "abort" \in dpc_flags[f] =>
    f \in dev_failed \/ at[f] = "failing" \/ (eeh[f] = "frozen" /\ at[f] = "idle") \/ Due

\* A reset that is being prepared is due.
ResetsAreDue ==
  /\ \A f \in Fcoe : at[f] = "abort" => Due
  /\ dev_state = "need_reset" => Due
  /\ (\E f \in drv_active : at[f] \in InReset) => Due
  /\ dev_state = "cold" /\ drv_state # {} => Due

\* A function whose driver is not loaded, or is being loaded.
SetUp(f) ==
  at[f] \in {"unloaded", "probing"} \/ (at[f] \in InHandler /\ caller[f] = "load")

\* The watchdogs leave a function alone that is set up or handles a reset, so
\* that it does not ask for another when the firmware is alive again.
Unflagged ==
  \A f \in Fcoe :
    /\ SetUp(f) => dpc_flags[f] = {}
    /\ at[f] \in {"abort", "clear"} => "abort" \notin dpc_flags[f]
    /\ at[f] \in InHandler /\ caller[f] = "abort" => "abort" \notin dpc_flags[f]
    /\ Is82xx /\ at[f] \in InHandler \cup {"clear"} /\ caller[f] = "abort" =>
         f \in hdlr_active

\* What an 8044's watchdog has noticed is over when its function goes on.
HungIsDue ==
  ~Is82xx => \A f \in fw_hung :
    /\ ~SetUp(f)
    /\ \/ f \in dev_failed \/ at[f] = "failing" \/ Due
       \/ at[f] \in InHandler \cup {"clear"} /\ caller[f] = "abort"

\* The first driver of an 82xx does not find itself the owner of a reset.
LoadersOwnNothing == Is82xx => \A f \in owner : ~SetUp(f)

\* After a PCI error the firmware is off until the first function starts it, and
\* functions that have been recovered do not abort again.
EehFirst ==
  /\ \A f \in Fcoe :
       eeh[f] = "enabled" \/ Recovering(f) => "abort" \notin dpc_flags[f] \/ asked
  /\ \/ \A f \in Fcoe : ~EehBusy(f)
     \/ \E f \in Fcoe : eeh[f] = "enabled" \/ Recovering(f)
     \/ fw = "off"

AllDue == /\ FlagsAreDue /\ ResetsAreDue /\ Unflagged /\ HungIsDue
          /\ LoadersOwnNothing
          /\ EehFirst

\* Sleeping asks for nothing.
LEMMA SleepKeepsDue ==
  ASSUME IInv, AllDue, TypeOK', NEW f \in Fcoe, Sleep(f)
  PROVE  AllDue'
<1>1. FlagsAreDue' /\ ResetsAreDue' /\ Unflagged' /\ HungIsDue' /\
    LoadersOwnNothing' /\ EehFirst'
  BY DEF AllDue, Sleep, registers, ownFlags, place, outside, history,
      FlagsAreDue, Due, ResetsAreDue, Unflagged, InHandler, Is82xx, SetUp,
      HungIsDue, LoadersOwnNothing, EehFirst, Recovering, EehBusy
<1> QED BY <1>1 DEF AllDue

\* Who reads READY in a reset leaves without the flag of another.
LEMMA SeeReadyKeepsDue ==
  ASSUME IInv, AllDue, TypeOK', NEW f \in Fcoe, SeeReady(f)
  PROVE  AllDue'
<1>1. caller[f] \in {"load", "abort", "failed"}
  BY DEF IInv, CallersFit, SeeReady
<1>2. PICK p \in Places :
         /\ at' = [at EXCEPT ![f] = p]
         /\ \/ caller[f] = "load" /\ p = "probing"
            \/ caller[f] = "abort" /\ p = "clear"
            \/ caller[f] = "failed" /\ p = "idle"
  BY <1>1, Returns DEF IInv, SeeReady
<1>3. FlagsAreDue'
  BY <1>2 DEF IInv, AllDue, SeeReady, Briefly, registers, ownFlags, place,
      outside, history, TypeOK, FlagsAreDue, Due
<1>4. ResetsAreDue'
  BY <1>2 DEF IInv, AllDue, SeeReady, registers, history, ResetsAreDue, Due,
      InReset
<1>5. Unflagged'
  BY <1>2 DEF IInv, AllDue, SeeReady, outside, Unflagged, InHandler, Is82xx,
      SetUp
<1>6. HungIsDue'
  BY <1>2 DEF IInv, AllDue, SeeReady, outside, history, HungIsDue, Due, SetUp,
      InHandler, Is82xx
<1>7. LoadersOwnNothing'
  BY <1>2 DEF IInv, AllDue, SeeReady, outside, LoadersOwnNothing, SetUp,
      InHandler, Is82xx
<1>8. EehFirst'
  BY <1>2 DEF IInv, AllDue, SeeReady, outside, history, EehFirst, Recovering,
      EehBusy
<1> QED BY <1>3, <1>4, <1>5, <1>6, <1>7, <1>8 DEF AllDue

\* A function that fails may keep its flags.
LEMMA SeeFailedKeepsDue ==
  ASSUME IInv, AllDue, TypeOK', NEW f \in Fcoe, SeeFailed(f)
  PROVE  AllDue'
<1>1. FlagsAreDue'
  BY DEF IInv, AllDue, SeeFailed, Goto, outside, history, FlagsAreDue, Due
<1>2. ResetsAreDue'
  BY DEF IInv, AllDue, SeeFailed, Goto, outside, history, ResetsAreDue, Due,
      InReset
<1>3. Unflagged'
  BY DEF IInv, AllDue, SeeFailed, Goto, outside, Unflagged, InHandler, Is82xx,
      SetUp
<1>4. HungIsDue'
  BY DEF IInv, AllDue, SeeFailed, Goto, outside, history, HungIsDue, Due, SetUp,
      InHandler, Is82xx
<1>5. LoadersOwnNothing'
  BY DEF IInv, AllDue, SeeFailed, Goto, outside, LoadersOwnNothing, SetUp,
      InHandler, Is82xx
<1>6. EehFirst'
  BY DEF IInv, AllDue, SeeFailed, Goto, outside, history, EehFirst, Recovering,
      EehBusy
<1> QED BY <1>1, <1>2, <1>3, <1>4, <1>5, <1>6 DEF AllDue

\* They mean nothing once it has failed.
LEMMA DevFailedKeepsDue ==
  ASSUME IInv, AllDue, TypeOK', InTime', NEW f \in Fcoe, DevFailed(f)
  PROVE  AllDue'
<1>1. caller[f] \in {"load", "abort", "failed"}
  BY DEF IInv, CallersFit, DevFailed
<1>2. PICK p \in Places :
         /\ at' = [at EXCEPT ![f] = p]
         /\ \/ caller[f] = "load" /\ p = "unloaded"
            \/ caller[f] = "abort" /\ p = "gave_up"
            \/ caller[f] = "failed" /\ p = "idle"
  BY <1>1, Returns DEF IInv, DevFailed
<1>3. drv_active' = drv_active \ {f}
  BY DEF IInv, FailedRests, InTime, Within, DevFailed, ClearDrvActive
<1>4. FlagsAreDue'
  BY <1>2, <1>3 DEF IInv, AllDue, DevFailed, ClearDrvActive, registers,
      ownFlags, place, outside, history, TypeOK, FlagsAreDue, Due, Unflagged,
      SetUp, InHandler
<1>5. ResetsAreDue'
  BY <1>2, <1>3 DEF IInv, AllDue, DevFailed, history, ResetsAreDue, Due
<1>6. Unflagged'
  BY <1>2, <1>3 DEF IInv, AllDue, DevFailed, outside, Unflagged, InHandler,
      Is82xx, SetUp
<1>7. HungIsDue'
  BY <1>2, <1>3 DEF IInv, AllDue, DevFailed, outside, history, HungIsDue, Due,
      SetUp, InHandler, Is82xx
<1>8. LoadersOwnNothing'
  BY <1>2, <1>3 DEF IInv, AllDue, DevFailed, outside, LoadersOwnNothing, SetUp,
      InHandler, Is82xx
<1>9. EehFirst'
  BY <1>2, <1>3 DEF IInv, AllDue, DevFailed, outside, history, EehFirst,
      Recovering, EehBusy
<1> QED BY <1>4, <1>5, <1>6, <1>7, <1>8, <1>9 DEF AllDue

\* The device leaves COLD: started if a reset is due, or READY as its firmware
\* is alive.
LEMMA BootstrapKeepsDue ==
  ASSUME IInv, AllDue, TypeOK', NEW f \in Fcoe, Bootstrap(f)
  PROVE  AllDue'
<1>1. FlagsAreDue'
  BY DEF IInv, AllDue, Bootstrap, Goto, registers, ownFlags, place, outside,
      history, TypeOK, FlagsAreDue, Due
<1>2. ResetsAreDue'
  BY DEF IInv, AllDue, Bootstrap, Goto, registers, history, TypeOK,
      ResetsAreDue, Due, InReset
<1>3. Unflagged'
  BY DEF IInv, AllDue, Bootstrap, Goto, registers, ownFlags, place, outside,
      TypeOK, Unflagged, InHandler, Is82xx, SetUp
<1>4. HungIsDue'
  BY DEF IInv, AllDue, Bootstrap, Goto, registers, ownFlags, place, outside,
      history, TypeOK, HungIsDue, Due, SetUp, InHandler, Is82xx
<1>5. LoadersOwnNothing'
  BY DEF IInv, AllDue, Bootstrap, Goto, registers, ownFlags, place, outside,
      TypeOK, LoadersOwnNothing, SetUp, InHandler, Is82xx
<1>6. EehFirst'
  BY DEF IInv, AllDue, Bootstrap, Goto, registers, outside, history, TypeOK,
      EehFirst, Recovering, EehBusy
<1> QED BY <1>1, <1>2, <1>3, <1>4, <1>5, <1>6 DEF AllDue

\* With the start over the firmware is alive, and nobody is left who wants a
\* reset.
LEMMA StartedKeepsDue ==
  ASSUME IInv, AllDue, TypeOK', InTime', NEW f \in Fcoe, Started(f)
  PROVE  AllDue'
<1>1. \A g \in Fcoe : eeh[g] = "none" /\ ~Recovering(g)
  BY NoEeh DEF IInv, CallersFit, Recovering, Started
<1>2. FlagsAreDue'
  BY <1>1, Apart DEF IInv, AllDue, Started, Within, Timely, Locked, Event,
      ClearDrvActive, Goto, registers, ownFlags, place, outside, history,
      TypeOK, FlagsAreDue, Due, StartIsQuiet, Waits, PresentIsActive,
      CallersFit, Unflagged, SetUp, InHandler, InReset
<1>3. ResetsAreDue'
  BY <1>1, Apart DEF IInv, AllDue, Started, Within, Timely, Goto, registers, TypeOK,
      ResetsAreDue, Due, InReset, StartIsQuiet, Waits, PresentIsActive,
      FailedRests, InTime, Within
<1>4. Unflagged'
  BY <1>1, Apart DEF IInv, AllDue, Started, Goto, ownFlags, Unflagged,
      InHandler, Is82xx, SetUp
<1>5. HungIsDue'
  BY <1>1, Apart DEF IInv, AllDue, Started, Locked, Goto, registers, ownFlags,
      place, outside, history, TypeOK, HungIsDue, Due, SetUp, InHandler, Is82xx,
      StartIsQuiet, Waits, PresentIsActive, CallersFit, InReset
<1>6. LoadersOwnNothing'
  BY <1>1, Apart DEF IInv, AllDue, Started, Goto, ownFlags, LoadersOwnNothing,
      SetUp, InHandler, Is82xx
<1>7. EehFirst'
  BY <1>1, Apart DEF IInv, AllDue, Started, Goto, EehFirst, Recovering, EehBusy
<1> QED BY <1>2, <1>3, <1>4, <1>5, <1>6, <1>7 DEF AllDue

\* Who enters the need-reset handler does so because NEED_RESET is due.
LEMMA SeeNeedResetKeepsDue ==
  ASSUME IInv, AllDue, TypeOK', NEW f \in Fcoe, SeeNeedReset(f)
  PROVE  AllDue'
<1>1. FlagsAreDue'
  BY DEF IInv, AllDue, SeeNeedReset, Goto, ownFlags, outside, history, TypeOK,
      FlagsAreDue, Due
<1>2. ResetsAreDue'
  BY DEF IInv, AllDue, SeeNeedReset, history, ResetsAreDue, Due
<1>3. Unflagged'
  BY DEF IInv, AllDue, SeeNeedReset, Goto, ownFlags, outside, TypeOK, Unflagged,
      InHandler, Is82xx, SetUp
<1>4. HungIsDue'
  BY DEF IInv, AllDue, SeeNeedReset, Goto, ownFlags, outside, history, TypeOK,
      HungIsDue, Due, SetUp, InHandler, Is82xx
<1>5. LoadersOwnNothing'
  BY DEF IInv, AllDue, SeeNeedReset, Goto, ownFlags, outside, TypeOK,
      LoadersOwnNothing, SetUp, InHandler, Is82xx
<1>6. EehFirst'
  BY DEF IInv, AllDue, SeeNeedReset, Goto, outside, history, TypeOK, EehFirst,
      Recovering, EehBusy
<1> QED BY <1>1, <1>2, <1>3, <1>4, <1>5, <1>6 DEF AllDue

\* The cleanup of the chip drops the flag of the function.
LEMMA CleanupKeepsDue ==
  ASSUME IInv, AllDue, TypeOK', NEW f \in Fcoe, Cleanup(f)
  PROVE  AllDue'
<1>1. FlagsAreDue'
  BY DEF IInv, AllDue, Cleanup, Goto, ClearFlag, outside, history, FlagsAreDue,
      Due
<1>2. ResetsAreDue'
  BY DEF IInv, AllDue, Cleanup, Goto, ClearFlag, registers, outside, history,
      ResetsAreDue, Due, InReset
<1>3. Unflagged'
  BY DEF IInv, AllDue, Cleanup, Goto, ClearFlag, outside, Unflagged, InHandler,
      Is82xx, SetUp
<1>4. HungIsDue'
  BY DEF IInv, AllDue, Cleanup, Goto, outside, history, HungIsDue, Due, SetUp,
      InHandler, Is82xx, CallersFit, InReset
<1>5. LoadersOwnNothing'
  BY DEF IInv, AllDue, Cleanup, Goto, outside, LoadersOwnNothing, SetUp,
      InHandler, Is82xx
<1>6. EehFirst'
  BY DEF IInv, AllDue, Cleanup, Goto, ClearFlag, outside, history, EehFirst,
      Recovering, EehBusy
<1> QED BY <1>1, <1>2, <1>3, <1>4, <1>5, <1>6 DEF AllDue

\* COLD is written only in a reset that is due.
LEMMA Ack82xxKeepsDue ==
  ASSUME IInv, AllDue, TypeOK', InTime', NEW f \in Fcoe, Ack82xx(f)
  PROVE  AllDue'
<1>1. \A g \in Fcoe : eeh[g] = "none" /\ ~Recovering(g)
  BY NoEeh DEF IInv, CallersFit, Recovering, Ack82xx, InReset
<1>2. Due
  BY <1>1, Apart DEF IInv, AllDue, PresentIsActive, FailedRests, ResetsAreDue,
      InReset, Due, Ack82xx
<1>3. Due'
  BY <1>2 DEF Due, Ack82xx, history
<1>4. FlagsAreDue'
  BY <1>3 DEF IInv, AllDue, Ack82xx, Look82xx, Goto, registers, ownFlags, place,
      outside, history, TypeOK, FlagsAreDue, Due
<1>5. ResetsAreDue'
  BY <1>3 DEF IInv, AllDue, Ack82xx, ResetsAreDue, Due
<1>6. Unflagged'
  BY <1>3 DEF IInv, AllDue, Ack82xx, Look82xx, Goto, registers, ownFlags, place,
      TypeOK, Unflagged, InHandler, SetUp
<1>7. HungIsDue'
  BY <1>3 DEF IInv, AllDue, Ack82xx, outside, HungIsDue, Due, SetUp, InHandler,
      Is82xx
<1>8. LoadersOwnNothing'
  BY <1>3 DEF IInv, AllDue, Ack82xx, Look82xx, Goto, registers, ownFlags, place,
      TypeOK, LoadersOwnNothing, SetUp, InHandler
<1>9. EehFirst'
  BY <1>3 DEF IInv, AllDue, Ack82xx, Look82xx, Goto, registers, outside,
      history, TypeOK, EehFirst, Recovering, EehBusy
<1> QED BY <1>4, <1>5, <1>6, <1>7, <1>8, <1>9 DEF AllDue

\* The same for a function that has waited for the others.
LEMMA AwaitAcks82xxKeepsDue ==
  ASSUME IInv, AllDue, TypeOK', InTime', NEW f \in Fcoe, AwaitAcks82xx(f)
  PROVE  AllDue'
<1>1. \A g \in Fcoe : eeh[g] = "none" /\ ~Recovering(g)
  BY NoEeh DEF IInv, CallersFit, Recovering, AwaitAcks82xx, InReset
<1>2. Due
  BY <1>1, Apart DEF IInv, AllDue, PresentIsActive, FailedRests, ResetsAreDue,
      InReset, Due, AwaitAcks82xx
<1>3. Due'
  BY <1>2 DEF Due, AwaitAcks82xx, history
<1>4. FlagsAreDue'
  BY <1>3 DEF IInv, AllDue, AwaitAcks82xx, Look82xx, Awaited, Goto, registers,
      ownFlags, place, outside, history, TypeOK, FlagsAreDue, Due
<1>5. ResetsAreDue'
  BY <1>3 DEF IInv, AllDue, AwaitAcks82xx, ResetsAreDue, Due
<1>6. Unflagged'
  BY <1>3 DEF IInv, AllDue, AwaitAcks82xx, Look82xx, Goto, registers, ownFlags,
      place, TypeOK, Unflagged, InHandler, SetUp
<1>7. HungIsDue'
  BY <1>3 DEF IInv, AllDue, AwaitAcks82xx, outside, HungIsDue, Due, SetUp,
      InHandler, Is82xx
<1>8. LoadersOwnNothing'
  BY <1>3 DEF IInv, AllDue, AwaitAcks82xx, Look82xx, Goto, registers, ownFlags,
      place, TypeOK, LoadersOwnNothing, SetUp, InHandler
<1>9. EehFirst'
  BY <1>3 DEF IInv, AllDue, AwaitAcks82xx, Look82xx, Goto, registers, outside,
      history, TypeOK, EehFirst, Recovering, EehBusy
<1> QED BY <1>4, <1>5, <1>6, <1>7, <1>8, <1>9 DEF AllDue

\* The acknowledgement asks for nothing new.
LEMMA Ack8044KeepsDue ==
  ASSUME IInv, AllDue, TypeOK', NEW f \in Fcoe, Ack8044(f)
  PROVE  AllDue'
<1>1. \A g \in Fcoe : eeh[g] = "none" /\ ~Recovering(g)
  BY NoEeh DEF IInv, CallersFit, Recovering, Ack8044, InReset
<1>2. Due
  BY <1>1, Apart DEF IInv, AllDue, PresentIsActive, FailedRests, ResetsAreDue,
      InReset, Due, Ack8044
<1>3. Due'
  BY <1>2 DEF Due, Ack8044, history
<1>4. FlagsAreDue'
  BY <1>3 DEF IInv, AllDue, Ack8044, Briefly, Goto, registers, ownFlags, place,
      outside, history, TypeOK, FlagsAreDue, Due
<1>5. ResetsAreDue'
  BY <1>3 DEF IInv, AllDue, Ack8044, ResetsAreDue, Due
<1>6. Unflagged'
  BY <1>3 DEF IInv, AllDue, Ack8044, Goto, outside, Unflagged, InHandler,
      Is82xx, SetUp
<1>7. HungIsDue'
  BY <1>3 DEF IInv, AllDue, Ack8044, Goto, ownFlags, HungIsDue, Due, SetUp,
      InHandler
<1>8. LoadersOwnNothing'
  BY <1>3 DEF IInv, AllDue, Ack8044, outside, LoadersOwnNothing, SetUp,
      InHandler, Is82xx
<1>9. EehFirst'
  BY <1>3 DEF IInv, AllDue, Ack8044, Goto, outside, history, EehFirst,
      Recovering, EehBusy
<1> QED BY <1>4, <1>5, <1>6, <1>7, <1>8, <1>9 DEF AllDue

\* Whoever was taken out will ask for a reset; others are still in one that is
\* due.
LEMMA AwaitAcks8044KeepsDue ==
  ASSUME IInv, AllDue, TypeOK', InTime', NEW f \in Fcoe, AwaitAcks8044(f)
  PROVE  AllDue'
<1>1. FlagsAreDue'
  BY DEF IInv, AllDue, AwaitAcks8044, Recover8044, Goto, registers, ownFlags,
      place, outside, history, TypeOK, FlagsAreDue, Due
<1>2. ResetsAreDue'
  BY DEF IInv, AllDue, AwaitAcks8044, Recover8044, Goto, registers, ownFlags,
      place, TypeOK, ResetsAreDue, Due, InReset
<1>3. Unflagged'
  BY DEF IInv, AllDue, AwaitAcks8044, Recover8044, Goto, registers, ownFlags,
      place, outside, history, TypeOK, Unflagged, InHandler, Is82xx, SetUp
<1>4. HungIsDue'
  BY DEF IInv, AllDue, AwaitAcks8044, Recover8044, Goto, registers, ownFlags,
      place, TypeOK, HungIsDue, Due, SetUp, InHandler
<1>5. LoadersOwnNothing'
  BY DEF IInv, AllDue, AwaitAcks8044, outside, LoadersOwnNothing, SetUp,
      InHandler, Is82xx
<1>6. EehFirst'
  BY DEF IInv, AllDue, AwaitAcks8044, Recover8044, Goto, registers, ownFlags,
      place, outside, history, TypeOK, EehFirst, Recovering, EehBusy
<1> QED BY <1>1, <1>2, <1>3, <1>4, <1>5, <1>6 DEF AllDue

\* A driver is loaded without flags, and owns nothing.
LEMMA LoadKeepsDue ==
  ASSUME IInv, AllDue, TypeOK', InTime', NEW f \in Fcoe, Load(f)
  PROVE  AllDue'
<1>1. FlagsAreDue'
  BY DEF IInv, AllDue, Load, Enter, Goto, outside, history, FlagsAreDue, Due
<1>2. ResetsAreDue'
  BY DEF IInv, AllDue, Load, SetDrvActive, Enter, Goto, history, ResetsAreDue,
      Due, InReset
<1>3. Unflagged'
  BY DEF IInv, AllDue, Load, Enter, Goto, registers, ownFlags, place, outside,
      TypeOK, Unflagged, InHandler, Is82xx, SetUp
<1>4. HungIsDue'
  BY DEF IInv, AllDue, Load, Enter, Goto, outside, history, HungIsDue, Due,
      SetUp, InHandler, Is82xx
<1>5. LoadersOwnNothing'
  BY DEF IInv, AllDue, Load, Ownership, Enter, Goto, outside, LoadersOwnNothing,
      SetUp, InHandler, Is82xx
<1>6. EehFirst'
  BY DEF IInv, AllDue, Load, Enter, Goto, outside, history, EehFirst,
      Recovering, EehBusy
<1> QED BY <1>1, <1>2, <1>3, <1>4, <1>5, <1>6 DEF AllDue

\* A driver that has been loaded has no flags.
LEMMA ProbeEndKeepsDue ==
  ASSUME IInv, AllDue, TypeOK', NEW f \in Fcoe, ProbeEnd(f)
  PROVE  AllDue'
<1>1. \A g \in Fcoe : eeh[g] = "none" /\ ~Recovering(g)
  BY NoEeh DEF IInv, CallersFit, Recovering, ProbeEnd
<1>2. FlagsAreDue'
  BY <1>1 DEF IInv, AllDue, ProbeEnd, Goto, registers, ownFlags, place, outside,
      history, TypeOK, FlagsAreDue, Due
<1>3. ResetsAreDue'
  BY <1>1 DEF IInv, AllDue, ProbeEnd, Goto, registers, ResetsAreDue, Due,
      InReset
<1>4. Unflagged'
  BY <1>1 DEF IInv, AllDue, ProbeEnd, Goto, outside, Unflagged, InHandler,
      Is82xx, SetUp
<1>5. HungIsDue'
  BY <1>1 DEF IInv, AllDue, ProbeEnd, Goto, outside, HungIsDue, Due, SetUp,
      InHandler, Is82xx
<1>6. LoadersOwnNothing'
  BY <1>1 DEF IInv, AllDue, ProbeEnd, Goto, outside, LoadersOwnNothing, SetUp,
      InHandler, Is82xx
<1>7. EehFirst'
  BY <1>1 DEF IInv, AllDue, ProbeEnd, Goto, outside, EehFirst, Recovering,
      EehBusy
<1> QED BY <1>2, <1>3, <1>4, <1>5, <1>6, <1>7 DEF AllDue

\* Nor has one that could not be.
LEMMA ProbeFailsKeepsDue ==
  ASSUME IInv, AllDue, TypeOK', NEW f \in Fcoe, ProbeFails(f)
  PROVE  AllDue'
<1>1. \A g \in Fcoe : eeh[g] = "none" /\ ~Recovering(g)
  BY NoEeh DEF IInv, CallersFit, Recovering, ProbeFails
<1>2. FlagsAreDue'
  BY <1>1, Apart DEF IInv, AllDue, ProbeFails, Goto, Event, ClearDrvActive,
      registers, ownFlags, place, outside, history, TypeOK, FlagsAreDue, Due
<1>3. ResetsAreDue'
  BY <1>1, Apart DEF IInv, AllDue, ProbeFails, Goto, ClearDrvActive, history,
      ResetsAreDue, Due
<1>4. Unflagged'
  BY <1>1, Apart DEF IInv, AllDue, ProbeFails, Goto, Unflagged, InHandler,
      Is82xx, SetUp
<1>5. HungIsDue'
  BY <1>1, Apart DEF IInv, AllDue, ProbeFails, Goto, history, HungIsDue, Due,
      SetUp, InHandler, Is82xx
<1>6. LoadersOwnNothing'
  BY <1>1, Apart DEF IInv, AllDue, ProbeFails, Goto, LoadersOwnNothing, SetUp,
      InHandler, Is82xx
<1>7. EehFirst'
  BY <1>1, Apart DEF IInv, AllDue, ProbeFails, Goto, EehFirst, Recovering,
      EehBusy
<1> QED BY <1>2, <1>3, <1>4, <1>5, <1>6, <1>7 DEF AllDue

\* A driver that is removed takes its flags with it.
LEMMA UnloadKeepsDue ==
  ASSUME IInv, AllDue, TypeOK', NEW f \in Fcoe, Unload(f)
  PROVE  AllDue'
<1>1. \A g \in Fcoe : eeh[g] = "none" /\ ~Recovering(g)
  BY NoEeh DEF IInv, EehPlaces, Unload
<1>2. FlagsAreDue'
  BY <1>1 DEF IInv, AllDue, Unload, Goto, Event, ClearDrvActive, registers,
      ownFlags, place, outside, history, TypeOK, FlagsAreDue, Due
<1>3. ResetsAreDue'
  BY <1>1 DEF IInv, AllDue, Unload, Goto, ClearDrvActive, ResetsAreDue, Due
<1>4. Unflagged'
  BY <1>1 DEF IInv, AllDue, Unload, Goto, ClearDrvActive, registers, ownFlags,
      place, outside, history, TypeOK, Unflagged, InHandler, Is82xx, SetUp
<1>5. HungIsDue'
  BY <1>1 DEF IInv, AllDue, Unload, Goto, HungIsDue, Due, SetUp, InHandler,
      Is82xx
<1>6. LoadersOwnNothing'
  BY <1>1 DEF IInv, AllDue, Unload, Goto, LoadersOwnNothing, SetUp, InHandler,
      Is82xx
<1>7. EehFirst'
  BY <1>1 DEF IInv, AllDue, Unload, Goto, EehFirst, Recovering, EehBusy
<1> QED BY <1>2, <1>3, <1>4, <1>5, <1>6, <1>7 DEF AllDue

\* The watchdog of an 82xx asks when the firmware has stopped or NEED_RESET is
\* set.
LEMMA Watchdog82xxKeepsDue ==
  ASSUME IInv, AllDue, TypeOK', InTime', NEW f \in Fcoe, Watchdog82xx(f)
  PROVE  AllDue'
<1>1. \A g \in Fcoe : eeh[g] = "none" /\ ~Recovering(g)
  BY NoEeh DEF IInv, EehPlaces, EehBusy, Watchdog82xx, HasTimer
<1>2. ResetsAreDue' /\ LoadersOwnNothing'
  BY DEF AllDue, Watchdog82xx, registers, ownFlags, place, outside, history,
      ResetsAreDue, Due, LoadersOwnNothing, SetUp, InHandler, Is82xx
<1>3. FlagsAreDue'
  BY <1>1 DEF IInv, AllDue, Watchdog82xx, SetFlag, place, history, TypeOK,
      FlagsAreDue, Due, ResetsAreDue, HeartbeatLost, HungIsDue, SetUp, HasTimer,
      AbortActive, CallersFit, InHandler
<1>4. Unflagged'
  BY <1>1 DEF IInv, AllDue, Watchdog82xx, SetFlag, place, TypeOK, Unflagged,
      InHandler, SetUp, HasTimer, AbortActive, CallersFit, InTime, Within
<1>5. HungIsDue'
  BY <1>1 DEF IInv, AllDue, Watchdog82xx, outside, HungIsDue, Due, SetUp,
      InHandler, Is82xx, HeartbeatLost, HasTimer
<1>6. EehFirst'
  BY <1>1 DEF IInv, AllDue, Watchdog82xx, place, outside, EehFirst, Recovering,
      EehBusy
<1> QED BY <1>2, <1>3, <1>4, <1>5, <1>6 DEF AllDue

\* So does that of an 8044, by what it has noticed of the firmware.
LEMMA Watchdog8044KeepsDue ==
  ASSUME IInv, AllDue, TypeOK', NEW f \in Fcoe, Watchdog8044(f)
  PROVE  AllDue'
<1>1. \A g \in Fcoe : eeh[g] = "none" /\ ~Recovering(g)
  BY NoEeh DEF IInv, EehPlaces, EehBusy, Watchdog8044, HasTimer
<1>2. ResetsAreDue' /\ LoadersOwnNothing'
  BY DEF AllDue, Watchdog8044, registers, ownFlags, place, outside, history,
      ResetsAreDue, Due, LoadersOwnNothing, SetUp, InHandler, Is82xx
<1>3. FlagsAreDue'
  BY <1>1 DEF IInv, AllDue, Watchdog8044, SetFlag, place, history, TypeOK,
      FlagsAreDue, Due, ResetsAreDue, HeartbeatLost, HungIsDue, SetUp, HasTimer,
      AbortActive, CallersFit, InHandler
<1>4. Unflagged'
  BY <1>1 DEF IInv, AllDue, Watchdog8044, SetFlag, place, outside, TypeOK,
      Unflagged, InHandler, Is82xx, SetUp, HasTimer, AbortActive, CallersFit,
      InTime, Within
<1>5. HungIsDue'
  BY <1>1 DEF IInv, AllDue, Watchdog8044, place, history, HungIsDue, Due, SetUp,
      InHandler, HeartbeatLost, HasTimer
<1>6. EehFirst'
  BY <1>1 DEF IInv, AllDue, Watchdog8044, place, outside, EehFirst, Recovering,
      EehBusy
<1> QED BY <1>2, <1>3, <1>4, <1>5, <1>6 DEF AllDue

\* A link that is down too long asks for the FCoE context, not for an abort.
LEMMA LoopDownKeepsDue ==
  ASSUME IInv, AllDue, TypeOK', NEW f \in Fcoe, LoopDown(f)
  PROVE  AllDue'
<1>1. \A g \in Fcoe : eeh[g] = "none" /\ ~Recovering(g)
  BY NoEeh DEF IInv, EehPlaces, EehBusy, LoopDown, HasTimer
<1>2. ResetsAreDue' /\ HungIsDue' /\ LoadersOwnNothing'
  BY DEF AllDue, LoopDown, registers, ownFlags, place, outside, history,
      ResetsAreDue, Due, HungIsDue, SetUp, InHandler, Is82xx, LoadersOwnNothing
<1>3. FlagsAreDue'
  BY <1>1 DEF IInv, AllDue, LoopDown, SetFlag, ownFlags, place, history,
      FlagsAreDue, Due
<1>4. Unflagged'
  BY <1>1 DEF IInv, AllDue, LoopDown, SetFlag, ownFlags, place, Unflagged,
      InHandler, SetUp, HasTimer
<1>5. EehFirst'
  BY <1>1 DEF IInv, AllDue, LoopDown, place, EehFirst, Recovering, EehBusy
<1> QED BY <1>2, <1>3, <1>4, <1>5 DEF AllDue

\* A device that was declared FAILED asks for no reset.
LEMMA DpcUnrecoverableKeepsDue ==
  ASSUME IInv, AllDue, TypeOK', NEW f \in Fcoe, DpcUnrecoverable(f)
  PROVE  AllDue'
<1>1. \A g \in Fcoe : eeh[g] = "none" /\ ~Recovering(g)
  BY NoEeh DEF IInv, EehPlaces, DpcUnrecoverable, DpcTakes
<1>2. FlagsAreDue'
  BY <1>1 DEF IInv, AllDue, DpcUnrecoverable, DpcTakes, ClearFlag, Enter, Goto,
      registers, ownFlags, place, outside, history, TypeOK, FlagsAreDue, Due
<1>3. ResetsAreDue'
  BY <1>1 DEF IInv, AllDue, DpcUnrecoverable, Enter, Goto, history,
      ResetsAreDue, Due, InReset
<1>4. Unflagged'
  BY <1>1 DEF IInv, AllDue, DpcUnrecoverable, DpcTakes, ClearFlag, Enter, Goto,
      registers, ownFlags, place, outside, TypeOK, Unflagged, InHandler, Is82xx,
      SetUp
<1>5. HungIsDue'
  BY <1>1 DEF IInv, AllDue, DpcUnrecoverable, DpcTakes, Enter, Goto, registers,
      ownFlags, place, outside, history, TypeOK, HungIsDue, Due, SetUp,
      InHandler, Is82xx
<1>6. LoadersOwnNothing'
  BY <1>1 DEF IInv, AllDue, DpcUnrecoverable, Enter, Goto, registers, ownFlags,
      place, outside, TypeOK, LoadersOwnNothing, SetUp, InHandler, Is82xx
<1>7. EehFirst'
  BY <1>1 DEF IInv, AllDue, DpcUnrecoverable, Enter, Goto, outside, EehFirst,
      Recovering, EehBusy
<1> QED BY <1>2, <1>3, <1>4, <1>5, <1>6, <1>7 DEF AllDue

\* The reset of the FCoE context drops the flag with it.
LEMMA DpcFcoeCtxKeepsDue ==
  ASSUME IInv, AllDue, TypeOK', NEW f \in Fcoe, DpcFcoeCtx(f)
  PROVE  AllDue'
<1>1. \A g \in Fcoe : eeh[g] = "none" /\ ~Recovering(g)
  BY NoEeh DEF IInv, EehPlaces, DpcFcoeCtx
<1>2. FlagsAreDue'
  BY <1>1 DEF IInv, AllDue, DpcFcoeCtx, Goto, registers, ownFlags, place,
      outside, history, TypeOK, FlagsAreDue, Due
<1>3. ResetsAreDue'
  BY <1>1 DEF IInv, AllDue, DpcFcoeCtx, Goto, registers, ResetsAreDue, Due,
      InReset
<1>4. Unflagged'
  BY <1>1 DEF IInv, AllDue, DpcFcoeCtx, Goto, outside, Unflagged, InHandler,
      Is82xx, SetUp
<1>5. HungIsDue'
  BY <1>1 DEF IInv, AllDue, DpcFcoeCtx, Goto, outside, HungIsDue, Due, SetUp,
      InHandler, Is82xx
<1>6. LoadersOwnNothing'
  BY <1>1 DEF IInv, AllDue, DpcFcoeCtx, Goto, outside, LoadersOwnNothing, SetUp,
      InHandler, Is82xx
<1>7. EehFirst'
  BY <1>1 DEF IInv, AllDue, DpcFcoeCtx, Goto, outside, EehFirst, Recovering,
      EehBusy
<1> QED BY <1>2, <1>3, <1>4, <1>5, <1>6, <1>7 DEF AllDue

\* It asks for an abort only when the firmware is not alive.
LEMMA FcoeCtxEndKeepsDue ==
  ASSUME IInv, AllDue, TypeOK', NEW f \in Fcoe, FcoeCtxEnd(f)
  PROVE  AllDue'
<1>1. \A g \in Fcoe : eeh[g] = "none" /\ ~Recovering(g)
  BY NoEeh DEF IInv, CallersFit, Recovering, FcoeCtxEnd
<1>2. FlagsAreDue'
  BY <1>1 DEF IInv, AllDue, FcoeCtxEnd, Goto, SetFlag, registers, ownFlags,
      place, outside, history, TypeOK, FlagsAreDue, Due
<1>3. ResetsAreDue'
  BY <1>1 DEF IInv, AllDue, FcoeCtxEnd, Goto, registers, ResetsAreDue, Due,
      InReset
<1>4. Unflagged'
  BY <1>1 DEF IInv, AllDue, FcoeCtxEnd, Goto, SetFlag, outside, TypeOK,
      Unflagged, InHandler, Is82xx, SetUp
<1>5. HungIsDue'
  BY <1>1 DEF IInv, AllDue, FcoeCtxEnd, Goto, outside, HungIsDue, Due, SetUp,
      InHandler, Is82xx
<1>6. LoadersOwnNothing'
  BY <1>1 DEF IInv, AllDue, FcoeCtxEnd, Goto, outside, LoadersOwnNothing, SetUp,
      InHandler, Is82xx
<1>7. EehFirst'
  BY <1>1 DEF IInv, AllDue, FcoeCtxEnd, Goto, outside, EehFirst, Recovering,
      EehBusy
<1> QED BY <1>2, <1>3, <1>4, <1>5, <1>6, <1>7 DEF AllDue

\* The DPC thread takes the flag of a reset that is due.
LEMMA DpcAbortKeepsDue ==
  ASSUME IInv, AllDue, TypeOK', NEW f \in Fcoe, DpcAbort(f)
  PROVE  AllDue'
<1>1. \A g \in Fcoe : eeh[g] = "none" /\ ~Recovering(g)
  BY NoEeh DEF IInv, EehPlaces, DpcAbort, DpcTakes
<1>2. FlagsAreDue'
  BY <1>1 DEF IInv, AllDue, DpcAbort, DpcTakes, ClearFlag, Goto, registers,
      ownFlags, place, outside, history, TypeOK, FlagsAreDue, Due
<1>3. ResetsAreDue'
  BY <1>1 DEF IInv, AllDue, DpcAbort, DpcTakes, history, ResetsAreDue, Due,
      FlagsAreDue
<1>4. Unflagged'
  BY <1>1 DEF IInv, AllDue, DpcAbort, DpcTakes, ClearFlag, Goto, ownFlags,
      outside, TypeOK, Unflagged, InHandler, Is82xx, SetUp
<1>5. HungIsDue'
  BY <1>1 DEF IInv, AllDue, DpcAbort, DpcTakes, Goto, ownFlags, outside,
      history, HungIsDue, Due, SetUp, InHandler, Is82xx
<1>6. LoadersOwnNothing'
  BY <1>1 DEF IInv, AllDue, DpcAbort, Goto, ownFlags, outside,
      LoadersOwnNothing, SetUp, InHandler, Is82xx
<1>7. EehFirst'
  BY <1>1 DEF IInv, AllDue, DpcAbort, Goto, outside, EehFirst, Recovering,
      EehBusy
<1> QED BY <1>2, <1>3, <1>4, <1>5, <1>6, <1>7 DEF AllDue

\* NEED_RESET is written by a function that was flagged.
LEMMA AbortIspKeepsDue ==
  ASSUME IInv, AllDue, TypeOK', InTime', NEW f \in Fcoe, AbortIsp(f)
  PROVE  AllDue'
<1>1. \A g \in Fcoe : eeh[g] = "none" /\ ~Recovering(g)
  BY NoEeh DEF IInv, CallersFit, Recovering, AbortIsp
<1>2. FlagsAreDue'
  BY <1>1, Apart DEF IInv, AllDue, AbortIsp, Within, Settled, Ownership, Enter, Goto,
      registers, ownFlags, place, outside, history, TypeOK, FlagsAreDue, Due
<1>3. ResetsAreDue'
  BY <1>1, Apart DEF IInv, AllDue, AbortIsp, history, ResetsAreDue, Due
<1>4. Unflagged'
  BY <1>1, Apart DEF IInv, AllDue, AbortIsp, Enter, Goto, registers, ownFlags,
      place, outside, TypeOK, Unflagged, InHandler, Is82xx, SetUp
<1>5. HungIsDue'
  BY <1>1, Apart DEF IInv, AllDue, AbortIsp, Enter, Goto, registers, ownFlags,
      place, outside, history, TypeOK, HungIsDue, Due, SetUp, InHandler, Is82xx
<1>6. LoadersOwnNothing'
  BY <1>1, Apart DEF IInv, AllDue, AbortIsp, Ownership, Enter, Goto, registers,
      ownFlags, place, outside, TypeOK, LoadersOwnNothing, SetUp, InHandler,
      Is82xx
<1>7. EehFirst'
  BY <1>1, Apart DEF IInv, AllDue, AbortIsp, Enter, Goto, outside, EehFirst,
      Recovering, EehBusy
<1> QED BY <1>2, <1>3, <1>4, <1>5, <1>6, <1>7 DEF AllDue

\* Who leaves the reset has no flag, and forgets the hang.
LEMMA ClearReadyKeepsDue ==
  ASSUME IInv, AllDue, TypeOK', NEW f \in Fcoe, ClearReady(f)
  PROVE  AllDue'
<1>1. FlagsAreDue'
  BY DEF IInv, AllDue, ClearReady, Goto, outside, history, FlagsAreDue, Due
<1>2. ResetsAreDue'
  BY DEF IInv, AllDue, ClearReady, Goto, outside, history, ResetsAreDue, Due,
      InReset
<1>3. Unflagged'
  BY DEF IInv, AllDue, ClearReady, Goto, registers, ownFlags, place, outside,
      history, TypeOK, Unflagged, InHandler, Is82xx, SetUp
<1>4. HungIsDue'
  BY DEF IInv, AllDue, ClearReady, Goto, outside, history, HungIsDue, Due,
      SetUp, InHandler, Is82xx
<1>5. LoadersOwnNothing'
  BY DEF IInv, AllDue, ClearReady, Goto, outside, LoadersOwnNothing, SetUp,
      InHandler, Is82xx
<1>6. EehFirst'
  BY DEF IInv, AllDue, ClearReady, Goto, outside, history, EehFirst, Recovering,
      EehBusy
<1> QED BY <1>1, <1>2, <1>3, <1>4, <1>5, <1>6 DEF AllDue

\* A function that cannot be set up asks again only when the firmware is not
\* alive.
LEMMA RestartIspKeepsDue ==
  ASSUME IInv, AllDue, TypeOK', NEW f \in Fcoe, RestartIsp(f)
  PROVE  AllDue'
<1>1. \A g \in Fcoe : eeh[g] = "none" /\ ~Recovering(g)
  BY NoEeh DEF IInv, CallersFit, Recovering, RestartIsp
<1>2. FlagsAreDue'
  BY <1>1 DEF IInv, AllDue, RestartIsp, Goto, SetFlag, registers, ownFlags,
      place, outside, history, TypeOK, FlagsAreDue, Due
<1>3. ResetsAreDue'
  BY <1>1 DEF IInv, AllDue, RestartIsp, Goto, registers, ResetsAreDue, Due,
      InReset
<1>4. Unflagged'
  BY <1>1 DEF IInv, AllDue, RestartIsp, Goto, SetFlag, outside, TypeOK,
      Unflagged, InHandler, Is82xx, SetUp
<1>5. HungIsDue'
  BY <1>1 DEF IInv, AllDue, RestartIsp, Goto, outside, HungIsDue, Due, SetUp,
      InHandler, Is82xx
<1>6. LoadersOwnNothing'
  BY <1>1 DEF IInv, AllDue, RestartIsp, Goto, outside, LoadersOwnNothing, SetUp,
      InHandler, Is82xx
<1>7. EehFirst'
  BY <1>1 DEF IInv, AllDue, RestartIsp, Goto, outside, EehFirst, Recovering,
      EehBusy
<1> QED BY <1>2, <1>3, <1>4, <1>5, <1>6, <1>7 DEF AllDue

\* A function that gives up has failed: its flag means nothing.
LEMMA GiveUpKeepsDue ==
  ASSUME IInv, AllDue, TypeOK', NEW f \in Fcoe, GiveUp(f)
  PROVE  AllDue'
<1>1. \A g \in Fcoe : eeh[g] = "none" /\ ~Recovering(g)
  BY NoEeh DEF IInv, CallersFit, Recovering, GiveUp
<1>2. FlagsAreDue'
  BY <1>1 DEF IInv, AllDue, GiveUp, Goto, SetFlag, registers, ownFlags, place,
      outside, history, TypeOK, FlagsAreDue, Due, FailedRests
<1>3. ResetsAreDue'
  BY <1>1 DEF IInv, AllDue, GiveUp, Goto, history, ResetsAreDue, Due, InReset
<1>4. Unflagged'
  BY <1>1 DEF IInv, AllDue, GiveUp, Goto, SetFlag, registers, ownFlags, place,
      outside, history, TypeOK, Unflagged, InHandler, Is82xx, SetUp
<1>5. HungIsDue'
  BY <1>1 DEF IInv, AllDue, GiveUp, Goto, outside, history, HungIsDue, Due,
      SetUp, InHandler, Is82xx
<1>6. LoadersOwnNothing'
  BY <1>1 DEF IInv, AllDue, GiveUp, Goto, outside, LoadersOwnNothing, SetUp,
      InHandler, Is82xx
<1>7. EehFirst'
  BY <1>1 DEF IInv, AllDue, GiveUp, Goto, outside, EehFirst, Recovering, EehBusy
<1> QED BY <1>2, <1>3, <1>4, <1>5, <1>6, <1>7 DEF AllDue

\* The DPC thread goes on, with what it was asked for.
LEMMA UnrecoverableEndKeepsDue ==
  ASSUME IInv, AllDue, TypeOK', NEW f \in Fcoe, UnrecoverableEnd(f)
  PROVE  AllDue'
<1>1. FlagsAreDue' /\ ResetsAreDue'
  BY DEF AllDue, UnrecoverableEnd, registers, ownFlags, place, outside, history,
      FlagsAreDue, Due, ResetsAreDue
<1>2. Unflagged'
  BY DEF IInv, AllDue, UnrecoverableEnd, ownFlags, outside, Unflagged,
      InHandler, Is82xx, SetUp
<1>3. HungIsDue'
  BY DEF IInv, AllDue, UnrecoverableEnd, ownFlags, outside, history, HungIsDue,
      Due, SetUp, InHandler, Is82xx
<1>4. LoadersOwnNothing'
  BY DEF IInv, AllDue, UnrecoverableEnd, ownFlags, outside, LoadersOwnNothing,
      SetUp, InHandler, Is82xx
<1>5. EehFirst'
  BY DEF IInv, AllDue, UnrecoverableEnd, outside, history, EehFirst, Recovering,
      EehBusy
<1> QED BY <1>1, <1>2, <1>3, <1>4, <1>5 DEF AllDue

\* A user has asked for a reset.
LEMMA SetResetOwnerKeepsDue ==
  ASSUME IInv, AllDue, TypeOK', InTime', NEW f \in Fcoe, SetResetOwner(f)
  PROVE  AllDue'
<1>1. Unflagged'
  BY DEF AllDue, SetResetOwner, registers, ownFlags, place, outside, history,
      Unflagged, InHandler, Is82xx, SetUp
<1>2. FlagsAreDue'
  BY DEF IInv, AllDue, SetResetOwner, OwnerWhenAsking, FlagsAreDue, Due
<1>3. ResetsAreDue'
  BY DEF IInv, AllDue, SetResetOwner, OwnerWhenAsking, ResetsAreDue, Due
<1>4. HungIsDue'
  BY DEF IInv, AllDue, SetResetOwner, OwnerWhenAsking, place, HungIsDue, Due,
      SetUp, InHandler, Is82xx
<1>5. LoadersOwnNothing'
  BY DEF IInv, AllDue, SetResetOwner, OwnerWhenAsking, place, LoadersOwnNothing,
      SetUp, InHandler, Is82xx, CallersFit
<1>6. EehFirst'
  BY DEF IInv, AllDue, SetResetOwner, OwnerWhenAsking, place, EehFirst,
      Recovering, EehBusy
<1> QED BY <1>1, <1>2, <1>3, <1>4, <1>5, <1>6 DEF AllDue

\* The first function to be reset after a PCI error starts the firmware; one
\* that was offline may keep its flag.
LEMMA SlotResetKeepsDue ==
  ASSUME IInv, AllDue, TypeOK', NoFunction0, NEW f \in Fcoe, SlotReset(f)
  PROVE  AllDue'
<1>1. /\ \A g \in Fcoe \ {f} : dpc_flags'[g] = dpc_flags[g] /\ at'[g] = at[g] /\ eeh'[g] = eeh[g]
         /\ caller'[g] = caller[g]
      /\ "abort" \in dpc_flags'[f] => asked'
      /\ asked => asked'
  <2>1. \A g \in Fcoe \ {f} : at'[g] = at[g] /\ eeh'[g] = eeh[g] /\ caller'[g] = caller[g]
    BY DEF IInv, TypeOK, SlotReset, Goto
  <2>2. CASE f \in online
    <3>1. dpc_flags' = [dpc_flags EXCEPT ![f] = @ \ {"abort"}]
      BY <2>2 DEF SlotReset, ClearFlag
    <3>2. asked => asked'
      BY DEF SlotReset
    <3> QED BY <2>1, <3>1, <3>2 DEF IInv, TypeOK
  <2>3. CASE f \notin online
    BY <2>1, <2>3 DEF SlotReset
  <2> QED BY <2>2, <2>3
<1>2. FlagsAreDue'
  <2> SUFFICES ASSUME NEW g \in Fcoe, "abort" \in dpc_flags'[g], ~Due'
               PROVE  \/ g \in dev_failed' \/ at'[g] = "failing"
                      \/ (eeh'[g] = "frozen" /\ at'[g] = "idle")
    BY DEF FlagsAreDue
  <2>1. g # f /\ ~asked
    BY <1>1 DEF Due
  <2>2. fw' = fw /\ taken_out' = taken_out /\ dev_failed' = dev_failed
    BY DEF SlotReset
  <2>3. ~Due
    BY <1>1, <2>2 DEF Due
  <2> QED BY <1>1, <2>1, <2>2, <2>3 DEF AllDue, FlagsAreDue
<1>3. ResetsAreDue'
  BY SlotResetAlone, Apart DEF IInv, AllDue, SlotReset, Goto, ClearFlag,
      registers, ownFlags, place, outside, history, TypeOK, ResetsAreDue, Due,
      InReset
<1>4. Unflagged'
  BY SlotResetAlone, Apart DEF IInv, AllDue, SlotReset, Goto, ClearFlag,
      registers, ownFlags, place, outside, history, TypeOK, Unflagged,
      InHandler, SetUp
<1>5. HungIsDue'
  BY SlotResetAlone, Apart DEF IInv, AllDue, SlotReset, HungIsDue, Due, SetUp,
      InHandler, Is82xx
<1>6. LoadersOwnNothing'
  BY SlotResetAlone, Apart DEF IInv, AllDue, SlotReset, Goto, registers,
      ownFlags, place, outside, history, TypeOK, LoadersOwnNothing, SetUp,
      InHandler
<1>7. EehFirst'
  <2>1. eeh'[f] = "enabled" \/ Recovering(f)'
    BY DEF IInv, TypeOK, SlotReset, Goto, Recovering
  <2>2. ASSUME NEW g \in Fcoe, eeh'[g] = "enabled" \/ Recovering(g)'
        PROVE  "abort" \notin dpc_flags'[g] \/ asked'
    BY <1>1, <2>2 DEF AllDue, EehFirst, Recovering
  <2> QED BY <2>1, <2>2 DEF EehFirst
<1> QED BY <1>2, <1>3, <1>4, <1>5, <1>6, <1>7 DEF AllDue

\* The firmware is alive, and the functions still frozen are reset by their own
\* threads.
LEMMA EehStartedKeepsDue ==
  ASSUME IInv, AllDue, TypeOK', NEW f \in Fcoe, EehStarted(f)
  PROVE  AllDue'
<1>1. FlagsAreDue'
  BY EehStartedAlone, Apart DEF IInv, AllDue, EehStarted, Goto, registers,
      ownFlags, place, outside, history, TypeOK, FlagsAreDue, Due, EehFirst,
      Unflagged, SetUp, Recovering
<1>2. ResetsAreDue'
  BY EehStartedAlone, Apart DEF IInv, AllDue, EehStarted, Goto, registers,
      ownFlags, place, outside, history, TypeOK, ResetsAreDue, Due, InReset
<1>3. Unflagged'
  BY EehStartedAlone, Apart DEF IInv, AllDue, EehStarted, Goto, registers,
      ownFlags, place, outside, history, TypeOK, Unflagged, InHandler, SetUp
<1>4. HungIsDue'
  BY EehStartedAlone, Apart DEF IInv, AllDue, EehStarted, HungIsDue, Due, SetUp,
      InHandler, Is82xx
<1>5. LoadersOwnNothing'
  BY EehStartedAlone, Apart DEF IInv, AllDue, EehStarted, Goto, registers,
      ownFlags, place, outside, history, TypeOK, LoadersOwnNothing, SetUp,
      InHandler
<1>6. EehFirst'
  BY EehStartedAlone, Apart DEF IInv, AllDue, EehStarted, Goto, registers,
      ownFlags, place, outside, history, TypeOK, EehFirst, Recovering
<1> QED BY <1>1, <1>2, <1>3, <1>4, <1>5, <1>6 DEF AllDue

\* A recovered function has no flag left.
LEMMA EehRecoveredKeepsDue ==
  ASSUME IInv, AllDue, TypeOK', NEW f \in Fcoe, EehRecovered(f)
  PROVE  AllDue'
<1>1. FlagsAreDue'
  BY EehRecoveredAlone DEF IInv, AllDue, EehRecovered, Goto, FlagsAreDue, Due
<1>2. ResetsAreDue'
  BY EehRecoveredAlone DEF IInv, AllDue, EehRecovered, SetDrvActive, Goto,
      ResetsAreDue, Due, InReset
<1>3. Unflagged'
  BY EehRecoveredAlone DEF IInv, AllDue, EehRecovered, Goto, Unflagged,
      InHandler, Is82xx, SetUp
<1>4. HungIsDue'
  BY EehRecoveredAlone DEF IInv, AllDue, EehRecovered, HungIsDue, Due, SetUp,
      InHandler, Is82xx
<1>5. LoadersOwnNothing'
  BY EehRecoveredAlone DEF IInv, AllDue, EehRecovered, Goto, LoadersOwnNothing,
      SetUp, InHandler, Is82xx
<1>6. EehFirst'
  BY EehRecoveredAlone DEF IInv, AllDue, EehRecovered, Goto, registers,
      ownFlags, place, outside, history, TypeOK, EehFirst, Recovering
<1> QED BY <1>1, <1>2, <1>3, <1>4, <1>5, <1>6 DEF AllDue

\* A PCI error stops the firmware.
LEMMA FrozenKeepsDue ==
  ASSUME IInv, AllDue, TypeOK', Frozen
  PROVE  AllDue'
<1>1. Unflagged' /\ LoadersOwnNothing'
  BY DEF AllDue, Frozen, place, Unflagged, InHandler, SetUp, LoadersOwnNothing
<1>2. FlagsAreDue'
  BY FrozenFirst, Apart DEF IInv, AllDue, Frozen, FlagsAreDue, Due
<1>3. ResetsAreDue'
  BY FrozenFirst, Apart DEF IInv, AllDue, Frozen, ResetsAreDue, Due
<1>4. HungIsDue'
  BY FrozenFirst, Apart DEF IInv, AllDue, Frozen, HungIsDue, Due, SetUp,
      InHandler, Is82xx
<1>5. EehFirst'
  BY FrozenFirst, Apart DEF IInv, AllDue, Frozen, place, EehFirst, Recovering
<1> QED BY <1>1, <1>2, <1>3, <1>4, <1>5 DEF AllDue

\* No function is asked to abort when they all go on.
LEMMA ResumeKeepsDue ==
  ASSUME IInv, AllDue, TypeOK', Resume
  PROVE  AllDue'
<1>1. ResetsAreDue' /\ Unflagged' /\ HungIsDue' /\ LoadersOwnNothing'
  BY DEF AllDue, Resume, registers, ownFlags, place, outside, history,
      ResetsAreDue, Due, Unflagged, InHandler, Is82xx, SetUp, HungIsDue,
      LoadersOwnNothing
<1>2. FlagsAreDue'
  BY DEF IInv, AllDue, Resume, Loaded, ownFlags, history, FlagsAreDue, Due
<1>3. EehFirst'
  BY DEF IInv, AllDue, Resume, Loaded, ownFlags, place, history, EehFirst,
      Recovering, EehBusy
<1> QED BY <1>1, <1>2, <1>3 DEF AllDue

\* From here on a reset is due.
LEMMA FwHangsKeepsDue ==
  ASSUME IInv, AllDue, TypeOK', FwHangs
  PROVE  AllDue'
<1>1. Unflagged' /\ LoadersOwnNothing'
  BY DEF AllDue, FwHangs, ownFlags, place, Unflagged, InHandler, Is82xx, SetUp,
      LoadersOwnNothing
<1>2. FlagsAreDue'
  BY DEF IInv, AllDue, FwHangs, FlagsAreDue, Due
<1>3. ResetsAreDue'
  BY DEF IInv, AllDue, FwHangs, ResetsAreDue, Due
<1>4. HungIsDue'
  BY DEF IInv, AllDue, FwHangs, ownFlags, place, HungIsDue, Due, SetUp,
      InHandler, Is82xx
<1>5. EehFirst'
  BY DEF IInv, AllDue, FwHangs, place, history, EehFirst, Recovering, EehBusy
<1> QED BY <1>1, <1>2, <1>3, <1>4, <1>5 DEF AllDue

\* Given the first invariant, the second is inductive.
LEMMA DueStep == NoFunction0 /\ IInv /\ InTime' /\ AllDue /\ [Next]_vars => AllDue'
<1> SUFFICES ASSUME NoFunction0, IInv, InTime', AllDue, [Next]_vars PROVE AllDue'
  OBVIOUS
<1>0. TypeOK'
  BY TypeStep, CallersFitCalled DEF IInv
<1>1. CASE UNCHANGED vars
  BY <1>1 DEF vars, registers, ownFlags, place, outside, history, AllDue,
      FlagsAreDue, Due, ResetsAreDue, InReset, Unflagged, InHandler, Is82xx,
      SetUp, HungIsDue, LoadersOwnNothing, EehFirst, Recovering, EehBusy
<1>2. ASSUME NEW f \in Fcoe, Sleep(f) PROVE AllDue'
  BY <1>0, <1>2, SleepKeepsDue
<1>3. ASSUME NEW f \in Fcoe, SeeReady(f) PROVE AllDue'
  BY <1>0, <1>3, SeeReadyKeepsDue
<1>4. ASSUME NEW f \in Fcoe, SeeFailed(f) PROVE AllDue'
  BY <1>0, <1>4, SeeFailedKeepsDue
<1>5. ASSUME NEW f \in Fcoe, DevFailed(f) PROVE AllDue'
  BY <1>0, <1>5, DevFailedKeepsDue
<1>6. ASSUME NEW f \in Fcoe, Bootstrap(f) PROVE AllDue'
  BY <1>0, <1>6, BootstrapKeepsDue
<1>7. ASSUME NEW f \in Fcoe, Started(f) PROVE AllDue'
  BY <1>0, <1>7, StartedKeepsDue
<1>8. ASSUME NEW f \in Fcoe, SeeNeedReset(f) PROVE AllDue'
  BY <1>0, <1>8, SeeNeedResetKeepsDue
<1>9. ASSUME NEW f \in Fcoe, Cleanup(f) PROVE AllDue'
  BY <1>0, <1>9, CleanupKeepsDue
<1>10. ASSUME NEW f \in Fcoe, Ack82xx(f) PROVE AllDue'
  BY <1>0, <1>10, Ack82xxKeepsDue
<1>11. ASSUME NEW f \in Fcoe, AwaitAcks82xx(f) PROVE AllDue'
  BY <1>0, <1>11, AwaitAcks82xxKeepsDue
<1>12. ASSUME NEW f \in Fcoe, Ack8044(f) PROVE AllDue'
  BY <1>0, <1>12, Ack8044KeepsDue
<1>13. ASSUME NEW f \in Fcoe, AwaitAcks8044(f) PROVE AllDue'
  BY <1>0, <1>13, AwaitAcks8044KeepsDue
<1>14. ASSUME NEW f \in Fcoe, Load(f) PROVE AllDue'
  BY <1>0, <1>14, LoadKeepsDue
<1>15. ASSUME NEW f \in Fcoe, ProbeEnd(f) PROVE AllDue'
  BY <1>0, <1>15, ProbeEndKeepsDue
<1>16. ASSUME NEW f \in Fcoe, ProbeFails(f) PROVE AllDue'
  BY <1>0, <1>16, ProbeFailsKeepsDue
<1>17. ASSUME NEW f \in Fcoe, Unload(f) PROVE AllDue'
  BY <1>0, <1>17, UnloadKeepsDue
<1>18. ASSUME NEW f \in Fcoe, Watchdog82xx(f) PROVE AllDue'
  BY <1>0, <1>18, Watchdog82xxKeepsDue
<1>19. ASSUME NEW f \in Fcoe, Watchdog8044(f) PROVE AllDue'
  BY <1>0, <1>19, Watchdog8044KeepsDue
<1>20. ASSUME NEW f \in Fcoe, LoopDown(f) PROVE AllDue'
  BY <1>0, <1>20, LoopDownKeepsDue
<1>21. ASSUME NEW f \in Fcoe, DpcUnrecoverable(f) PROVE AllDue'
  BY <1>0, <1>21, DpcUnrecoverableKeepsDue
<1>22. ASSUME NEW f \in Fcoe, DpcFcoeCtx(f) PROVE AllDue'
  BY <1>0, <1>22, DpcFcoeCtxKeepsDue
<1>23. ASSUME NEW f \in Fcoe, FcoeCtxEnd(f) PROVE AllDue'
  BY <1>0, <1>23, FcoeCtxEndKeepsDue
<1>24. ASSUME NEW f \in Fcoe, DpcAbort(f) PROVE AllDue'
  BY <1>0, <1>24, DpcAbortKeepsDue
<1>25. ASSUME NEW f \in Fcoe, AbortIsp(f) PROVE AllDue'
  BY <1>0, <1>25, AbortIspKeepsDue
<1>26. ASSUME NEW f \in Fcoe, ClearReady(f) PROVE AllDue'
  BY <1>0, <1>26, ClearReadyKeepsDue
<1>27. ASSUME NEW f \in Fcoe, RestartIsp(f) PROVE AllDue'
  BY <1>0, <1>27, RestartIspKeepsDue
<1>28. ASSUME NEW f \in Fcoe, GiveUp(f) PROVE AllDue'
  BY <1>0, <1>28, GiveUpKeepsDue
<1>29. ASSUME NEW f \in Fcoe, UnrecoverableEnd(f) PROVE AllDue'
  BY <1>0, <1>29, UnrecoverableEndKeepsDue
<1>30. ASSUME NEW f \in Fcoe, SetResetOwner(f) PROVE AllDue'
  BY <1>0, <1>30, SetResetOwnerKeepsDue
<1>31. ASSUME NEW f \in Fcoe, SlotReset(f) PROVE AllDue'
  BY <1>0, <1>31, SlotResetKeepsDue
<1>32. ASSUME NEW f \in Fcoe, EehStarted(f) PROVE AllDue'
  BY <1>0, <1>32, EehStartedKeepsDue
<1>33. ASSUME NEW f \in Fcoe, EehRecovered(f) PROVE AllDue'
  BY <1>0, <1>33, EehRecoveredKeepsDue
<1>34. ASSUME NEW f \in Fcoe, InitTimeout(f) PROVE AllDue'
  BY <1>34 DEF IInv, InTime, InitTimeout, Within
<1>35. CASE Frozen
  BY <1>0, <1>35, FrozenKeepsDue
<1>36. CASE Resume
  BY <1>0, <1>36, ResumeKeepsDue
<1>37. CASE FwHangs
  BY <1>0, <1>37, FwHangsKeepsDue
<1> QED BY <1>1, <1>2, <1>3, <1>4, <1>5, <1>6, <1>7, <1>8, <1>9, <1>10, <1>11,
    <1>12, <1>13, <1>14, <1>15, <1>16, <1>17, <1>18, <1>19, <1>20, <1>21,
    <1>22, <1>23, <1>24, <1>25, <1>26, <1>27, <1>28, <1>29, <1>30, <1>31,
    <1>32, <1>33, <1>34, <1>35, <1>36, <1>37 DEF Next, HandlerStep, ThreadStep

\* Types at the start.
LEMMA TypeInit == Init => TypeOK /\ Called
<1> SUFFICES ASSUME Init PROVE TypeOK /\ Called
  OBVIOUS
<1> USE P3pIdcAssumption DEF Init
<1>1. /\ at \in [Fcoe -> Places] /\ caller \in [Fcoe -> Callers]
      /\ read \in [Fcoe -> SUBSET Fcoe]
      /\ eeh \in [Fcoe -> {"none", "frozen", "enabled"}]
      /\ dpc_flags \in [Fcoe -> SUBSET Flags]
  BY DEF Places, Callers
<1>2. events \in 0..MaxEvents /\ dev_state \in States /\ fw \in {"off", "alive", "hung", "dead"}
  BY DEF States
<1>3. Called
  BY DEF Called, InHandler
<1> QED BY <1>1, <1>2, <1>3 DEF TypeOK

\* The invariant at the start.
LEMMA InitInv == Init => IInv
<1> SUFFICES ASSUME Init PROVE IInv
  OBVIOUS
<1>1. \A f \in Fcoe : at[f] = "unloaded" /\ caller[f] = "none" /\ eeh[f] = "none"
  BY DEF Init
<1>2. /\ dev_state = "cold" /\ drv_active = {} /\ drv_state = {} /\ lock = Nobody
      /\ owner = {} /\ dev_failed = {} /\ online = {} /\ taken_out = {}
  BY DEF Init
<1>3. CallersFit /\ OthersNotAsked /\ EehPlaces /\ EehAlone /\ EehInOrder
  BY <1>1, <1>2 DEF CallersFit, InReset, OthersNotAsked, EehPlaces, Recovering,
      EehAlone, EehBusy, EehInOrder
<1>4. FailedRests /\ PresentIsActive /\ OfflinePlaces /\ AcksFit /\ ResetsApart /\ ColdIsQuiet
  BY <1>1, <1>2 DEF FailedRests, PresentIsActive, OfflinePlaces, AcksFit,
      ResetsApart, ColdIsQuiet
<1>5. StartIsQuiet /\ OwnerIsLowest /\ StarterIsOwner /\ OnlineIsInited
  BY <1>1, <1>2 DEF StartIsQuiet, OwnerIsLowest, StarterIsOwner, OnlineIsInited
<1>6. InTime
  BY DEF Init, InTime
<1> QED BY <1>3, <1>4, <1>5, <1>6, TypeInit DEF IInv

\* Who has been late stays so: in time after a step is in time before it.
LEMMA LateStays == [Next]_vars => (InTime' => InTime)
<1> SUFFICES ASSUME [Next]_vars PROVE late \subseteq late'
  BY DEF InTime
<1>1. CASE UNCHANGED vars \/ Frozen \/ Resume \/ FwHangs
  BY <1>1 DEF vars, Within, outside, Frozen, Resume, FwHangs
<1>2. ASSUME NEW f \in Fcoe, HandlerStep(f) \/ InitTimeout(f) PROVE late \subseteq late'
  BY <1>2 DEF HandlerStep, Sleep, SeeReady, SeeFailed, DevFailed, Bootstrap,
      Started, SeeNeedReset, Cleanup, Ack82xx, AwaitAcks82xx, Look82xx, Ack8044,
      AwaitAcks8044, InitTimeout, Within, outside
<1>3. ASSUME NEW f \in Fcoe, ThreadStep(f) PROVE late \subseteq late'
  BY <1>3 DEF ThreadStep, ProbeEnd, ProbeFails, DpcUnrecoverable, DpcFcoeCtx,
      FcoeCtxEnd, DpcAbort, AbortIsp, ClearReady, RestartIsp, GiveUp,
      UnrecoverableEnd, SlotReset, EehStarted, EehRecovered, Within, outside
<1>4. ASSUME NEW f \in Fcoe,
             \/ ProbeFails(f) \/ Load(f) \/ Unload(f) \/ SetResetOwner(f)
             \/ Watchdog82xx(f) \/ Watchdog8044(f) \/ LoopDown(f)
      PROVE  late \subseteq late'
  BY <1>4 DEF ProbeFails, Load, Unload, SetResetOwner, Watchdog82xx,
      Watchdog8044, LoopDown, Within, outside
<1> QED BY <1>1, <1>2, <1>3, <1>4 DEF Next

\* The invariant holds until a thread is late, the types for ever.
LEMMA InvStays ==
  ASSUME NoFunction0
  PROVE  TypeOK /\ Called /\ (InTime => IInv) /\ [Next]_vars
           => TypeOK' /\ Called' /\ (InTime' => IInv')
BY InvStep, TypeStep, CalledStep, LateStays

--------------------------------------------------------------------------
(* What the invariant says of the properties.                              *)

\* While one function starts the firmware, no participant issues commands.
LEMMA IsPrepared == IInv => Prepared
<1> SUFFICES ASSUME IInv, NEW f \in Fcoe, NEW g \in Fcoe, at[f] = "start", g \in drv_active,
                    Running(g)
             PROVE  FALSE
  BY DEF Prepared
<1>1. at[g] \in {"probing", "restart_isp", "fcoe_ctx", "recovered"} \/ (at[g] = "idle" /\ ~EehBusy(g))
  BY DEF Running
<1>2. CASE caller[f] = "eeh"
  <2>1. EehBusy(f) /\ dev_state # "ready"
    BY <1>2 DEF IInv, EehPlaces, EehBusy, Recovering, StartIsQuiet
  <2>2. EehBusy(g) /\ at[g] # "recovered"
    BY <1>1, <2>1 DEF IInv, EehAlone, EehPlaces
  <2> QED BY <1>1, <2>2 DEF IInv, EehAlone, EehPlaces, Recovering
<1>3. CASE caller[f] # "eeh"
  BY <1>1, <1>3 DEF IInv, StartIsQuiet, Waits
<1> QED BY <1>2, <1>3

\* No two functions start it.
LEMMA IsOne == IInv => OneStarts
BY DEF IInv, StartIsQuiet, OneStarts

\* Who is online takes part, and an acknowledgement is that of a reset.
LEMMA TakesPart == IInv => RunsOnItsFirmware /\ RunningIsActive /\ AcksAreOwn
<1> SUFFICES ASSUME IInv PROVE RunsOnItsFirmware /\ RunningIsActive /\ AcksAreOwn
  OBVIOUS
<1>1. RunsOnItsFirmware
  BY DEF IInv, OnlineIsInited, RunsOnItsFirmware, Running, EehBusy
<1>2. RunningIsActive
  BY DEF IInv, PresentIsActive, EehInOrder, RunningIsActive, Running, EehBusy
<1>3. AcksAreOwn
  BY DEF IInv, TypeOK, AcksFit, AcksAreOwn, InHandler
<1> QED BY <1>1, <1>2, <1>3

\* Who starts the firmware does so because a reset is due.
LEMMA StartsAreDue ==
  ASSUME NoFunction0, IInv, InTime', AllDue, Next, NEW h \in Fcoe, at[h] # "start", at'[h] = "start"
  PROVE  Due
<1> USE DEF IInv, TypeOK
<1>1. ASSUME NEW f \in Fcoe, SeeReady(f) \/ DevFailed(f) PROVE Due
  <2>1. \E p \in Places \ {"start"} : at' = [at EXCEPT ![f] = p]
    BY <1>1, Returns DEF CallersFit, SeeReady, DevFailed
  <2> QED BY <2>1
<1>2. ASSUME NEW f \in Fcoe, Bootstrap(f) PROVE Due
  <2>1. CASE fw # "alive" \/ drv_state # {}
    BY <1>2, <2>1 DEF AllDue, ResetsAreDue, Due, Bootstrap
  <2>2. CASE fw = "alive" /\ drv_state = {}
    <3>1. at' = [at EXCEPT ![f] = "handler"] \/ at' = at \/ (Is82xx /\ f \in owner)
      BY <1>2, <2>2 DEF Bootstrap, NeedReset
    <3>2. caller[f] = "load" /\ at[f] = "handler"
      BY <1>2, <2>2 DEF ColdIsQuiet, Bootstrap
    <3> QED BY <3>1, <3>2 DEF AllDue, LoadersOwnNothing, SetUp, InHandler
  <2> QED BY <2>1, <2>2
<1>3. ASSUME NEW f \in Fcoe, AwaitAcks8044(f) PROVE Due
  <2>1. f = h /\ f \in drv_active
    BY <1>3 DEF AwaitAcks8044, Recover8044, Goto
  <2> QED BY <1>3, <2>1 DEF AllDue, ResetsAreDue, InReset, AwaitAcks8044
<1>4. ASSUME NEW f \in Fcoe, SlotReset(f) PROVE Due
  <2>1. f = h /\ EehOwner(f)
    BY <1>4 DEF SlotReset, Goto
  <2> QED BY <1>4, <2>1, SlotResetAlone DEF AllDue, EehFirst, EehBusy, Due
<1>5. ASSUME NEW f \in Fcoe,
             \/ Sleep(f) \/ SeeFailed(f) \/ Started(f) \/ SeeNeedReset(f) \/ Cleanup(f)
             \/ Ack82xx(f) \/ AwaitAcks82xx(f) \/ Ack8044(f)
      PROVE  FALSE
  BY <1>5 DEF Sleep, SeeFailed, Started, SeeNeedReset, Cleanup, Ack82xx,
      AwaitAcks82xx, Look82xx, Ack8044, Goto
<1>6. ASSUME NEW f \in Fcoe,
             \/ ProbeEnd(f) \/ ProbeFails(f) \/ DpcUnrecoverable(f) \/ DpcFcoeCtx(f)
             \/ FcoeCtxEnd(f) \/ DpcAbort(f) \/ AbortIsp(f)
      PROVE  FALSE
  BY <1>6 DEF ProbeEnd, ProbeFails, DpcUnrecoverable, DpcFcoeCtx, FcoeCtxEnd,
      DpcAbort, AbortIsp, Enter, Goto
<1>7. ASSUME NEW f \in Fcoe,
             \/ ClearReady(f) \/ RestartIsp(f) \/ GiveUp(f) \/ UnrecoverableEnd(f)
             \/ EehStarted(f) \/ EehRecovered(f)
      PROVE  FALSE
  BY <1>7 DEF ClearReady, RestartIsp, GiveUp, UnrecoverableEnd, EehStarted,
      EehRecovered, Goto
<1>8. ASSUME NEW f \in Fcoe,
             \/ InitTimeout(f) \/ Load(f) \/ Unload(f) \/ SetResetOwner(f)
             \/ Watchdog82xx(f) \/ Watchdog8044(f) \/ LoopDown(f)
      PROVE  FALSE
  BY <1>8 DEF InTime, Within, InitTimeout, Load, Unload, SetResetOwner,
      Watchdog82xx, Watchdog8044, LoopDown, Enter, Goto, place
<1>9. CASE Frozen \/ Resume \/ FwHangs
  BY <1>9 DEF Frozen, Resume, FwHangs, place
<1> QED BY <1>1, <1>2, <1>3, <1>4, <1>5, <1>6, <1>7, <1>8, <1>9 DEF Next,
    HandlerStep, ThreadStep

\* The second invariant at the start.
LEMMA InitDue == Init => AllDue
<1> SUFFICES ASSUME Init PROVE AllDue
  OBVIOUS
<1>1. \A f \in Fcoe : at[f] = "unloaded" /\ caller[f] = "none" /\ eeh[f] = "none" /\ dpc_flags[f] = {}
  BY DEF Init
<1>2. drv_active = {} /\ drv_state = {} /\ dev_state = "cold" /\ owner = {} /\ fw_hung = {}
  BY DEF Init
<1> QED BY <1>1, <1>2 DEF AllDue, FlagsAreDue, ResetsAreDue, Unflagged, SetUp,
    HungIsDue, LoadersOwnNothing, EehFirst, EehBusy, Recovering, InHandler

\* While one function starts the firmware no other starts it too, and none that
\* takes part issues commands to it: for any of the functions 1 to 7, on either
\* adapter, whatever hangs, unloads, failing starts and PCI errors meet, up to
\* the first step that does not wait for a thread that is late.
THEOREM StartsAlwaysPrepared ==
  ASSUME NoFunction0
  PROVE  Spec => []StartsArePrepared
<1> DEFINE Inv == TypeOK /\ Called /\ (InTime => IInv)
<1>1. Init => Inv
  BY InitInv, TypeInit
<1>2. Inv /\ [Next]_vars => Inv'
  BY InvStays
<1>3. Inv => StartsArePrepared
  BY IsPrepared, IsOne DEF StartsArePrepared, OneStarts, Prepared
<1> QED BY <1>1, <1>2, <1>3, PTL DEF Spec

\* Who issues commands takes part in the IDC, on rings that this firmware knows,
\* and an acknowledgement is that of a reset its function is handling: for any of
\* the functions 1 to 7 and any disturbances, up to the first step that does not
\* wait for a thread that is late.
THEOREM RunningAlwaysTakesPart ==
  ASSUME NoFunction0
  PROVE  Spec => []RunningTakesPart
<1> DEFINE Inv == TypeOK /\ Called /\ (InTime => IInv)
<1>1. Init => Inv
  BY InitInv, TypeInit
<1>2. Inv /\ [Next]_vars => Inv'
  BY InvStays
<1>3. Inv => RunningTakesPart
  BY TakesPart DEF RunningTakesPart, RunsOnItsFirmware, RunningIsActive,
      AcksAreOwn
<1> QED BY <1>1, <1>2, <1>3, PTL DEF Spec

\* One hang makes one reset, though every function notices it by itself and asks
\* for a reset of its own: no step starts a firmware that is alive unless a user
\* asked, or a function that was offline in a PCI error, or one was taken out.
THEOREM OneResetForEveryHang ==
  ASSUME NoFunction0
  PROVE  Spec => OneResetPerHang
<1> DEFINE Inv == TypeOK /\ Called /\ (InTime => IInv /\ AllDue)
           Step == InTime' => \A f \in Fcoe : at[f] # "start" /\ at'[f] = "start" =>
                     fw # "alive" \/ asked \/ taken_out # {}
<1>1. Init => Inv
  BY InitInv, TypeInit, InitDue
<1>2. Inv /\ [Next]_vars => Inv'
  <2>1. Inv /\ [Next]_vars => TypeOK' /\ Called' /\ (InTime' => IInv')
    BY InvStays
  <2>2. Inv /\ [Next]_vars => (InTime' => AllDue')
    BY DueStep, LateStays
  <2> QED BY <2>1, <2>2
<1>3. Inv /\ [Next]_vars => [Step]_vars
  BY StartsAreDue, LateStays DEF Due
<1> QED BY <1>1, <1>2, <1>3, PTL DEF Spec, OneResetPerHang
============================================================================
