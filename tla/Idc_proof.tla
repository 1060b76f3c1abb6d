---------------------------- MODULE Idc_proof ----------------------------
(***************************************************************************)
(* The reset owner is one and is conducting a reset, and the firmware is   *)
(* restarted only while every FCoE function that takes part waits: for any *)
(* number of disturbances, whatever they are, and any drivers of other     *)
(* protocols that conduct one reset at a time.                             *)
(*                                                                         *)
(* Neither is inductive.  That the owner is alone needs that it is the     *)
(* lowest function (OwnerIsLowest), that no other protocol can begin: it   *)
(* asks when the device is READY, which the owner sees first, with the     *)
(* lock kept (OwnerAlone), and that an other protocol that conducts is     *)
(* present, so that no owner is made then (OthersTakePart).  A restart is  *)
(* prepared because whoever has acknowledged waits (AckedWaits), because   *)
(* those that have not are withdrawn, and because COLD is read by nobody   *)
(* but the owner that wrote it (ColdIsPrepared).                           *)
(*                                                                         *)
(* There is one lemma per action; it first names the parts of the          *)
(* invariant that the action does not touch.                               *)
(***************************************************************************)
EXTENDS IdcState, IdcLock, FiniteSetTheorems, TLAPS

\* Only a handler that somebody called runs, and its place says what it does.
CalledHandler == \A f \in Fcoe : at[f] \in InHandler => caller[f] # "none"

\* Ownership is given to the lowest FCoE function only.
OwnerIsLowest == \A f \in owner : \A g \in Fcoe : f <= g

\* Who waits for the others, and who restarts the firmware, is the owner.  Who
\* gives up is no longer.
OwnerConducts ==
  \A f \in Fcoe :
    /\ at[f] \in {"acks", "restart"} => f \in owner
    /\ at[f] = "failing" => f \notin owner

\* Drivers of other protocols stay in the IDC as long as they have part in a
\* reset, and conduct one at a time.
OthersTakePart ==
  \A g \in Others : other[g] \notin {"absent", "idle"} => g \in presence \cap ack
Conducting == {g \in Others : other[g] \in {"conducts", "restarts"}}
OneOther == \A g, h \in Conducting : g = h

\* As long as there is an owner, no other protocol conducts a reset.  None can
\* begin: READY is seen first by the owner, which has the lock until then.
OwnerAlone ==
  \A f \in owner \ refused :
    /\ Conducting = {}
    /\ dev_state = "ready" => lock = f /\ at[f] = "handler"

\* An acknowledgement lasts as long as the handler that the reset work called.
AckedWaits == \A f \in ack \cap Fcoe : at[f] \in InHandler /\ caller[f] = "reset"

\* The FC core is reset while the driver is loaded.
QueuesLast == in_reset \cap removing = {} /\ \A f \in in_reset : HasQueues(f)

\* COLD is what it is before the first driver loads, or what the owner has
\* written and, keeping the lock, will read next.
ColdIsPrepared ==
  dev_state = "cold" =>
    /\ \A f \in presence \cap Fcoe : at[f] \in InHandler
    /\ \/ \A f \in Fcoe : at[f] = "unloaded" \/ (at[f] = "handler" /\ caller[f] = "load")
       \/ \E f \in owner : lock = f /\ at[f] = "handler"

IInv == /\ TypeOK /\ CalledHandler /\ OwnerIsLowest /\ OwnerConducts /\ IdleIsNoOwner
        /\ OthersTakePart /\ OneOther /\ OwnerAlone /\ AckedWaits /\ QueuesLast
        /\ ColdIsPrepared
--------------------------------------------------------------------------
LEMMA Apart ==
  /\ \A f \in Fcoe : f \in Int /\ f \notin Others /\ f # Nobody
  /\ MaxEvents \in Nat
BY IdcStateAssumption DEF Nobody

LEMMA SetStateType ==
  ASSUME TypeOK, NEW s \in States, SetState(s)
  PROVE  dev_state' = s /\ aen' \in [Fcoe -> SUBSET AenKinds]
BY DEF TypeOK, SetState, Notify, AenKinds

\* qla83xx_reset_ownership makes an owner of the lowest function only, and of
\* none beside another protocol.
LEMMA OwnershipIsLowest ==
  ASSUME TypeOK, OwnerIsLowest, NEW f \in Fcoe
  PROVE  /\ Ownership(f) \subseteq Fcoe /\ Ownership(f) \subseteq owner \cup {f}
         /\ owner \subseteq Ownership(f)
         /\ \A h \in Ownership(f) : \A g \in Fcoe : h <= g
         /\ f \in Ownership(f) \ owner => presence \subseteq Fcoe
BY DEF Ownership, IsResetOwner, OwnerIsLowest, TypeOK

\* Two owners are one.
LEMMA OneLowest ==
  ASSUME NEW f \in Fcoe, NEW h \in Fcoe,
         \A g \in Fcoe : f <= g, \A g \in Fcoe : h <= g
  PROVE  f = h
<1>1. f <= h /\ h <= f
  OBVIOUS
<1> QED BY <1>1, Apart

\* Who returns has left the handler, and takes his acknowledgement along.
LEMMA ReturnLeaves ==
  ASSUME TypeOK, CalledHandler, AckedWaits, NEW f \in Fcoe, at[f] \in InHandler, Return(f)
  PROVE  /\ \E p \in {"unloaded", "probing", "leave", "idle"} :
              /\ at' = [at EXCEPT ![f] = p]
              /\ caller[f] # "load" => p \in {"leave", "idle"}
         /\ caller' = [caller EXCEPT ![f] = "none"]
         /\ ack' = ack \ {f} /\ fresh' = fresh \ {f}
<1>1. caller[f] \in {"load", "reset", "work"}
  BY DEF CalledHandler, TypeOK, Callers
<1>2. f \in ack => caller[f] = "reset"
  BY DEF AckedWaits
<1>3. ack' = ack \ {f}
  BY <1>2 DEF Return
<1>4. CASE caller[f] = "load"
  BY <1>3, <1>4 DEF Return, Goto
<1>5. CASE caller[f] = "reset"
  BY <1>3, <1>5 DEF Return, Goto
<1>6. CASE caller[f] = "work"
  BY <1>3, <1>6 DEF Return, Goto
<1> QED BY <1>1, <1>4, <1>5, <1>6

--------------------------------------------------------------------------
(* The state handler.                                                      *)

LEMMA SleepKeeps ==
  ASSUME IInv, TypeOK', NEW f \in Fcoe, Sleep(f)
  PROVE  IInv'
<1>1. CalledHandler' /\ OwnerIsLowest' /\ OwnerConducts' /\ IdleIsNoOwner' /\
    OthersTakePart' /\ OneOther' /\ AckedWaits' /\ QueuesLast'
  BY DEF IInv, Sleep, registers, ownFlags, rest, CalledHandler, OwnerIsLowest,
      OwnerConducts, IdleIsNoOwner, OthersTakePart, OneOther, Conducting,
      AckedWaits, QueuesLast, HasQueues
<1>2. OwnerAlone'
  BY DEF IInv, Sleep, Briefly, registers, ownFlags, rest, OwnerAlone, Conducting
<1>3. ColdIsPrepared'
  BY DEF IInv, Sleep, Briefly, registers, ownFlags, ColdIsPrepared
<1> QED BY <1>1, <1>2, <1>3 DEF IInv

LEMMA InitTimeoutKeeps ==
  ASSUME IInv, TypeOK', NEW f \in Fcoe, InitTimeout(f)
  PROVE  IInv'
<1>1. CalledHandler' /\ OwnerIsLowest' /\ OwnerConducts' /\ IdleIsNoOwner' /\
    OthersTakePart' /\ OneOther' /\ AckedWaits' /\ QueuesLast'
  BY DEF IInv, InitTimeout, ownFlags, place, rest, CalledHandler, OwnerIsLowest,
      OwnerConducts, IdleIsNoOwner, OthersTakePart, OneOther, Conducting,
      AckedWaits, QueuesLast, HasQueues
<1>2. OwnerAlone'
  BY DEF IInv, InitTimeout, Locked, SetState, Notify, ownFlags, rest,
      OwnerAlone, Conducting
<1>3. ColdIsPrepared'
  BY DEF IInv, InitTimeout, Locked, SetState, Notify, ColdIsPrepared
<1> QED BY <1>1, <1>2, <1>3 DEF IInv

LEMMA SeeReadyKeeps ==
  ASSUME IInv, TypeOK', NEW f \in Fcoe, SeeReady(f)
  PROVE  IInv'
<1>1. PICK p \in {"unloaded", "probing", "leave", "idle"} :
         /\ at' = [at EXCEPT ![f] = p]
         /\ caller[f] # "load" => p \in {"leave", "idle"}
         /\ caller' = [caller EXCEPT ![f] = "none"] /\ ack' = ack \ {f}
  BY ReturnLeaves DEF IInv, SeeReady, InHandler
<1>2. OneOther'
  BY DEF IInv, SeeReady, OneOther, Conducting
<1>3. CalledHandler'
  BY <1>1, Apart DEF IInv, SeeReady, Briefly, TypeOK, CalledHandler, InHandler
<1>4. OwnerIsLowest'
  BY <1>1, Apart DEF IInv, SeeReady, Briefly, OwnerIsLowest
<1>5. OwnerConducts'
  BY <1>1, Apart DEF IInv, SeeReady, Briefly, OwnerConducts
<1>6. IdleIsNoOwner'
  BY <1>1, Apart DEF IInv, SeeReady, Briefly, IdleIsNoOwner
<1>7. OthersTakePart'
  BY <1>1, Apart DEF IInv, SeeReady, Briefly, OthersTakePart
<1>8. OwnerAlone'
  BY <1>1, Apart DEF IInv, SeeReady, Briefly, OwnerAlone, Conducting
<1>9. AckedWaits'
  BY <1>1, Apart DEF IInv, SeeReady, Briefly, AckedWaits
<1>10. QueuesLast'
  BY <1>1, Apart DEF IInv, SeeReady, Briefly, QueuesLast, HasQueues, InHandler
<1>11. ColdIsPrepared'
  BY <1>1, Apart DEF IInv, SeeReady, Briefly, ColdIsPrepared, InHandler
<1> QED BY <1>1, <1>2, <1>3, <1>4, <1>5, <1>6, <1>7, <1>8, <1>9, <1>10, <1>11
    DEF IInv

LEMMA SeeFailedKeeps ==
  ASSUME IInv, TypeOK', NEW f \in Fcoe, SeeFailed(f)
  PROVE  IInv'
<1>1. OneOther'
  BY DEF IInv, SeeFailed, OneOther, Conducting
<1>2. CalledHandler'
  BY DEF IInv, SeeFailed, Briefly, Goto, CalledHandler, InHandler
<1>3. OwnerIsLowest'
  BY DEF IInv, SeeFailed, Briefly, Goto, OwnerIsLowest
<1>4. OwnerConducts'
  BY DEF IInv, SeeFailed, Briefly, Goto, OwnerConducts
<1>5. IdleIsNoOwner'
  BY DEF IInv, SeeFailed, Briefly, Goto, rest, IdleIsNoOwner
<1>6. OthersTakePart'
  BY Apart DEF IInv, SeeFailed, Briefly, Goto, OthersTakePart
<1>7. OwnerAlone'
  BY DEF IInv, SeeFailed, Briefly, Goto, rest, OwnerAlone, Conducting
<1>8. AckedWaits'
  BY Apart DEF IInv, SeeFailed, Briefly, Goto, AckedWaits, InHandler
<1>9. QueuesLast'
  BY DEF IInv, SeeFailed, Briefly, Goto, rest, QueuesLast, HasQueues, InHandler
<1>10. ColdIsPrepared'
  BY Apart DEF IInv, SeeFailed, Briefly, Goto, ColdIsPrepared, InHandler
<1> QED BY <1>1, <1>2, <1>3, <1>4, <1>5, <1>6, <1>7, <1>8, <1>9, <1>10
    DEF IInv

LEMMA FailedReturnKeeps ==
  ASSUME IInv, TypeOK', NEW f \in Fcoe, FailedReturn(f)
  PROVE  IInv'
<1>1. PICK p \in {"unloaded", "probing", "leave", "idle"} :
         /\ at' = [at EXCEPT ![f] = p]
         /\ caller[f] # "load" => p \in {"leave", "idle"}
         /\ caller' = [caller EXCEPT ![f] = "none"] /\ ack' = ack \ {f}
  BY ReturnLeaves DEF IInv, FailedReturn, InHandler
<1>2. OwnerIsLowest' /\ OneOther'
  BY DEF IInv, FailedReturn, ownFlags, OwnerIsLowest, OneOther, Conducting
<1>3. CalledHandler'
  BY <1>1, Apart DEF IInv, FailedReturn, Briefly, ownFlags, TypeOK,
      CalledHandler, InHandler
<1>4. OwnerConducts'
  BY <1>1, Apart DEF IInv, FailedReturn, Briefly, ownFlags, OwnerConducts
<1>5. IdleIsNoOwner'
  BY <1>1, Apart DEF IInv, FailedReturn, OwnerConducts, ownFlags, rest,
      IdleIsNoOwner
<1>6. OthersTakePart'
  BY <1>1, Apart DEF IInv, FailedReturn, Briefly, OthersTakePart
<1>7. OwnerAlone'
  BY <1>1, Apart DEF IInv, FailedReturn, Briefly, ownFlags, rest, OwnerAlone,
      Conducting
<1>8. AckedWaits'
  BY <1>1, Apart DEF IInv, FailedReturn, Briefly, ownFlags, AckedWaits
<1>9. QueuesLast'
  BY <1>1, Apart DEF IInv, FailedReturn, Briefly, rest, QueuesLast, HasQueues,
      InHandler
<1>10. ColdIsPrepared'
  BY <1>1, Apart DEF IInv, FailedReturn, Briefly, TypeOK, ColdIsPrepared,
      InHandler
<1> QED BY <1>1, <1>2, <1>3, <1>4, <1>5, <1>6, <1>7, <1>8, <1>9, <1>10
    DEF IInv

LEMMA SeeNeedResetKeeps ==
  ASSUME IInv, TypeOK', NEW f \in Fcoe, SeeNeedReset(f)
  PROVE  IInv'
<1>1. OwnerIsLowest' /\ OthersTakePart' /\ OneOther'
  BY DEF IInv, SeeNeedReset, registers, ownFlags, OwnerIsLowest, OthersTakePart,
      OneOther, Conducting
<1>2. CalledHandler'
  BY DEF IInv, SeeNeedReset, Locked, Goto, CalledHandler, InHandler
<1>3. OwnerConducts'
  BY DEF IInv, SeeNeedReset, Locked, Goto, ownFlags, OwnerConducts
<1>4. IdleIsNoOwner'
  BY DEF IInv, SeeNeedReset, Locked, Goto, ownFlags, rest, IdleIsNoOwner,
      InHandler
<1>5. OwnerAlone'
  BY DEF IInv, SeeNeedReset, Locked, Goto, registers, ownFlags, rest,
      OwnerAlone, Conducting
<1>6. AckedWaits'
  BY DEF IInv, SeeNeedReset, Locked, Goto, registers, AckedWaits, InHandler
<1>7. QueuesLast'
  BY DEF IInv, SeeNeedReset, Locked, Goto, rest, QueuesLast, HasQueues,
      InHandler
<1>8. ColdIsPrepared'
  BY DEF IInv, SeeNeedReset, Locked, Goto, registers, ColdIsPrepared, InHandler
<1> QED BY <1>1, <1>2, <1>3, <1>4, <1>5, <1>6, <1>7, <1>8 DEF IInv

LEMMA AllAckedKeeps ==
  ASSUME IInv, TypeOK', NEW f \in Fcoe, AllAcked(f)
  PROVE  IInv'
<1>1. OwnerIsLowest' /\ OneOther'
  BY DEF IInv, AllAcked, ownFlags, OwnerIsLowest, OneOther, Conducting
<1>2. CalledHandler'
  BY DEF IInv, AllAcked, Locked, SetState, Notify, Goto, ownFlags,
      CalledHandler, InHandler
<1>3. OwnerConducts'
  BY DEF IInv, AllAcked, Locked, SetState, Notify, Goto, ownFlags, OwnerConducts
<1>4. IdleIsNoOwner'
  BY DEF IInv, AllAcked, Locked, SetState, Notify, Goto, ownFlags, rest,
      IdleIsNoOwner, InHandler
<1>5. OthersTakePart'
  BY DEF IInv, AllAcked, Locked, SetState, Notify, Goto, OthersTakePart
<1>6. OwnerAlone'
  BY DEF IInv, AllAcked, Locked, SetState, Notify, Goto, ownFlags, rest,
      OwnerAlone, Conducting
<1>7. AckedWaits'
  BY DEF IInv, AllAcked, Locked, SetState, Notify, Goto, AckedWaits, InHandler
<1>8. QueuesLast'
  BY DEF IInv, AllAcked, Locked, SetState, Notify, Goto, rest, QueuesLast,
      HasQueues, InHandler
<1>9. ColdIsPrepared'
  <2>1. presence' \subseteq ack
    BY DEF AllAcked
  <2>2. at' = [at EXCEPT ![f] = "handler"] /\ lock' = f /\ caller' = caller
    BY DEF AllAcked, Goto, Locked
  <2>3. \A g \in presence' \cap Fcoe : at'[g] \in InHandler
    BY <2>1, <2>2 DEF IInv, AckedWaits, InHandler
  <2>4. f \in owner'
    BY DEF IInv, AllAcked, OwnerConducts, ownFlags
  <2>5. at'[f] = "handler"
    BY <2>2 DEF IInv, TypeOK
  <2> QED BY <2>2, <2>3, <2>4, <2>5 DEF ColdIsPrepared
<1> QED BY <1>1, <1>2, <1>3, <1>4, <1>5, <1>6, <1>7, <1>8, <1>9 DEF IInv

LEMMA AwaitAcksKeeps ==
  ASSUME IInv, TypeOK', NEW f \in Fcoe, AwaitAcks(f)
  PROVE  IInv'
<1>1. CalledHandler' /\ OwnerIsLowest' /\ OwnerConducts' /\ IdleIsNoOwner' /\
    OthersTakePart' /\ OneOther' /\ AckedWaits' /\ QueuesLast'
  BY DEF IInv, AwaitAcks, registers, ownFlags, place, rest, CalledHandler,
      OwnerIsLowest, OwnerConducts, IdleIsNoOwner, OthersTakePart, OneOther,
      Conducting, AckedWaits, QueuesLast, HasQueues
<1>2. OwnerAlone'
  BY DEF IInv, AwaitAcks, Unlock, registers, ownFlags, rest, OwnerAlone,
      Conducting
<1>3. ColdIsPrepared'
  BY DEF IInv, AwaitAcks, Unlock, registers, ownFlags, ColdIsPrepared
<1> QED BY <1>1, <1>2, <1>3 DEF IInv

LEMMA BootstrapKeeps ==
  ASSUME IInv, TypeOK', NEW f \in Fcoe, Bootstrap(f)
  PROVE  IInv'
<1>1. OwnerIsLowest' /\ OthersTakePart' /\ OneOther'
  BY DEF IInv, Bootstrap, ownFlags, OwnerIsLowest, OthersTakePart, OneOther,
      Conducting
<1>2. CalledHandler'
  BY DEF IInv, Bootstrap, Briefly, SetState, Notify, ControlAfterBootstrap,
      Goto, ownFlags, CalledHandler, InHandler
<1>3. OwnerConducts'
  BY DEF IInv, Bootstrap, Briefly, SetState, Notify, ControlAfterBootstrap,
      Goto, ownFlags, OwnerConducts
<1>4. IdleIsNoOwner'
  BY DEF IInv, Bootstrap, Briefly, SetState, Notify, ControlAfterBootstrap,
      Goto, ownFlags, rest, IdleIsNoOwner, InHandler
<1>5. OwnerAlone'
  BY DEF IInv, Bootstrap, Briefly, SetState, Notify, ControlAfterBootstrap,
      Goto, ownFlags, rest, OwnerAlone, Conducting
<1>6. AckedWaits'
  BY DEF IInv, Bootstrap, Briefly, SetState, Notify, ControlAfterBootstrap,
      Goto, AckedWaits, InHandler
<1>7. QueuesLast'
  BY DEF IInv, Bootstrap, Briefly, SetState, Notify, ControlAfterBootstrap,
      Goto, rest, QueuesLast, HasQueues, InHandler
<1>8. ColdIsPrepared'
  BY DEF IInv, Bootstrap, Briefly, SetState, Notify, ControlAfterBootstrap,
      Goto, ColdIsPrepared
<1> QED BY <1>1, <1>2, <1>3, <1>4, <1>5, <1>6, <1>7, <1>8 DEF IInv

LEMMA RestartedKeeps ==
  ASSUME IInv, TypeOK', NEW f \in Fcoe, Restarted(f)
  PROVE  IInv'
<1>1. OwnerIsLowest' /\ OthersTakePart' /\ OneOther'
  BY DEF IInv, Restarted, ownFlags, OwnerIsLowest, OthersTakePart, OneOther,
      Conducting
<1>2. CalledHandler'
  BY DEF IInv, Restarted, Locked, SetState, Notify, Event, Goto, ownFlags,
      CalledHandler, InHandler
<1>3. OwnerConducts'
  BY DEF IInv, Restarted, Locked, SetState, Notify, Event, Goto, ownFlags,
      OwnerConducts
<1>4. IdleIsNoOwner'
  BY DEF IInv, Restarted, Locked, SetState, Notify, Event, Goto, ownFlags, rest,
      IdleIsNoOwner, InHandler
<1>5. OwnerAlone'
  <2>1. f \in owner /\ owner' = owner /\ refused' = refused /\ other' = other
    BY DEF IInv, Restarted, OwnerConducts, ownFlags, rest
  <2>2. lock' = f /\ at'[f] = "handler"
    BY DEF IInv, Restarted, Locked, Goto, TypeOK
  <2>3. \A h \in owner : h = f
    BY <2>1, OneLowest DEF IInv, OwnerIsLowest, TypeOK
  <2> QED BY <2>1, <2>2, <2>3 DEF IInv, OwnerAlone, Conducting
<1>6. AckedWaits'
  BY DEF IInv, Restarted, Locked, SetState, Notify, Event, Goto, AckedWaits,
      InHandler
<1>7. QueuesLast'
  BY DEF IInv, Restarted, Locked, SetState, Notify, Event, Goto, rest,
      QueuesLast, HasQueues, InHandler
<1>8. ColdIsPrepared'
  BY DEF IInv, Restarted, Locked, SetState, Notify, Event, Goto, ColdIsPrepared
<1> QED BY <1>1, <1>2, <1>3, <1>4, <1>5, <1>6, <1>7, <1>8 DEF IInv

--------------------------------------------------------------------------
(* Probe and remove.                                                       *)

LEMMA FwLoadKeeps ==
  ASSUME IInv, TypeOK', NEW f \in Fcoe, FwLoad(f)
  PROVE  IInv'
<1>1. OneOther'
  BY DEF IInv, FwLoad, OneOther, Conducting
<1>2. CalledHandler'
  BY DEF IInv, FwLoad, Locked, Ownership, SetState, Notify, Event, Enter, Goto,
      TypeOK, CalledHandler
<1>3. OwnerIsLowest'
  BY OwnershipIsLowest DEF IInv, FwLoad, OwnerIsLowest
<1>4. OwnerConducts'
  BY DEF IInv, FwLoad, Locked, Ownership, SetState, Notify, Event, Enter, Goto,
      OwnerConducts
<1>5. IdleIsNoOwner'
  BY DEF IInv, FwLoad, Locked, Ownership, SetState, Notify, Event, Enter, Goto,
      rest, TypeOK, IdleIsNoOwner, InHandler
<1>6. OthersTakePart'
  BY DEF IInv, FwLoad, Locked, Ownership, SetState, Notify, Event, Enter, Goto,
      OthersTakePart
<1>7. OwnerAlone'
  <2> SUFFICES ASSUME NEW h \in owner' \ refused'
               PROVE  Conducting = {} /\ (dev_state' = "ready" => lock' = h /\ at'[h] = "handler")
    BY DEF OwnerAlone, Conducting, FwLoad
  <2>1. h \in Fcoe /\ h \in Ownership(f) /\ h \notin refused /\ owner' = Ownership(f)
    BY DEF FwLoad, TypeOK, rest
  <2>2. lock \in {f, Nobody} /\ lock' = f /\ at[f] = "unloaded" /\ at'[f] = "handler"
    BY DEF IInv, FwLoad, Locked, Enter, Goto, TypeOK
  <2>3. CASE h = f
    <3>1. f \in owner => Conducting = {}
      BY <2>1, <2>3 DEF IInv, OwnerAlone
    <3>2. f \notin owner => Conducting = {}
      BY <2>1, <2>3, OwnershipIsLowest, Apart DEF IInv, OthersTakePart,
          Conducting
    <3> QED BY <2>2, <2>3, <3>1, <3>2
  <2>4. CASE h # f
    <3>1. h \in owner
      BY <2>1, <2>4, OwnershipIsLowest DEF IInv
    <3>2. Conducting = {} /\ (dev_state = "ready" => lock = h)
      BY <2>1, <3>1 DEF IInv, OwnerAlone
    <3>3. dev_state # "ready"
      BY <2>1, <2>2, <2>4, <3>2, Apart
    <3>4. f \notin Ownership(f)
      BY <2>1, <2>4, OwnershipIsLowest, OneLowest DEF IInv
    <3>5. dev_state' = dev_state
      BY <2>1, <3>4 DEF FwLoad
    <3> QED BY <3>2, <3>3, <3>5
  <2> QED BY <2>3, <2>4
<1>8. AckedWaits'
  BY DEF IInv, FwLoad, Locked, Ownership, SetState, Notify, Event, Enter, Goto,
      AckedWaits, InHandler
<1>9. QueuesLast'
  BY DEF IInv, FwLoad, Locked, Ownership, SetState, Notify, Event, Enter, Goto,
      rest, QueuesLast, HasQueues
<1>10. ColdIsPrepared'
  <2> SUFFICES ASSUME dev_state' = "cold" PROVE ColdIsPrepared'
    BY DEF ColdIsPrepared
  <2>1. dev_state = "cold" /\ at[f] = "unloaded" /\ presence' = presence \cup {f}
    BY DEF FwLoad, SetState
  <2>2. at' = [at EXCEPT ![f] = "handler"] /\ caller' = [caller EXCEPT ![f] = "load"]
    BY DEF FwLoad, Enter, Goto
  <2>3. \A h \in owner : ~(lock = h /\ at[h] = "handler")
    BY <2>1, Apart DEF IInv, FwLoad, Locked, TypeOK
  <2>4. \A g \in Fcoe : at[g] = "unloaded" \/ (at[g] = "handler" /\ caller[g] = "load")
    BY <2>1, <2>3 DEF IInv, ColdIsPrepared
  <2>5. \A g \in Fcoe : at'[g] = "unloaded" \/ (at'[g] = "handler" /\ caller'[g] = "load")
    BY <2>2, <2>4 DEF IInv, TypeOK
  <2>6. \A g \in presence' \cap Fcoe : at'[g] \in InHandler
    BY <2>1, <2>2 DEF IInv, ColdIsPrepared, InHandler, TypeOK
  <2> QED BY <2>5, <2>6 DEF ColdIsPrepared
<1> QED BY <1>1, <1>2, <1>3, <1>4, <1>5, <1>6, <1>7, <1>8, <1>9, <1>10
    DEF IInv

LEMMA ProbeEndKeeps ==
  ASSUME IInv, TypeOK', NEW f \in Fcoe, ProbeEnd(f)
  PROVE  IInv'
<1>1. OwnerIsLowest' /\ OthersTakePart' /\ OneOther'
  BY DEF IInv, ProbeEnd, registers, ownFlags, OwnerIsLowest, OthersTakePart,
      OneOther, Conducting
<1>2. CalledHandler'
  BY DEF IInv, ProbeEnd, Goto, CalledHandler, InHandler
<1>3. OwnerConducts'
  BY DEF IInv, ProbeEnd, Goto, ownFlags, OwnerConducts
<1>4. IdleIsNoOwner'
  BY DEF IInv, ProbeEnd, Goto, ownFlags, rest, IdleIsNoOwner, InHandler
<1>5. OwnerAlone'
  BY DEF IInv, ProbeEnd, Goto, registers, ownFlags, rest, OwnerAlone, Conducting
<1>6. AckedWaits'
  BY DEF IInv, ProbeEnd, Goto, registers, ownFlags, AckedWaits, InHandler
<1>7. QueuesLast'
  BY DEF IInv, ProbeEnd, Goto, registers, rest, QueuesLast, HasQueues, InHandler
<1>8. ColdIsPrepared'
  BY DEF IInv, ProbeEnd, Goto, registers, ownFlags, ColdIsPrepared, InHandler
<1> QED BY <1>1, <1>2, <1>3, <1>4, <1>5, <1>6, <1>7, <1>8 DEF IInv

LEMMA RemoveKeeps ==
  ASSUME IInv, TypeOK', NEW f \in Fcoe, Remove(f)
  PROVE  IInv'
<1>1. CalledHandler' /\ OwnerIsLowest' /\ OwnerConducts' /\ IdleIsNoOwner' /\
    OneOther' /\ OwnerAlone' /\ AckedWaits'
  BY DEF IInv, Remove, ownFlags, place, CalledHandler, OwnerIsLowest,
      OwnerConducts, IdleIsNoOwner, OneOther, Conducting, OwnerAlone, AckedWaits
<1>2. OthersTakePart'
  BY Apart DEF IInv, Remove, Event, OthersTakePart
<1>3. QueuesLast'
  BY DEF IInv, Remove, Event, place, QueuesLast, HasQueues
<1>4. ColdIsPrepared'
  BY Apart DEF IInv, Remove, Event, ownFlags, place, ColdIsPrepared
<1> QED BY <1>1, <1>2, <1>3, <1>4 DEF IInv

LEMMA RemovedKeeps ==
  ASSUME IInv, TypeOK', NEW f \in Fcoe, Removed(f)
  PROVE  IInv'
<1>1. OthersTakePart' /\ OneOther'
  BY DEF IInv, Removed, registers, OthersTakePart, OneOther, Conducting
<1>2. CalledHandler'
  BY DEF IInv, Removed, Goto, registers, CalledHandler, InHandler
<1>3. OwnerIsLowest'
  BY DEF IInv, Removed, Goto, OwnerIsLowest
<1>4. OwnerConducts'
  BY DEF IInv, Removed, Goto, OwnerConducts
<1>5. IdleIsNoOwner'
  BY DEF IInv, Removed, Goto, IdleIsNoOwner
<1>6. OwnerAlone'
  BY DEF IInv, Removed, Goto, registers, OwnerAlone, Conducting
<1>7. AckedWaits'
  BY DEF IInv, Removed, Goto, registers, AckedWaits, InHandler
<1>8. QueuesLast'
  BY DEF IInv, Removed, Goto, registers, QueuesLast, HasQueues, InHandler
<1>9. ColdIsPrepared'
  BY DEF IInv, Removed, Goto, registers, ColdIsPrepared, InHandler
<1> QED BY <1>1, <1>2, <1>3, <1>4, <1>5, <1>6, <1>7, <1>8, <1>9 DEF IInv

--------------------------------------------------------------------------
(* The works of dpc_hp_wq.                                                 *)

LEMMA ResetWorkKeeps ==
  ASSUME IInv, TypeOK', NEW f \in Fcoe, ResetWork(f)
  PROVE  IInv'
<1>1. OwnerIsLowest' /\ OthersTakePart' /\ OneOther'
  BY DEF IInv, ResetWork, registers, OwnerIsLowest, OthersTakePart, OneOther,
      Conducting
<1>2. CalledHandler'
  BY DEF IInv, ResetWork, Take, Goto, TypeOK, CalledHandler, InHandler
<1>3. OwnerConducts'
  BY DEF IInv, ResetWork, Take, Goto, TypeOK, OwnerConducts
<1>4. IdleIsNoOwner'
  BY DEF IInv, ResetWork, Take, Goto, rest, TypeOK, IdleIsNoOwner, InHandler
<1>5. OwnerAlone'
  BY DEF IInv, ResetWork, Take, Goto, registers, rest, TypeOK, OwnerAlone,
      Conducting
<1>6. AckedWaits'
  BY DEF IInv, ResetWork, Take, Goto, registers, TypeOK, AckedWaits, InHandler
<1>7. QueuesLast'
  BY DEF IInv, ResetWork, Take, Goto, rest, TypeOK, QueuesLast, HasQueues,
      InHandler
<1>8. ColdIsPrepared'
  BY DEF IInv, ResetWork, Take, Goto, registers, TypeOK, ColdIsPrepared,
      InHandler
<1> QED BY <1>1, <1>2, <1>3, <1>4, <1>5, <1>6, <1>7, <1>8 DEF IInv

LEMMA AliveWorkKeeps ==
  ASSUME IInv, TypeOK', NEW f \in Fcoe, AliveWork(f)
  PROVE  IInv'
<1>1. OwnerIsLowest' /\ OthersTakePart' /\ OneOther'
  BY DEF IInv, AliveWork, registers, OwnerIsLowest, OthersTakePart, OneOther,
      Conducting
<1>2. CalledHandler'
  BY DEF IInv, AliveWork, Goto, TypeOK, CalledHandler, InHandler
<1>3. OwnerConducts'
  BY DEF IInv, AliveWork, Goto, TypeOK, OwnerConducts
<1>4. IdleIsNoOwner'
  BY DEF IInv, AliveWork, Goto, rest, TypeOK, IdleIsNoOwner, InHandler
<1>5. OwnerAlone'
  BY DEF IInv, AliveWork, Goto, registers, rest, TypeOK, OwnerAlone, Conducting
<1>6. AckedWaits'
  BY DEF IInv, AliveWork, Goto, registers, TypeOK, AckedWaits, InHandler
<1>7. QueuesLast'
  BY DEF IInv, AliveWork, Goto, registers, rest, TypeOK, QueuesLast, HasQueues,
      InHandler
<1>8. ColdIsPrepared'
  BY DEF IInv, AliveWork, Goto, registers, TypeOK, ColdIsPrepared, InHandler
<1> QED BY <1>1, <1>2, <1>3, <1>4, <1>5, <1>6, <1>7, <1>8 DEF IInv

LEMMA NoResetKeeps ==
  ASSUME IInv, TypeOK', NEW f \in Fcoe, NoReset(f)
  PROVE  IInv'
<1>1. OthersTakePart' /\ OneOther'
  BY DEF IInv, NoReset, registers, OthersTakePart, OneOther, Conducting
<1>2. CalledHandler'
  BY DEF IInv, NoReset, Ownership, Goto, registers, CalledHandler, InHandler
<1>3. OwnerIsLowest'
  BY OwnershipIsLowest DEF IInv, NoReset, OwnerIsLowest
<1>4. OwnerConducts'
  BY DEF IInv, NoReset, Ownership, Goto, OwnerConducts
<1>5. IdleIsNoOwner'
  BY DEF IInv, NoReset, Ownership, Goto, IdleIsNoOwner, InHandler
<1>6. OwnerAlone'
  BY DEF IInv, NoReset, Ownership, Goto, registers, OwnerAlone, Conducting
<1>7. AckedWaits'
  BY DEF IInv, NoReset, Ownership, Goto, registers, AckedWaits, InHandler
<1>8. QueuesLast'
  BY DEF IInv, NoReset, Ownership, Goto, registers, QueuesLast, HasQueues,
      InHandler
<1>9. ColdIsPrepared'
  BY DEF IInv, NoReset, Ownership, Goto, registers, ColdIsPrepared, InHandler
<1> QED BY <1>1, <1>2, <1>3, <1>4, <1>5, <1>6, <1>7, <1>8, <1>9 DEF IInv

LEMMA InitiateResetKeeps ==
  ASSUME IInv, TypeOK', NEW f \in Fcoe, InitiateReset(f)
  PROVE  IInv'
<1>1. OneOther'
  BY DEF IInv, InitiateReset, OneOther, Conducting
<1>2. CalledHandler'
  BY DEF IInv, InitiateReset, MayReset, Locked, Ownership, SetState, Notify,
      AckAndEnter, Enter, Goto, TypeOK, CalledHandler
<1>3. OwnerIsLowest'
  BY OwnershipIsLowest DEF IInv, InitiateReset, OwnerIsLowest
<1>4. OwnerConducts'
  BY DEF IInv, InitiateReset, MayReset, Locked, Ownership, SetState, Notify,
      AckAndEnter, Enter, Goto, OwnerConducts
<1>5. IdleIsNoOwner'
  BY DEF IInv, InitiateReset, MayReset, Locked, Ownership, SetState, Notify,
      AckAndEnter, Enter, Goto, rest, TypeOK, IdleIsNoOwner, InHandler
<1>6. OthersTakePart'
  BY DEF IInv, InitiateReset, MayReset, Locked, Ownership, SetState, Notify,
      AckAndEnter, Enter, Goto, OthersTakePart
<1>7. OwnerAlone'
  <2> SUFFICES ASSUME NEW h \in owner' \ refused'
               PROVE  Conducting = {} /\ dev_state' # "ready"
    BY DEF OwnerAlone, Conducting, InitiateReset
  <2>1. h \in Ownership(f) /\ h \notin refused
    BY DEF InitiateReset, rest
  <2>2. dev_state' # "ready"
    BY DEF InitiateReset, SetState
  <2>3. CASE h \in owner
    BY <2>1, <2>2, <2>3 DEF IInv, OwnerAlone
  <2>4. CASE h \notin owner
    <3>1. presence \subseteq Fcoe
      BY <2>1, <2>4, OwnershipIsLowest DEF IInv
    <3> QED BY <2>2, <3>1, Apart DEF IInv, OthersTakePart, Conducting
  <2> QED BY <2>3, <2>4
<1>8. AckedWaits'
  BY DEF IInv, InitiateReset, MayReset, Locked, Ownership, SetState, Notify,
      AckAndEnter, Enter, Goto, TypeOK, AckedWaits, InHandler
<1>9. QueuesLast'
  BY DEF IInv, InitiateReset, MayReset, Locked, Ownership, SetState, Notify,
      AckAndEnter, Enter, Goto, rest, TypeOK, QueuesLast, HasQueues
<1>10. ColdIsPrepared'
  BY DEF IInv, InitiateReset, MayReset, Locked, Ownership, SetState, Notify,
      AckAndEnter, Enter, Goto, ColdIsPrepared, InHandler
<1> QED BY <1>1, <1>2, <1>3, <1>4, <1>5, <1>6, <1>7, <1>8, <1>9, <1>10
    DEF IInv

LEMMA AwaitNeedResetKeeps ==
  ASSUME IInv, TypeOK', NEW f \in Fcoe, AwaitNeedReset(f)
  PROVE  IInv'
<1>1. OthersTakePart' /\ OneOther'
  BY DEF IInv, AwaitNeedReset, registers, OthersTakePart, OneOther, Conducting
<1>2. CalledHandler'
  BY DEF IInv, AwaitNeedReset, MayReset, Ownership, Goto, CalledHandler,
      InHandler
<1>3. OwnerIsLowest'
  BY OwnershipIsLowest DEF IInv, AwaitNeedReset, OwnerIsLowest
<1>4. OwnerConducts'
  BY DEF IInv, AwaitNeedReset, MayReset, Ownership, Goto, OwnerConducts
<1>5. IdleIsNoOwner'
  BY DEF IInv, AwaitNeedReset, MayReset, Ownership, Goto, rest, IdleIsNoOwner
<1>6. OwnerAlone'
  BY DEF IInv, AwaitNeedReset, MayReset, Ownership, Goto, rest, OwnerAlone,
      Conducting
<1>7. AckedWaits'
  BY DEF IInv, AwaitNeedReset, MayReset, Ownership, Goto, registers, AckedWaits,
      InHandler
<1>8. QueuesLast'
  BY DEF IInv, AwaitNeedReset, MayReset, Ownership, Goto, rest, QueuesLast,
      HasQueues, InHandler
<1>9. ColdIsPrepared'
  BY DEF IInv, AwaitNeedReset, MayReset, Ownership, Goto, registers,
      ColdIsPrepared
<1> QED BY <1>1, <1>2, <1>3, <1>4, <1>5, <1>6, <1>7, <1>8, <1>9 DEF IInv

LEMMA SeeNotReadyKeeps ==
  ASSUME IInv, TypeOK', NEW f \in Fcoe, SeeNotReady(f)
  PROVE  IInv'
<1>1. OwnerIsLowest' /\ OneOther'
  BY DEF IInv, SeeNotReady, ownFlags, OwnerIsLowest, OneOther, Conducting
<1>2. CalledHandler'
  BY DEF IInv, SeeNotReady, Locked, AckAndEnter, Enter, Goto, ownFlags, TypeOK,
      CalledHandler
<1>3. OwnerConducts'
  BY DEF IInv, SeeNotReady, Locked, AckAndEnter, Enter, Goto, ownFlags,
      OwnerConducts
<1>4. IdleIsNoOwner'
  BY DEF IInv, SeeNotReady, Locked, AckAndEnter, Enter, Goto, ownFlags, rest,
      IdleIsNoOwner, InHandler
<1>5. OthersTakePart'
  BY DEF IInv, SeeNotReady, Locked, AckAndEnter, Enter, Goto, OthersTakePart
<1>6. OwnerAlone'
  BY DEF IInv, SeeNotReady, Locked, AckAndEnter, Enter, Goto, ownFlags, rest,
      OwnerAlone, Conducting
<1>7. AckedWaits'
  BY DEF IInv, SeeNotReady, Locked, AckAndEnter, Enter, Goto, TypeOK,
      AckedWaits, InHandler
<1>8. QueuesLast'
  BY DEF IInv, SeeNotReady, Locked, AckAndEnter, Enter, Goto, rest, TypeOK,
      QueuesLast, HasQueues, InHandler
<1>9. ColdIsPrepared'
  BY Apart DEF IInv, SeeNotReady, Locked, AckAndEnter, Enter, Goto, TypeOK,
      ColdIsPrepared
<1> QED BY <1>1, <1>2, <1>3, <1>4, <1>5, <1>6, <1>7, <1>8, <1>9 DEF IInv

LEMMA ResetDoneKeeps ==
  ASSUME IInv, TypeOK', NEW f \in Fcoe, ResetDone(f)
  PROVE  IInv'
<1>1. OwnerIsLowest' /\ OthersTakePart' /\ OneOther'
  BY DEF IInv, ResetDone, registers, OwnerIsLowest, OthersTakePart, OneOther,
      Conducting
<1>2. CalledHandler'
  BY DEF IInv, ResetDone, Goto, CalledHandler, InHandler
<1>3. OwnerConducts'
  BY DEF IInv, ResetDone, Goto, OwnerConducts
<1>4. IdleIsNoOwner'
  BY DEF IInv, ResetDone, Goto, rest, IdleIsNoOwner, InHandler
<1>5. OwnerAlone'
  BY DEF IInv, ResetDone, Goto, registers, rest, OwnerAlone, Conducting
<1>6. AckedWaits'
  BY DEF IInv, ResetDone, Goto, registers, AckedWaits, InHandler
<1>7. QueuesLast'
  BY DEF IInv, ResetDone, Goto, registers, rest, QueuesLast, HasQueues,
      InHandler
<1>8. ColdIsPrepared'
  BY DEF IInv, ResetDone, Goto, registers, ColdIsPrepared, InHandler
<1> QED BY <1>1, <1>2, <1>3, <1>4, <1>5, <1>6, <1>7, <1>8 DEF IInv

LEMMA StateWorkKeeps ==
  ASSUME IInv, TypeOK', NEW f \in Fcoe, StateWork(f)
  PROVE  IInv'
<1>1. OwnerIsLowest' /\ OthersTakePart' /\ OneOther'
  BY DEF IInv, StateWork, registers, ownFlags, OwnerIsLowest, OthersTakePart,
      OneOther, Conducting
<1>2. CalledHandler'
  BY DEF IInv, StateWork, Take, Locked, Briefly, Enter, Goto, place, TypeOK,
      CalledHandler
<1>3. OwnerConducts'
  BY DEF IInv, StateWork, Take, Locked, Briefly, Enter, Goto, ownFlags, place,
      TypeOK, OwnerConducts
<1>4. IdleIsNoOwner'
  BY DEF IInv, StateWork, Take, Locked, Briefly, Enter, Goto, ownFlags, place,
      rest, TypeOK, IdleIsNoOwner, InHandler
<1>5. OwnerAlone'
  BY DEF IInv, StateWork, Take, Locked, Briefly, Enter, Goto, registers,
      ownFlags, place, rest, OwnerAlone, Conducting
<1>6. AckedWaits'
  BY DEF IInv, StateWork, Take, Locked, Briefly, Enter, Goto, registers, place,
      TypeOK, AckedWaits, InHandler
<1>7. QueuesLast'
  BY DEF IInv, StateWork, Take, Locked, Briefly, Enter, Goto, place, rest,
      TypeOK, QueuesLast, HasQueues
<1>8. ColdIsPrepared'
  BY DEF IInv, StateWork, Take, Locked, Briefly, Enter, Goto, registers,
      ownFlags, place, ColdIsPrepared
<1> QED BY <1>1, <1>2, <1>3, <1>4, <1>5, <1>6, <1>7, <1>8 DEF IInv

LEMMA UnrecoverableWorkKeeps ==
  ASSUME IInv, TypeOK', NEW f \in Fcoe, UnrecoverableWork(f)
  PROVE  IInv'
<1>1. CalledHandler' /\ OthersTakePart' /\ OneOther' /\ AckedWaits' /\
    QueuesLast'
  BY DEF IInv, UnrecoverableWork, place, rest, CalledHandler, OthersTakePart,
      OneOther, Conducting, AckedWaits, QueuesLast, HasQueues
<1>2. OwnerIsLowest'
  BY OwnershipIsLowest DEF IInv, UnrecoverableWork, OwnerIsLowest
<1>3. OwnerConducts'
  BY DEF IInv, UnrecoverableWork, Ownership, SetState, Notify, place,
      OwnerConducts
<1>4. IdleIsNoOwner'
  BY DEF IInv, UnrecoverableWork, Ownership, SetState, Notify, place, rest,
      IdleIsNoOwner
<1>5. OwnerAlone'
  BY DEF IInv, UnrecoverableWork, Ownership, SetState, Notify, place, rest,
      OwnerAlone, Conducting
<1>6. ColdIsPrepared'
  BY DEF IInv, UnrecoverableWork, Ownership, SetState, Notify, place,
      ColdIsPrepared
<1> QED BY <1>1, <1>2, <1>3, <1>4, <1>5, <1>6 DEF IInv

--------------------------------------------------------------------------
(* The DPC thread, and an application.                                     *)

LEMMA FcResetKeeps ==
  ASSUME IInv, TypeOK', NEW f \in Fcoe, FcReset(f)
  PROVE  IInv'
<1>1. CalledHandler' /\ OwnerIsLowest' /\ OwnerConducts' /\ IdleIsNoOwner' /\
    OneOther' /\ OwnerAlone' /\ AckedWaits'
  BY DEF IInv, FcReset, ownFlags, place, CalledHandler, OwnerIsLowest,
      OwnerConducts, IdleIsNoOwner, OneOther, Conducting, OwnerAlone, AckedWaits
<1>2. OthersTakePart'
  BY Apart DEF IInv, FcReset, Event, OthersTakePart
<1>3. QueuesLast'
  BY DEF IInv, FcReset, Event, place, QueuesLast, HasQueues
<1>4. ColdIsPrepared'
  BY Apart DEF IInv, FcReset, Event, ownFlags, place, ColdIsPrepared
<1> QED BY <1>1, <1>2, <1>3, <1>4 DEF IInv

LEMMA FcResetEndKeeps ==
  ASSUME IInv, TypeOK', NEW f \in Fcoe, FcResetEnd(f)
  PROVE  IInv'
<1>1. CalledHandler' /\ OwnerIsLowest' /\ OwnerConducts' /\ IdleIsNoOwner' /\
    OneOther' /\ OwnerAlone' /\ AckedWaits'
  BY DEF IInv, FcResetEnd, ownFlags, place, CalledHandler, OwnerIsLowest,
      OwnerConducts, IdleIsNoOwner, OneOther, Conducting, OwnerAlone, AckedWaits
<1>2. OthersTakePart'
  BY DEF IInv, FcResetEnd, OthersTakePart
<1>3. QueuesLast'
  BY DEF IInv, FcResetEnd, place, QueuesLast, HasQueues
<1>4. ColdIsPrepared'
  <2>1. HasQueues(f) /\ lock = Nobody
    BY DEF IInv, FcResetEnd, QueuesLast
  <2>2. dev_state # "cold"
    BY <2>1, Apart DEF IInv, ColdIsPrepared, HasQueues, InHandler, TypeOK
  <2> QED BY <2>2 DEF ColdIsPrepared, FcResetEnd
<1> QED BY <1>1, <1>2, <1>3, <1>4 DEF IInv

LEMMA RequestResetKeeps ==
  ASSUME IInv, TypeOK', RequestReset
  PROVE  IInv'
<1>1. CalledHandler' /\ OwnerIsLowest' /\ OwnerConducts' /\ IdleIsNoOwner' /\
    OthersTakePart' /\ OneOther' /\ AckedWaits' /\ QueuesLast'
  BY DEF IInv, RequestReset, ownFlags, place, rest, CalledHandler,
      OwnerIsLowest, OwnerConducts, IdleIsNoOwner, OthersTakePart, OneOther,
      Conducting, AckedWaits, QueuesLast, HasQueues
<1>2. OwnerAlone'
  BY DEF IInv, RequestReset, SetState, Notify, Event, ownFlags, rest,
      OwnerAlone, Conducting
<1>3. ColdIsPrepared'
  BY DEF IInv, RequestReset, SetState, Notify, Event, ColdIsPrepared
<1> QED BY <1>1, <1>2, <1>3 DEF IInv

--------------------------------------------------------------------------
(* Drivers of other protocols.                                             *)

LEMMA OtherLoadsKeeps ==
  ASSUME IInv, TypeOK', NEW g \in Others, OtherLoads(g)
  PROVE  IInv'
<1>1. CalledHandler' /\ OwnerIsLowest' /\ OwnerConducts' /\ IdleIsNoOwner' /\
    AckedWaits' /\ QueuesLast'
  BY DEF IInv, OtherLoads, ownFlags, place, rest, CalledHandler, OwnerIsLowest,
      OwnerConducts, IdleIsNoOwner, AckedWaits, QueuesLast, HasQueues
<1>2. OthersTakePart'
  BY Apart DEF IInv, OtherLoads, OtherMoves, OthersTakePart
<1>3. OneOther'
  BY DEF IInv, OtherLoads, OtherMoves, OneOther, Conducting
<1>4. OwnerAlone'
  BY DEF IInv, OtherLoads, OtherMoves, ownFlags, place, rest, OwnerAlone,
      Conducting
<1>5. ColdIsPrepared'
  BY Apart DEF IInv, OtherLoads, OtherMoves, ownFlags, place, ColdIsPrepared
<1> QED BY <1>1, <1>2, <1>3, <1>4, <1>5 DEF IInv

LEMMA OtherAcksKeeps ==
  ASSUME IInv, TypeOK', NEW g \in Others, OtherAcks(g)
  PROVE  IInv'
<1>1. CalledHandler' /\ OwnerIsLowest' /\ OwnerConducts' /\ IdleIsNoOwner' /\
    QueuesLast' /\ ColdIsPrepared'
  BY DEF IInv, OtherAcks, ownFlags, place, rest, CalledHandler, OwnerIsLowest,
      OwnerConducts, IdleIsNoOwner, QueuesLast, HasQueues, ColdIsPrepared
<1>2. OthersTakePart'
  BY Apart DEF IInv, OtherAcks, OtherMoves, OthersTakePart
<1>3. OneOther'
  BY DEF IInv, OtherAcks, OtherMoves, OneOther, Conducting
<1>4. OwnerAlone'
  BY DEF IInv, OtherAcks, OtherMoves, ownFlags, rest, OwnerAlone, Conducting
<1>5. AckedWaits'
  BY Apart DEF IInv, OtherAcks, OtherMoves, ownFlags, place, AckedWaits
<1> QED BY <1>1, <1>2, <1>3, <1>4, <1>5 DEF IInv

LEMMA OtherAsksKeeps ==
  ASSUME IInv, TypeOK', NEW g \in Others, OtherAsks(g)
  PROVE  IInv'
<1>1. CalledHandler' /\ OwnerIsLowest' /\ OwnerConducts' /\ IdleIsNoOwner' /\
    QueuesLast'
  BY DEF IInv, OtherAsks, ownFlags, place, rest, CalledHandler, OwnerIsLowest,
      OwnerConducts, IdleIsNoOwner, QueuesLast, HasQueues
<1>2. OthersTakePart'
  BY Apart DEF IInv, OtherAsks, OtherMoves, SetState, Notify, OthersTakePart
<1>3. OneOther'
  BY DEF IInv, OtherAsks, OtherMoves, SetState, Notify, OneOther, Conducting
<1>4. OwnerAlone'
  <2>1. lock = Nobody /\ dev_state = "ready" /\ owner' = owner /\ refused' = refused
    BY DEF OtherAsks, OtherMoves, ownFlags, rest
  <2>2. owner \ refused = {}
    BY <2>1, Apart DEF IInv, OwnerAlone, TypeOK
  <2> QED BY <2>1, <2>2 DEF OwnerAlone
<1>5. AckedWaits'
  BY Apart DEF IInv, OtherAsks, SetState, Notify, place, AckedWaits
<1>6. ColdIsPrepared'
  BY Apart DEF IInv, OtherAsks, SetState, Notify, ColdIsPrepared
<1> QED BY <1>1, <1>2, <1>3, <1>4, <1>5, <1>6 DEF IInv

LEMMA OtherRestartsKeeps ==
  ASSUME IInv, TypeOK', NEW g \in Others, OtherRestarts(g)
  PROVE  IInv'
<1>1. CalledHandler' /\ OwnerIsLowest' /\ OwnerConducts' /\ IdleIsNoOwner' /\
    AckedWaits' /\ QueuesLast'
  BY DEF IInv, OtherRestarts, ownFlags, place, rest, CalledHandler,
      OwnerIsLowest, OwnerConducts, IdleIsNoOwner, AckedWaits, QueuesLast,
      HasQueues
<1>2. OthersTakePart'
  BY DEF IInv, OtherRestarts, OtherMoves, SetState, Notify, OthersTakePart
<1>3. OneOther'
  BY DEF IInv, OtherRestarts, OtherMoves, SetState, Notify, OneOther, Conducting
<1>4. OwnerAlone'
  BY DEF IInv, OtherRestarts, OtherMoves, SetState, Notify, ownFlags, rest,
      OwnerAlone, Conducting
<1>5. ColdIsPrepared'
  BY DEF IInv, OtherRestarts, SetState, Notify, ColdIsPrepared
<1> QED BY <1>1, <1>2, <1>3, <1>4, <1>5 DEF IInv

LEMMA OtherRestartedKeeps ==
  ASSUME IInv, TypeOK', NEW g \in Others, OtherRestarted(g)
  PROVE  IInv'
<1>1. CalledHandler' /\ OwnerIsLowest' /\ OwnerConducts' /\ IdleIsNoOwner' /\
    QueuesLast'
  BY DEF IInv, OtherRestarted, ownFlags, place, rest, CalledHandler,
      OwnerIsLowest, OwnerConducts, IdleIsNoOwner, QueuesLast, HasQueues
<1>2. OthersTakePart'
  BY Apart DEF IInv, OtherRestarted, OtherMoves, SetState, Notify, Event,
      TypeOK, OthersTakePart
<1>3. OneOther'
  BY DEF IInv, OtherRestarted, OtherMoves, SetState, Notify, Event, OneOther,
      Conducting
<1>4. OwnerAlone'
  BY DEF IInv, OtherRestarted, OtherMoves, SetState, Notify, Event, ownFlags,
      rest, OwnerAlone, Conducting
<1>5. AckedWaits'
  BY Apart DEF IInv, OtherRestarted, SetState, Notify, Event, place, AckedWaits
<1>6. ColdIsPrepared'
  BY Apart DEF IInv, OtherRestarted, SetState, Notify, Event, ColdIsPrepared
<1> QED BY <1>1, <1>2, <1>3, <1>4, <1>5, <1>6 DEF IInv

LEMMA OtherLeavesKeeps ==
  ASSUME IInv, TypeOK', NEW g \in Others, OtherLeaves(g)
  PROVE  IInv'
<1>1. CalledHandler' /\ OwnerIsLowest' /\ OwnerConducts' /\ IdleIsNoOwner' /\
    QueuesLast' /\ ColdIsPrepared'
  BY DEF IInv, OtherLeaves, ownFlags, place, rest, CalledHandler, OwnerIsLowest,
      OwnerConducts, IdleIsNoOwner, QueuesLast, HasQueues, ColdIsPrepared
<1>2. OthersTakePart'
  BY DEF IInv, OtherLeaves, OtherMoves, TypeOK, OthersTakePart
<1>3. OneOther'
  BY DEF IInv, OtherLeaves, OtherMoves, OneOther, Conducting
<1>4. OwnerAlone'
  BY DEF IInv, OtherLeaves, OtherMoves, ownFlags, place, rest, OwnerAlone,
      Conducting
<1>5. AckedWaits'
  BY DEF IInv, OtherLeaves, OtherMoves, ownFlags, place, AckedWaits
<1> QED BY <1>1, <1>2, <1>3, <1>4, <1>5 DEF IInv

--------------------------------------------------------------------------
(* Types are preserved.                                                    *)

LEMMA TypeStep == IInv /\ [Next]_vars => TypeOK'
<1> USE Apart DEF TypeOK, States, Works, AenKinds, Callers, Places, Functions
<1> SUFFICES ASSUME TypeOK, CalledHandler, AckedWaits, [Next]_vars PROVE TypeOK'
  BY DEF IInv
<1>1. CASE UNCHANGED vars
  BY <1>1 DEF vars, registers, ownFlags, place, notices, rest
<1>2. ASSUME NEW f \in Fcoe, Sleep(f) PROVE TypeOK'
  BY <1>2 DEF Sleep, Briefly, vars, registers, ownFlags, place, notices, rest
<1>3. ASSUME NEW f \in Fcoe, InitTimeout(f) PROVE TypeOK'
  BY <1>3 DEF InitTimeout, Locked, SetState, Notify, vars, registers, ownFlags,
      place, notices, rest
<1>4. ASSUME NEW f \in Fcoe, SeeReady(f) PROVE TypeOK'
  BY <1>4, ReturnLeaves DEF SeeReady, Briefly, InHandler, vars, notices
<1>5. ASSUME NEW f \in Fcoe, SeeFailed(f) PROVE TypeOK'
  BY <1>5 DEF SeeFailed, Briefly, Goto, vars, notices, rest
<1>6. ASSUME NEW f \in Fcoe, DevFailed(f) PROVE TypeOK'
  BY <1>6 DEF DevFailed, vars, registers, place, notices, rest
<1>7. ASSUME NEW f \in Fcoe, FailedReturn(f) PROVE TypeOK'
  BY <1>7, ReturnLeaves DEF FailedReturn, Briefly, InHandler, vars, registers,
      ownFlags, place, notices, rest
<1>8. ASSUME NEW f \in Fcoe, SeeNeedReset(f) PROVE TypeOK'
  BY <1>8 DEF SeeNeedReset, Locked, Goto, vars, registers, ownFlags, notices,
      rest
<1>9. ASSUME NEW f \in Fcoe, AllAcked(f) PROVE TypeOK'
  BY <1>9, SetStateType DEF AllAcked, Locked, Goto, vars, registers, ownFlags,
      notices, rest
<1>10. ASSUME NEW f \in Fcoe, AwaitAcks(f) PROVE TypeOK'
  BY <1>10 DEF AwaitAcks, Unlock, vars, registers, ownFlags, place, notices,
      rest
<1>11. ASSUME NEW f \in Fcoe, Bootstrap(f) PROVE TypeOK'
  BY <1>11 DEF Bootstrap, Briefly, SetState, Notify, ControlAfterBootstrap,
      Goto, vars, registers, ownFlags, place, notices, rest
<1>12. ASSUME NEW f \in Fcoe, Restarted(f) PROVE TypeOK'
  BY <1>12 DEF Restarted, Locked, SetState, Notify, Event, Goto, vars, ownFlags,
      rest
<1>13. ASSUME NEW f \in Fcoe, FwLoad(f) PROVE TypeOK'
  BY <1>13 DEF FwLoad, Locked, Ownership, SetState, Notify, Event, Enter, Goto,
      vars, ownFlags, rest
<1>14. ASSUME NEW f \in Fcoe, ProbeEnd(f) PROVE TypeOK'
  BY <1>14 DEF ProbeEnd, Goto, vars, registers, ownFlags, notices, rest
<1>15. ASSUME NEW f \in Fcoe, Remove(f) PROVE TypeOK'
  BY <1>15 DEF Remove, Event, vars, registers, ownFlags, place, notices, rest
<1>16. ASSUME NEW f \in Fcoe, Removed(f) PROVE TypeOK'
  BY <1>16 DEF Removed, Goto, vars, registers, ownFlags, place, notices
<1>17. ASSUME NEW f \in Fcoe, ServiceAen(f) PROVE TypeOK'
  BY <1>17 DEF ServiceAen, vars, registers, ownFlags, place, rest
<1>18. ASSUME NEW f \in Fcoe, AenWork(f) PROVE TypeOK'
  BY <1>18 DEF AenWork, Schedule, WithWork, vars, registers, ownFlags, place,
      rest
<1>19. ASSUME NEW f \in Fcoe, ResetWork(f) PROVE TypeOK'
  BY <1>19 DEF ResetWork, Take, Goto, vars, registers, ownFlags, place, rest
<1>20. ASSUME NEW f \in Fcoe, AliveWork(f) PROVE TypeOK'
  BY <1>20 DEF AliveWork, Goto, vars, registers, notices, rest
<1>21. ASSUME NEW f \in Fcoe, NoReset(f) PROVE TypeOK'
  BY <1>21 DEF NoReset, Ownership, Goto, vars, registers, notices, rest
<1>22. ASSUME NEW f \in Fcoe, InitiateReset(f) PROVE TypeOK'
  BY <1>22 DEF InitiateReset, MayReset, Locked, Ownership, SetState, Notify,
      AckAndEnter, Enter, Goto, vars, registers, notices, rest
<1>23. ASSUME NEW f \in Fcoe, AwaitNeedReset(f) PROVE TypeOK'
  BY <1>23 DEF AwaitNeedReset, MayReset, Ownership, Goto, vars, registers,
      notices, rest
<1>24. ASSUME NEW f \in Fcoe, SeeNotReady(f) PROVE TypeOK'
  BY <1>24 DEF SeeNotReady, Locked, AckAndEnter, Enter, Goto, vars, ownFlags,
      notices, rest
<1>25. ASSUME NEW f \in Fcoe, ResetDone(f) PROVE TypeOK'
  BY <1>25 DEF ResetDone, Goto, vars, registers, notices, rest
<1>26. ASSUME NEW f \in Fcoe, StateWork(f) PROVE TypeOK'
  BY <1>26 DEF StateWork, Take, Locked, Briefly, Enter, Goto, vars, registers,
      ownFlags, place, notices, rest
<1>27. ASSUME NEW f \in Fcoe, UnrecoverableWork(f) PROVE TypeOK'
  BY <1>27 DEF UnrecoverableWork, Ownership, SetState, Notify, vars, place, rest
<1>28. ASSUME NEW f \in Fcoe, FcReset(f) PROVE TypeOK'
  BY <1>28 DEF FcReset, Event, vars, ownFlags, place, notices
<1>29. ASSUME NEW f \in Fcoe, FcResetEnd(f) PROVE TypeOK'
  BY <1>29 DEF FcResetEnd, vars, ownFlags, place, notices
<1>30. ASSUME NEW f \in Fcoe, NEW kind \in AenKinds, HandleAen(f, kind) PROVE
    TypeOK'
  BY <1>30 DEF HandleAen, Schedule, WithWork, vars, registers, ownFlags, place,
      rest
<1>31. CASE RequestReset
  BY <1>31 DEF RequestReset, SetState, Notify, Event, vars, registers, ownFlags,
      place, rest
<1>32. CASE DisableResets
  BY <1>32 DEF DisableResets, Event, vars, ownFlags, place, notices, rest
<1>33. CASE EnableResets
  BY <1>33 DEF EnableResets, vars, ownFlags, place, notices, rest
<1>34. CASE FwHangs
  BY <1>34 DEF FwHangs, Event, Notify, vars, registers, ownFlags, place,
      notices, rest
<1>35. CASE FwFatal
  BY <1>35 DEF FwFatal, Event, Notify, vars, registers, ownFlags, place, rest
<1>36. ASSUME NEW g \in Others, OtherLoads(g) PROVE TypeOK'
  BY <1>36 DEF OtherLoads, OtherMoves, vars, registers, ownFlags, place,
      notices, rest
<1>37. ASSUME NEW g \in Others, OtherAcks(g) PROVE TypeOK'
  BY <1>37 DEF OtherAcks, OtherMoves, vars, ownFlags, place, notices, rest
<1>38. ASSUME NEW g \in Others, OtherAsks(g) PROVE TypeOK'
  BY <1>38, SetStateType DEF OtherAsks, OtherMoves, Event, vars, ownFlags,
      place, notices, rest
<1>39. ASSUME NEW g \in Others, OtherRestarts(g) PROVE TypeOK'
  BY <1>39, SetStateType DEF OtherRestarts, OtherMoves, Event, vars, ownFlags,
      place, rest
<1>40. ASSUME NEW g \in Others, OtherRestarted(g) PROVE TypeOK'
  <2>1. /\ dev_state' \in States /\ aen' \in [Fcoe -> SUBSET AenKinds]
        /\ presence' \subseteq Functions /\ fw' \in {"alive", "hung"}
    BY <1>40, SetStateType DEF OtherRestarted
  <2>2. events' \in 0..MaxEvents
    BY <1>40 DEF OtherRestarted, Event
  <2>3. /\ other' \in
             [Others -> {"absent", "idle", "follows", "conducts", "restarts"}]
        /\ ack' \subseteq Functions /\ lock' = lock
    BY <1>40 DEF OtherRestarted, OtherMoves
  <2> QED BY <1>40, <2>1, <2>2, <2>3 DEF OtherRestarted, ownFlags, place, rest
<1>41. ASSUME NEW g \in Others, OtherLeaves(g) PROVE TypeOK'
  BY <1>41 DEF OtherLeaves, OtherMoves, vars, ownFlags, place, notices, rest
<1> QED BY <1>1, <1>2, <1>3, <1>4, <1>5, <1>6, <1>7, <1>8, <1>9, <1>10, <1>11,
    <1>12, <1>13, <1>14, <1>15, <1>16, <1>17, <1>18, <1>19, <1>20, <1>21,
    <1>22, <1>23, <1>24, <1>25, <1>26, <1>27, <1>28, <1>29, <1>30, <1>31,
    <1>32, <1>33, <1>34, <1>35, <1>36, <1>37, <1>38, <1>39, <1>40, <1>41 
    DEF Next, HpStep, OtherStep

--------------------------------------------------------------------------
\* The other steps change nothing that the invariant tells of.
LEMMA Quiet ==
  ASSUME IInv, TypeOK',
         UNCHANGED <<dev_state, presence, ack, lock, owner, refused, at, caller,
                     removing, in_reset, other>>
  PROVE  IInv'
<1>1. /\ CalledHandler' /\ OwnerIsLowest' /\ OwnerConducts' /\ IdleIsNoOwner'
      /\ OthersTakePart' /\ OneOther'
  BY DEF IInv, CalledHandler, OwnerIsLowest, OwnerConducts, IdleIsNoOwner,
      OthersTakePart, OneOther, Conducting
<1>2. OwnerAlone' /\ AckedWaits' /\ QueuesLast' /\ ColdIsPrepared'
  BY DEF IInv, OwnerAlone, Conducting, AckedWaits, QueuesLast, HasQueues,
      ColdIsPrepared
<1> QED BY <1>1, <1>2 DEF IInv

\* The invariant is inductive.
LEMMA InvStep == IInv /\ [Next]_vars => IInv'
<1> SUFFICES ASSUME IInv, [Next]_vars PROVE IInv'
  OBVIOUS
<1>0. TypeOK'
  BY TypeStep DEF IInv
<1>1. CASE UNCHANGED vars
  BY <1>1, <1>0, Quiet DEF vars, registers, ownFlags, place, rest
<1>2. ASSUME NEW f \in Fcoe, Sleep(f) PROVE IInv'
  BY <1>2, <1>0, SleepKeeps
<1>3. ASSUME NEW f \in Fcoe, InitTimeout(f) PROVE IInv'
  BY <1>3, <1>0, InitTimeoutKeeps
<1>4. ASSUME NEW f \in Fcoe, SeeReady(f) PROVE IInv'
  BY <1>4, <1>0, SeeReadyKeeps
<1>5. ASSUME NEW f \in Fcoe, SeeFailed(f) PROVE IInv'
  BY <1>5, <1>0, SeeFailedKeeps
<1>6. ASSUME NEW f \in Fcoe, DevFailed(f) PROVE IInv'
  BY <1>6, <1>0, Quiet DEF DevFailed, registers, place, rest
<1>7. ASSUME NEW f \in Fcoe, FailedReturn(f) PROVE IInv'
  BY <1>7, <1>0, FailedReturnKeeps
<1>8. ASSUME NEW f \in Fcoe, SeeNeedReset(f) PROVE IInv'
  BY <1>8, <1>0, SeeNeedResetKeeps
<1>9. ASSUME NEW f \in Fcoe, AllAcked(f) PROVE IInv'
  BY <1>9, <1>0, AllAckedKeeps
<1>10. ASSUME NEW f \in Fcoe, AwaitAcks(f) PROVE IInv'
  BY <1>10, <1>0, AwaitAcksKeeps
<1>11. ASSUME NEW f \in Fcoe, Bootstrap(f) PROVE IInv'
  BY <1>11, <1>0, BootstrapKeeps
<1>12. ASSUME NEW f \in Fcoe, Restarted(f) PROVE IInv'
  BY <1>12, <1>0, RestartedKeeps
<1>13. ASSUME NEW f \in Fcoe, FwLoad(f) PROVE IInv'
  BY <1>13, <1>0, FwLoadKeeps
<1>14. ASSUME NEW f \in Fcoe, ProbeEnd(f) PROVE IInv'
  BY <1>14, <1>0, ProbeEndKeeps
<1>15. ASSUME NEW f \in Fcoe, Remove(f) PROVE IInv'
  BY <1>15, <1>0, RemoveKeeps
<1>16. ASSUME NEW f \in Fcoe, Removed(f) PROVE IInv'
  BY <1>16, <1>0, RemovedKeeps
<1>17. ASSUME NEW f \in Fcoe, ServiceAen(f) PROVE IInv'
  BY <1>17, <1>0, Quiet DEF ServiceAen, registers, ownFlags, place, rest
<1>18. ASSUME NEW f \in Fcoe, AenWork(f) PROVE IInv'
  BY <1>18, <1>0, Quiet DEF AenWork, registers, ownFlags, place, rest
<1>19. ASSUME NEW f \in Fcoe, ResetWork(f) PROVE IInv'
  BY <1>19, <1>0, ResetWorkKeeps
<1>20. ASSUME NEW f \in Fcoe, AliveWork(f) PROVE IInv'
  BY <1>20, <1>0, AliveWorkKeeps
<1>21. ASSUME NEW f \in Fcoe, NoReset(f) PROVE IInv'
  BY <1>21, <1>0, NoResetKeeps
<1>22. ASSUME NEW f \in Fcoe, InitiateReset(f) PROVE IInv'
  BY <1>22, <1>0, InitiateResetKeeps
<1>23. ASSUME NEW f \in Fcoe, AwaitNeedReset(f) PROVE IInv'
  BY <1>23, <1>0, AwaitNeedResetKeeps
<1>24. ASSUME NEW f \in Fcoe, SeeNotReady(f) PROVE IInv'
  BY <1>24, <1>0, SeeNotReadyKeeps
<1>25. ASSUME NEW f \in Fcoe, ResetDone(f) PROVE IInv'
  BY <1>25, <1>0, ResetDoneKeeps
<1>26. ASSUME NEW f \in Fcoe, StateWork(f) PROVE IInv'
  BY <1>26, <1>0, StateWorkKeeps
<1>27. ASSUME NEW f \in Fcoe, UnrecoverableWork(f) PROVE IInv'
  BY <1>27, <1>0, UnrecoverableWorkKeeps
<1>28. ASSUME NEW f \in Fcoe, FcReset(f) PROVE IInv'
  BY <1>28, <1>0, FcResetKeeps
<1>29. ASSUME NEW f \in Fcoe, FcResetEnd(f) PROVE IInv'
  BY <1>29, <1>0, FcResetEndKeeps
<1>30. ASSUME NEW f \in Fcoe, NEW kind \in AenKinds, HandleAen(f, kind) PROVE IInv'
  BY <1>30, <1>0, Quiet DEF HandleAen, registers, ownFlags, place, rest
<1>31. CASE RequestReset
  BY <1>31, <1>0, RequestResetKeeps
<1>32. CASE DisableResets
  BY <1>32, <1>0, Quiet DEF DisableResets, ownFlags, place, rest
<1>33. CASE EnableResets
  BY <1>33, <1>0, Quiet DEF EnableResets, ownFlags, place, rest
<1>34. CASE FwHangs
  BY <1>34, <1>0, Quiet DEF FwHangs, registers, ownFlags, place, rest
<1>35. CASE FwFatal
  BY <1>35, <1>0, Quiet DEF FwFatal, registers, ownFlags, place, rest
<1>36. ASSUME NEW g \in Others, OtherLoads(g) PROVE IInv'
  BY <1>36, <1>0, OtherLoadsKeeps
<1>37. ASSUME NEW g \in Others, OtherAcks(g) PROVE IInv'
  BY <1>37, <1>0, OtherAcksKeeps
<1>38. ASSUME NEW g \in Others, OtherAsks(g) PROVE IInv'
  BY <1>38, <1>0, OtherAsksKeeps
<1>39. ASSUME NEW g \in Others, OtherRestarts(g) PROVE IInv'
  BY <1>39, <1>0, OtherRestartsKeeps
<1>40. ASSUME NEW g \in Others, OtherRestarted(g) PROVE IInv'
  BY <1>40, <1>0, OtherRestartedKeeps
<1>41. ASSUME NEW g \in Others, OtherLeaves(g) PROVE IInv'
  BY <1>41, <1>0, OtherLeavesKeeps
<1> QED BY <1>1, <1>2, <1>3, <1>4, <1>5, <1>6, <1>7, <1>8, <1>9, <1>10,
    <1>11, <1>12, <1>13, <1>14, <1>15, <1>16, <1>17, <1>18, <1>19, <1>20,
    <1>21, <1>22, <1>23, <1>24, <1>25, <1>26, <1>27, <1>28, <1>29, <1>30,
    <1>31, <1>32, <1>33, <1>34, <1>35, <1>36, <1>37, <1>38, <1>39, <1>40,
    <1>41 DEF Next, HpStep, OtherStep

LEMMA InitInv == Init => IInv
BY Apart DEF Init, IInv, TypeOK, States, Places, Callers, Functions,
    CalledHandler, OwnerIsLowest, OwnerConducts, IdleIsNoOwner, OthersTakePart,
    OneOther, Conducting, OwnerAlone, AckedWaits, QueuesLast, ColdIsPrepared,
    InHandler

\* Whoever conducts a reset and was not refused it is alone.
LEMMA OneConducts ==
  ASSUME IInv
  PROVE  OneConductor
<1>1. Restarting \subseteq Conductors
  BY DEF IInv, OwnerConducts, Restarting, Conductors, InHandler
<1> DEFINE S == Conductors \ refused
<1>2. \A x, y \in S : x = y
  <2> SUFFICES ASSUME NEW x \in S, NEW y \in S PROVE x = y
    OBVIOUS
  <2>1. (x \in owner \ refused \/ x \in Conducting) /\ (y \in owner \ refused \/ y \in Conducting)
    BY DEF Conductors, Conducting
  <2>2. CASE x \in owner \ refused \/ y \in owner \ refused
    <3>1. Conducting = {}
      BY <2>2 DEF IInv, OwnerAlone
    <3>2. x \in owner /\ y \in owner
      BY <2>1, <3>1
    <3> QED BY <3>2, OneLowest DEF IInv, OwnerIsLowest, TypeOK
  <2>3. CASE x \in Conducting /\ y \in Conducting
    BY <2>3 DEF IInv, OneOther
  <2> QED BY <2>1, <2>2, <2>3
<1>3. CASE S = {}
  BY <1>1, <1>3, FS_EmptySet DEF OneConductor
<1>4. CASE S # {}
  <2>1. PICK x \in S : S = {x}
    BY <1>2, <1>4
  <2>2. Cardinality(S) = 1
    BY <2>1, FS_Singleton
  <2> QED BY <1>1, <2>2 DEF OneConductor
<1> QED BY <1>3, <1>4

\* The reset owner is one, and conducts a reset: for any two FCoE functions,
\* any drivers of other protocols and any number of disturbances, whichever of
\* hangs, failing restarts, expired timers, unloads and resets of the FC core
\* meet.
THEOREM OwnersAlwaysSound == Spec => []OwnersAreSound
<1>1. IInv => OwnersAreSound
  BY OneConducts DEF IInv, OwnersAreSound
<1> QED BY InitInv, InvStep, <1>1, PTL DEF Spec

\* The firmware begins to restart in two steps only.
LEMMA RestartBegins ==
  ASSUME IInv, Next, Restarting = {}, Restarting' # {}
  PROVE  (\E f \in Fcoe : Bootstrap(f)) \/ (\E g \in Others : OtherRestarts(g))
<1>1. \/ \E f \in Fcoe : at'[f] = "restart" /\ at[f] # "restart"
      \/ \E g \in Others : other'[g] = "restarts" /\ other[g] # "restarts"
  BY DEF Restarting
<1> USE DEF IInv, TypeOK, place, rest, Goto
<1>2. CASE \E f \in Fcoe : at'[f] = "restart" /\ at[f] # "restart"
  <2> PICK h \in Fcoe : at'[h] = "restart" /\ at[h] # "restart"
    BY <1>2
  <2>1. ASSUME NEW f \in Fcoe, SeeReady(f) \/ FailedReturn(f) PROVE FALSE
    <3>1. \E p \in {"unloaded", "probing", "leave", "idle"} : at' = [at EXCEPT ![f] = p]
      BY <2>1, ReturnLeaves DEF SeeReady, FailedReturn, InHandler
    <3> QED BY <3>1
  <2>2. ASSUME NEW f \in Fcoe,
               \/ Sleep(f) \/ InitTimeout(f) \/ SeeFailed(f) \/ DevFailed(f)
               \/ SeeNeedReset(f) \/ AllAcked(f) \/ AwaitAcks(f) \/ Restarted(f)
        PROVE  FALSE
    BY <2>2 DEF Sleep, InitTimeout, SeeFailed, DevFailed, SeeNeedReset,
        AllAcked, AwaitAcks, Restarted
  <2>3. ASSUME NEW f \in Fcoe,
               \/ FwLoad(f) \/ ProbeEnd(f) \/ Remove(f) \/ Removed(f)
               \/ ServiceAen(f) \/ AenWork(f) \/ FcReset(f) \/ FcResetEnd(f)
               \/ \E kind \in AenKinds : HandleAen(f, kind)
        PROVE  FALSE
    BY <2>3 DEF FwLoad, Enter, ProbeEnd, Remove, Removed, ServiceAen, AenWork,
        FcReset, FcResetEnd, HandleAen
  <2>4. ASSUME NEW f \in Fcoe,
               \/ ResetWork(f) \/ AliveWork(f) \/ NoReset(f) \/ InitiateReset(f)
               \/ AwaitNeedReset(f) \/ SeeNotReady(f) \/ ResetDone(f)
               \/ StateWork(f) \/ UnrecoverableWork(f)
        PROVE  FALSE
    BY <2>4 DEF ResetWork, AliveWork, NoReset, InitiateReset, AckAndEnter,
        Enter, AwaitNeedReset, SeeNotReady, ResetDone, StateWork,
        UnrecoverableWork
  <2>5. CASE RequestReset \/ DisableResets \/ EnableResets \/ FwHangs \/ FwFatal
    BY <2>5 DEF RequestReset, DisableResets, EnableResets, FwHangs, FwFatal
  <2>6. ASSUME NEW g \in Others, OtherLoads(g) \/ OtherStep(g) PROVE FALSE
    BY <2>6 DEF OtherLoads, OtherStep, OtherAcks, OtherAsks, OtherRestarts,
        OtherRestarted, OtherLeaves
  <2> QED BY <2>1, <2>2, <2>3, <2>4, <2>5, <2>6 DEF Next, HpStep
<1>3. CASE \E g \in Others : other'[g] = "restarts" /\ other[g] # "restarts"
  <2> PICK h \in Others : other'[h] = "restarts" /\ other[h] # "restarts"
    BY <1>3
  <2>1. ASSUME NEW f \in Fcoe,
               \/ Sleep(f) \/ InitTimeout(f) \/ SeeReady(f) \/ SeeFailed(f)
               \/ DevFailed(f) \/ FailedReturn(f) \/ SeeNeedReset(f) \/ AllAcked(f)
               \/ AwaitAcks(f) \/ Bootstrap(f) \/ Restarted(f)
        PROVE  FALSE
    BY <2>1 DEF Sleep, InitTimeout, SeeReady, SeeFailed, DevFailed,
        FailedReturn, SeeNeedReset, AllAcked, AwaitAcks, Bootstrap, Restarted
  <2>2. ASSUME NEW f \in Fcoe,
               \/ FwLoad(f) \/ ProbeEnd(f) \/ Remove(f) \/ Removed(f)
               \/ ServiceAen(f) \/ AenWork(f) \/ FcReset(f) \/ FcResetEnd(f)
               \/ \E kind \in AenKinds : HandleAen(f, kind)
        PROVE  FALSE
    BY <2>2 DEF FwLoad, ProbeEnd, Remove, Removed, ServiceAen, AenWork, FcReset,
        FcResetEnd, HandleAen
  <2>3. ASSUME NEW f \in Fcoe,
               \/ ResetWork(f) \/ AliveWork(f) \/ NoReset(f) \/ InitiateReset(f)
               \/ AwaitNeedReset(f) \/ SeeNotReady(f) \/ ResetDone(f)
               \/ StateWork(f) \/ UnrecoverableWork(f)
        PROVE  FALSE
    BY <2>3 DEF ResetWork, AliveWork, NoReset, InitiateReset, AwaitNeedReset,
        SeeNotReady, ResetDone, StateWork, UnrecoverableWork
  <2>4. CASE RequestReset \/ DisableResets \/ EnableResets \/ FwHangs \/ FwFatal
    BY <2>4 DEF RequestReset, DisableResets, EnableResets, FwHangs, FwFatal
  <2>5. ASSUME NEW g \in Others,
               OtherLoads(g) \/ OtherAcks(g) \/ OtherAsks(g) \/ OtherRestarted(g) \/ OtherLeaves(g)
        PROVE  FALSE
    BY <2>5 DEF OtherLoads, OtherAcks, OtherAsks, OtherRestarted, OtherLeaves,
        OtherMoves
  <2> QED BY <2>1, <2>2, <2>3, <2>4, <2>5 DEF Next, HpStep, OtherStep
<1> QED BY <1>1, <1>2, <1>3

LEMMA BeginsPrepared ==
  ASSUME IInv, Next, Restarting = {}, Restarting' # {}
  PROVE  \A f \in presence' \cap Fcoe : at'[f] \in InHandler
<1>1. ASSUME NEW f \in Fcoe, Bootstrap(f)
      PROVE  \A g \in presence' \cap Fcoe : at'[g] \in InHandler
  BY <1>1 DEF IInv, ColdIsPrepared, Bootstrap, Goto, InHandler
<1>2. ASSUME NEW g \in Others, OtherRestarts(g)
      PROVE  \A f \in presence' \cap Fcoe : at'[f] \in InHandler
  BY <1>2 DEF IInv, AckedWaits, OtherRestarts, place
<1> QED BY <1>1, <1>2, RestartBegins

\* The firmware is restarted only while every FCoE function that takes part
\* waits in its state handler, whoever restarts it and whoever was late.
THEOREM RestartsAlwaysPrepared == Spec => Prepared
<1>1. IInv /\ [Next]_vars =>
        [Restarting = {} /\ Restarting' # {} =>
           \A f \in presence' \cap Fcoe : at'[f] \in InHandler]_vars
  BY BeginsPrepared
<1> QED BY InitInv, InvStep, <1>1, PTL DEF Spec, Prepared

--------------------------------------------------------------------------
(* The IDC lock, which the functions of the adapter guard their registers  *)
(* with: types, and who answers for a stage in LOCK_RECOVERY.              *)

\* A stage names a real function, so the witness of StageHasOwner exists.
StageNamesFunction == recovery.stage > 0 => recovery.owner \in Drivers

LockInv == LockTypeOK /\ StageNamesFunction /\ StageHasOwner

--------------------------------------------------------------------------
LEMMA LockInitInv == LockInit => LockInv
<1> SUFFICES ASSUME LockInit PROVE LockInv
  OBVIOUS
<1>1. LockTypeOK
  BY IdcLockAssumption DEF LockInit, LockTypeOK, Cleared, LockIds
<1>2. recovery.stage = 0
  BY DEF LockInit, Cleared
<1> QED BY <1>1, <1>2 DEF LockInv, StageNamesFunction, StageHasOwner

\* Steps outside the recovery that leave LOCK_RECOVERY alone: no function in
\* the recovery leaves it, so whoever answered for the stage still does.
LEMMA OutsideRecovery ==
  ASSUME LockInv, NEW f \in Drivers, NEW step \in {"idle", "lock", "own", "hold",
           "old", "new", "stage1", "unlock", "unlock_reg", "unlock_id"},
         pc[f] \notin InRecovery, Proceed(f, step), UNCHANGED recovery
  PROVE  StageNamesFunction' /\ StageHasOwner'
<1>1. \A g \in Drivers : pc[g] \in InRecovery => pc'[g] = pc[g]
  BY DEF Proceed, LockInv, LockTypeOK
<1> QED BY <1>1 DEF LockInv, StageNamesFunction, StageHasOwner, InRecovery

\* Steps past the ownership check keep answering for any stage.
LEMMA PastCheck ==
  ASSUME LockInv, NEW f \in Drivers, NEW step \in InRecovery \ {"sleep"},
         Proceed(f, step), UNCHANGED recovery
  PROVE  StageNamesFunction' /\ StageHasOwner'
<1>1. pc'[f] = step
  BY DEF Proceed, LockInv, LockTypeOK
<1> QED BY <1>1 DEF LockInv, StageNamesFunction, StageHasOwner

\* A cleared stage needs nobody.
LEMMA StageZero ==
  ASSUME recovery'.stage = 0
  PROVE  StageNamesFunction' /\ StageHasOwner'
  BY DEF StageNamesFunction, StageHasOwner

--------------------------------------------------------------------------
LEMMA LockTypeStep ==
  ASSUME LockInv, [LockNext]_lockVars
  PROVE  LockTypeOK'
<1> USE DEF LockInv, LockTypeOK, LockIds, Proceed
<1>1. CASE UNCHANGED lockVars
  BY <1>1 DEF lockVars
<1>2. ASSUME NEW f \in Drivers, CallLock(f) \/ ReadNewId(f) \/ Crash(f)
      PROVE  LockTypeOK'
  <2>1. CASE CallLock(f)
    BY <2>1 DEF CallLock
  <2>2. CASE ReadNewId(f)
    BY <2>2 DEF ReadNewId
  <2>3. CASE Crash(f)
    BY <2>3, IdcLockAssumption DEF Crash
  <2> QED BY <1>2, <2>1, <2>2, <2>3
<1>3. ASSUME NEW f \in Drivers, LockStep(f)
      PROVE  LockTypeOK'
  <2>1. CASE ReadLock(f)
    BY <2>1 DEF ReadLock
  <2>2. CASE WriteLockId(f)
    BY <2>2 DEF WriteLockId
  <2>3. CASE ReadOldId(f)
    BY <2>3 DEF ReadOldId
  <2>4. CASE ForceRecovery(f)
    BY <2>4 DEF ForceRecovery
  <2>5. CASE WriteStage1(f)
    BY <2>5 DEF WriteStage1
  <2>6. CASE CheckOwner(f)
    BY <2>6 DEF CheckOwner
  <2>7. CASE WriteStage2(f)
    BY <2>7 DEF WriteStage2
  <2>8. CASE ForceUnlock(f)
    BY <2>8 DEF ForceUnlock, Free
  <2>9. CASE ForceLockId(f)
    BY <2>9 DEF ForceLockId
  <2>10. CASE ForceEnd(f)
    BY <2>10 DEF ForceEnd, Cleared
  <2> QED BY <1>3, <2>1, <2>2, <2>3, <2>4, <2>5, <2>6, <2>7, <2>8, <2>9, <2>10 DEF LockStep
<1>4. ASSUME NEW f \in Drivers, UnlockStep(f)
      PROVE  LockTypeOK'
  <2>1. CASE CallUnlock(f)
    BY <2>1 DEF CallUnlock
  <2>2. CASE ReadLockId(f)
    BY <2>2 DEF ReadLockId
  <2>3. CASE ReadUnlock(f)
    BY <2>3 DEF ReadUnlock, Free
  <2>4. CASE ClearLockId(f)
    BY <2>4 DEF ClearLockId
  <2> QED BY <1>4, <2>1, <2>2, <2>3, <2>4 DEF UnlockStep
<1> QED BY <1>1, <1>2, <1>3, <1>4 DEF LockNext

LEMMA StageStep ==
  ASSUME LockInv, [LockNext]_lockVars
  PROVE  StageNamesFunction' /\ StageHasOwner'
<1>1. CASE UNCHANGED lockVars
  BY <1>1 DEF lockVars, LockInv, StageNamesFunction, StageHasOwner
<1>2. ASSUME NEW f \in Drivers, CallLock(f) \/ ReadNewId(f) \/ Crash(f)
      PROVE  StageNamesFunction' /\ StageHasOwner'
  BY <1>2, OutsideRecovery DEF CallLock, ReadNewId, Crash, InRecovery
<1>3. ASSUME NEW f \in Drivers, LockStep(f)
      PROVE  StageNamesFunction' /\ StageHasOwner'
  <2>1. CASE ReadLock(f)
    BY <2>1, OutsideRecovery DEF ReadLock, InRecovery
  <2>2. CASE WriteLockId(f) \/ ReadOldId(f) \/ ForceRecovery(f)
    BY <2>2, OutsideRecovery DEF WriteLockId, ReadOldId, ForceRecovery, InRecovery
  <2>3. CASE WriteStage1(f)
    <3>1. recovery'.owner = f /\ pc'[f] = "sleep"
      BY <2>3 DEF WriteStage1, Proceed, LockInv, LockTypeOK
    <3> QED BY <3>1 DEF StageNamesFunction, StageHasOwner, InRecovery
  <2>4. CASE CheckOwner(f)
    <3>1. CASE recovery.owner = f
      BY <2>4, <3>1, PastCheck DEF CheckOwner, InRecovery
    <3>2. CASE recovery.owner # f
      <4>1. \A g \in Drivers \ {f} : pc'[g] = pc[g]
        BY <2>4 DEF CheckOwner, Proceed, LockInv, LockTypeOK
      <4>2. pc[f] = "sleep" /\ recovery' = recovery
        BY <2>4 DEF CheckOwner
      <4> QED BY <3>2, <4>1, <4>2
              DEF LockInv, StageNamesFunction, StageHasOwner, InRecovery
    <3> QED BY <3>1, <3>2
  <2>5. CASE WriteStage2(f) \/ ForceEnd(f)
    BY <2>5, StageZero DEF WriteStage2, ForceEnd, Cleared
  <2>6. CASE ForceUnlock(f) \/ ForceLockId(f)
    BY <2>6, PastCheck DEF ForceUnlock, ForceLockId, InRecovery
  <2> QED BY <1>3, <2>1, <2>2, <2>3, <2>4, <2>5, <2>6 DEF LockStep
<1>4. ASSUME NEW f \in Drivers, UnlockStep(f)
      PROVE  StageNamesFunction' /\ StageHasOwner'
  BY <1>4, OutsideRecovery
  DEF UnlockStep, CallUnlock, ReadLockId, ReadUnlock, ClearLockId, InRecovery
<1> QED BY <1>1, <1>2, <1>3, <1>4 DEF LockNext

LEMMA LockStepKeeps == LockInv /\ [LockNext]_lockVars => LockInv'
  BY LockTypeStep, StageStep DEF LockInv

--------------------------------------------------------------------------
\* The registers and the drivers' steps stay in range for any number of
\* functions.
THEOREM LockTypeCorrect == LockSpec => []LockTypeOK
<1>1. LockInv => LockTypeOK
  BY DEF LockInv
<1> QED BY LockInitInv, LockStepKeeps, <1>1, PTL DEF LockSpec

\* However many functions force the lock at once, and whoever overwrites
\* whose intent, a stage in LOCK_RECOVERY always has somebody on the way to
\* clear it: the recovery is never closed to everybody for ever.
THEOREM StageAlwaysHasOwner == LockSpec => []StageHasOwner
<1>1. LockInv => StageHasOwner
  BY DEF LockInv
<1> QED BY LockInitInv, LockStepKeeps, <1>1, PTL DEF LockSpec

\* The two as the run checks them.
THEOREM LockAlwaysSound == LockSpec => []LockIsSound
<1>1. LockTypeOK /\ StageHasOwner => LockIsSound
  BY DEF LockIsSound
<1> QED BY <1>1, LockTypeCorrect, StageAlwaysHasOwner, PTL
==========================================================================
