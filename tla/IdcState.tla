----------------------------- MODULE IdcState -----------------------------
(***************************************************************************)
(* Inter-driver communication (IDC) of the 8031: how the drivers of the    *)
(* functions of one adapter agree on a reset of its NIC core, through      *)
(* shared registers.                                                       *)
(*                                                                         *)
(*   DEV_STATE     state of the NIC core                                   *)
(*   DRV_PRESENCE  functions that take part                                *)
(*   DRIVER_ACK    functions that are ready for the reset                  *)
(*   IDC_CONTROL   resets disabled; reset asked for by an application      *)
(*                                                                         *)
(* One function is the reset owner.  It asks for a reset (NEED_RESET),     *)
(* waits for the others to acknowledge, and restarts the firmware (COLD,   *)
(* INITIALIZING, READY or FAILED).  The others acknowledge and wait.       *)
(*                                                                         *)
(* Registers are accessed under the IDC lock, which IdcLock models; here   *)
(* it is a plain lock.  What a function does while it has the lock is one  *)
(* action, or several that leave it locked.  Every function has a thread   *)
(* for the handlers (dpc_hp_wq), one for events (dpc_lp_wq), interrupts,   *)
(* and a DPC thread that resets the FC core.                               *)
(*                                                                         *)
(* Left out: quiescence, which this driver never asks for; the version     *)
(* registers and the audit register; the option ql2xdontresethba.          *)
(***************************************************************************)
EXTENDS Integers, FiniteSets

CONSTANTS
  Fcoe,          \* the FCoE functions (ha->portnum), each with this driver
  Others,        \* functions with drivers of other protocols; external
  Faults,        \* the kinds of disturbances there are, see AllFaults
  MaxEvents      \* bound: disturbances

\* What may happen besides loading drivers.  The kinds that cost an event of
\* the bound are those that come from outside: they are not in Timeouts.
Timeouts == {"ack_timeout", "init_timeout"}
AllFaults == Timeouts \cup
  {"hang", "fatal", "restart_fails", "config_fails", "unload",
   "application", "disable", "fc_reset"}

ASSUME IdcStateAssumption ==
  /\ Fcoe \subseteq 0..15 /\ Others \subseteq 0..15 /\ Fcoe \cap Others = {}
  /\ IsFiniteSet(Fcoe) /\ Cardinality(Fcoe) \in 1..2
  /\ Faults \subseteq AllFaults /\ MaxEvents \in Nat

VARIABLES
  dev_state,     \* QLA83XX_IDC_DEV_STATE
  presence,      \* QLA83XX_IDC_DRV_PRESENCE
  ack,           \* QLA83XX_IDC_DRIVER_ACK
  control,       \* QLA83XX_IDC_CONTROL
  lock,          \* the function that keeps the IDC lock, or Nobody
  fw,            \* the NIC firmware: "alive" or "hung"
  owner,         \* ha->flags.nic_core_reset_owner, as a set
  hdlr_active,   \* ha->flags.nic_core_reset_hdlr_active, as a set
  dev_failed,    \* DFLG_DEV_FAILED, as a set
  at,            \* where the thread of dpc_hp_wq, or of probe, is
  caller,        \* who called qla83xx_idc_state_handler
  fresh,         \* functions whose dev_init_timeout was just set
  queued,        \* works on the two work queues
  lp,            \* what the thread of dpc_lp_wq has read
  aen,           \* events on their way to a function
  removing,      \* functions whose driver is being unloaded
  in_reset,      \* functions whose FC core is being reset (abort_isp)
  other,         \* what the drivers of other protocols do
  refused,       \* history: functions that became owner for a refused reset
  events         \* bound: disturbances so far

registers == <<dev_state, presence, ack, control>>
ownFlags  == <<owner, hdlr_active, dev_failed>>
place     == <<at, caller, fresh>>
notices   == <<queued, lp, aen>>
rest      == <<removing, in_reset, refused>>
vars == <<registers, lock, fw, ownFlags, place, notices, rest, other, events>>

Nobody == 255
Functions == Fcoe \cup Others

States == {"cold", "initializing", "ready", "need_reset", "failed"}
Works == {"aen", "reset", "state", "unrecoverable"}
AenKinds == {"state_change", "error", "fatal"}
Callers == {"none", "load", "reset", "work"}
Places == {"unloaded", "probing", "idle", "alive", "start", "initiating",
           "handler", "acks", "restart", "failing", "leave"}

\* Where the state handler, or what it calls, runs.
InHandler == {"handler", "acks", "restart", "failing"}

TypeOK ==
  /\ dev_state \in States
  /\ presence \subseteq Functions /\ ack \subseteq Functions
  /\ control \subseteq {"DISABLED", "GRACEFUL"}
  /\ lock \in Fcoe \cup {Nobody} /\ fw \in {"alive", "hung"}
  /\ owner \subseteq Fcoe /\ hdlr_active \subseteq Fcoe /\ dev_failed \subseteq Fcoe
  /\ at \in [Fcoe -> Places] /\ caller \in [Fcoe -> Callers] /\ fresh \subseteq Fcoe
  /\ queued \in [Fcoe -> SUBSET Works]
  /\ lp \in [Fcoe -> {"idle", "need_reset", "graceful", "handle"}]
  /\ aen \in [Fcoe -> SUBSET AenKinds]
  /\ removing \subseteq Fcoe /\ in_reset \subseteq Fcoe
  /\ other \in [Others -> {"absent", "idle", "follows", "conducts", "restarts"}]
  /\ refused \subseteq Fcoe /\ events \in 0..MaxEvents

\* No driver is loaded.
Init ==
  /\ dev_state = "cold" /\ presence = {} /\ ack = {} /\ control = {}
  /\ lock = Nobody /\ fw = "alive"
  /\ owner = {} /\ hdlr_active = {} /\ dev_failed = {}
  /\ at = [f \in Fcoe |-> "unloaded"]
  /\ caller = [f \in Fcoe |-> "none"] /\ fresh = {}
  /\ queued = [f \in Fcoe |-> {}] /\ lp = [f \in Fcoe |-> "idle"]
  /\ aen = [f \in Fcoe |-> {}]
  /\ removing = {} /\ in_reset = {}
  /\ other = [g \in Others |-> "absent"] /\ refused = {} /\ events = 0

Event(kind) == kind \in Faults /\ events < MaxEvents /\ events' = events + 1

Goto(f, p) == at' = [at EXCEPT ![f] = p]

\* Slip: the unlock writes 0.
BrieflyZero(f) == lock \in {f, Nobody} /\ lock' = 0

\* qla83xx_idc_lock, by a thread that goes on to keep the lock, or by one that
\* has it already; and a whole stretch from lock to unlock.
Locked(f)  == lock \in {f, Nobody} /\ lock' = f
Briefly(f) == lock \in {f, Nobody} /\ lock' = Nobody
Unlock     == lock' = Nobody

\* The work queues exist from the end of probe on.
HasQueues(f) ==
  ~(at[f] \in {"unloaded", "probing"} \/ (at[f] \in InHandler /\ caller[f] = "load"))

\* An event to every function with a driver.  Two of a kind make no difference:
\* neither they nor the works they lead to carry a value.
Notify(kind) ==
  aen' = [f \in Fcoe |-> IF at[f] = "unloaded" THEN {} ELSE aen[f] \cup {kind}]

\* A write to DEV_STATE; the firmware reports changes.
SetState(s) ==
  /\ dev_state' = s
  /\ IF s = dev_state THEN UNCHANGED aen ELSE Notify("state_change")

\* qla83xx_schedule_work: the reset is not queued while one is handled.
WithWork(f, work) ==
  IF HasQueues(f) /\ ~(work = "reset" /\ f \in hdlr_active)
  THEN [queued EXCEPT ![f] = @ \cup {work}] ELSE queued
Schedule(f, work) == queued' = WithWork(f, work)

\* A work is taken from dpc_hp_wq, which has one thread.
Take(f, work) ==
  /\ at[f] = "idle" /\ work \in queued[f]
  /\ queued' = [queued EXCEPT ![f] = @ \ {work}]

--------------------------------------------------------------------------
(* Who resets.                                                             *)

\* Slip: drivers of other protocols are not looked for.
IsResetOwnerOfAny(f) == \A g \in Fcoe : f <= g

\* qla83xx_reset_ownership: no other protocol is present, and f is the lowest
\* of the FCoE functions of the adapter, with a driver or not.
IsResetOwner(f) == presence \subseteq Fcoe /\ \A g \in Fcoe : f <= g

\* It sets the flag and never clears it.
Ownership(f) == IF IsResetOwner(f) THEN owner \cup {f} ELSE owner

--------------------------------------------------------------------------
(* qla83xx_idc_state_handler, with the lock held on entry and at the end.  *)

Enter(f, who) ==
  /\ Goto(f, "handler")
  /\ caller' = [caller EXCEPT ![f] = who] /\ fresh' = fresh \cup {f}

\* The handler returns to its caller, which drops the lock.  The reset work
\* clears the acknowledgement first, and its active flag after the unlock.
Return(f) ==
  /\ Goto(f, CASE caller[f] = "load"  -> IF f \in dev_failed THEN "unloaded" ELSE "probing"
               [] caller[f] = "reset" -> "leave"
               [] caller[f] = "work"  -> "idle")
  /\ caller' = [caller EXCEPT ![f] = "none"] /\ fresh' = fresh \ {f}
  /\ ack' = IF caller[f] = "reset" THEN ack \ {f} ELSE ack

\* One second of sleep without the lock.
Sleep(f) ==
  /\ at[f] = "handler" /\ Briefly(f)
  /\ \/ dev_state \in {"cold", "need_reset"} /\ f \notin owner
     \/ dev_state = "initializing"
  \* reset timeout value after need reset handler
  /\ fresh' = IF dev_state = "need_reset" THEN fresh \cup {f} ELSE fresh \ {f}
  /\ UNCHANGED <<registers, fw, ownFlags, at, caller, notices, rest, other, events>>

\* Initialization TIMEOUT: FAILED is written, whatever the state is by now.
\* The next look at the state follows with the lock kept.
InitTimeout(f) ==
  /\ "init_timeout" \in Faults
  /\ at[f] = "handler" /\ f \notin fresh /\ dev_state # "failed" /\ Locked(f)
  /\ SetState("failed")
  /\ UNCHANGED <<presence, ack, control, fw, ownFlags, place, queued, lp>>
  /\ UNCHANGED <<rest, other, events>>

\* Slip: the owner stays the owner after its reset.
SeeReadyAsOwner(f) ==
  /\ at[f] = "handler" /\ dev_state = "ready" /\ Briefly(f)
  /\ Return(f)
  /\ UNCHANGED <<dev_state, presence, control, fw, ownFlags, notices, rest, other, events>>

SeeReady(f) ==
  /\ at[f] = "handler" /\ dev_state = "ready" /\ Briefly(f)
  /\ owner' = owner \ {f} /\ refused' = refused \ {f}
  /\ Return(f)
  /\ UNCHANGED <<dev_state, presence, control, fw, hdlr_active, dev_failed>>
  /\ UNCHANGED <<notices, removing, in_reset, other, events>>

\* FAILED: no further part in the IDC.  qla8xxx_dev_failed_handler runs
\* without the lock.
SeeFailed(f) ==
  /\ at[f] = "handler" /\ dev_state = "failed" /\ Briefly(f)
  /\ owner' = owner \ {f} /\ presence' = presence \ {f}
  /\ Goto(f, "failing")
  /\ UNCHANGED <<dev_state, ack, control, fw, hdlr_active, dev_failed, caller, fresh>>
  /\ UNCHANGED <<notices, rest, other, events>>

DevFailed(f) ==
  /\ at[f] = "failing" /\ f \notin dev_failed
  /\ dev_failed' = dev_failed \cup {f}
  /\ UNCHANGED <<registers, lock, fw, owner, hdlr_active, place, notices, rest, other, events>>

FailedReturn(f) ==
  /\ at[f] = "failing" /\ f \in dev_failed /\ Briefly(f)
  /\ Return(f)
  /\ UNCHANGED <<dev_state, presence, control, fw, ownFlags, notices, rest, other, events>>

\* NEED_RESET, as the owner: on to qla83xx_need_reset_handler.
SeeNeedReset(f) ==
  /\ at[f] = "handler" /\ dev_state = "need_reset" /\ f \in owner /\ Locked(f)
  /\ Goto(f, "acks")
  /\ UNCHANGED <<registers, fw, ownFlags, caller, fresh, notices, rest, other, events>>

\* All present functions have acknowledged, or those that have not are forced
\* to withdraw: DRV_PRESENCE becomes DRIVER_ACK.
AllAcked(f) ==
  /\ at[f] = "acks" /\ Locked(f)
  /\ \/ presence \subseteq ack /\ UNCHANGED presence
     \/ "ack_timeout" \in Faults /\ ~(presence \subseteq ack) /\ presence' = ack
  /\ SetState("cold")
  /\ Goto(f, "handler") /\ fresh' = fresh \cup {f}
  /\ UNCHANGED <<ack, control, fw, ownFlags, caller, queued, lp, rest, other, events>>

\* One second of sleep without the lock.
AwaitAcks(f) ==
  /\ at[f] = "acks" /\ ~(presence \subseteq ack) /\ lock = f /\ Unlock
  /\ UNCHANGED <<registers, fw, ownFlags, place, notices, rest, other, events>>

\* IDC_CONTROL after the write of qla83xx_device_bootstrap.
ControlAfterBootstrap == {}

\* COLD, as the owner: qla83xx_device_bootstrap up to the restart, which runs
\* without the lock.
Bootstrap(f) ==
  /\ at[f] = "handler" /\ dev_state = "cold" /\ f \in owner /\ Briefly(f)
  /\ SetState("initializing")
  /\ control' = ControlAfterBootstrap
  /\ Goto(f, "restart") /\ fresh' = fresh \ {f}
  /\ UNCHANGED <<presence, ack, fw, ownFlags, caller, queued, lp, rest, other, events>>

\* Slip: a failed restart is not reported in DEV_STATE.
RestartedSilently(f) ==
  /\ at[f] = "restart" /\ Locked(f)
  /\ \/ SetState("ready") /\ fw' = "alive" /\ UNCHANGED events
     \/ Event("restart_fails") /\ UNCHANGED <<dev_state, aen, fw>>
  /\ Goto(f, "handler")
  /\ UNCHANGED <<presence, ack, control, ownFlags, caller, fresh, queued, lp, rest, other>>

\* qla83xx_restart_nic_firmware has returned.
Restarted(f) ==
  /\ at[f] = "restart" /\ Locked(f)
  /\ \/ SetState("ready") /\ fw' = "alive" /\ UNCHANGED events
     \/ Event("restart_fails") /\ SetState("failed") /\ UNCHANGED fw
  /\ Goto(f, "handler")
  /\ UNCHANGED <<presence, ack, control, ownFlags, caller, fresh, queued, lp, rest, other>>

--------------------------------------------------------------------------
(* Probe and remove.                                                       *)

\* qla83xx_nic_core_fw_load.  An owner declares the NIC core ready if it can
\* read its port configuration.
FwLoad(f) ==
  /\ at[f] = "unloaded" /\ Locked(f)
  /\ presence' = presence \cup {f}
  /\ owner' = Ownership(f)
  /\ \/ f \in owner' /\ SetState("ready") /\ UNCHANGED events
     \/ f \in owner' /\ Event("config_fails") /\ UNCHANGED <<dev_state, aen>>
     \/ f \notin owner' /\ UNCHANGED <<dev_state, aen, events>>
  /\ Enter(f, "load")
  /\ dev_failed' = dev_failed \ {f}
  /\ UNCHANGED <<ack, control, fw, hdlr_active, queued, lp, rest, other>>

\* qla2x00_probe_one creates the work queues.
ProbeEnd(f) ==
  /\ at[f] = "probing" /\ Goto(f, "idle")
  /\ UNCHANGED <<registers, lock, fw, ownFlags, caller, fresh, notices, rest, other, events>>

\* qla2x00_remove_one: once no reset of the FC core is active, the function
\* leaves the IDC.
Remove(f) ==
  /\ HasQueues(f) /\ f \notin removing \cup in_reset /\ Event("unload")
  /\ lock = Nobody
  /\ presence' = presence \ {f} /\ removing' = removing \cup {f}
  /\ UNCHANGED <<dev_state, ack, control, lock, fw, ownFlags, place, notices>>
  /\ UNCHANGED <<in_reset, refused, other>>

\* qla2x00_destroy_deferred_work cancels works or waits for those under way.
Removed(f) ==
  /\ f \in removing /\ at[f] = "idle" /\ lp[f] = "idle"
  /\ refused' = refused \ {f}
  /\ Goto(f, "unloaded") /\ removing' = removing \ {f}
  /\ owner' = owner \ {f} /\ dev_failed' = dev_failed \ {f}
  /\ queued' = [queued EXCEPT ![f] = {}] /\ aen' = [aen EXCEPT ![f] = {}]
  /\ UNCHANGED <<registers, lock, fw, hdlr_active, caller, fresh, lp, in_reset, other, events>>

--------------------------------------------------------------------------
(* Events.                                                                 *)

\* qla83xx_handle_8200_aen.  The owner ignores state changes.
HandleAen(f, kind) ==
  /\ kind \in aen[f] /\ aen' = [aen EXCEPT ![f] = @ \ {kind}]
  /\ \/ kind = "error" /\ Schedule(f, "reset")
     \/ kind = "fatal" /\ Schedule(f, "unrecoverable")
     \/ kind = "state_change" /\ f \notin owner /\ Schedule(f, "aen")
     \/ kind = "state_change" /\ f \in owner /\ UNCHANGED queued
  /\ UNCHANGED <<registers, lock, fw, ownFlags, place, lp, rest, other, events>>

\* Slip: FAILED calls for nothing.
ServiceAenNoFailed(f) ==
  /\ lp[f] = "idle" /\ "aen" \in queued[f] /\ lock = Nobody
  /\ queued' = [queued EXCEPT ![f] = @ \ {"aen"}]
  /\ lp' = [lp EXCEPT ![f] = IF dev_state # "need_reset" THEN "idle" ELSE
                              IF "GRACEFUL" \in control THEN "graceful" ELSE "need_reset"]
  /\ UNCHANGED <<registers, lock, fw, ownFlags, place, aen, rest, other, events>>

\* qla83xx_service_idc_aen reads the state and the control word ...
ServiceAen(f) ==
  /\ lp[f] = "idle" /\ "aen" \in queued[f] /\ lock = Nobody
  /\ queued' = [queued EXCEPT ![f] = @ \ {"aen"}]
  /\ lp' = [lp EXCEPT ![f] =
       CASE dev_state = "need_reset" /\ "GRACEFUL" \in control -> "graceful"
         [] dev_state = "need_reset" /\ "GRACEFUL" \notin control -> "need_reset"
         [] dev_state = "failed" -> "handle"
         [] OTHER -> "idle"]
  /\ UNCHANGED <<registers, lock, fw, ownFlags, place, aen, rest, other, events>>

\* ... and schedules work without the lock; unless an application asked, a
\* reset only if the firmware is alive.
AenWork(f) ==
  /\ lp[f] # "idle" /\ lp' = [lp EXCEPT ![f] = "idle"]
  /\ \/ lp[f] = "graceful" /\ Schedule(f, "reset")
     \/ lp[f] = "need_reset" /\ fw = "alive" /\ Schedule(f, "reset")
     \/ lp[f] = "need_reset" /\ fw = "hung" /\ UNCHANGED queued
     \/ lp[f] = "handle" /\ Schedule(f, "state")
  /\ UNCHANGED <<registers, lock, fw, ownFlags, place, aen, rest, other, events>>

--------------------------------------------------------------------------
(* The works of dpc_hp_wq.                                                 *)

\* Slip: the result of the heartbeat check is taken the wrong way round.
ResetWorkSwapped(f) ==
  /\ Take(f, "reset")
  /\ \/ fw = "hung" /\ Goto(f, "alive") /\ UNCHANGED hdlr_active
     \/ fw = "alive" /\ Goto(f, "start") /\ hdlr_active' = hdlr_active \cup {f}
  /\ UNCHANGED <<registers, lock, fw, owner, dev_failed, caller, fresh, lp, aen>>
  /\ UNCHANGED <<rest, other, events>>

\* qla83xx_nic_core_reset_work, with qla83xx_check_nic_core_fw_alive.
ResetWork(f) ==
  /\ Take(f, "reset")
  /\ \/ fw = "alive" /\ Goto(f, "alive") /\ UNCHANGED hdlr_active
     \/ fw = "hung" /\ Goto(f, "start") /\ hdlr_active' = hdlr_active \cup {f}
  /\ UNCHANGED <<registers, lock, fw, owner, dev_failed, caller, fresh, lp, aen>>
  /\ UNCHANGED <<rest, other, events>>

\* The firmware is alive: a reset only if one is asked for.
AliveWork(f) ==
  /\ at[f] = "alive" /\ lock = Nobody
  /\ \/ dev_state = "need_reset" /\ Goto(f, "start") /\ hdlr_active' = hdlr_active \cup {f}
     \/ dev_state # "need_reset" /\ Goto(f, "idle") /\ UNCHANGED hdlr_active
  /\ UNCHANGED <<registers, lock, fw, owner, dev_failed, caller, fresh, notices>>
  /\ UNCHANGED <<rest, other, events>>

\* qla83xx_nic_core_reset gives up: failed, withdrawn, or resets disabled.
\* In the last case the ownership is decided by then.
NoReset(f) ==
  /\ at[f] = "start" /\ lock = Nobody
  /\ \/ (f \in dev_failed \/ f \notin presence) /\ UNCHANGED <<owner, refused>>
     \/ /\ f \notin dev_failed /\ f \in presence /\ "DISABLED" \in control
        /\ owner' = Ownership(f) /\ refused' = refused \cup {f}
  /\ Goto(f, "leave")
  /\ UNCHANGED <<registers, lock, fw, hdlr_active, dev_failed, caller, fresh, notices>>
  /\ UNCHANGED <<removing, in_reset, other, events>>

MayReset(f) ==
  at[f] = "start" /\ f \notin dev_failed /\ f \in presence /\ "DISABLED" \notin control

\* qla83xx_initiating_reset sends the acknowledgement, and the state handler
\* is entered with the lock kept.
AckAndEnter(f) == ack' = ack \cup {f} /\ Enter(f, "reset")

\* READY, as the owner: ask for the reset.  Not READY: one is under way.
InitiateReset(f) ==
  /\ MayReset(f) /\ Locked(f)
  /\ owner' = Ownership(f)
  /\ \/ dev_state = "ready" /\ f \in owner' /\ SetState("need_reset")
     \/ dev_state # "ready" /\ UNCHANGED <<dev_state, aen>>
  /\ AckAndEnter(f)
  /\ UNCHANGED <<presence, control, fw, hdlr_active, dev_failed, queued, lp>>
  /\ UNCHANGED <<rest, other, events>>

\* Slip: acknowledged before the wait.
AwaitNeedResetAcked(f) ==
  /\ MayReset(f) /\ lock = Nobody /\ dev_state = "ready"
  /\ owner' = Ownership(f) /\ f \notin owner'
  /\ Goto(f, "initiating") /\ ack' = ack \cup {f}
  /\ UNCHANGED <<dev_state, presence, control, lock, fw, hdlr_active, dev_failed>>
  /\ UNCHANGED <<caller, fresh, notices, rest, other, events>>

\* READY, not the owner: wait for IDC state change READY -> NEED_RESET.
AwaitNeedReset(f) ==
  /\ MayReset(f) /\ lock = Nobody /\ dev_state = "ready"
  /\ owner' = Ownership(f) /\ f \notin owner'
  /\ Goto(f, "initiating")
  /\ UNCHANGED <<registers, lock, fw, hdlr_active, dev_failed, caller, fresh, notices>>
  /\ UNCHANGED <<rest, other, events>>

SeeNotReady(f) ==
  /\ at[f] = "initiating" /\ dev_state # "ready" /\ Locked(f)
  /\ AckAndEnter(f)
  /\ UNCHANGED <<dev_state, presence, control, fw, ownFlags, notices, rest, other, events>>

\* The reset work ends.
ResetDone(f) ==
  /\ at[f] = "leave" /\ Goto(f, "idle") /\ hdlr_active' = hdlr_active \ {f}
  /\ UNCHANGED <<registers, lock, fw, owner, dev_failed, caller, fresh, notices>>
  /\ UNCHANGED <<rest, other, events>>

\* qla83xx_idc_state_handler_work.
StateWork(f) ==
  /\ Take(f, "state")
  /\ \/ dev_state = "failed" /\ Locked(f) /\ Enter(f, "work")
     \/ dev_state # "failed" /\ Briefly(f) /\ UNCHANGED place
  /\ UNCHANGED <<registers, fw, ownFlags, lp, aen, rest, other, events>>

\* qla83xx_nic_core_unrecoverable_work.
UnrecoverableWork(f) ==
  /\ at[f] = "idle" /\ "unrecoverable" \in queued[f] /\ lock = Nobody
  /\ owner' = Ownership(f) \ {f}
  /\ LET left == [queued EXCEPT ![f] = @ \ {"unrecoverable"}] IN
     \/ /\ f \in Ownership(f) /\ SetState("failed")
        /\ queued' = [left EXCEPT ![f] = @ \cup {"state"}]
     \/ /\ f \notin Ownership(f) /\ UNCHANGED <<dev_state, aen>>
        /\ queued' = left
  /\ UNCHANGED <<presence, ack, control, lock, fw, hdlr_active, dev_failed, place, lp>>
  /\ UNCHANGED <<rest, other, events>>

HpStep(f) ==
  \/ Sleep(f) \/ SeeReady(f) \/ SeeFailed(f) \/ DevFailed(f) \/ FailedReturn(f)
  \/ SeeNeedReset(f) \/ AllAcked(f) \/ AwaitAcks(f) \/ Bootstrap(f) \/ Restarted(f)
  \/ ProbeEnd(f) \/ Removed(f)
  \/ ResetWork(f) \/ AliveWork(f) \/ NoReset(f) \/ InitiateReset(f)
  \/ AwaitNeedReset(f) \/ SeeNotReady(f) \/ ResetDone(f)
  \/ StateWork(f) \/ UnrecoverableWork(f)

--------------------------------------------------------------------------
(* The DPC thread: qla2x00_abort_isp takes the function out of the IDC     *)
(* while it resets the FC core.  It does not run on a failed function,     *)
(* which has init_done cleared.                                            *)

FcReset(f) ==
  /\ HasQueues(f) /\ f \notin removing \cup in_reset \cup dev_failed
  /\ lock = Nobody /\ Event("fc_reset")
  /\ presence' = presence \ {f} /\ in_reset' = in_reset \cup {f}
  /\ UNCHANGED <<dev_state, ack, control, lock, fw, ownFlags, place, notices>>
  /\ UNCHANGED <<removing, refused, other>>

FcResetEnd(f) ==
  /\ f \in in_reset /\ lock = Nobody
  /\ presence' = presence \cup {f} /\ in_reset' = in_reset \ {f}
  /\ UNCHANGED <<dev_state, ack, control, lock, fw, ownFlags, place, notices>>
  /\ UNCHANGED <<removing, refused, other, events>>

--------------------------------------------------------------------------
(* What the user asks for (qla2x00_sysfs_write_reset) of some function.    *)

Online == \E f \in Fcoe : HasQueues(f)

\* 0x2025d: an application asks for a reset, whatever the state is.
RequestReset ==
  /\ Online /\ lock = Nobody /\ Event("application")
  /\ control' = control \cup {"GRACEFUL"} /\ SetState("need_reset")
  /\ UNCHANGED <<presence, ack, lock, fw, ownFlags, place, queued, lp, rest, other>>

\* 0x2025f and 0x20260: resets are disabled and enabled again.
DisableResets ==
  /\ Online /\ lock = Nobody /\ Event("disable")
  /\ control' = control \cup {"DISABLED"}
  /\ UNCHANGED <<dev_state, presence, ack, lock, fw, ownFlags, place, notices, rest, other>>

EnableResets ==
  /\ Online /\ lock = Nobody /\ "DISABLED" \in control
  /\ control' = control \ {"DISABLED"}
  /\ UNCHANGED <<dev_state, presence, ack, lock, fw, ownFlags, place, notices>>
  /\ UNCHANGED <<rest, other, events>>

--------------------------------------------------------------------------
(* The adapter: the firmware hangs, which more than one event may report   *)
(* (halted engine, lost heartbeat), or has a fatal error.                  *)

FwHangs ==
  /\ Event("hang") /\ fw' = "hung" /\ Notify("error")
  /\ UNCHANGED <<registers, lock, ownFlags, place, queued, lp, rest, other>>

FwFatal ==
  /\ Event("fatal") /\ fw' = "hung" /\ Notify("fatal")
  /\ UNCHANGED <<registers, lock, ownFlags, place, queued, lp, rest, other>>

--------------------------------------------------------------------------
(* Drivers of other protocols.  They are external: what is assumed is that *)
(* they load, acknowledge, and conduct the resets they ask for, one of     *)
(* them at a time.                                                         *)

OtherMoves(g, from, to) ==
  other[g] \in from /\ other' = [other EXCEPT ![g] = to] /\ lock = Nobody

OtherLoads(g) ==
  /\ OtherMoves(g, {"absent"}, "idle") /\ presence' = presence \cup {g}
  /\ UNCHANGED <<dev_state, ack, control, lock, fw, ownFlags, place, notices, rest, events>>

OtherAcks(g) ==
  /\ OtherMoves(g, {"idle"}, "follows") /\ g \in presence /\ dev_state = "need_reset"
  /\ ack' = ack \cup {g}
  /\ UNCHANGED <<dev_state, presence, control, lock, fw, ownFlags, place, notices>>
  /\ UNCHANGED <<rest, events>>

OtherAsks(g) ==
  /\ OtherMoves(g, {"idle"}, "conducts") /\ g \in presence /\ dev_state = "ready"
  /\ \A h \in Others : other[h] \notin {"conducts", "restarts"}
  /\ fw = "hung" /\ "DISABLED" \notin control
  /\ SetState("need_reset") /\ ack' = ack \cup {g}
  /\ UNCHANGED <<presence, control, lock, fw, ownFlags, place, queued, lp, rest, events>>

OtherRestarts(g) ==
  /\ OtherMoves(g, {"conducts"}, "restarts") /\ dev_state = "need_reset"
  /\ \/ presence \subseteq ack /\ UNCHANGED presence
     \/ "ack_timeout" \in Faults /\ presence' = presence \cap ack
  /\ SetState("initializing")
  /\ UNCHANGED <<ack, control, lock, fw, ownFlags, place, queued, lp, rest, events>>

OtherRestarted(g) ==
  /\ OtherMoves(g, {"restarts"}, "idle")
  /\ \/ SetState("ready") /\ fw' = "alive" /\ UNCHANGED <<presence, events>>
     \/ Event("restart_fails") /\ SetState("failed") /\ presence' = presence \ {g}
        /\ UNCHANGED fw
  /\ ack' = ack \ {g}
  /\ UNCHANGED <<control, lock, ownFlags, place, queued, lp, rest>>

OtherLeaves(g) ==
  /\ OtherMoves(g, {"follows", "conducts"}, "idle") /\ dev_state \in {"ready", "failed"}
  /\ ack' = ack \ {g}
  /\ UNCHANGED <<dev_state, presence, control, lock, fw, ownFlags, place, notices>>
  /\ UNCHANGED <<rest, events>>

OtherStep(g) ==
  OtherAcks(g) \/ OtherAsks(g) \/ OtherRestarts(g) \/ OtherRestarted(g) \/ OtherLeaves(g)

--------------------------------------------------------------------------

Next ==
  \/ \E f \in Fcoe :
       \/ HpStep(f) \/ InitTimeout(f) \/ FwLoad(f) \/ Remove(f)
       \/ \E kind \in AenKinds : HandleAen(f, kind)
       \/ ServiceAen(f) \/ AenWork(f)
       \/ FcReset(f) \/ FcResetEnd(f)
  \/ RequestReset \/ DisableResets \/ EnableResets
  \/ FwHangs \/ FwFatal
  \/ \E g \in Others : OtherLoads(g) \/ OtherStep(g)

\* The threads go on, and interrupts are taken.  A thread that waits for the
\* IDC lock gets it in the end, as its holders give it up for 200 ms or more.
Fairness ==
  /\ \A f \in Fcoe :
       /\ SF_vars(HpStep(f)) /\ WF_vars(FwLoad(f))
       /\ \A kind \in AenKinds : WF_vars(HandleAen(f, kind))
       /\ SF_vars(ServiceAen(f)) /\ WF_vars(AenWork(f))
       /\ SF_vars(FcResetEnd(f))
  /\ \A g \in Others : SF_vars(OtherStep(g))

Spec == Init /\ [][Next]_vars /\ Fairness

--------------------------------------------------------------------------
(* Properties.                                                             *)

Restarting ==
  {f \in Fcoe : at[f] = "restart"} \cup {g \in Others : other[g] = "restarts"}

Conductors ==
  {f \in owner : at[f] \in InHandler} \cup {g \in Others : other[g] \in {"conducts", "restarts"}}

\* A reset is never conducted by two functions at a time, and the firmware
\* restarted by two, whatever drivers load and leave and whichever timers
\* expire on the way; unless a refused reset has left an owner behind.
OneConductor ==
  Cardinality(Conductors \ refused) <= 1 /\ Restarting \subseteq Conductors

\* When the restart of the firmware begins, every FCoE function that takes
\* part in the IDC waits in its state handler, and issues nothing to the NIC
\* core.  (A function whose FC core is reset may come back during it.)
Prepared ==
  [][Restarting = {} /\ Restarting' # {} =>
       \A f \in presence' \cap Fcoe : at'[f] \in InHandler]_vars

\* A function that handles no reset is not the reset owner, unless its last
\* one was refused.  An owner ignores the events by which the others ask it to
\* take part.
IdleIsNoOwner == \A f \in owner \ refused : at[f] \in InHandler

\* The reset owner is one, and is conducting a reset.
OwnersAreSound == TypeOK /\ OneConductor /\ IdleIsNoOwner

\* A thread that runs the state handler comes to its end: the NIC core becomes
\* READY or FAILED, and the function sees it.
HandlersEnd == \A f \in Fcoe : at[f] \in InHandler ~> at[f] \in {"idle", "unloaded"}

\* A reset queued on the function that can be the reset owner makes the
\* firmware run again, or the NIC core is given up.
Lowest == CHOOSE f \in Fcoe : \A g \in Fcoe : f <= g
Over == fw = "alive" \/ dev_state = "failed"
QueuedResetIsDone == fw = "hung" /\ "reset" \in queued[Lowest] ~> Over

\* Every function that is told of a NIC core given up, and has its queues by
\* then, gives up too, even one that was forced to withdraw from the IDC.
FailureIsLearnt ==
  \A f \in Fcoe :
    dev_state = "failed" /\ "state_change" \in aen[f] /\ HasQueues(f)
      ~> f \in dev_failed \/ dev_state # "failed"

\* A reset that was asked for has an outcome: who handles it comes to its end,
\* the firmware runs or is given up, and every function learns it.
ResetsHaveOutcome == HandlersEnd /\ QueuedResetIsDone /\ FailureIsLearnt

--------------------------------------------------------------------------
(* What comments and messages of the code say, and the code does not do.   *)

\* Disabled resets stay disabled until they are enabled.
OnlyEnabledByUser == [][control \ control' \subseteq {"GRACEFUL"} \/ EnableResets]_vars

\* The reset owner has no driver of another protocol conducting a reset.
OneOwner == Cardinality(Conductors) <= 1

\* A NIC core that is READY is declared FAILED only for a fatal error.
ReadyStays ==
  [][dev_state = "ready" /\ dev_state' = "failed" => \E f \in Fcoe : UnrecoverableWork(f)]_vars

\* An error event that the lowest function gets when its queues exist makes
\* the firmware run again, or the NIC core is given up.
ErrorIsHandled ==
  fw = "hung" /\ "error" \in aen[Lowest] /\ HasQueues(Lowest) ~> Over

\* A reset work that finds the NIC core READY and is not the owner gets on.
WaitsEnd == \A f \in Fcoe : at[f] = "initiating" ~> at[f] # "initiating"

==========================================================================
