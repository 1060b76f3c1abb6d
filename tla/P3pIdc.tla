------------------------------- MODULE P3pIdc -------------------------------
(***************************************************************************)
(* Inter-driver communication (IDC) of the converged adapters ISP82xx and  *)
(* ISP8044: a state machine in registers that the drivers of all functions *)
(* share, and that every function runs by itself.                          *)
(*                                                                         *)
(*   DEV_STATE    state of the device                                      *)
(*   DRV_ACTIVE   functions that take part                                 *)
(*   DRV_STATE    functions that are ready for the reset                   *)
(*                                                                         *)
(* A watchdog (timer) looks at the state and at the heartbeat of the       *)
(* firmware and sets flags for the DPC thread, which runs the state        *)
(* handler.  On the 82xx the function that asks for a reset is its owner;  *)
(* on the 8044 it is the lowest one.  After a PCI error (82xx) the         *)
(* functions are recovered one after the other, without the handler.       *)
(*                                                                         *)
(* Registers are accessed under the IDC lock (semaphore 5), here a plain   *)
(* lock.  What a function does while it has the lock is one action, or     *)
(* several that leave it locked.                                           *)
(*                                                                         *)
(* Left out: quiescence, which only drivers of other protocols ask for;    *)
(* these drivers; the version registers; the option ql2xdontresethba; the  *)
(* contents of the minidump (FwDump).                                      *)
(***************************************************************************)
EXTENDS Integers, FiniteSets

CONSTANTS
  Chips,        \* which of the two adapters are looked at
  Fcoe,         \* the FCoE functions (ha->portnum), each with this driver
  FaultSets,    \* sets of the kinds of disturbances there are, see AllFaults
  MaxEvents     \* bound: disturbances

\* The kinds in Late need a timeout, a thread that is later than the lengths of
\* the sleeps and of a firmware start allow, or a driver loaded during a reset.
Late == {"ack_timeout", "init_timeout", "oversleeps", "torn", "load_in_reset"}
AllFaults == Late \cup
  {"hang", "dead", "start_fails", "probe_fails", "unload", "user", "loop_down", "frozen"}

ASSUME P3pIdcAssumption ==
  /\ Chips \subseteq {"82xx", "8044"}
  /\ Fcoe \subseteq 0..7
  /\ FaultSets \subseteq SUBSET AllFaults /\ MaxEvents \in Nat

VARIABLES
  chip,          \* the adapter
  faults,        \* the kinds of disturbances
  dev_state,     \* CRB_DEV_STATE
  drv_active,    \* CRB_DRV_ACTIVE, as a set of functions
  drv_state,     \* CRB_DRV_STATE, as a set of functions
  lock,          \* the function that keeps the IDC lock, or Nobody
  fw,            \* the firmware: "off", "alive", "hung", or "dead" (for good)
  owner,         \* ha->flags.nic_core_reset_owner, as a set
  fw_hung,       \* ha->flags.isp82xx_fw_hung, as a set
  hdlr_active,   \* ha->flags.nic_core_reset_hdlr_active, as a set
  dev_failed,    \* DFLG_DEV_FAILED with init_done cleared, as a set
  online,        \* vha->flags.online, as a set
  dpc_flags,     \* what the DPC thread is asked for
  at,            \* where the DPC thread, or probe, is
  caller,        \* who called the state handler
  fresh,         \* functions whose dev_init_timeout was just set
  seen,          \* functions that looked at DEV_STATE since INITIALIZING
  read,          \* 8044: DRV_ACTIVE as read by qla8xxx_dev_failed_handler
  eeh,           \* PCI error: "none", "frozen" or "enabled" again
  inited,        \* history: functions whose rings the firmware knows
  taken_out,     \* history: functions an 8044 took out of DRV_ACTIVE for being late
  asked,         \* history: a reset that has not been yet is asked for by a user,
                 \* or by a function that was offline in a PCI error
  late,          \* history: functions that went on before a thread that was late
  events         \* bound: disturbances so far

registers == <<dev_state, drv_active, drv_state>>
ownFlags  == <<owner, fw_hung, hdlr_active, dev_failed, online>>
place     == <<at, caller, fresh, seen, read>>
outside   == <<chip, faults, eeh, late, events>>
history   == <<inited, asked, taken_out>>
vars == <<registers, lock, fw, ownFlags, dpc_flags, place, history, outside>>

Nobody == 255

States == {"cold", "initializing", "ready", "need_reset", "failed"}
Flags == {"abort", "unrecoverable", "fcoe_ctx"}
Callers == {"none", "load", "abort", "failed", "eeh"}
Places == {"unloaded", "probing", "idle", "abort", "handler", "cleanup", "ack", "acks",
           "start", "failing", "clear", "gave_up", "restart_isp", "fcoe_ctx", "recovered"}

TypeOK ==
  /\ chip \in Chips /\ faults \in FaultSets /\ dev_state \in States
  /\ drv_active \subseteq Fcoe /\ drv_state \subseteq Fcoe
  /\ lock \in Fcoe \cup {Nobody} /\ fw \in {"off", "alive", "hung", "dead"}
  /\ owner \subseteq Fcoe /\ fw_hung \subseteq Fcoe /\ hdlr_active \subseteq Fcoe
  /\ dev_failed \subseteq Fcoe /\ online \subseteq Fcoe
  /\ dpc_flags \in [Fcoe -> SUBSET Flags]
  /\ at \in [Fcoe -> Places] /\ caller \in [Fcoe -> Callers]
  /\ fresh \subseteq Fcoe /\ seen \subseteq Fcoe
  /\ read \in [Fcoe -> SUBSET Fcoe]
  /\ eeh \in [Fcoe -> {"none", "frozen", "enabled"}]
  /\ inited \subseteq Fcoe /\ taken_out \subseteq Fcoe /\ asked \in BOOLEAN
  /\ late \subseteq Fcoe /\ events \in 0..MaxEvents

\* No driver is loaded; one of another protocol may have started the firmware.
Init ==
  /\ chip \in Chips /\ faults \in FaultSets
  /\ dev_state = "cold" /\ drv_active = {} /\ drv_state = {}
  /\ lock = Nobody /\ fw \in {"off", "alive"}
  /\ owner = {} /\ fw_hung = {} /\ hdlr_active = {} /\ dev_failed = {} /\ online = {}
  /\ dpc_flags = [f \in Fcoe |-> {}]
  /\ at = [f \in Fcoe |-> "unloaded"] /\ caller = [f \in Fcoe |-> "none"]
  /\ fresh = {} /\ seen = {} /\ read = [f \in Fcoe |-> {}]
  /\ eeh = [f \in Fcoe |-> "none"] /\ inited = {} /\ taken_out = {} /\ asked = FALSE
  /\ late = {} /\ events = 0

Is82xx == chip = "82xx"
Event(kind) == kind \in faults /\ events < MaxEvents /\ events' = events + 1

\* f goes on in time, or before a thread that is late in the way of that kind.
Within(f, timely, kind) ==
  /\ timely \/ kind \in faults
  /\ late' = IF timely THEN late ELSE late \cup {f}

Goto(f, p) == at' = [at EXCEPT ![f] = p]
SetFlag(f, flag) == dpc_flags' = [dpc_flags EXCEPT ![f] = @ \cup {flag}]
ClearFlag(f, flag) == dpc_flags' = [dpc_flags EXCEPT ![f] = @ \ {flag}]
EehBusy(f) == eeh[f] # "none"

SetDrvActive(f)   == drv_active' = drv_active \cup {f}
ClearDrvActive(f) == drv_active' = drv_active \ {f}

\* A thread that goes on to keep the IDC lock, or has it already; and a whole
\* stretch from lock to unlock.
Locked(f)  == lock \in {f, Nobody} /\ lock' = f
Briefly(f) == lock \in {f, Nobody} /\ lock' = Nobody

\* Where a function issues commands to the firmware.
Running(f) ==
  \/ at[f] \in {"probing", "restart_isp", "fcoe_ctx", "recovered"}
  \/ at[f] = "idle" /\ f \in online /\ ~EehBusy(f)

\* The state handler, or what it calls.
InHandler == {"handler", "cleanup", "ack", "acks", "start", "failing"}

--------------------------------------------------------------------------
(* qla82xx_set_reset_owner, qla83xx_reset_ownership.                       *)

\* The 82xx: who asks owns.  The 8044: the lowest function, once it looks.
OwnerWhenAsking(f) == IF Is82xx THEN owner \cup {f} ELSE owner
Ownership(f) ==
  IF ~Is82xx /\ \A g \in Fcoe : f <= g THEN owner \cup {f} ELSE owner

\* A reset is not asked for within the second in which the others notice that
\* the last one is over.
Settled ==
  \A g \in Fcoe : dev_state = "ready" => at[g] \notin {"handler", "clear", "gave_up"}

\* The user: sysfs "reset" (0x2025c), a dump asked for, fw_dump.
SetResetOwner(f) ==
  /\ at[f] # "unloaded" /\ caller[f] = "none" /\ ~EehBusy(f)
  /\ Within(f, Settled, "oversleeps")
  /\ lock = Nobody /\ dev_state = "ready" /\ Event("user")
  /\ dev_state' = "need_reset" /\ owner' = OwnerWhenAsking(f) /\ asked' = TRUE
  /\ UNCHANGED <<drv_active, drv_state, lock, fw, fw_hung, hdlr_active>>
  /\ UNCHANGED <<dev_failed, online, dpc_flags, place, inited, taken_out, chip, faults, eeh>>

--------------------------------------------------------------------------
(* qla82xx_device_state_handler, qla8044_device_state_handler.             *)

Enter(f, who) ==
  Goto(f, "handler") /\ caller' = [caller EXCEPT ![f] = who] /\ fresh' = fresh \cup {f}

\* The handler returns; abort_isp goes on to clear its ready bit.
Return(f, ok) ==
  /\ Goto(f, CASE caller[f] = "load"    -> IF ok THEN "probing" ELSE "unloaded"
               [] caller[f] = "abort"   -> IF ok THEN "clear" ELSE "gave_up"
               [] caller[f] = "failed"  -> "idle")
  /\ fresh' = fresh \ {f}

\* One second of sleep without the lock.
Sleep(f) ==
  /\ at[f] = "handler" /\ Briefly(f) /\ dev_state = "initializing"
  /\ fresh' = fresh \ {f}
  /\ seen' = seen \cup {f}
  /\ UNCHANGED <<registers, fw, ownFlags, dpc_flags, at, caller, read, history, outside>>

\* The init timeout.  The 82xx gives up, the 8044 declares the device FAILED
\* and goes on to look at the state.
InitTimeout(f) ==
  /\ at[f] = "handler" /\ f \notin fresh /\ Within(f, FALSE, "init_timeout")
  /\ \/ /\ Is82xx /\ Briefly(f) /\ Return(f, FALSE)
        /\ drv_active' = IF caller[f] = "load" THEN drv_active \ {f} ELSE drv_active
        /\ dev_state' = IF caller[f] = "load" THEN "failed" ELSE dev_state
     \/ /\ ~Is82xx /\ f \in drv_active /\ dev_state # "failed" /\ Locked(f)
        /\ dev_state' = "failed" /\ UNCHANGED <<at, fresh, drv_active>>
  /\ UNCHANGED <<drv_state, fw, ownFlags, dpc_flags, caller, seen, read>>
  /\ UNCHANGED <<history, chip, faults, eeh, events>>

\* Slip: the owner stays the owner.
SeeReadyAsOwner(f) ==
  /\ at[f] = "handler" /\ dev_state = "ready" /\ Briefly(f)
  /\ Return(f, TRUE)
  /\ UNCHANGED <<registers, fw, ownFlags, dpc_flags, caller, seen, read, history, outside>>

SeeReady(f) ==
  /\ at[f] = "handler" /\ dev_state = "ready" /\ Briefly(f)
  /\ owner' = owner \ {f} /\ Return(f, TRUE)
  /\ UNCHANGED <<registers, fw, fw_hung, hdlr_active, dev_failed, online, dpc_flags>>
  /\ UNCHANGED <<caller, seen, read, history, outside>>

\* FAILED, first part of qla8xxx_dev_failed_handler.  The 82xx clears its bit
\* of DRV_ACTIVE with the lock held; the 8044 has dropped the lock by then, so
\* that others may write between its read and its write.
SeeFailed(f) ==
  /\ at[f] = "handler" /\ dev_state = "failed" /\ Briefly(f)
  /\ owner' = IF Is82xx THEN owner ELSE owner \ {f}
  /\ drv_active' = IF Is82xx THEN drv_active \ {f} ELSE drv_active
  /\ read' = [read EXCEPT ![f] = drv_active]
  /\ Goto(f, "failing")
  /\ UNCHANGED <<dev_state, drv_state, fw, fw_hung, hdlr_active, dev_failed>>
  /\ UNCHANGED <<online, dpc_flags, caller, fresh, seen, history, outside>>

\* The rest: every command is returned, and the board disabled.  (The 8044
\* unlocks a second time here, which the owner in the lock's register allows
\* only to the function that has it.)
DevFailed(f) ==
  /\ at[f] = "failing"
  /\ \/ Is82xx /\ UNCHANGED <<drv_active, late>>
     \/ ~Is82xx /\ ClearDrvActive(f) /\ UNCHANGED late
     \/ /\ ~Is82xx /\ read[f] \ {f} # drv_active \ {f} /\ Within(f, FALSE, "torn")
        /\ drv_active' = read[f] \ {f}
  /\ read' = [read EXCEPT ![f] = {}]
  /\ dev_failed' = IF caller[f] = "load" THEN dev_failed ELSE dev_failed \cup {f}
  /\ online' = online \ {f}
  /\ Return(f, FALSE)
  /\ UNCHANGED <<dev_state, drv_state, lock, fw, owner, fw_hung, hdlr_active>>
  /\ UNCHANGED <<dpc_flags, caller, seen, history, chip, faults, eeh, events>>

\* qla82xx_need_reset, qla8044_need_reset.
NeedReset(f) == f \in drv_state \/ (Is82xx /\ f \in owner)

\* Slip: DEV_STATE is written only when the firmware has started.
BootstrapUnmarked(f) ==
  /\ at[f] = "handler" /\ dev_state = "cold" /\ lock \in {f, Nobody}
  /\ \/ /\ NeedReset(f) \/ fw # "alive"
        /\ UNCHANGED dev_state /\ seen' = {} /\ lock' = Nobody /\ Goto(f, "start")
     \/ /\ ~NeedReset(f) /\ fw = "alive"
        /\ dev_state' = "ready" /\ lock' = f /\ UNCHANGED <<seen, at>>
  /\ fresh' = fresh \ {f}
  /\ UNCHANGED <<drv_active, drv_state, fw, ownFlags, dpc_flags, caller, read>>
  /\ UNCHANGED <<history, outside>>

\* COLD: qla82xx_device_bootstrap, qla8044_device_bootstrap up to the start of
\* the firmware, which is done without the lock.  Unless the device is being
\* recovered, a firmware that is alive is left running.
Bootstrap(f) ==
  /\ at[f] = "handler" /\ dev_state = "cold" /\ lock \in {f, Nobody}
  /\ \/ /\ NeedReset(f) \/ fw # "alive"
        /\ dev_state' = "initializing" /\ seen' = {} /\ lock' = Nobody /\ Goto(f, "start")
     \/ /\ ~NeedReset(f) /\ fw = "alive"
        /\ dev_state' = "ready" /\ lock' = f /\ UNCHANGED <<seen, at>>
  /\ fresh' = fresh \ {f}
  /\ UNCHANGED <<drv_active, drv_state, fw, ownFlags, dpc_flags, caller, read>>
  /\ UNCHANGED <<history, outside>>

\* The start takes longer than any of the sleeps of the others.
Timely(f) ==
  \A g \in Fcoe \ {f} : at[g] \in {"handler", "acks"} => g \in seen

\* Slip: a failed start is not reported in DEV_STATE.
StartedSilently(f) ==
  /\ at[f] = "start" /\ caller[f] # "eeh" /\ Within(f, Timely(f), "oversleeps")
  /\ Locked(f)
  /\ \/ dev_state' = "ready" /\ fw' = "alive" /\ UNCHANGED <<drv_active, events>>
     \/ Event("start_fails") /\ ClearDrvActive(f) /\ UNCHANGED <<dev_state, fw>>
  /\ asked' = FALSE /\ inited' = {} /\ Goto(f, "handler")
  /\ UNCHANGED <<drv_state, ownFlags, dpc_flags, caller, fresh, seen, read, taken_out>>
  /\ UNCHANGED <<chip, faults, eeh>>

\* qla82xx_start_firmware, qla8044_start_firmware have returned.
Started(f) ==
  /\ at[f] = "start" /\ caller[f] # "eeh" /\ Within(f, Timely(f), "oversleeps")
  /\ Locked(f)
  /\ \/ dev_state' = "ready" /\ fw' = "alive" /\ UNCHANGED <<drv_active, events>>
     \/ /\ Event("start_fails")
        /\ dev_state' = "failed" /\ ClearDrvActive(f) /\ UNCHANGED fw
  /\ asked' = FALSE /\ inited' = {} /\ Goto(f, "handler")
  /\ UNCHANGED <<drv_state, ownFlags, dpc_flags, caller, fresh, seen, read, taken_out>>
  /\ UNCHANGED <<chip, faults, eeh>>

--------------------------------------------------------------------------
(* qla82xx_need_reset_handler, qla8044_need_reset_handler.                 *)

\* NEED_RESET: the commands are returned first, without the lock.  The 82xx
\* gives the wait for the device its full time again, the 8044 does not.
SeeNeedReset(f) ==
  /\ at[f] = "handler" /\ dev_state = "need_reset"
  /\ \/ f \in online /\ Briefly(f) /\ Goto(f, "cleanup")
     \/ f \notin online /\ Locked(f) /\ Goto(f, "ack")
  /\ fresh' = IF Is82xx THEN fresh \cup {f} ELSE fresh \ {f}
  /\ UNCHANGED <<registers, fw, ownFlags, dpc_flags, caller, seen, read, history, outside>>

\* qla2x00_abort_isp_cleanup, with qla82xx_chip_reset_cleanup.
Cleanup(f) ==
  /\ at[f] = "cleanup" /\ Goto(f, "ack")
  /\ ClearFlag(f, "abort")
  /\ fw_hung' = IF fw = "alive" THEN fw_hung ELSE fw_hung \cup {f}
  /\ online' = online \ {f}
  /\ UNCHANGED <<registers, lock, fw, owner, hdlr_active, dev_failed, caller, fresh, seen>>
  /\ UNCHANGED <<read, history, outside>>

\* Slip: the owner waits for its own acknowledgement.
AwaitedByAll(f) == drv_active

\* The functions whose acknowledgement f waits for: the owner leaves itself out.
Awaited(f) == IF f \in owner THEN drv_active \ {f} ELSE drv_active

\* A PCI error can leave an owner behind: once there are two, neither
\* acknowledges, and each waits for the other until its time is up.
OwnersWait(f) ==
  LET missing == drv_active \ (drv_state \cup {f})
  IN f \in owner /\ missing # {} /\ missing \subseteq {g \in owner : at[g] = "acks"}

\* The 82xx: after a look at the registers the thread sleeps for a second, or
\* the wait is over.  Then the device goes to COLD, unless another function is
\* starting it, and the lock is kept for the next look of the handler.
Look82xx(f, ready, awaited) ==
  LET done == ready = awaited \/ dev_state = "initializing"
      cold == dev_state \notin {"initializing", "cold"}
  IN \/ /\ done \/ at[f] = "acks"
        /\ Within(f, done \/ OwnersWait(f), "ack_timeout")
        /\ dev_state' = IF cold THEN "cold" ELSE dev_state
        /\ drv_state' = IF cold THEN ready \cup {f} ELSE ready
        /\ lock' = f /\ Goto(f, "handler")
     \/ /\ ~done
        /\ drv_state' = ready /\ lock' = Nobody /\ Goto(f, "acks")
        /\ UNCHANGED <<dev_state, late>>

\* The 82xx: those that do not own the reset acknowledge it.  The first look
\* compares with all functions.
Ack82xx(f) ==
  /\ Is82xx /\ at[f] = "ack" /\ lock \in {f, Nobody}
  /\ Look82xx(f, IF f \in owner THEN drv_state ELSE drv_state \cup {f}, drv_active)
  /\ seen' = seen \cup {f}
  /\ UNCHANGED <<drv_active, fw, ownFlags, dpc_flags, caller, fresh, read, history>>
  /\ UNCHANGED <<chip, faults, eeh, events>>

AwaitAcks82xx(f) ==
  /\ Is82xx /\ at[f] = "acks" /\ lock \in {f, Nobody}
  /\ Look82xx(f, drv_state, Awaited(f))
  /\ seen' = seen \cup {f}
  /\ UNCHANGED <<drv_active, fw, ownFlags, dpc_flags, caller, fresh, read, history>>
  /\ UNCHANGED <<chip, faults, eeh, events>>

\* Slip: the bit of the next function.
AckNextBit(f) ==
  /\ ~Is82xx /\ at[f] = "ack" /\ Briefly(f) /\ Goto(f, "acks")
  /\ drv_state' = drv_state \cup {f + 1}
  /\ UNCHANGED <<dev_state, drv_active, fw, ownFlags, dpc_flags, caller, fresh, seen, read>>
  /\ UNCHANGED <<history, outside>>

\* The 8044: every function acknowledges, and sleeps before its first look.
Ack8044(f) ==
  /\ ~Is82xx /\ at[f] = "ack" /\ Briefly(f) /\ Goto(f, "acks")
  /\ drv_state' = drv_state \cup {f}
  /\ UNCHANGED <<dev_state, drv_active, fw, ownFlags, dpc_flags, caller, fresh, seen, read>>
  /\ UNCHANGED <<history, outside>>

\* The 8044 after the wait.  Functions that have not acknowledged are taken
\* out.  The owner, or function 7 when it is alone, starts the firmware, even if
\* the wait ended because the device had been declared FAILED.
Recover8044(f) ==
  LET all == drv_state = drv_active
      active == IF all THEN drv_active ELSE drv_active \cap drv_state
      starts == f \in active /\ (f \in owner \/ drv_state \cap active = {7})
  IN /\ drv_active' = active /\ taken_out' = taken_out \cup (drv_active \ active)
     /\ owner' = IF starts \/ f \notin active THEN owner \ {f} ELSE owner
     /\ \/ starts /\ dev_state' = "initializing" /\ lock' = Nobody /\ Goto(f, "start")
           /\ seen' = {}
        \/ ~starts /\ lock' = f /\ Goto(f, "handler") /\ seen' = seen \cup {f}
           /\ UNCHANGED dev_state

AwaitAcks8044(f) ==
  /\ ~Is82xx /\ at[f] = "acks" /\ lock \in {f, Nobody}
  /\ LET done == drv_active \subseteq drv_state \/ dev_state # "need_reset" IN
     \/ Within(f, done, "ack_timeout") /\ Recover8044(f)
     \/ /\ ~done /\ lock' = Nobody /\ seen' = seen \cup {f}
        /\ UNCHANGED <<dev_state, drv_active, owner, at, taken_out, late>>
  /\ UNCHANGED <<drv_state, fw, fw_hung, hdlr_active, dev_failed, online, dpc_flags>>
  /\ UNCHANGED <<caller, fresh, read, inited, asked, chip, faults, eeh, events>>

--------------------------------------------------------------------------
(* Probe and remove.                                                       *)

\* qla82xx_load_risc: the function takes part from now on.  The 82xx keeps the
\* lock for the first look at the state.
Load(f) ==
  /\ at[f] = "unloaded" /\ \A g \in Fcoe : ~EehBusy(g)
  /\ Within(f, dev_state # "need_reset", "load_in_reset")
  /\ lock = Nobody /\ lock' = IF Is82xx THEN f ELSE Nobody
  /\ SetDrvActive(f) /\ owner' = Ownership(f)
  /\ Enter(f, "load")
  /\ UNCHANGED <<dev_state, drv_state, fw, fw_hung, hdlr_active, dev_failed, online>>
  /\ UNCHANGED <<dpc_flags, seen, read, history, chip, faults, eeh, events>>

\* The rest of qla2x00_probe_one, which initialises the rings and goes online ...
ProbeEnd(f) ==
  /\ at[f] = "probing" /\ Goto(f, "idle") /\ fw = "alive"
  /\ caller' = [caller EXCEPT ![f] = "none"]
  /\ online' = online \cup {f} /\ inited' = inited \cup {f}
  /\ UNCHANGED <<registers, lock, fw, owner, fw_hung, hdlr_active, dev_failed, dpc_flags>>
  /\ UNCHANGED <<fresh, seen, read, asked, taken_out, outside>>

\* ... or fails, and declares the device FAILED for everyone.
ProbeFails(f) ==
  /\ at[f] = "probing" /\ lock = Nobody /\ Goto(f, "unloaded")
  /\ IF fw = "alive" THEN Event("probe_fails") ELSE UNCHANGED events
  /\ caller' = [caller EXCEPT ![f] = "none"]
  /\ dev_state' = "failed" /\ ClearDrvActive(f) /\ owner' = owner \ {f}
  /\ UNCHANGED <<drv_state, lock, fw, fw_hung, hdlr_active, dev_failed, online, dpc_flags>>
  /\ UNCHANGED <<fresh, seen, read, history, chip, faults, eeh, late>>

\* qla2x00_remove_one.
Unload(f) ==
  /\ at[f] = "idle" /\ ~EehBusy(f) /\ lock = Nobody /\ Event("unload")
  /\ Goto(f, "unloaded") /\ caller' = [caller EXCEPT ![f] = "none"]
  /\ ClearDrvActive(f)
  /\ owner' = owner \ {f} /\ fw_hung' = fw_hung \ {f} /\ hdlr_active' = hdlr_active \ {f}
  /\ dev_failed' = dev_failed \ {f} /\ online' = online \ {f}
  /\ dpc_flags' = [dpc_flags EXCEPT ![f] = {}] /\ inited' = inited \ {f}
  /\ UNCHANGED <<dev_state, drv_state, lock, fw, fresh, seen, read, asked, taken_out>>
  /\ UNCHANGED <<chip, faults, eeh, late>>

--------------------------------------------------------------------------
(* The watchdogs, every second of qla2x00_timer.                           *)

HasTimer(f) ==
  at[f] \notin {"unloaded", "probing"} /\ caller[f] # "load" /\ ~EehBusy(f)

\* The heartbeat has not changed for two seconds; what PEG_HALT_STATUS1 says.
HeartbeatLost == fw \in {"hung", "dead"}
FlagForHealth == IF fw = "dead" THEN "unrecoverable" ELSE "abort"

\* Slip: the watchdog looks while a reset is being handled.
Watchdog82xxAlways(f) ==
  /\ Is82xx /\ HasTimer(f) /\ Within(f, at[f] # "abort", "oversleeps")
  /\ \/ /\ dev_state = "need_reset" /\ "abort" \notin dpc_flags[f]
        /\ SetFlag(f, "abort") /\ UNCHANGED fw_hung
     \/ /\ dev_state \notin {"need_reset", "failed"} /\ HeartbeatLost
        /\ SetFlag(f, FlagForHealth) /\ fw_hung' = fw_hung \cup {f}
  /\ UNCHANGED <<registers, lock, fw, owner, hdlr_active, dev_failed, online, place>>
  /\ UNCHANGED <<history, chip, faults, eeh, events>>

\* qla82xx_watchdog does not look while a reset is being handled.  In the
\* instant between the start of abort_isp and its flag of the reset handler it
\* asks for a second reset: then, too, a thread is late.
Watchdog82xx(f) ==
  /\ Is82xx /\ HasTimer(f) /\ f \notin hdlr_active
  /\ Within(f, at[f] # "abort", "oversleeps")
  /\ LET wanted == dev_state = "need_reset" /\ "abort" \notin dpc_flags[f]
         failed == dev_state = "failed" /\ "unrecoverable" \notin dpc_flags[f] /\ f \in online
     IN \/ wanted /\ SetFlag(f, "abort") /\ UNCHANGED fw_hung
        \/ failed /\ SetFlag(f, "unrecoverable") /\ fw_hung' = fw_hung \cup {f}
        \/ /\ ~wanted /\ ~failed /\ HeartbeatLost
           /\ SetFlag(f, FlagForHealth) /\ fw_hung' = fw_hung \cup {f}
  /\ UNCHANGED <<registers, lock, fw, owner, hdlr_active, dev_failed, online, place>>
  /\ UNCHANGED <<history, chip, faults, eeh, events>>

\* ABORT_ISP_ACTIVE.
AbortActive(f) ==
  caller[f] = "abort" \/ at[f] \in {"abort", "fcoe_ctx"}

\* qla8044_watchdog; a FAILED device is not looked for.
Watchdog8044(f) ==
  /\ ~Is82xx /\ HasTimer(f) /\ ~AbortActive(f)
  /\ fw_hung' = IF HeartbeatLost THEN fw_hung \cup {f} ELSE fw_hung
  /\ LET wanted == dev_state = "need_reset" /\ "abort" \notin dpc_flags[f] IN
     \/ wanted /\ SetFlag(f, "abort")
     \/ ~wanted /\ f \in fw_hung' /\ SetFlag(f, FlagForHealth)
  /\ UNCHANGED <<registers, lock, fw, owner, hdlr_active, dev_failed, online, place>>
  /\ UNCHANGED <<history, outside>>

\* qla2x00_timer on the 82xx: the loop has been down for too long.
LoopDown(f) ==
  /\ Is82xx /\ HasTimer(f) /\ f \in online /\ ~AbortActive(f) /\ Event("loop_down")
  /\ SetFlag(f, "fcoe_ctx")
  /\ UNCHANGED <<registers, lock, fw, ownFlags, place, history, chip, faults, eeh, late>>

--------------------------------------------------------------------------
(* qla2x00_do_dpc.  The thread does nothing on a failed function, which has *)
(* init_done cleared, and during a PCI error.                              *)

DpcTakes(f, flag) ==
  /\ at[f] = "idle" /\ f \notin dev_failed /\ ~EehBusy(f) /\ flag \in dpc_flags[f]
  /\ ClearFlag(f, flag)

\* The device is declared FAILED, and the handler run to see it.
DpcUnrecoverable(f) ==
  /\ DpcTakes(f, "unrecoverable") /\ lock = Nobody
  /\ dev_state' = "failed" /\ Enter(f, "failed")
  /\ UNCHANGED <<drv_active, drv_state, lock, fw, ownFlags, seen, read, history, outside>>

\* qla82xx_fcoe_ctx_reset: the commands are returned, the firmware is stopped
\* and set up anew; nobody else is asked.
DpcFcoeCtx(f) ==
  /\ at[f] = "idle" /\ f \notin dev_failed /\ ~EehBusy(f) /\ "fcoe_ctx" \in dpc_flags[f]
  /\ dpc_flags' = [dpc_flags EXCEPT ![f] =
                     IF f \in online THEN @ \ {"fcoe_ctx", "abort"} ELSE @ \ {"fcoe_ctx"}]
  /\ Goto(f, "fcoe_ctx") /\ online' = online \ {f} /\ inited' = inited \ {f}
  /\ fw_hung' = IF fw = "alive" \/ f \notin online THEN fw_hung ELSE fw_hung \cup {f}
  /\ UNCHANGED <<registers, lock, fw, owner, hdlr_active, dev_failed, caller, fresh, seen>>
  /\ UNCHANGED <<read, asked, taken_out, outside>>

\* qla82xx_restart_isp on the way back; when it fails, an abort.
FcoeCtxEnd(f) ==
  /\ at[f] = "fcoe_ctx" /\ Goto(f, "idle")
  /\ \/ fw = "alive" /\ online' = online \cup {f} /\ inited' = inited \cup {f}
        /\ UNCHANGED dpc_flags
     \/ fw # "alive" /\ SetFlag(f, "abort") /\ UNCHANGED <<online, inited>>
  /\ UNCHANGED <<registers, lock, fw, owner, fw_hung, hdlr_active, dev_failed, caller, fresh>>
  /\ UNCHANGED <<seen, read, asked, taken_out, outside>>

DpcAbort(f) ==
  /\ DpcTakes(f, "abort") /\ Goto(f, "abort")
  /\ UNCHANGED <<registers, lock, fw, ownFlags, caller, fresh, seen, read, history, outside>>

\* qla82xx_abort_isp, qla8044_abort_isp up to the handler: a READY device is
\* asked to be reset.
AbortIsp(f) ==
  /\ at[f] = "abort" /\ lock = Nobody /\ Within(f, Settled, "oversleeps")
  /\ hdlr_active' = IF Is82xx THEN hdlr_active \cup {f} ELSE hdlr_active
  /\ \/ dev_state = "ready" /\ dev_state' = "need_reset"
        /\ owner' = IF Is82xx THEN owner \cup {f} ELSE Ownership(f)
     \/ dev_state # "ready" /\ UNCHANGED dev_state /\ owner' = Ownership(f)
  /\ Enter(f, "abort")
  /\ UNCHANGED <<drv_active, drv_state, lock, fw, fw_hung, dev_failed, online, dpc_flags>>
  /\ UNCHANGED <<seen, read, history, chip, faults, eeh, events>>

\* Slip: the acknowledgement stays.
ClearReadyNot(f) ==
  /\ at[f] = "clear" /\ lock = Nobody
  /\ fw_hung' = fw_hung \ {f} /\ hdlr_active' = hdlr_active \ {f}
  /\ Goto(f, "restart_isp")
  /\ UNCHANGED <<registers, lock, fw, owner, dev_failed, online, dpc_flags, caller, fresh>>
  /\ UNCHANGED <<seen, read, history, outside>>

\* After the handler: the acknowledgement is withdrawn, then
\* qla82xx_restart_isp sets the function up again.
ClearReady(f) ==
  /\ at[f] = "clear" /\ lock = Nobody
  /\ drv_state' = drv_state \ {f}
  /\ fw_hung' = fw_hung \ {f} /\ hdlr_active' = hdlr_active \ {f}
  /\ Goto(f, "restart_isp")
  /\ UNCHANGED <<dev_state, drv_active, lock, fw, owner, dev_failed, online, dpc_flags>>
  /\ UNCHANGED <<caller, fresh, seen, read, history, outside>>

\* When that fails, the 82xx does not try again, the 8044 does.
RestartIsp(f) ==
  /\ at[f] = "restart_isp" /\ Goto(f, "idle") /\ caller' = [caller EXCEPT ![f] = "none"]
  /\ \/ fw = "alive" /\ online' = online \cup {f} /\ inited' = inited \cup {f}
        /\ UNCHANGED dpc_flags
     \/ fw # "alive" /\ UNCHANGED <<online, inited>>
        /\ IF Is82xx THEN UNCHANGED dpc_flags ELSE SetFlag(f, "abort")
  /\ UNCHANGED <<registers, lock, fw, owner, fw_hung, hdlr_active, dev_failed, fresh, seen>>
  /\ UNCHANGED <<read, asked, taken_out, outside>>

\* The handler has failed: another try, for which the 82xx sets online; or, on
\* the 82xx after MAX_RETRIES_OF_ISP_ABORT of them, none.
GiveUp(f) ==
  /\ at[f] = "gave_up" /\ lock = Nobody
  /\ drv_state' = drv_state \ {f}
  /\ Goto(f, "idle") /\ caller' = [caller EXCEPT ![f] = "none"]
  /\ \/ SetFlag(f, "abort") /\ online' = IF Is82xx THEN online \cup {f} ELSE online
     \/ Is82xx /\ online' = online \ {f} /\ UNCHANGED dpc_flags
  /\ UNCHANGED <<dev_state, drv_active, lock, fw, owner, fw_hung, hdlr_active, dev_failed>>
  /\ UNCHANGED <<fresh, seen, read, history, outside>>

\* The handler was run for a FAILED device.
UnrecoverableEnd(f) ==
  /\ at[f] = "idle" /\ caller[f] = "failed"
  /\ caller' = [caller EXCEPT ![f] = "none"]
  /\ UNCHANGED <<registers, lock, fw, ownFlags, dpc_flags, at, fresh, seen, read, history>>
  /\ UNCHANGED outside

--------------------------------------------------------------------------
(* A PCI error on the 82xx: qla2xxx_pci_error_detected for every function, *)
(* then qla2xxx_pci_slot_reset for one after the other, then               *)
(* qla2xxx_pci_resume.  Bound: no function is in its state handler.        *)

Loaded == {f \in Fcoe : at[f] # "unloaded"}

Frozen ==
  /\ Is82xx /\ lock = Nobody /\ dev_failed = {} /\ Loaded # {} /\ Event("frozen")
  /\ \A f \in Loaded : at[f] = "idle" /\ ~EehBusy(f)
  /\ eeh' = [f \in Fcoe |-> IF f \in Loaded THEN "frozen" ELSE "none"]
  /\ fw' = "off" /\ fw_hung' = fw_hung \cup Loaded
  /\ UNCHANGED <<registers, lock, owner, hdlr_active, dev_failed, online, dpc_flags, place>>
  /\ UNCHANGED <<history, chip, faults, late>>

\* Slip: every function is a reset owner.
EehOwnerEach(f) == TRUE

\* The search of qla82xx_error_recovery for an enabled function below f ends
\* at the next one; at function 0 it ends as if there were none.
EehOwner(f) == {g \in Loaded : g < f /\ eeh[g] # "frozen"} \subseteq {0}

\* qla82xx_error_recovery: after qla2x00_abort_isp_cleanup the owner starts the
\* firmware, the others go on when the device is READY.
SlotReset(f) ==
  /\ at[f] = "idle" /\ eeh[f] = "frozen" /\ lock = Nobody
  /\ \A g \in Loaded : g < f => at[g] = "idle" /\ eeh[g] = "enabled"
  /\ IF f \in online THEN ClearFlag(f, "abort") ELSE UNCHANGED dpc_flags
  /\ asked' = (asked \/ (f \notin online /\ "abort" \in dpc_flags[f]))
  /\ \/ EehOwner(f) /\ dev_state' = "initializing" /\ seen' = {} /\ Goto(f, "start")
        /\ caller' = [caller EXCEPT ![f] = "eeh"] /\ UNCHANGED <<fw_hung, eeh>>
     \/ ~EehOwner(f) /\ dev_state = "ready" /\ fw_hung' = fw_hung \ {f} /\ Goto(f, "recovered")
        /\ UNCHANGED <<dev_state, seen, caller, eeh>>
     \/ ~EehOwner(f) /\ dev_state # "ready" /\ eeh' = [eeh EXCEPT ![f] = "enabled"]
        /\ UNCHANGED <<dev_state, seen, at, caller, fw_hung>>
  /\ UNCHANGED <<drv_active, drv_state, lock, fw, owner, hdlr_active, dev_failed, online>>
  /\ UNCHANGED <<fresh, read, inited, taken_out, chip, faults, late, events>>

EehStarted(f) ==
  /\ at[f] = "start" /\ caller[f] = "eeh" /\ lock = Nobody /\ inited' = {}
  /\ \/ /\ dev_state' = "ready" /\ fw' = "alive" /\ fw_hung' = fw_hung \ {f}
        /\ Goto(f, "recovered") /\ UNCHANGED <<drv_active, caller, eeh, events>>
     \/ /\ Event("start_fails") /\ dev_state' = "failed" /\ ClearDrvActive(f)
        /\ Goto(f, "idle") /\ caller' = [caller EXCEPT ![f] = "none"]
        /\ eeh' = [eeh EXCEPT ![f] = "enabled"] /\ UNCHANGED <<fw, fw_hung>>
  /\ UNCHANGED <<drv_state, lock, owner, hdlr_active, dev_failed, online, dpc_flags, fresh>>
  /\ UNCHANGED <<seen, read, asked, taken_out, chip, faults, late>>

\* qla82xx_restart_isp has returned; the owner clears all of DRV_STATE.
EehRecovered(f) ==
  /\ at[f] = "recovered" /\ lock = Nobody
  /\ online' = online \cup {f} /\ inited' = inited \cup {f}
  /\ SetDrvActive(f)
  /\ drv_state' = IF caller[f] = "eeh" THEN {} ELSE drv_state
  /\ Goto(f, "idle") /\ caller' = [caller EXCEPT ![f] = "none"]
  /\ eeh' = [eeh EXCEPT ![f] = "enabled"]
  /\ UNCHANGED <<dev_state, lock, fw, owner, fw_hung, hdlr_active, dev_failed, dpc_flags>>
  /\ UNCHANGED <<fresh, seen, read, asked, taken_out, chip, faults, late, events>>

\* All functions have been recovered.
Resume ==
  /\ Loaded # {} /\ \A f \in Loaded : at[f] = "idle" /\ eeh[f] = "enabled"
  /\ dev_state # "failed"
  /\ eeh' = [f \in Fcoe |-> "none"]
  /\ UNCHANGED <<registers, lock, fw, ownFlags, dpc_flags, place, history, chip, faults, late, events>>

--------------------------------------------------------------------------
(* The firmware.                                                           *)

FwHangs ==
  /\ fw = "alive"
  /\ \/ Event("hang") /\ fw' = "hung"
     \/ Event("dead") /\ fw' = "dead"
  /\ UNCHANGED <<registers, lock, ownFlags, dpc_flags, place, history, chip, faults, eeh, late>>

--------------------------------------------------------------------------

HandlerStep(f) ==
  \/ Sleep(f) \/ SeeReady(f) \/ SeeFailed(f) \/ DevFailed(f) \/ Bootstrap(f) \/ Started(f)
  \/ SeeNeedReset(f) \/ Cleanup(f)
  \/ Ack82xx(f) \/ AwaitAcks82xx(f) \/ Ack8044(f) \/ AwaitAcks8044(f)

ThreadStep(f) ==
  \/ ProbeEnd(f) \/ (fw # "alive" /\ ProbeFails(f))
  \/ DpcUnrecoverable(f) \/ DpcFcoeCtx(f) \/ FcoeCtxEnd(f) \/ DpcAbort(f) \/ AbortIsp(f)
  \/ ClearReady(f) \/ RestartIsp(f) \/ GiveUp(f) \/ UnrecoverableEnd(f)
  \/ SlotReset(f) \/ EehStarted(f) \/ EehRecovered(f)

Next ==
  \/ \E f \in Fcoe :
       \/ HandlerStep(f) \/ InitTimeout(f) \/ ThreadStep(f) \/ ProbeFails(f)
       \/ Load(f) \/ Unload(f) \/ SetResetOwner(f)
       \/ Watchdog82xx(f) \/ Watchdog8044(f) \/ LoopDown(f)
  \/ Frozen \/ Resume \/ FwHangs

\* The threads go on, and the timers.  A thread that waits for the IDC lock
\* gets it in the end: those that have it sleep for a second without it.
Fairness ==
  /\ \A f \in Fcoe :
       /\ SF_vars(HandlerStep(f)) /\ SF_vars(ThreadStep(f))
       /\ WF_vars(Watchdog82xx(f)) /\ WF_vars(Watchdog8044(f))
  /\ WF_vars(Resume)

Spec == Init /\ [][Next]_vars /\ Fairness

--------------------------------------------------------------------------
(* Properties.                                                             *)

\* The properties hold as long as no thread has been late and no driver loaded
\* during a reset: the sleeps and timeouts of the code keep them, and nothing
\* else does.
InTime == late = {}

\* The firmware is not started by two functions at a time.
OneStarts == InTime => \A f, g \in Fcoe : at[f] = "start" /\ at[g] = "start" => f = g

\* The same however late a thread is: DEV_STATE is forced to COLD, and the
\* firmware started, "unless someone else is starting a reset".
OneStarter == \A f, g \in Fcoe : at[f] = "start" /\ at[g] = "start" => f = g

\* While the firmware is being started, no function that takes part in the
\* IDC issues commands to it.
Prepared ==
  InTime => \A f, g \in Fcoe : at[f] = "start" /\ g \in drv_active => ~Running(g)

\* A function that runs I/O on a firmware that is alive has initialised its
\* rings since that firmware was started.  (A function that has failed may be
\* online: GiveUp sets it so, but gets no more I/O.)
RunsOnItsFirmware ==
  InTime => \A f \in Fcoe :
    at[f] = "idle" /\ Running(f) /\ f \notin dev_failed /\ fw = "alive" /\ dev_state = "ready"
      => f \in inited \cup taken_out

\* A function that issues commands takes part in the IDC, so that the next
\* reset waits for it.
RunningIsActive ==
  InTime => \A f \in Fcoe : Running(f) /\ f \notin dev_failed => f \in drv_active \cup taken_out

\* An acknowledgement belongs to a reset that its function is handling.
AcksAreOwn ==
  InTime => \A f \in drv_state : at[f] \in InHandler \cup {"clear", "gave_up"}

\* A firmware that is alive is restarted only when someone asked for it: one
\* hang makes one reset, though every function notices it by itself.  (Not so
\* once an 8044 has taken a function out: that one asks for a reset of its own;
\* nor for a function that is offline when a PCI error comes: SlotReset leaves
\* its wish for a reset, which comes when the firmware has recovered.)
OneResetPerHang ==
  [][InTime' => \A f \in Fcoe : at[f] # "start" /\ at'[f] = "start"
       => fw # "alive" \/ asked \/ taken_out # {}]_vars

\* The functions left are ones an 8044 took out.  They can ask for a reset, but
\* none of them starts it, nor gives up: qla8044_device_state_handler writes
\* FAILED after its timeout only for a function in DRV_ACTIVE.
NobodyTakesPart == Loaded \subseteq taken_out

\* A thread in the state handler comes to its end.
HandlersEnd ==
  \A f \in Fcoe :
    (InTime /\ at[f] \in InHandler)
      ~> at[f] \notin InHandler \/ NobodyTakesPart \/ ~InTime

\* When the firmware hangs while a function runs I/O, it is started again or
\* the device declared FAILED, or every driver that takes part unloaded.
HangIsHandled ==
  (InTime /\ fw = "hung" /\ \E f \in Fcoe : at[f] = "idle" /\ f \in online)
     ~> fw # "hung" \/ dev_state = "failed" \/ NobodyTakesPart \/ ~InTime

\* The firmware is started by one function, while the others are quiet.
StartsArePrepared == OneStarts /\ Prepared

\* Who issues commands takes part in the IDC, on rings of this firmware, and
\* acknowledges only resets it has made itself ready for.
RunningTakesPart == TypeOK /\ RunsOnItsFirmware /\ RunningIsActive /\ AcksAreOwn

\* A hang ends: who handles it comes to its end, and the firmware runs again
\* or is given up.
HangsEnd == HandlersEnd /\ HangIsHandled
==========================================================================
