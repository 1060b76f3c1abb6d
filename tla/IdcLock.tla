----------------------------- MODULE IdcLock -----------------------------
(***************************************************************************)
(* The inter-driver lock of the 83xx adapters (qla83xx_idc_lock).  The     *)
(* functions of an adapter, each with a driver of its own, guard their     *)
(* shared registers with it.                                               *)
(*                                                                         *)
(*   DRIVER_LOCK      reading it takes the lock, if it is free             *)
(*   DRIVER_UNLOCK    reading it frees the lock, whoever took it           *)
(*   DRIVER_LOCKID    the function that has the lock, or 0xff              *)
(*   LOCK_RECOVERY    which function is about to free the lock of another, *)
(*                    and at what stage it is                              *)
(*                                                                         *)
(* Every register access is a mailbox command of its own, so accesses of   *)
(* different functions interleave.  A function that does not get the lock  *)
(* watches the lock id for two seconds and then frees the lock by force.   *)
(* Two seconds may be over at any point: the model has no clock.           *)
(***************************************************************************)
EXTENDS Integers

CONSTANTS
  Drivers,       \* ha->portnum of the functions
  MaxCrashes     \* bound: drivers that die while they have the lock

NoDriver == 255    \* the lock id of nobody, 0xff
Dead == 254        \* a driver that died with the lock

ASSUME IdcLockAssumption ==
  /\ Drivers \subseteq 0..15
  /\ MaxCrashes \in Nat

VARIABLES
  holder,    \* who took DRIVER_LOCK: a function, Dead, or NoDriver
  lockid,    \* DRIVER_LOCKID
  recovery,  \* LOCK_RECOVERY
  pc,        \* the register access a function makes next
  o_lockid,  \* o_drv_lockid of its recovery loop
  moved,     \* history: the lock was freed since the function began to wait
  crashes    \* bound

lockVars == <<holder, lockid, recovery, pc, o_lockid, moved, crashes>>

Cleared == [stage |-> 0, owner |-> 0]
LockIds == Drivers \cup {NoDriver}

LockTypeOK ==
  /\ holder \in Drivers \cup {NoDriver, Dead}
  /\ lockid \in LockIds
  /\ recovery \in [stage : 0..2, owner : Drivers \cup {0}]
  /\ pc \in [Drivers -> {"idle", "lock", "own", "hold", "old", "new",
                         "stage1", "sleep", "stage2", "force", "force_id",
                         "force_end", "unlock", "unlock_reg", "unlock_id"}]
  /\ o_lockid \in [Drivers -> LockIds]
  /\ moved \in [Drivers -> BOOLEAN]
  /\ crashes \in 0..MaxCrashes

Proceed(f, step) == pc' = [pc EXCEPT ![f] = step]

--------------------------------------------------------------------------
(* qla83xx_idc_lock.                                                       *)

CallLock(f) ==
  /\ pc[f] = "idle"
  /\ Proceed(f, "lock")
  /\ UNCHANGED <<holder, lockid, recovery, o_lockid, moved, crashes>>

\* Read DRIVER_LOCK.
ReadLock(f) ==
  /\ pc[f] = "lock"
  /\ IF holder = NoDriver
     THEN holder' = f /\ Proceed(f, "own") /\ UNCHANGED moved
     ELSE /\ Proceed(f, "old") /\ moved' = [moved EXCEPT ![f] = FALSE]
          /\ UNCHANGED holder
  /\ UNCHANGED <<lockid, recovery, o_lockid, crashes>>

\* "Setting lock-id to our function-number", and the caller goes on.
WriteLockId(f) ==
  /\ pc[f] = "own"
  /\ lockid' = f
  /\ Proceed(f, "hold")
  /\ UNCHANGED <<holder, recovery, o_lockid, moved, crashes>>

--------------------------------------------------------------------------
(* qla83xx_idc_lock_recovery.                                              *)

\* The lock id is read, again in every round.
ReadOldId(f) ==
  /\ pc[f] = "old"
  /\ o_lockid' = [o_lockid EXCEPT ![f] = lockid]
  /\ Proceed(f, "new")
  /\ UNCHANGED <<holder, lockid, recovery, moved, crashes>>

\* Less than two seconds: another look, and another try if the id is new.
ReadNewId(f) ==
  /\ pc[f] = "new"
  /\ Proceed(f, IF lockid = o_lockid[f] THEN "old" ELSE "lock")
  /\ o_lockid' = [o_lockid EXCEPT ![f] = NoDriver]
  /\ UNCHANGED <<holder, lockid, recovery, moved, crashes>>

\* Two seconds are over: LOCK_RECOVERY is read, and at a stage other than
\* zero somebody else is at it.
ForceRecovery(f) ==
  /\ pc[f] = "new"
  /\ Proceed(f, IF recovery.stage > 0 THEN "lock" ELSE "stage1")
  /\ o_lockid' = [o_lockid EXCEPT ![f] = NoDriver]
  /\ UNCHANGED <<holder, lockid, recovery, moved, crashes>>

\* Slip: the function number is not shifted past the stage bits.
WriteStage1Unshifted(f) ==
  /\ pc[f] = "stage1"
  /\ recovery' = [stage |-> IF f % 4 \in {0, 1} THEN 1 ELSE 3, owner |-> f \div 4]
  /\ Proceed(f, "sleep")
  /\ UNCHANGED <<holder, lockid, o_lockid, moved, crashes>>

\* "Intent for lock-recovery", and 200 ms of sleep.
WriteStage1(f) ==
  /\ pc[f] = "stage1"
  /\ recovery' = [stage |-> 1, owner |-> f]
  /\ Proceed(f, "sleep")
  /\ UNCHANGED <<holder, lockid, o_lockid, moved, crashes>>

\* Go on only as the owner LOCK_RECOVERY names.
CheckOwner(f) ==
  /\ pc[f] = "sleep"
  /\ Proceed(f, IF recovery.owner = f THEN "stage2" ELSE "lock")
  /\ UNCHANGED <<holder, lockid, recovery, o_lockid, moved, crashes>>

\* The mask (STAGE2 | ~stage_mask) clears bit 0 of stage 1 and sets nothing:
\* what is written is stage 0.
WriteStage2(f) ==
  /\ pc[f] = "stage2"
  /\ recovery' = [stage |-> 0, owner |-> f]
  /\ Proceed(f, "force")
  /\ UNCHANGED <<holder, lockid, o_lockid, moved, crashes>>

\* Reading DRIVER_UNLOCK frees the lock, which those who wait may note.
Waiting == {"old", "new", "stage1", "sleep", "stage2", "force"}

Free(f) ==
  /\ holder' = NoDriver
  /\ moved' = [g \in Drivers |-> g # f /\ pc[g] \in Waiting
                                 /\ (moved[g] \/ holder # NoDriver)]

ForceUnlock(f) ==
  /\ pc[f] = "force"
  /\ Free(f)
  /\ Proceed(f, "force_id")
  /\ UNCHANGED <<lockid, recovery, o_lockid, crashes>>

ForceLockId(f) ==
  /\ pc[f] = "force_id"
  /\ lockid' = NoDriver
  /\ Proceed(f, "force_end")
  /\ UNCHANGED <<holder, recovery, o_lockid, moved, crashes>>

\* Slip: LOCK_RECOVERY is not cleared.
ForceEndKeepsStage(f) ==
  /\ pc[f] = "force_end"
  /\ recovery' = [stage |-> 1, owner |-> f]
  /\ Proceed(f, "lock")
  /\ UNCHANGED <<holder, lockid, o_lockid, moved, crashes>>

ForceEnd(f) ==
  /\ pc[f] = "force_end"
  /\ recovery' = Cleared
  /\ Proceed(f, "lock")
  /\ UNCHANGED <<holder, lockid, o_lockid, moved, crashes>>

--------------------------------------------------------------------------
(* qla83xx_idc_unlock.                                                     *)

CallUnlock(f) ==
  /\ pc[f] = "hold"
  /\ Proceed(f, "unlock")
  /\ UNCHANGED <<holder, lockid, recovery, o_lockid, moved, crashes>>

\* The lock is freed only under its own id; otherwise the id is read again,
\* ten times at most, and then the lock is left as it is.
ReadLockId(f) ==
  /\ pc[f] = "unlock"
  /\ Proceed(f, IF lockid = f THEN "unlock_reg" ELSE "idle")
  /\ UNCHANGED <<holder, lockid, recovery, o_lockid, moved, crashes>>

ReadUnlock(f) ==
  /\ pc[f] = "unlock_reg"
  /\ Free(f)
  /\ Proceed(f, "unlock_id")
  /\ UNCHANGED <<lockid, recovery, o_lockid, crashes>>

\* "Clearing lock-id by setting 0xff".
ClearLockId(f) ==
  /\ pc[f] = "unlock_id"
  /\ lockid' = NoDriver
  /\ Proceed(f, "idle")
  /\ UNCHANGED <<holder, recovery, o_lockid, moved, crashes>>

--------------------------------------------------------------------------
\* A driver dies with the lock, and is loaded again.
Crash(f) ==
  /\ pc[f] = "hold" /\ crashes < MaxCrashes
  /\ crashes' = crashes + 1
  /\ holder' = IF holder = f THEN Dead ELSE holder
  /\ Proceed(f, "idle")
  /\ UNCHANGED <<lockid, recovery, o_lockid, moved>>

LockInit ==
  /\ holder = NoDriver /\ lockid = NoDriver /\ recovery = Cleared
  /\ pc = [f \in Drivers |-> "idle"]
  /\ o_lockid = [f \in Drivers |-> NoDriver]
  /\ moved = [f \in Drivers |-> FALSE]
  /\ crashes = 0

\* What a driver does once it wants the lock, up to holding it.
LockStep(f) ==
  \/ ReadLock(f) \/ WriteLockId(f) \/ ReadOldId(f)
  \/ ForceRecovery(f)
  \/ WriteStage1(f) \/ CheckOwner(f) \/ WriteStage2(f)
  \/ ForceUnlock(f) \/ ForceLockId(f) \/ ForceEnd(f)

UnlockStep(f) == CallUnlock(f) \/ ReadLockId(f) \/ ReadUnlock(f) \/ ClearLockId(f)

LockNext == \E f \in Drivers :
  CallLock(f) \/ LockStep(f) \/ ReadNewId(f) \/ UnlockStep(f) \/ Crash(f)

\* Drivers run, and the two seconds end: a waiter does not look at the lock
\* id for ever.
LockFairness ==
  \A f \in Drivers :
    /\ WF_lockVars(LockStep(f)) /\ SF_lockVars(ForceRecovery(f)) /\ WF_lockVars(UnlockStep(f))

LockSpec == LockInit /\ [][LockNext]_lockVars /\ LockFairness

--------------------------------------------------------------------------
(* Properties                                                              *)

InRecovery == {"sleep", "stage2", "force", "force_id", "force_end"}

\* A stage in LOCK_RECOVERY keeps all others from freeing a stuck lock, so
\* somebody must be on the way to clear it: its owner, or a function that
\* is past the ownership check.
StageHasOwner ==
  recovery.stage > 0 =>
    \/ pc[recovery.owner] \in InRecovery
    \/ \E f \in Drivers : pc[f] \in InRecovery \ {"sleep"}

\* A lock whose holder died is freed once somebody waits for it.
DeadHolderFreed ==
  (holder = Dead /\ \E f \in Drivers : pc[f] = "old") ~> holder # Dead

\* A waiter frees by force only what did not move all the time it waited:
\* "MAX wait time before forcing IDC Lock recovery = 2 secs".
OnlyStuckLockIsForced ==
  \A f \in Drivers : pc[f] = "force" /\ moved[f] => holder \in {NoDriver, Dead}

\* The same, with the types of the registers.
LockIsSound == LockTypeOK /\ StageHasOwner
==========================================================================
