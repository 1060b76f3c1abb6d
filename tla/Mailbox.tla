----------------------------- MODULE Mailbox -----------------------------
(***************************************************************************)
(* Mailbox commands (qla2x00_mailbox_command) and the adapter reset        *)
(* (qla2x00_abort_isp) a timed-out command leads to.                       *)
(*                                                                         *)
(* Threads take turns: mbx_cmd_comp is a completion used as a semaphore,   *)
(* and whoever holds the turn loads the mailbox registers and waits.       *)
(* Outside a reset it sleeps on mbx_intr_comp, which the interrupt handler *)
(* completes; during a reset it polls.  Which of the two it will be is     *)
(* decided by a sample of ABORT_ISP_ACTIVE taken before the turn is waited *)
(* for.  A timeout outside a reset ends in a reset, run by the thread      *)
(* itself or by the DPC thread.  The reset issues mailbox commands too, in *)
(* the name of the thread that runs it.                                    *)
(*                                                                         *)
(* An answer has an age: it belongs to the command that holds the turn     *)
(* ("current") or to an earlier one ("late").  The driver cannot tell.     *)
(*                                                                         *)
(* Three history variables, which no guard reads, record what the code     *)
(* lets happen and the properties depend on: given_up (a command is given  *)
(* up although its answer is on the way), crossed (abort_isp is called     *)
(* while it runs) and lost_retry (a request for another attempt is         *)
(* dropped).                                                               *)
(***************************************************************************)
EXTENDS Integers, FiniteSets

CONSTANTS
  Users,             \* other threads that issue mailbox commands
  Dpc,               \* the DPC thread, which does so too
  MaxCalls,          \* bound: commands of a thread, outside resets
  MaxFaults,         \* bound: firmware deaths and requests to reset
  SetupCmds,         \* commands the reset issues to start the firmware
  MaxRetries         \* MAX_RETRIES_OF_ISP_ABORT

Threads == Users \cup {Dpc}
NoThread == "NULL"

ASSUME MailboxAssumption ==
  /\ IsFiniteSet(Users) /\ Dpc \notin Users /\ NoThread \notin Threads
  /\ MaxCalls \in Nat /\ MaxFaults \in Nat
  /\ SetupCmds \in Nat \ {0} /\ MaxRetries \in Nat

VARIABLES
  mbx_cmd_comp,   \* completions posted and not yet taken: 1 if nobody's turn
  mbx_intr_comp,  \* the same for the interrupt
  mcp,            \* ha->mcp, whose command is in the mailbox
  mbox_int,       \* ha->flags.mbox_int
  mbx_intr_wait,  \* MBX_INTR_WAIT
  mailbox_out,    \* age of the answer last copied from the registers
  pc,             \* where a thread is in qla2x00_mailbox_command
  abort_active,   \* its sample of ABORT_ISP_ACTIVE
  ioctl,          \* its command has IOCTL_CMD set
  rval,           \* result of its last command
  calls,          \* bound: commands issued outside resets
  faults,         \* bound: faults so far
  fw,             \* ages of the commands the firmware has yet to answer
  irq,            \* age of the answer the chip raises an interrupt for
  fw_hung,        \* the firmware answers nothing until it is reset
  fw_dumped,      \* ha->fw_dumped
  intrs,          \* interrupts are enabled
  needed,         \* ISP_ABORT_NEEDED
  active,         \* ABORT_ISP_ACTIVE
  retry,          \* ISP_ABORT_RETRY
  isp_abort_cnt,  \* retries left
  online,         \* vha->flags.online
  dpc,            \* the DPC thread's loop
  isp,            \* how far a thread is in abort_isp
  setup,          \* mailbox commands its abort_isp has still to issue
  outer,          \* abort_isps of a thread that wait for a command of
                  \* theirs, whose timeout called abort_isp again
  given_up,       \* history: an answer was on the way when a wait ended
  crossed,        \* history: abort_isp was called while it ran
  lost_retry      \* history: a request to try again was dropped

mbxVars  == <<mbx_cmd_comp, mcp, given_up>>
intrVars == <<mbx_intr_comp, mbox_int, mbx_intr_wait, mailbox_out>>
cmdVars  == <<abort_active, ioctl, rval, calls>>
fwVars   == <<fw, irq, fw_hung, fw_dumped, intrs, faults>>
flagVars == <<needed, active, retry, isp_abort_cnt, online>>
nestVars == <<outer, crossed, lost_retry>>
ispVars  == <<dpc, isp, setup, nestVars>>
vars == <<mbxVars, intrVars, pc, cmdVars, fwVars, flagVars, ispVars>>

Ages == {"none", "current", "late"}

\* The steps of a thread that holds the turn.
HoldsTurn == {"intr", "poll", "expired", "woken", "tail", "tested"}

TypeOK ==
  /\ mbx_cmd_comp \in 0..1 /\ mbx_intr_comp \in 0..2
  /\ mcp \in Threads \cup {NoThread}
  /\ mbox_int \in BOOLEAN /\ mbx_intr_wait \in BOOLEAN
  /\ mailbox_out \in Ages /\ irq \in Ages
  /\ pc \in [Threads -> HoldsTurn \cup {"idle", "turn"}]
  /\ abort_active \in [Threads -> BOOLEAN]
  /\ ioctl \in [Threads -> BOOLEAN]
  /\ rval \in [Threads -> {"none", "ok", "error", "timeout"}]
  /\ calls \in [Threads -> 0..MaxCalls] /\ faults \in 0..MaxFaults
  /\ fw \subseteq {"current", "late"}
  /\ {fw_hung, fw_dumped, intrs, needed, active, retry, online} \subseteq BOOLEAN
  /\ isp_abort_cnt \in 0..MaxRetries
  /\ dpc \in {"asleep", "look", "claimed", "abort", "work"}
  /\ isp \in [Threads -> {"off", "reset", "setup", "over"}]
  /\ setup \in [Threads -> 0..SetupCmds] /\ outer \in [Threads -> Nat]
  /\ {given_up, crossed, lost_retry} \subseteq BOOLEAN

--------------------------------------------------------------------------
(* qla2x00_mailbox_command, up to the answer.                              *)

\* Entry, with the sample of ABORT_ISP_ACTIVE.
Enter(t, io) ==
  /\ pc' = [pc EXCEPT ![t] = "turn"]
  /\ abort_active' = [abort_active EXCEPT ![t] = active]
  /\ ioctl' = [ioctl EXCEPT ![t] = io]
  /\ rval' = [rval EXCEPT ![t] = "none"]

\* The DPC thread issues commands in its loop, the others at any time; with
\* IOCTL_CMD or without, in which case a timeout resets directly.
Call(t, io) ==
  /\ pc[t] = "idle" /\ isp[t] = "off" /\ calls[t] < MaxCalls
  /\ t = Dpc => dpc = "work"
  /\ Enter(t, io)
  /\ calls' = [calls EXCEPT ![t] = @ + 1]
  /\ UNCHANGED <<mbxVars, intrVars, fwVars, flagVars, ispVars>>

\* abort_isp issues its next command, unless one has failed.
SetupCall(t) ==
  /\ pc[t] = "idle" /\ isp[t] = "setup"
  /\ setup[t] > 0 /\ rval[t] \in {"none", "ok"}
  /\ Enter(t, FALSE)
  /\ setup' = [setup EXCEPT ![t] = @ - 1]
  /\ UNCHANGED <<calls, mbxVars, intrVars, fwVars, flagVars, dpc, isp,
                 nestVars>>

\* The command is over, and its local variables with it; abort_isp, if that
\* issued the command, has the result.
Return(t, result) ==
  /\ pc' = [pc EXCEPT ![t] = "idle"]
  /\ rval' = [rval EXCEPT ![t] = IF isp[t] = "off" THEN "none" ELSE result]
  /\ abort_active' = [abort_active EXCEPT ![t] = FALSE]
  /\ ioctl' = [ioctl EXCEPT ![t] = FALSE]

\* The turn is another thread's for longer than tov seconds.
TurnLate(t) == pc[t] = "turn" /\ mbx_cmd_comp = 0

\* Slip: giving up the wait passes on a turn the thread never had.
TurnTimeoutPosts(t) ==
  /\ TurnLate(t)
  /\ mbx_cmd_comp' = mbx_cmd_comp + 1
  /\ Return(t, "timeout")
  /\ UNCHANGED <<mcp, given_up, intrVars, calls, fwVars, flagVars, ispVars>>

\* "Cmd access timeout": the turn did not come.
TurnTimeout(t) ==
  /\ TurnLate(t)
  /\ Return(t, "timeout")
  /\ UNCHANGED <<mbxVars, intrVars, calls, fwVars, flagVars, ispVars>>

Aged(ages) == IF ages = {} THEN {} ELSE {"late"}

\* The turn comes, whatever became of the reset that was sampled, and, with
\* hardware_lock held, the registers are loaded and the chip is told.  What
\* the firmware still had to say is from now on about an old command.
TakeTurn(t) ==
  /\ pc[t] = "turn" /\ mbx_cmd_comp > 0
  /\ mbx_cmd_comp' = mbx_cmd_comp - 1
  /\ mcp' = t
  /\ mbox_int' = FALSE
  /\ fw' = IF fw_hung THEN fw ELSE Aged(fw) \cup {"current"}
  /\ irq' = IF irq = "none" THEN "none" ELSE "late"
  /\ mailbox_out' = IF mailbox_out = "none" THEN "none" ELSE "late"
  /\ IF abort_active[t]
     THEN pc' = [pc EXCEPT ![t] = "poll"] /\ UNCHANGED mbx_intr_wait
     ELSE pc' = [pc EXCEPT ![t] = "intr"] /\ mbx_intr_wait' = TRUE
  /\ UNCHANGED <<mbx_intr_comp, cmdVars, fw_hung, fw_dumped, intrs, faults,
                 given_up, flagVars, ispVars>>

\* wait_for_completion_timeout(&ha->mbx_intr_comp) returns.
Woken(t) ==
  /\ \/ pc[t] = "intr" /\ mbx_intr_comp > 0 /\ mbx_intr_comp' = mbx_intr_comp - 1
     \/ pc[t] = "poll" /\ mbox_int /\ UNCHANGED mbx_intr_comp
  /\ pc' = [pc EXCEPT ![t] = "woken"]
  /\ UNCHANGED <<mbxVars, mbox_int, mbx_intr_wait, mailbox_out, cmdVars,
                 fwVars, flagVars, ispVars>>

\* The answer to the command at hand is on its way to the driver.
Answering == "current" \in fw \cup {irq}

\* The wait ends without an answer, which may be on its way.  The sleeper has
\* still to take the lock.
Expire(t) ==
  /\ \/ pc[t] = "intr" /\ mbx_intr_comp = 0
     \/ pc[t] = "poll" /\ ~mbox_int
  /\ pc' = [pc EXCEPT ![t] = IF @ = "intr" THEN "expired" ELSE "woken"]
  /\ given_up' = (given_up \/ Answering)
  /\ UNCHANGED <<mbx_cmd_comp, mcp, intrVars, cmdVars, fwVars, flagVars,
                 ispVars>>

ClearIntrWait(t) ==
  /\ pc[t] = "expired"
  /\ mbx_intr_wait' = FALSE
  /\ pc' = [pc EXCEPT ![t] = "woken"]
  /\ UNCHANGED <<mbx_intr_comp, mbox_int, mailbox_out, mbxVars, cmdVars,
                 fwVars, flagVars, ispVars>>

--------------------------------------------------------------------------
(* The end of the command.                                                 *)

\* "Check whether we timed out."  The answer may be an error.  After a timeout
\* the firmware is dumped, unless a dump is kept already; a dump leaves the
\* chip soft-reset.
Check(t) ==
  /\ pc[t] = "woken"
  /\ mbox_int' = FALSE
  /\ mcp' = NoThread
  /\ pc' = [pc EXCEPT ![t] = "tail"]
  /\ \E r \in IF mbox_int THEN {"ok", "error"} ELSE {"timeout"} :
       rval' = [rval EXCEPT ![t] = r]
  /\ IF mbox_int \/ fw_dumped
     THEN UNCHANGED fwVars
     ELSE /\ fw_dumped' = TRUE /\ fw_hung' = TRUE
          /\ fw' = {} /\ irq' = "none"
          /\ UNCHANGED <<intrs, faults>>
  /\ UNCHANGED <<mbx_cmd_comp, given_up, mbx_intr_comp, mbx_intr_wait,
                 mailbox_out, abort_active, ioctl, calls, flagVars, ispVars>>

Flagged == needed \/ active \/ retry

\* "Allow next mbx cmd to come in."
PassTurn(t) ==
  /\ mbx_cmd_comp' = mbx_cmd_comp + 1
  /\ Return(t, rval[t])
  /\ UNCHANGED <<mcp, given_up>>

\* Slip: a path that forgets to pass on the turn.
TailDoneKeepsTurn(t) ==
  /\ pc[t] = "tail"
  /\ rval[t] # "timeout" \/ (~ioctl[t] /\ abort_active[t]) \/ Flagged
  /\ Return(t, rval[t])
  /\ UNCHANGED <<mbxVars, intrVars, calls, fwVars, flagVars, ispVars>>

\* Nothing to do: an answer came, the command belonged to a reset, or a
\* reset is flagged already.
TailDone(t) ==
  /\ pc[t] = "tail"
  /\ rval[t] # "timeout" \/ (~ioctl[t] /\ abort_active[t]) \/ Flagged
  /\ PassTurn(t)
  /\ UNCHANGED <<intrVars, calls, fwVars, flagVars, ispVars>>

\* "not in dpc. schedule it for dpc to take over."
TailSchedule(t) ==
  /\ pc[t] = "tail" /\ rval[t] = "timeout" /\ ioctl[t] /\ ~Flagged
  /\ needed' = TRUE
  /\ PassTurn(t)
  /\ UNCHANGED <<intrVars, calls, fwVars, active, retry, isp_abort_cnt,
                 online, ispVars>>

\* "call abort directly since we are in the DPC thread": the flags are
\* tested one by one ...
TailTest(t) ==
  /\ pc[t] = "tail" /\ rval[t] = "timeout"
  /\ ~ioctl[t] /\ ~abort_active[t] /\ ~Flagged
  /\ pc' = [pc EXCEPT ![t] = "tested"]
  /\ UNCHANGED <<mbxVars, intrVars, cmdVars, fwVars, flagVars, ispVars>>

\* ... and set, the turn is passed on, and abort_isp is called.
TailAbort(t) ==
  /\ pc[t] = "tested"
  /\ active' = TRUE /\ needed' = FALSE
  /\ isp' = [isp EXCEPT ![t] = "reset"]
  /\ outer' = [outer EXCEPT ![t] = @ + (IF isp[t] = "off" THEN 0 ELSE 1)]
  /\ crossed' = (crossed \/ \E u \in Threads : isp[u] # "off")
  /\ PassTurn(t)
  /\ UNCHANGED <<intrVars, calls, fwVars, retry, isp_abort_cnt, online,
                 dpc, setup, lost_retry>>

--------------------------------------------------------------------------
(* The firmware and the interrupt handler.                                 *)

FwAnswer(a) ==
  /\ a \in fw /\ irq = "none"
  /\ irq' = a
  /\ fw' = fw \ {a}
  /\ UNCHANGED <<mbxVars, intrVars, pc, cmdVars, fw_hung, fw_dumped, intrs,
                 faults, flagVars, ispVars>>

\* The firmware dies, noticed by the interrupt handler (system error, paused
\* RISC) or not.
FwHang(noticed) ==
  /\ ~fw_hung /\ faults < MaxFaults
  /\ faults' = faults + 1
  /\ fw_hung' = TRUE
  /\ fw' = {} /\ irq' = "none"
  /\ needed' = (needed \/ noticed)
  /\ UNCHANGED <<mbxVars, intrVars, pc, cmdVars, fw_dumped, intrs, active,
                 retry, isp_abort_cnt, online, ispVars>>

\* A live firmware is to be reset: an invalid handle in the response queue,
\* the loop down for too long.
AskReset ==
  /\ ~needed /\ faults < MaxFaults
  /\ faults' = faults + 1
  /\ needed' = TRUE
  /\ UNCHANGED <<mbxVars, intrVars, pc, cmdVars, fw, irq, fw_hung, fw_dumped,
                 intrs, active, retry, isp_abort_cnt, online, ispVars>>

\* The handler is called by an interrupt or by a poller, which calls it once
\* more when its wait is over ("Checking for additional resp interrupt").
InterruptsRead ==
  \/ intrs
  \/ \E t \in Threads : pc[t] = "poll" \/ (pc[t] = "tail" /\ abort_active[t])

\* Slip: the completion does not depend on MBX_INTR_WAIT.
IsrAlwaysCompletes ==
  /\ irq # "none" /\ InterruptsRead
  /\ irq' = "none"
  /\ mbox_int' = TRUE
  /\ mailbox_out' = irq
  /\ mbx_intr_comp' = mbx_intr_comp + 1
  /\ UNCHANGED <<mbxVars, mbx_intr_wait, pc, cmdVars, fw, fw_hung, fw_dumped,
                 intrs, faults, flagVars, ispVars>>

\* The mailbox part of the interrupt handler: the answer is copied, and a
\* sleeper is woken.
Isr ==
  /\ irq # "none" /\ InterruptsRead
  /\ irq' = "none"
  /\ mbox_int' = TRUE
  /\ mailbox_out' = irq
  /\ mbx_intr_wait' = FALSE
  /\ mbx_intr_comp' = mbx_intr_comp + (IF mbx_intr_wait THEN 1 ELSE 0)
  /\ UNCHANGED <<mbxVars, pc, cmdVars, fw, fw_hung, fw_dumped, intrs, faults,
                 flagVars, ispVars>>

--------------------------------------------------------------------------
(* The DPC thread's loop.                                                  *)

\* Awake: nothing is done while a mailbox command is in progress.
DpcWake ==
  /\ dpc = "asleep" /\ mcp = NoThread
  /\ dpc' = "look"
  /\ UNCHANGED <<mbxVars, intrVars, pc, cmdVars, fwVars, flagVars, isp, setup,
                 nestVars>>

\* ISP_ABORT_NEEDED is tested and cleared ...
DpcLook ==
  /\ dpc = "look"
  /\ dpc' = IF needed THEN "claimed" ELSE "work"
  /\ needed' = FALSE
  /\ UNCHANGED <<mbxVars, intrVars, pc, cmdVars, fwVars, active, retry,
                 isp_abort_cnt, online, isp, setup, nestVars>>

\* An abort_isp that has still to reset the chip or to report how that went.
Resetting == \E t \in Threads : isp[t] \in {"reset", "setup"} \/ outer[t] > 0

\* ... and ABORT_ISP_ACTIVE tested and set.
DpcClaim ==
  /\ dpc = "claimed"
  /\ active' = TRUE
  /\ IF active THEN dpc' = "work" /\ UNCHANGED isp
               ELSE dpc' = "abort" /\ isp' = [isp EXCEPT ![Dpc] = "reset"]
  /\ lost_retry' = (lost_retry \/ (active /\ retry /\ ~Resetting))
  /\ UNCHANGED <<mbxVars, intrVars, pc, cmdVars, fwVars, needed, retry,
                 isp_abort_cnt, online, setup, outer, crossed>>

\* The rest of the loop: interrupts that a failed reset has left disabled are
\* enabled, and back to sleep.
DpcSleep ==
  /\ dpc = "work" /\ pc[Dpc] = "idle" /\ isp[Dpc] = "off"
  /\ intrs' = TRUE
  /\ dpc' = "asleep"
  /\ UNCHANGED <<mbxVars, intrVars, pc, cmdVars, fw, irq, fw_hung, fw_dumped,
                 faults, flagVars, isp, setup, nestVars>>

--------------------------------------------------------------------------
(* qla2x00_abort_isp.                                                      *)

\* Slip: a failure is not flagged.
IspOverForgetsFailure(t, failed) ==
  /\ isp' = [isp EXCEPT ![t] = "over"]
  /\ UNCHANGED <<needed, active, dpc, nestVars>>

\* abort_isp returns to the DPC loop or to mailbox_command, where a failure
\* is flagged for another attempt ...
IspOver(t, failed) ==
  /\ isp' = [isp EXCEPT ![t] = "over"]
  /\ needed' = (needed \/ failed)
  /\ UNCHANGED <<active, dpc, nestVars>>

\* The thread returns to whatever called abort_isp.  Where that was a command
\* of an outer abort_isp, the outer one has failed.
Resume(t) ==
  IF outer[t] = 0
  THEN /\ isp' = [isp EXCEPT ![t] = "off"]
       /\ dpc' = IF t = Dpc /\ dpc = "abort" THEN "work" ELSE dpc
       /\ UNCHANGED <<outer, rval, setup>>
  ELSE /\ isp' = [isp EXCEPT ![t] = "setup"]
       /\ outer' = [outer EXCEPT ![t] = @ - 1]
       /\ rval' = [rval EXCEPT ![t] = "timeout"]
       /\ setup' = [setup EXCEPT ![t] = 0]
       /\ UNCHANGED dpc

\* Slip: ABORT_ISP_ACTIVE stays set.
IspEndKeepsActive(t) ==
  /\ isp[t] = "over"
  /\ crossed' = (crossed /\ (\/ outer[t] > 0
                             \/ \E u \in Threads \ {t} : isp[u] # "off"))
  /\ Resume(t)
  /\ UNCHANGED <<mbxVars, intrVars, pc, abort_active, ioctl, calls, fwVars,
                 flagVars, lost_retry>>

\* ... before ABORT_ISP_ACTIVE is cleared.
IspEnd(t) ==
  /\ isp[t] = "over"
  /\ active' = FALSE
  /\ crossed' = (crossed /\ (\/ outer[t] > 0
                             \/ \E u \in Threads \ {t} : isp[u] # "off"))
  /\ Resume(t)
  /\ UNCHANGED <<mbxVars, intrVars, pc, abort_active, ioctl, calls, fwVars,
                 needed, retry, isp_abort_cnt, online, lost_retry>>

\* An adapter that is not online is left alone.
IspSkip(t) ==
  /\ isp[t] = "reset" /\ ~online
  /\ IspOver(t, FALSE)
  /\ UNCHANGED <<mbxVars, intrVars, pc, cmdVars, fwVars, retry, isp_abort_cnt,
                 online, setup>>

\* Outside the chip nothing is left of the commands so far.
Quiet == mbx_cmd_comp > 0 /\ mbx_intr_comp = 0 /\ ~mbx_intr_wait

\* Slip: the interrupt the chip has raised survives the reset.
IspResetKeepsIrq(t) ==
  /\ isp[t] = "reset" /\ online
  /\ online' = FALSE /\ needed' = FALSE
  /\ fw_hung' = FALSE /\ fw' = {} /\ intrs' = FALSE
  /\ isp' = [isp EXCEPT ![t] = "setup"]
  /\ setup' = [setup EXCEPT ![t] = SetupCmds]
  /\ rval' = [rval EXCEPT ![t] = "none"]
  /\ given_up' = (given_up /\ ~Quiet) /\ lost_retry' = FALSE
  /\ UNCHANGED <<mbx_cmd_comp, mcp, intrVars, pc, abort_active, ioctl, calls,
                 irq, fw_dumped, faults, active, retry, isp_abort_cnt, dpc, outer,
                 crossed>>

\* qla2x00_abort_isp_cleanup: offline, the flag cleared, the chip reset.
IspReset(t) ==
  /\ isp[t] = "reset" /\ online
  /\ online' = FALSE /\ needed' = FALSE
  /\ fw_hung' = FALSE /\ fw' = {} /\ irq' = "none" /\ intrs' = FALSE
  /\ isp' = [isp EXCEPT ![t] = "setup"]
  /\ setup' = [setup EXCEPT ![t] = SetupCmds]
  /\ rval' = [rval EXCEPT ![t] = "none"]
  /\ given_up' = (given_up /\ ~Quiet) /\ lost_retry' = FALSE
  /\ UNCHANGED <<mbx_cmd_comp, mcp, intrVars, pc, abort_active, ioctl, calls,
                 fw_dumped, faults, active, retry, isp_abort_cnt, dpc, outer,
                 crossed>>

\* The firmware runs.
IspOk(t) ==
  /\ isp[t] = "setup" /\ pc[t] = "idle" /\ setup[t] = 0 /\ rval[t] = "ok"
  /\ online' = TRUE /\ intrs' = TRUE
  /\ retry' = FALSE /\ isp_abort_cnt' = 0
  /\ IspOver(t, FALSE)
  /\ UNCHANGED <<mbxVars, intrVars, pc, cmdVars, fw, irq, fw_hung, fw_dumped,
                 faults, setup>>

\* It does not, because a command failed or for another reason (diagnostics
\* of the chip, no firmware file, no link): the first failure grants MaxRetries
\* more attempts, and the interrupts stay disabled.  When the attempts are used
\* up the board is disabled, with the chip held in reset.
IspFailed(t) ==
  /\ isp[t] = "setup" /\ pc[t] = "idle"
  /\ \/ /\ ~retry /\ retry' = TRUE /\ isp_abort_cnt' = MaxRetries
        /\ online' = TRUE /\ IspOver(t, TRUE)
        /\ UNCHANGED <<fw, fw_hung, intrs>>
     \/ /\ retry /\ isp_abort_cnt > 0 /\ isp_abort_cnt' = isp_abort_cnt - 1
        /\ online' = TRUE /\ IspOver(t, TRUE)
        /\ UNCHANGED <<retry, fw, fw_hung, intrs>>
     \/ /\ retry /\ isp_abort_cnt = 0 /\ retry' = FALSE
        /\ online' = FALSE /\ IspOver(t, FALSE)
        /\ fw' = {} /\ fw_hung' = TRUE /\ intrs' = FALSE
        /\ UNCHANGED isp_abort_cnt
  /\ setup' = [setup EXCEPT ![t] = 0]
  /\ UNCHANGED <<mbxVars, intrVars, pc, cmdVars, irq, fw_dumped, faults>>

--------------------------------------------------------------------------
Init ==
  /\ mbx_cmd_comp = 1 /\ mbx_intr_comp = 0
  /\ mcp = NoThread
  /\ mbox_int = FALSE /\ mbx_intr_wait = FALSE /\ mailbox_out = "none"
  /\ pc = [t \in Threads |-> "idle"]
  /\ abort_active = [t \in Threads |-> FALSE]
  /\ ioctl = [t \in Threads |-> FALSE]
  /\ rval = [t \in Threads |-> "none"]
  /\ calls = [t \in Threads |-> 0] /\ faults = 0
  /\ fw = {} /\ irq = "none"
  /\ fw_hung = FALSE /\ fw_dumped = FALSE /\ intrs = TRUE
  /\ needed = FALSE /\ active = FALSE /\ retry = FALSE /\ isp_abort_cnt = 0
  /\ online = TRUE
  /\ dpc = "asleep"
  /\ isp = [t \in Threads |-> "off"]
  /\ setup = [t \in Threads |-> 0] /\ outer = [t \in Threads |-> 0]
  /\ given_up = FALSE /\ crossed = FALSE /\ lost_retry = FALSE

MailboxStep(t) ==
  \/ TakeTurn(t) \/ TurnTimeout(t)
  \/ Woken(t) \/ Expire(t) \/ ClearIntrWait(t)
  \/ Check(t) \/ TailDone(t) \/ TailSchedule(t) \/ TailTest(t) \/ TailAbort(t)

IspStep(t) == SetupCall(t) \/ IspSkip(t) \/ IspReset(t) \/ IspOk(t)
              \/ IspFailed(t) \/ IspEnd(t)

DpcStep == DpcWake \/ DpcLook \/ DpcClaim \/ DpcSleep

Next ==
  \/ \E t \in Threads : \/ \E io \in BOOLEAN : Call(t, io)
                        \/ MailboxStep(t) \/ IspStep(t)
  \/ DpcStep
  \/ \E a \in fw : FwAnswer(a)
  \/ \E noticed \in BOOLEAN : FwHang(noticed)
  \/ AskReset
  \/ Isr

\* Threads run, timers expire, a live firmware answers, interrupts are
\* delivered, and the timer wakes the DPC thread every second.
Fairness ==
  /\ \A t \in Threads : WF_vars(MailboxStep(t)) /\ WF_vars(IspStep(t))
  /\ WF_vars(DpcStep) /\ WF_vars(\E a \in fw : FwAnswer(a)) /\ WF_vars(Isr)

Spec == Init /\ [][Next]_vars /\ Fairness

--------------------------------------------------------------------------
(* Properties                                                              *)

\* There is one turn: either nobody holds it and mbx_cmd_comp has one
\* completion to give, or one thread holds it.  "This is to serialize actual
\* issuing of mailbox cmds."
OneTurn ==
  mbx_cmd_comp + Cardinality({ t \in Threads : pc[t] \in HoldsTurn }) = 1

\* The answer a command finds is its own, not that of a command that timed
\* out before it or was cut off by a reset.
OwnAnswer ==
  \A t \in Threads : pc[t] = "woken" /\ mbox_int => mailbox_out = "current"

\* mbx_intr_comp is used up when the turn is passed on: a completion left
\* over would end the next command's wait at once, as a timeout.
NoLeftoverWakeup == mbx_cmd_comp > 0 => mbx_intr_comp = 0

\* A command is ended by its own answer: no late answer is in the registers
\* when it looks, and no completion was left over that woke it too early.  The
\* registers carry no tag, so that this depends on one thing alone: that no
\* command was given up with its answer on the way, because its time was too
\* short or because a failed reset had left the interrupts disabled.  The next
\* reset that finds nobody in the mailbox makes up for that.
AnswersAreOwn == TypeOK /\ (~given_up => OwnAnswer /\ NoLeftoverWakeup)

\* ABORT_ISP_ACTIVE is set exactly while abort_isp runs, and it runs once,
\* unless a thread that tested the flag set it only after another one had: the
\* test and the setting of the flag in mailbox_command are two steps.  Even
\* then the flag is never set without an abort_isp that will clear it.
OneReset ==
  LET running == { t \in Threads : isp[t] # "off" } IN
  /\ active => running # {}
  /\ ~crossed => Cardinality(running) = IF active THEN 1 ELSE 0

\* "call abort directly since we are in the DPC thread": abort_isp never runs
\* in two threads.
ResetsRunAlone == Cardinality({ t \in Threads : isp[t] # "off" }) <= 1

\* "Failed. retry later.": while ISP_ABORT_RETRY is set another attempt is
\* under way or asked for.  The flag keeps every further timeout from asking
\* for a reset, so that nothing but the loop-down timer, four minutes later,
\* makes up for a lost request.
RetryIsPending == retry => needed \/ active \/ dpc = "claimed"

\* The same, and more: an attempt that is over does not count.  The request is
\* lost in one place alone, where the DPC thread has taken it and finds
\* ABORT_ISP_ACTIVE set by the very attempt that failed.
RetriesArePending ==
  retry => needed \/ Resetting \/ dpc = "claimed" \/ lost_retry

\* A command that times out outside a reset gets the firmware reset, unless
\* the adapter is beyond recovery or the request for a reset has been dropped.
\* (When a reset is about to report its success at that moment, the flag it
\* still has set keeps the command from asking for another one.)
TimeoutLeadsToReset ==
  \A t \in Threads :
    (pc[t] = "tail" /\ rval[t] = "timeout" /\ ~abort_active[t] /\ ~active)
      ~> (~fw_hung \/ (~online /\ ~active) \/ lost_retry)

\* Every command and every reset comes to an end.
EverythingEnds ==
  \A t \in Threads :
    /\ pc[t] # "idle" ~> pc[t] = "idle"
    /\ isp[t] # "off" ~> isp[t] = "off"

\* Timeouts are overcome: every command and every reset ends, and the firmware
\* that timed out is reset.
TimeoutsAreOvercome == TimeoutLeadsToReset /\ EverythingEnds
==========================================================================
