----------------------------- MODULE ScsiIo ------------------------------
(***************************************************************************)
(* The life of a SCSI command in the driver, from queuecommand to          *)
(* scsi_done.  An srb carries the command; outstanding_cmds maps the       *)
(* handle the firmware knows to the srb; ref_count says how many paths     *)
(* still need the srb.  Four actors share these under hardware_lock:       *)
(*                                                                         *)
(*   queuecommand   checks the port without the lock, then takes a handle  *)
(*                  and posts the command under it;                        *)
(*   the interrupt  drains the response queue under the lock;              *)
(*   eh_abort       holds a reference but not the lock while it waits for  *)
(*                  the firmware's answer to an abort request;             *)
(*   abort_isp      stops the chip, completes what is outstanding, and     *)
(*                  clears the rings.                                      *)
(*                                                                         *)
(* Every action that takes hardware_lock requires ~in_isr: the interrupt   *)
(* handler keeps the lock while the queue has entries.                     *)
(*                                                                         *)
(* eh_abort believes the firmware's answer "no such command" although the  *)
(* command may have ended another way meanwhile.  The history variable     *)
(* crossed, which no guard reads, has the commands that happens to and the *)
(* other commands it reaches.                                              *)
(***************************************************************************)
EXTENDS Integers, Sequences, FiniteSets

CONSTANTS
  Cmds,           \* SCSI commands, each issued once; also names its srb
  NumOutstanding, \* req->num_outstanding_cmds: handles 1..NumOutstanding-1
  MaxConts,       \* most status continuation entries of one command
  MaxQueued,      \* bound: entries in the response queue
  MaxFaults,      \* bound: chip resets and commands lost by the firmware
  NoCmd           \* the NULL srb pointer

ASSUME ScsiIoAssumption ==
  /\ IsFiniteSet(Cmds) /\ NoCmd \notin Cmds
  /\ NumOutstanding \in Nat /\ NumOutstanding >= 2
  /\ MaxConts \in Nat /\ MaxQueued \in Nat /\ MaxFaults \in Nat

VARIABLES
  phase,        \* where each command is: with the midlayer, being submitted,
                \* owned by the driver, returned through scsi_done
  ref_count,    \* sp->ref_count; the srb is freed when it drops to zero
  handle,       \* sp->handle
  outstanding,  \* req->outstanding_cmds
  current,      \* req->current_outstanding_cmd
  fw,           \* commands the firmware works on: the handle it was given,
                \* and the command it belongs to
  rspq,         \* response queue, oldest entry first
  fw_conts,     \* continuation entries the firmware has yet to post
  status_srb,   \* rsp->status_srb, the command whose sense data is coming
  sense_left,   \* continuation entries it still needs
  in_isr,       \* the interrupt handler holds hardware_lock
  eh,           \* the error handler's eh_abort: step, command, answer
  failed,       \* commands for which eh_abort returned FAILED
  chip,         \* progress of abort_isp; "up" is vha->flags.online
  isp_abort_needed,  \* ISP_ABORT_NEEDED
  faults,       \* bound: faults so far
  crossed       \* history: commands whose abort crossed another end of
                \* theirs, and commands that came to grief by that

ioVars   == <<phase, ref_count>>
slotVars == <<handle, outstanding, current>>
rspVars  == <<rspq, fw_conts>>
isrVars  == <<status_srb, sense_left, in_isr>>
ehVars   == <<eh, failed, crossed>>
chipVars == <<chip, isp_abort_needed, faults>>
vars == <<ioVars, slotVars, fw, rspVars, isrVars, ehVars, chipVars>>

Handles == 1..NumOutstanding - 1
NoHandle == 0

\* CMD_SP(cmd) is set from get_sp until the srb is freed.
HasSrb(c) == phase[c] \in {"submitting", "owned"}

EhSteps == {"idle", "search", "issued", "answered", "finish", "check", "wait"}
Answers == {"none", "ok", "miss", "fail"}
EhIdle == [pc |-> "idle", c |-> NoCmd, rval |-> "none"]

FwCmds == [h : Handles, c : Cmds]
RspEntries == [t : {"ok", "error", "fault", "check", "cont"},
               h : Handles \cup {NoHandle}, c : Cmds \cup {NoCmd},
               conts : 0..MaxConts]

TypeOK ==
  /\ phase \in [Cmds -> {"idle", "submitting", "owned", "returned"}]
  /\ ref_count \in [Cmds -> 0..2]
  /\ handle \in [Cmds -> Handles \cup {NoHandle}]
  /\ outstanding \in [Handles -> Cmds \cup {NoCmd}]
  /\ current \in Handles
  /\ fw \subseteq FwCmds
  /\ rspq \in Seq(RspEntries) /\ Len(rspq) <= MaxQueued
  /\ fw_conts \in 0..MaxConts
  /\ status_srb \in Cmds \cup {NoCmd}
  /\ sense_left \in 0..MaxConts
  /\ in_isr \in BOOLEAN
  /\ eh \in [pc : EhSteps, c : Cmds \cup {NoCmd}, rval : Answers]
  /\ failed \subseteq Cmds
  /\ chip \in {"up", "stopped", "flushed", "restarting"}
  /\ isp_abort_needed \in BOOLEAN
  /\ faults \in 0..MaxFaults
  /\ crossed \subseteq Cmds

--------------------------------------------------------------------------
(* sp->done for SCSI commands.                                             *)

\* qla2x00_sp_compl for each command of S: a count of zero is logged and
\* ignored; the last reference frees the srb and calls scsi_done.
SpDone(S) ==
  /\ ref_count' = [c \in Cmds |-> IF c \in S /\ ref_count[c] > 0
                                  THEN ref_count[c] - 1 ELSE ref_count[c]]
  /\ phase' = [c \in Cmds |-> IF c \in S /\ ref_count[c] = 1
                              THEN "returned" ELSE phase[c]]

--------------------------------------------------------------------------
(* Submission: qla2xxx_queuecommand and start_scsi.                        *)

\* The checks of queuecommand pass (the port is online) and an srb is
\* allocated.  No lock is held.
QueueCommand(c) ==
  /\ phase[c] = "idle"
  /\ chip = "up"
  /\ phase' = [phase EXCEPT ![c] = "submitting"]
  /\ ref_count' = [ref_count EXCEPT ![c] = 1]
  /\ UNCHANGED <<slotVars, fw, rspVars, isrVars, ehVars, chipVars>>

\* The d-th handle after current, in the order start_scsi tries them.
NthHandle(d) == ((current - 1 + d) % (NumOutstanding - 1)) + 1

FreeHandles == { h \in Handles : outstanding[h] = NoCmd }

\* Slip: the next handle is taken without looking at its slot.
NextHandleUnchecked == {NthHandle(1)}

\* The first free handle after current, if there is one.
NextHandle ==
  { NthHandle(d) : d \in { d \in Handles :
      /\ NthHandle(d) \in FreeHandles
      /\ \A e \in 1..d - 1 : NthHandle(e) \notin FreeHandles } }

\* start_scsi finds a handle and ring space.  A chip that is stopped does
\* not fetch the entry.
StartScsi(c) ==
  /\ phase[c] = "submitting" /\ ~in_isr
  /\ \E h \in NextHandle :
       /\ current' = h
       /\ outstanding' = [outstanding EXCEPT ![h] = c]
       /\ handle' = [handle EXCEPT ![c] = h]
       /\ fw' = IF chip \in {"stopped", "flushed"}
                THEN fw ELSE fw \cup {[h |-> h, c |-> c]}
  /\ phase' = [phase EXCEPT ![c] = "owned"]
  /\ UNCHANGED <<ref_count, rspVars, isrVars, ehVars, chipVars>>

\* No handle, or no ring space: the srb is freed and the midlayer is told
\* SCSI_MLQUEUE_HOST_BUSY.
HostBusy(c) ==
  /\ phase[c] = "submitting" /\ ~in_isr
  /\ phase' = [phase EXCEPT ![c] = "idle"]
  /\ ref_count' = [ref_count EXCEPT ![c] = 0]
  /\ UNCHANGED <<slotVars, fw, rspVars, isrVars, ehVars, chipVars>>

--------------------------------------------------------------------------
(* The firmware.                                                           *)

Entry(t, e, k) == [t |-> t, h |-> e.h, c |-> e.c, conts |-> k]

\* A command ends: fast-path success, an error status, an entry with
\* entry_status set, or a check condition whose sense data continues in k
\* further entries.  Those follow before any other entry.
FwComplete(e, t, k) ==
  /\ e \in fw /\ fw_conts = 0
  /\ Len(rspq) < MaxQueued
  /\ (t = "check") <=> (k > 0)
  /\ fw' = fw \ {e}
  /\ rspq' = Append(rspq, Entry(t, e, k))
  /\ fw_conts' = k
  /\ UNCHANGED <<ioVars, slotVars, isrVars, ehVars, chipVars>>

FwSense ==
  /\ fw_conts > 0
  /\ Len(rspq) < MaxQueued
  /\ fw_conts' = fw_conts - 1
  /\ rspq' = Append(rspq, Entry("cont", [h |-> NoHandle, c |-> NoCmd], 0))
  /\ UNCHANGED <<ioVars, slotVars, fw, isrVars, ehVars, chipVars>>

\* A fault: the firmware forgets a command and will never answer it.
FwLose(e) ==
  /\ e \in fw
  /\ faults < MaxFaults
  /\ faults' = faults + 1
  /\ fw' = fw \ {e}
  /\ UNCHANGED <<ioVars, slotVars, rspVars, isrVars, ehVars, chip, isp_abort_needed>>

--------------------------------------------------------------------------
(* The interrupt handler: process_response_queue and its entry handlers.   *)

\* Slip: the last continuation drops the command.
StatusContNeverDone ==
  /\ UNCHANGED <<outstanding, isp_abort_needed, ioVars>>
  /\ IF status_srb = NoCmd
     THEN UNCHANGED <<status_srb, sense_left>>
     ELSE /\ sense_left' = sense_left - 1
          /\ status_srb' = IF sense_left = 1 THEN NoCmd ELSE status_srb

\* A status continuation: the last one completes the waiting command.
StatusCont ==
  /\ UNCHANGED <<outstanding, isp_abort_needed>>
  /\ IF status_srb = NoCmd
     THEN UNCHANGED <<ioVars, status_srb, sense_left>>
     ELSE /\ sense_left' = sense_left - 1
          /\ IF sense_left = 1
             THEN status_srb' = NoCmd /\ SpDone({status_srb})
             ELSE UNCHANGED <<ioVars, status_srb>>

\* A status or error entry whose handle is not outstanding asks for a reset.
BadHandle(e) ==
  /\ outstanding[e.h] = NoCmd
  /\ isp_abort_needed' = TRUE
  /\ UNCHANGED <<ioVars, outstanding, status_srb, sense_left>>

\* Slip: one continuation too many is awaited.
LongSenseOneTooMany(e) ==
  /\ e.t = "check"
  /\ status_srb' = outstanding[e.h]
  /\ sense_left' = e.conts + 1
  /\ UNCHANGED ioVars

\* A status that carries more sense data than fits: not done yet.
LongSense(e) ==
  /\ e.t = "check"
  /\ status_srb' = outstanding[e.h]
  /\ sense_left' = e.conts
  /\ UNCHANGED ioVars

\* Slip: an entry with entry_status set frees the slot only.
PlainStatusFaultNotDone(e) ==
  /\ e.t # "check"
  /\ IF e.t = "fault" \/ (e.t = "error" /\ status_srb # NoCmd)
     THEN UNCHANGED ioVars
     ELSE SpDone({outstanding[e.h]})
  /\ UNCHANGED <<status_srb, sense_left>>

\* Any other status.  Success (the fast path) and error entries complete the
\* command; an error status does only while no sense data is awaited.
PlainStatus(e) ==
  /\ e.t # "check"
  /\ IF e.t = "error" /\ status_srb # NoCmd
     THEN UNCHANGED ioVars
     ELSE SpDone({outstanding[e.h]})
  /\ UNCHANGED <<status_srb, sense_left>>

\* Slip: the slot is not cleared.
CommandStatusKeepsSlot(e) ==
  /\ outstanding[e.h] # NoCmd
  /\ LongSense(e) \/ PlainStatus(e)
  /\ UNCHANGED <<outstanding, isp_abort_needed>>

CommandStatus(e) ==
  /\ outstanding[e.h] # NoCmd
  /\ outstanding' = [outstanding EXCEPT ![e.h] = NoCmd]
  /\ LongSense(e) \/ PlainStatus(e)
  /\ UNCHANGED isp_abort_needed

\* One entry.  The queue is not touched while the adapter is offline; a
\* handler that is already running keeps the lock until the queue is empty.
\* An entry may end another command than its own, if the handle was freed and
\* given away too early.
Isr ==
  /\ rspq # << >>
  /\ chip = "up" \/ in_isr
  /\ LET e == Head(rspq)
     IN IF e.t = "cont" THEN StatusCont ELSE BadHandle(e) \/ CommandStatus(e)
  /\ rspq' = Tail(rspq)
  /\ in_isr' = (Tail(rspq) # << >>)
  /\ LET e == Head(rspq)
     IN crossed' = IF e.t # "cont" /\ outstanding[e.h] \notin {e.c, NoCmd}
                   THEN crossed \cup {outstanding[e.h]} ELSE crossed
  /\ UNCHANGED <<handle, current, fw, fw_conts, eh, failed, chip, faults>>

--------------------------------------------------------------------------
(* qla2x00_abort_isp.                                                      *)

\* The adapter goes offline, the chip is reset and the ports are lost.
ResetChip ==
  /\ chip = "up" /\ ~in_isr
  /\ \/ isp_abort_needed /\ UNCHANGED faults
     \/ faults < MaxFaults /\ faults' = faults + 1
  /\ chip' = "stopped"
  /\ isp_abort_needed' = FALSE
  /\ fw' = {} /\ fw_conts' = 0
  /\ crossed' = IF eh.rval = "miss" THEN crossed \cup {eh.c} ELSE crossed
  /\ UNCHANGED <<ioVars, slotVars, rspq, isrVars, eh, failed>>

\* qla2x00_abort_all_cmds.
AbortAllCmds ==
  /\ chip = "stopped" /\ ~in_isr
  /\ outstanding' = [h \in Handles |-> NoCmd]
  /\ SpDone({ outstanding[h] : h \in Handles } \ {NoCmd})
  /\ chip' = "flushed"
  /\ UNCHANGED <<handle, current, fw, rspVars, isrVars, ehVars,
                 isp_abort_needed, faults>>

\* qla2x00_init_rings: both rings start over, whatever is in them.
InitRings ==
  /\ chip = "flushed" /\ ~in_isr
  /\ outstanding' = [h \in Handles |-> NoCmd]
  /\ current' = 1
  /\ rspq' = << >>
  /\ status_srb' = NoCmd /\ sense_left' = 0
  /\ chip' = "restarting"
  /\ UNCHANGED <<ioVars, handle, fw, fw_conts, in_isr, ehVars,
                 isp_abort_needed, faults>>

\* The firmware runs again and the adapter is online.
IspOnline ==
  /\ chip = "restarting"
  /\ chip' = "up"
  /\ UNCHANGED <<ioVars, slotVars, fw, rspVars, isrVars, ehVars,
                 isp_abort_needed, faults>>

--------------------------------------------------------------------------
(* qla2xxx_eh_abort.                                                       *)

\* Slip: eh_abort works on the srb without a reference.
EhAbortNoReference(c) ==
  /\ eh.pc = "idle" /\ ~in_isr
  /\ phase[c] = "owned" /\ c \notin failed
  /\ eh' = [pc |-> "search", c |-> c, rval |-> "none"]
  /\ UNCHANGED <<ioVars, slotVars, fw, rspVars, isrVars, failed, crossed, chipVars>>

\* The midlayer gives up on c.  With the lock held: take a reference and
\* drop the lock.  A command that has come back (no CMD_SP) is a success and
\* changes nothing, which is no step here.
EhAbort(c) ==
  /\ eh.pc = "idle" /\ ~in_isr
  /\ phase[c] = "owned" /\ c \notin failed
  /\ ref_count' = [ref_count EXCEPT ![c] = @ + 1]
  /\ eh' = [pc |-> "search", c |-> c, rval |-> "none"]
  /\ UNCHANGED <<phase, slotVars, fw, rspVars, isrVars, failed, crossed, chipVars>>

\* qla24xx_abort_command looks for the command, again under the lock.
EhSearch ==
  /\ eh.pc = "search" /\ ~in_isr
  /\ eh' = IF \E h \in Handles : outstanding[h] = eh.c
           THEN [eh EXCEPT !.pc = "issued"]
           ELSE [eh EXCEPT !.pc = "finish", !.rval = "fail"]
  /\ UNCHANGED <<ioVars, slotVars, fw, rspVars, isrVars, failed, crossed, chipVars>>

InRspq(c) == \E i \in 1..Len(rspq) : rspq[i].c = c

\* The firmware lost the command: it is outstanding and no answer will come.
LostByFw(c) == ~InRspq(c) /\ \E h \in Handles : outstanding[h] = c

\* The abort IOCB is answered (or the mailbox command that carries it
\* fails).  Aborting a command posts its completion.  There is no such command
\* to abort if the firmware lost it, and also if it has just completed it.
EhAnswer ==
  /\ eh.pc = "issued"
  /\ \/ \E e \in fw :
          /\ e.c = eh.c /\ fw_conts = 0 /\ Len(rspq) < MaxQueued
          /\ fw' = fw \ {e}
          /\ rspq' = Append(rspq, Entry("error", e, 0))
          /\ eh' = [eh EXCEPT !.pc = "finish", !.rval = "ok"]
          /\ UNCHANGED crossed
     \/ /\ chip = "up" /\ \A e \in fw : e.c # eh.c
        /\ eh' = [eh EXCEPT !.pc = "answered", !.rval = "miss"]
        /\ crossed' = IF LostByFw(eh.c) THEN crossed ELSE crossed \cup {eh.c}
        /\ UNCHANGED <<fw, rspq>>
     \/ /\ eh' = [eh EXCEPT !.pc = "finish", !.rval = "fail"]
        /\ UNCHANGED <<fw, rspq, crossed>>
  /\ UNCHANGED <<ioVars, slotVars, fw_conts, isrVars, failed, chipVars>>

\* Slip: the missing command keeps its firmware reference.
EhDropKeepsReference ==
  /\ eh.pc = "answered"
  /\ eh' = [eh EXCEPT !.pc = "finish"]
  /\ UNCHANGED <<ioVars, slotVars, fw, rspVars, isrVars, failed, crossed, chipVars>>

\* "Decrement the ref_count since we can't find the command."
EhDrop ==
  /\ eh.pc = "answered"
  /\ ref_count' = [ref_count EXCEPT ![eh.c] = @ - 1]
  /\ eh' = [eh EXCEPT !.pc = "finish"]
  /\ UNCHANGED <<phase, slotVars, fw, rspVars, isrVars, failed, crossed, chipVars>>

\* eh_abort returns.
ReturnSuccess == eh' = EhIdle /\ UNCHANGED failed
ReturnFailed  == eh' = EhIdle /\ failed' = failed \cup {eh.c}

\* What eh_abort reaches when it clears the slot of a command that is over:
\* the command that has the slot by now, or, when the srb is freed, anything,
\* because its memory may be another command's.
Reached ==
  IF eh.rval # "miss" THEN {}
  ELSE IF ~HasSrb(eh.c) THEN Cmds
  ELSE { outstanding[h] : h \in Handles \cap {handle[eh.c]} } \ {eh.c, NoCmd}

\* With the lock held: the slot of a command the firmware does not know is
\* cleared, and the reference is given back through sp->done.
EhFinish ==
  /\ eh.pc = "finish" /\ ~in_isr
  /\ outstanding' = IF eh.rval = "miss"
                    THEN [outstanding EXCEPT ![handle[eh.c]] = NoCmd]
                    ELSE outstanding
  /\ SpDone({eh.c})
  /\ crossed' = crossed \cup Reached
  /\ \/ eh.rval = "miss" /\ ReturnSuccess
     \/ eh.rval = "fail" /\ eh' = [eh EXCEPT !.pc = "check"] /\ UNCHANGED failed
     \/ eh.rval = "ok" /\ eh' = [eh EXCEPT !.pc = "wait"] /\ UNCHANGED failed
  /\ UNCHANGED <<handle, current, fw, rspVars, isrVars, chipVars>>

\* A failed abort is a success if the command came back meanwhile.
EhCheck ==
  /\ eh.pc = "check"
  /\ IF HasSrb(eh.c) THEN ReturnFailed ELSE ReturnSuccess
  /\ UNCHANGED <<ioVars, slotVars, fw, rspVars, isrVars, crossed, chipVars>>

\* qla2x00_eh_wait_on_command: poll CMD_SP for two seconds.
EhWait ==
  /\ eh.pc = "wait"
  /\ IF HasSrb(eh.c) THEN ReturnFailed ELSE ReturnSuccess
  /\ UNCHANGED <<ioVars, slotVars, fw, rspVars, isrVars, crossed, chipVars>>

EhStep == EhSearch \/ EhAnswer \/ EhDrop \/ EhFinish \/ EhCheck \/ EhWait

--------------------------------------------------------------------------
Init ==
  /\ phase = [c \in Cmds |-> "idle"]
  /\ ref_count = [c \in Cmds |-> 0]
  /\ handle = [c \in Cmds |-> NoHandle]
  /\ outstanding = [h \in Handles |-> NoCmd]
  /\ current = 1
  /\ fw = {} /\ rspq = << >> /\ fw_conts = 0
  /\ status_srb = NoCmd /\ sense_left = 0 /\ in_isr = FALSE
  /\ eh = EhIdle
  /\ failed = {}
  /\ chip = "up" /\ isp_abort_needed = FALSE /\ faults = 0
  /\ crossed = {}

FwEnds == \E e \in fw, t \in {"ok", "error", "fault", "check"}, k \in 0..MaxConts :
            FwComplete(e, t, k)

AbortIspStep == AbortAllCmds \/ InitRings \/ IspOnline

Next ==
  \/ \E c \in Cmds : QueueCommand(c) \/ StartScsi(c) \/ HostBusy(c) \/ EhAbort(c)
  \/ FwEnds \/ FwSense \/ \E e \in fw : FwLose(e)
  \/ Isr
  \/ ResetChip \/ AbortIspStep
  \/ EhStep

\* The firmware answers what it has not lost, interrupts are delivered, the
\* midlayer's timer ends in eh_abort for a command that does not return, and
\* the threads that run eh_abort and abort_isp make progress.
Fairness ==
  /\ WF_vars(FwEnds) /\ WF_vars(FwSense) /\ WF_vars(Isr)
  /\ WF_vars(AbortIspStep) /\ WF_vars(ResetChip /\ isp_abort_needed)
  /\ WF_vars(EhStep) /\ \A c \in Cmds : WF_vars(EhAbort(c))

Spec == Init /\ [][Next]_vars /\ Fairness

--------------------------------------------------------------------------
(* Properties                                                              *)

Paths(c) ==
  Cardinality({ h \in Handles : outstanding[h] = c })
  + (IF status_srb = c THEN 1 ELSE 0)
  + (IF phase[c] = "submitting" THEN 1 ELSE 0)
  + (IF eh.c = c /\ eh.pc \in {"search", "issued", "answered", "finish"}
       /\ ~(eh.pc = "finish" /\ eh.rval = "miss") THEN 1 ELSE 0)

\* Whoever is going to call sp->done on an srb finds a reference to drop:
\* the slot, the pending sense data and eh_abort's last step.  The check in
\* qla2x00_sp_compl ("SP reference-count to ZERO", with its BUG()) asserts it.
DoneIsDue(c) ==
  \/ \E h \in Handles : outstanding[h] = c
  \/ status_srb = c
  \/ eh.c = c /\ eh.pc = "finish"

NoDoneAtZero == \A c \in Cmds : DoneIsDue(c) => ref_count[c] > 0

\* An srb has as many references as paths that will drop one, so it is
\* neither freed under a path that still uses it nor kept for ever, and a
\* slot that holds a command is the one the command's handle names.
RefsMatchPaths ==
  \A c \in Cmds :
    /\ c \notin crossed => ref_count[c] >= Paths(c)
    /\ faults = 0 /\ crossed = {} => ref_count[c] = Paths(c)
    /\ \A h \in Handles : outstanding[h] = c => handle[c] = h

\* Every completion in the response queue finds its own command in the slot
\* its handle names: it is not taken for that of a command which reused the
\* handle, and does not look like an invalid handle (a chip reset).  Only the
\* completion that an abort has crossed may not.
CompletionsFindTheirCommand ==
  chip = "up" =>
    \A i \in 1..Len(rspq) :
      rspq[i].t # "cont" /\ rspq[i].c \notin crossed
        => outstanding[rspq[i].h] = rspq[i].c

\* eh_abort returns SUCCESS only for a command the driver has let go of:
\* "Only return FAILED if command not returned by firmware".  The answer "no
\* such command" that has crossed another end of the command is the one case
\* in which the command may stay with the driver for ever.
AbortSuccessMeansReturned ==
  [][ eh.pc # "idle" /\ eh'.pc = "idle" /\ eh.c \notin failed' \cup crossed
        => phase'[eh.c] = "returned" ]_vars

\* Unless the chip was reset, a command the driver owns can be found: it is
\* outstanding, waits for sense data, or is in eh_abort's hands.
NoCommandForgotten ==
  faults = 0 /\ crossed = {} =>
    \A c \in Cmds : phase[c] = "owned" => DoneIsDue(c) \/ eh.c = c

\* A command goes back to the midlayer.  Only after a fault may it be
\* that eh_abort reports the failure instead, so that the midlayer escalates.
EventuallyReturned(c) ==
  phase[c] = "owned"
    ~> \/ phase[c] = "returned"
       \/ (faults > 0 \/ crossed # {}) /\ c \in failed
       \/ c \in crossed

\* An srb lives exactly as long as something leads to it: its references match
\* the paths that will drop one, whoever ends it finds one to drop, and a
\* command the driver owns has a path.  This holds of every command but those
\* whose abort was answered "no such command" when another end of theirs was
\* already on its way (or the chip was reset before the answer was used), and
\* those whose slot or srb such an abort reaches in its last step.
SrbsAreSound ==
  /\ TypeOK /\ RefsMatchPaths /\ NoCommandForgotten
  /\ \A c \in Cmds \ crossed : DoneIsDue(c) => ref_count[c] > 0
==========================================================================
