------------------------------- MODULE Unwind -------------------------------
(***************************************************************************)
(* Carries out the routines of BsgRoutines and SetupRoutines, with every   *)
(* step that can fail failing: what is still held when a routine has       *)
(* ended, what it releases or uses without holding it, and how often a job *)
(* of the transport is answered.                                           *)
(***************************************************************************)
EXTENDS BsgRoutines, SetupRoutines

CONSTANTS Routines     \* the routines to carry out

VARIABLES
  routine,   \* the routine under way
  pc,        \* its next step
  held,      \* the things that are acquired and not released
  stray,     \* the things released or used without being held
  lost,      \* the things acquired again before they were released
  result,    \* "running", "submitted", "ok", "failed", or "oops"
  done,      \* calls of job_done
  zero       \* the caller was returned zero

vars == <<routine, pc, held, stray, lost, result, done, zero>>

UnwindAssumption == Routines \subseteq bsg_request \cup setup_routines

Init ==
  /\ routine \in Routines
  /\ pc = 1
  /\ held = routine.enters
  /\ stray = {} /\ lost = {}
  /\ result = "running"
  /\ done = 0
  /\ zero = FALSE

Running == result = "running" /\ pc <= Len(routine.steps)
step == routine.steps[pc]
At(op) == Running /\ step.op = op

--------------------------------------------------------------------------
(* What a label releases.                                                  *)

MsixIrqs == {"default irq", "rsp irq", "queue irq 1"}

\* qla2x00_free_irqs goes by the flags of the mode that was enabled last.
free_irqs(exit) ==
  IF ~exit.irqs THEN {}
  ELSE IF "msix entries" \in held
       THEN {"msix", "msix entries"} \cup (MsixIrqs \cap held)
  ELSE IF "msi" \in held THEN {"msi", "line irq"}
  ELSE {"line irq"}

\* Releasing without fail, and, for what may not be given back, with luck.
Release(exit, luck) ==
  LET blind == exit.all \cup free_irqs(exit)
  IN /\ held' = held \ (blind \cup exit.some \cup (IF luck THEN exit.hope ELSE {}))
     /\ stray' = stray \cup (blind \ held)

--------------------------------------------------------------------------
(* The steps.                                                              *)

Next_step == pc' = pc + 1

\* A thing is acquired.
Acquire ==
  /\ Running /\ step.op \in {"get", "take"}
  /\ held' = held \cup step.res
  /\ lost' = lost \cup (IF step.op = "get" THEN held \cap step.res ELSE {})
  /\ Next_step
  /\ UNCHANGED <<routine, stray, result, done, zero>>

\* The step fails and the routine leaves through its label.
Fail ==
  /\ Running /\ MayFail(step)
  /\ \E luck \in BOOLEAN : Release(step.exit, luck)
  /\ result' = IF step.exit.zero THEN "ok" ELSE "failed"
  /\ done' = done + (IF step.exit.done THEN 1 ELSE 0)
  /\ zero' = step.exit.zero
  /\ UNCHANGED <<routine, pc, lost>>

\* The step fails and the routine goes on elsewhere.
Skip ==
  /\ Running /\ step.op \in {"get", "try"} /\ step.jump > 0
  /\ \E luck \in BOOLEAN : Release(step.exit, luck)
  /\ pc' = pc + step.jump
  /\ UNCHANGED <<routine, lost, result, done, zero>>

\* A test is passed, a call succeeds.
Pass ==
  /\ At("try")
  /\ Next_step
  /\ UNCHANGED <<routine, held, stray, lost, result, done, zero>>

PassOver ==
  /\ At("put")
  /\ \E luck \in BOOLEAN : Release(step.exit, luck)
  /\ Next_step
  /\ UNCHANGED <<routine, lost, result, done, zero>>

\* Following a pointer to what is not there ends everything.
Touch ==
  /\ At("use")
  /\ stray' = stray \cup (step.res \ held)
  /\ result' = IF step.res \subseteq held THEN "running" ELSE "oops"
  /\ Next_step
  /\ UNCHANGED <<routine, held, lost, done, zero>>

Answer ==
  /\ At("done")
  /\ done' = done + 1
  /\ Next_step
  /\ UNCHANGED <<routine, held, stray, lost, result, zero>>

GoTo ==
  /\ Running
  /\ \/ step.op = "jump" /\ pc' = pc + step.jump
     \/ /\ step.op = "given"
        /\ pc' = pc + (IF step.res \subseteq held THEN 1 ELSE step.jump)
  /\ UNCHANGED <<routine, held, stray, lost, result, done, zero>>

\* Something that needs no more than to be there is allocated, or not.
Meanwhile ==
  /\ At("maybe")
  /\ \E more \in BOOLEAN : held' = held \cup (IF more THEN step.res ELSE {})
  /\ Next_step
  /\ UNCHANGED <<routine, stray, lost, result, done, zero>>

\* The request is with the firmware; zero goes to the transport.
Submitted ==
  /\ At("submit")
  /\ result' = "submitted"
  /\ zero' = TRUE
  /\ Next_step
  /\ UNCHANGED <<routine, held, stray, lost, done>>

\* Its completion answers the job and gives back what belongs to the request.
Complete ==
  /\ result = "submitted"
  /\ held' = held \ routine.later
  /\ stray' = stray \cup (routine.later \ held)
  /\ done' = done + 1
  /\ result' = "ok"
  /\ UNCHANGED <<routine, pc, lost, zero>>

Finish ==
  /\ result = "running" /\ pc > Len(routine.steps)
  /\ result' = "ok"
  /\ zero' = TRUE
  /\ UNCHANGED <<routine, pc, held, stray, lost, done>>

Next ==
  \/ Acquire \/ Fail \/ Skip \/ Pass \/ PassOver \/ Touch \/ Answer \/ GoTo
  \/ Meanwhile \/ Submitted \/ Complete \/ Finish

Spec == Init /\ [][Next]_vars

--------------------------------------------------------------------------
(* What is known to be wrong, named routine by routine.                    *)

Known(table, name) == UNION {row[2] : row \in {r \in table : name \in r[1]}}

Probes(C) == {"probe_one " \o c : c \in C}
Allocs(C) == {"mem_alloc " \o c : c \in C}

Leaks == {
  \* a reply that cannot be mapped leaves the request mapped
  <<{"ct", "els_host", "els_rport"}, {"request map"}>>,
  \* the dummy port of a job turned away because the host is offline
  <<{"els_host"}, {"fcport"}>>,
  \* mempool_free instead of qla2x00_rel_sp
  <<{"bidir", "fx_mgmt"}, {"vha reference"}>>,
  \* labels of mem_alloc that skip what the chip has, or test for one chip
  <<Allocs({"8021", "8044"}), {"srb_mempool"}>>,
  <<Allocs({"8044"}), {"dl_dma_pool", "fcp_cmnd_dma_pool"}>>,
  <<Allocs({"2100"}), {"sns_cmd"}>>,
  <<Allocs({"2100", "2300", "FX00"}), {"async_pd"}>>,
  \* scsi_add_host fails
  <<{"vport_create"}, {"host", "timer", "vport count"}>>,
  <<Probes({"2031", "8031"}), {"dpc_lp_wq", "dpc_hp_wq"}>>,
  \* the firmware refuses to delete the queue of a port
  <<{"vport_delete"}, Queue1>>,
  \* msix_entries or the line interrupt cannot be had
  <<Probes({c \in Chips : MsixCapable(c)}), {"msix"}>>,
  <<Probes({c \in Chips : MsiCapable(c)}), {"msi"}>>,
  \* mappings that only remove_one unmaps
  <<Probes({"2031", "2071", "2532", "8031"}), {"mqiobase"}>>,
  <<Probes({"2031", "2071", "8031"}), {"msixbase"}>>,
  \* nx_pcibase is unmapped when it is zero; unmap_iobases forgets the 8044
  <<Probes({"8021", "8044"}), {"nx map"}>>,
  <<Probes({"8044"}), {"doorbell map", "dsd lists"}>>,
  \* nothing ever frees the FCP priorities
  <<Probes({"2432", "8432", "2532", "8021", "8044"}), {"fcp prio cfg"}>>,
  \* a probe that fails late
  <<Probes({"8031"}), {"drv presence"}>>,
  <<Probes({"8432"}), {"cs84xx"}>>,
  <<Probes({"FX00"}), {"req ring", "rsp ring"}>>,
  \* the single queue mode is entered with the interrupts of the other
  <<Probes({"2532", "8031"}),
    {"wq", "line irq", "default irq", "rsp irq", "msix entries"}>>}

Strays == {
  \* sp->free before qla2x00_init_timer has set it
  <<{"fx_disc"}, {"sp->free"}>>,
  <<{"alloc_fw_dump again"}, {"eft", "fce"}>>,
  <<{"vport_create"} \cup Probes({"2532", "8031"}),
    {"req ring 1", "rsp ring 1", "req bit given back before 1",
     "rsp bit given back before 1"}>>,
  <<Probes({"2532", "8031"}), {"wq"}>>,
  \* labels of mem_alloc that free what the chip has not
  <<Allocs(Chips) \cup Probes(Chips), {"ctx_mempool", "ct_sns", "ms_iocb", "ex_init_cb"}>>,
  \* the failures of mem_alloc and of alloc_queues are taken for success
  <<Probes(Chips), {"req", "rsp", "req_q_map", "rsp_q_map"}>>,
  \* pci_disable_device, pci_release_selected_regions and kthread_stop
  \* after what they undo has failed
  <<Probes(Chips), {"pci device", "regions", "dpc thread"}>>,
  \* qla83xx_nic_core_fw_load covers a failure of init_rings
  <<Probes({"8031"}), {"firmware rings"}>>}

Losses == {
  <<Probes({"2532", "8031"}),
    {"msix", "msix entries", "default irq", "rsp irq", "firmware rings"}>>}

--------------------------------------------------------------------------
(* Properties.                                                             *)

TypeOK ==
  /\ routine \in Routines
  /\ pc \in 1..(Len(routine.steps) + 1)
  /\ held \subseteq routine.enters \cup UNION {routine.steps[i].res : i \in DOMAIN routine.steps}
  /\ result \in {"running", "submitted", "ok", "failed", "oops"}
  /\ done \in 0..1
  /\ zero \in BOOLEAN

\* A routine that has failed, at whatever step, holds no more than it was
\* entered with, and one that has succeeded no more than it is there to
\* acquire: every label of the ladders (qla2x00_probe_one, qla2x00_mem_alloc,
\* the done_ labels of qla_bsg.c) gives back all that was acquired above it.
NothingLeft ==
  /\ result = "failed" => held \subseteq routine.enters \cup Known(Leaks, routine.name)
  /\ result = "ok" => held \subseteq routine.keeps \cup Known(Leaks, routine.name)

\* No label releases what is not there (it was released before, never
\* acquired, or belongs to someone else by now), and no step follows a pointer
\* to what an earlier failure has left unallocated.
TouchesOnlyHeld == stray \subseteq Known(Strays, routine.name)

\* Nothing is acquired a second time while the first one is held, which
\* would leave no way to it.
NothingLost == lost \subseteq Known(Losses, routine.name)

\* A job is answered exactly once: by job_done if the transport was returned
\* zero, by the transport if it was returned an error, never by both.
JobAnsweredOnce ==
  routine.job =>
    /\ result \in {"ok", "failed"} => done = (IF zero THEN 1 ELSE 0)
    /\ result = "submitted" => done = 0
=============================================================================
