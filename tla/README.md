# A TLA+ verification project for scst-qla2xxx

The driver (`src/drivers/scsi/qla2xxx`) runs QLogic Fibre Channel adapters under
the Linux SCSI midlayer.  The firmware of the adapter does the protocol; the
driver feeds it requests through rings in shared memory and through mailbox
registers, takes its answers in interrupts, and resets it when it stops
answering.  What is hard to get right, and hard to test, is what several actors
do at once: submitters, the interrupt handler, the SCSI error handler, the DPC
thread, the one-second timer, and the drivers of the adapter's other functions.

This directory holds TLA+ models of that logic, TLC configurations that check
them on small instances, and proofs checked by TLAPS.  Every definition names
the code it stands for in `PROJECT.json` ("map"); hazards, runs, mutants and
findings are listed there too.  File names below are relative to
`src/drivers/scsi/qla2xxx`.

    tlc -workers 2 -config Mailbox_any_time.cfg MCMailbox    # one run
    tlapm Mailbox_proof.tla                                  # one proof module

## 1. Inventory

| Component | Code | State | Operations | Interacts with | Hard behaviour | What makes it correct |
|---|---|---|---|---|---|---|
| Request ring | `qla_iocb.c` | ring, `ring_index`, `cnt`, firmware's out-index and its copy in memory | `start_scsi` (four variants), `alloc_iocbs`, `init_rings` | firmware; all that submit | cached counts, lagging copy, wrap, the last slot | a FIFO that loses nothing; the cached room is real |
| SCSI command path, abort | `qla_os.c`, `qla_iocb.c`, `qla_isr.c`, `qla_mbx.c` | srb `ref_count`, `outstanding_cmds`, `handle`, `status_srb`, response queue | `queuecommand`, `start_scsi`, response queue, `eh_abort`, `abort_all_cmds`, `init_rings` | midlayer, firmware, reset | abort waits without a lock while the command completes, is flushed, or its handle is reused | references match paths; no completion goes astray; every command returns |
| Response queue, events | `qla_isr.c` | response ring, link and port flags | entry handlers, `async_event` | submitters, DPC, discovery | multi-entry sense data; events in any order | as above; each event ends in the resync it calls for |
| Mailbox commands | `qla_mbx.c`, `qla_isr.c` | `mbx_cmd_comp`, `mbx_intr_comp`, `mcp`, `mbox_int`, `MBX_INTR_WAIT` | `mailbox_command`, `mbx_completion` | everyone | turns, late answers, two ways of waiting, a reset from inside | one at a time, own answers, no completion left over |
| Adapter reset | `qla_init.c` | `ISP_ABORT_NEEDED`, `ABORT_ISP_ACTIVE`, `ISP_ABORT_RETRY`, `isp_abort_cnt`, `online` | `abort_isp`, `abort_isp_cleanup`, `restart_isp` | mailbox, ring, DPC | who runs it; retries; failures inside | runs once at a time; a failed one is tried again; it ends |
| DPC thread, timer | `qla_os.c` | `dpc_flags`, `loop_state`, `loop_down_timer` | `do_dpc`, `timer` | all of the above | tests and clears of flags that others set | no request is lost |
| IDC lock, 83xx | `qla_os.c` | `DRIVER_LOCK`, `DRIVER_LOCKID`, `LOCK_RECOVERY` registers | `idc_lock`, recovery, `idc_unlock` | drivers of the other functions | no atomic operation but the lock read; holders that die | stuck locks are freed, recovery never wedges |
| IDC states (83xx, 82xx, 8044) | `qla_os.c`, `qla_nx.c`, `qla_nx2.c` | device state, presence, acknowledgements, reset owner | state handlers, quiescence | IDC lock, reset, DPC | several drivers agree on one reset | one owner; nobody resets under an unprepared driver |
| Asynchronous requests | `qla_init.c`, `qla_iocb.c` | srb timers, completions | login, logout, ADISC, task management, abort | interrupt, work list | timer against interrupt against waiter | freed once; the waiter wakes |
| Discovery, login, port state | `qla_init.c`, `qla_gs.c` | `fcport->state`, `login_retry`, loop ids | `configure_loop`, relogin, `mark_device_lost` | DPC, events, transport class | events during a resync; answers that come after the port has moved on | a port on the fabric is not given up; no two logins at once; it becomes quiet |
| Work list | `qla_os.c` | `work_list` | `post_work`, `do_work` | interrupt, DPC | – | each item done once, in order |
| Virtual ports, multi-queue | `qla_mid.c`, `qla_attr.c` | `vp_list`, `vref_count` | create, delete, walks | interrupt, reset | deletion against a walk | no walk over a freed port |
| ISPFX00 | `qla_mr.c` | own copies of the above | own mailbox, status, timer | – | as above | as above |
| PCI probe, remove, recovery | `qla_os.c` | `pci_error_state`, adapter flags | probe, remove, EEH callbacks | all | tear-down order | no thread survives its data |
| Firmware dumps | `qla_dbg.c`, `qla_tmpl.c` | `fw_dumped`, dump buffer | dumps, template walk | mailbox, reset | – | one dump kept |
| Flash, NVRAM; 82xx and 8044 chip access | `qla_sup.c`, `qla_nx.c`, `qla_nx2.c` | chip registers | read, write, erase, ROM lock | sysfs | – | sector arithmetic |
| Sysfs, BSG, debugfs | `qla_attr.c`, `qla_bsg.c`, `qla_dfs.c` | optrom state, loopback flags | attribute handlers | mailbox, reset | user requests beside a reset | one user at a time |
| Definitions, build files | `*.h`, makefiles | – | – | – | – | – |

`PROJECT.json` lists the components with their status, and under "hazards" what
is hard to test in each, at the line where it bites.

## 2. Modules

| Module | Models |
|---|---|
| `FifoQueue` | the abstract promise of a request ring: a bounded FIFO |
| `ReqRing` | the request ring, its two kinds of submitters, the firmware's side, the reset |
| `ScsiIo` | the life of SCSI commands with interrupt, abort and chip reset |
| `IocbBuild` | what a request occupies: ring entries, data segment descriptors and the lists they live in, mappings; how a failed start gives them back |
| `AsyncSrb` | logins, task management, aborts and pass-through jobs, ended by answers, timers, waiting threads, resets or the transport |
| `Mailbox` | the mailbox protocol, the interrupt that answers it, `abort_isp` with its retries, the reset part of the DPC loop |
| `MbxCommands` | the commands themselves: the wrappers of `qla_mbx.c`, their registers, IOCBs and buffers |
| `IdcLock` | the lock between the functions of an 83xx adapter |
| `IdcState` | resets of the 83xx NIC core agreed between the drivers of its functions |
| `P3pIdc` | resets of the 82xx and 8044, which each function's driver runs by itself, and PCI error recovery of the 82xx |
| `PortLogin` | sessions with target ports: work list, asynchronous logins, relogin, loop resync, link events |
| `FwDump`, `Minidump` | dumps of failed firmware: layout and allocation, the dump routines of all adapters, the reader |
| `Steps`, `BsgRoutines`, `SetupRoutines`, `Unwind` | error ladders: the requests of `qla_bsg.c`, and probe, remove, queues, virtual ports and buffers, with every step failing |
| `VportList` | the list of virtual ports: creation and deletion, the walks, and who holds `vref_count` |
| `MCReqRing`, `MCScsiIo`, `MCMailbox`, `MCIdcLock`, `MCIdcState`, `MCPortLogin`, `MCAsyncSrb`, `MCP3pIdc`, `MCFwDump` | the instances for TLC |
| `MCRoutines` | one instance for the four parts that meet none of the others, `MbxCommands`, `IocbBuild`, `Unwind` and `VportList`: each behaviour is one of one of the four |
| `Mailbox_proof`, `PortLogin_proof`, `AsyncSrb_proof`, `ScsiIo_proof`, `P3pIdc_proof`, `FwDump_proof` | theorems and proofs about the modules of these names |
| `Idc_proof` | theorems and proofs about `IdcLock` and `IdcState`, whose names are kept apart so that one module can speak of both |
| `RingAndVports_proof` | theorems and proofs about `ReqRing`, and about the virtual ports and the builders of requests of `MCRoutines` |

Variables have the names of the code's fields.  Definitions that begin with
"Slip:" belong to no specification: each is a plausible bug in the definition
that follows it, and the property named with it in `PROJECT.json` ("mutants")
catches it.

**ReqRing.**  Each submission holds `hardware_lock` throughout and is one action:
refresh `cnt` if it is too small, refuse or charge it, write the entries, tell
the chip.  `StartScsi` stands for the variants of `start_scsi`, which keep two
entries of head room; `StartDif` for the protection variant, which charges one
entry and may give it back; `StartPlain` for `alloc_iocbs`, which keeps no head
room.  `FwFetch` advances the out-index and knows nothing but the two indices;
`FwPublish` writes the copy in memory that some chips have, at any later time.
How many entries a command needs (`CalcIocbs`) is computed apart from how many
the build loop writes (`IocbsBuilt`), as in the code.  `misled` is a history
variable: a request without head room has taken the last entry before an
out-index somebody counts from, or more than the copy shows as free, since the
rings were last cleared.

**ScsiIo.**  One action per critical section of `hardware_lock`, so what happens
between two sections interleaves.  The interrupt handler keeps the lock until
the response queue is empty (`in_isr`).  The firmware completes, fails, or gives
sense data in several entries, and may lose a command.  `eh_abort` takes seven
steps; the midlayer runs one at a time per host.  The reset stops the chip,
flushes, clears the rings and comes back.  The ring's room is left to `ReqRing`:
`HostBusy` may happen at any time.  An abort may be answered "no such command"
whenever the command is no longer in the firmware; `crossed` is a history
variable with the commands whose completion, flush or reset that answer has
crossed, and those whose slot or srb its last step reaches.

**Mailbox.**  A thread's `pc` marks the points where `mailbox_command` can be
interrupted with effect: before the turn, in the wait, between the end of the
wait and the clearing of `MBX_INTR_WAIT`, before the decision who resets, and
between the test of the reset flags and the setting of `ABORT_ISP_ACTIVE`.
Threads outside a reset issue commands with or without `IOCTL_CMD`; `abort_isp`
issues `SetupCmds` commands in the name of its thread.  An answer has an age,
"current" or "late", which the driver cannot see.  The DPC loop is modelled with
its skip while a command is in the mailbox, its test-and-clear of
`ISP_ABORT_NEEDED` and its test-and-set of `ABORT_ISP_ACTIVE` as two steps, and
at its end enables the interrupts that a failed reset has left disabled.  A reset
fails because a command timed out or was answered with an error, or for reasons
of its own (chip diagnostics, the rings, a firmware that does not become ready):
the firmware may be alive then.  `outer` counts the `abort_isp`s of a thread that
wait for one of their commands whose timeout called `abort_isp` again.  Three
history variables say what the properties depend on: `given_up`, a command was
given up with its answer on the way; `crossed`, `abort_isp` was called while it
ran; `lost_retry`, the request for another attempt was dropped.

**IdcLock.**  One action per register access, since on the 83xx each access is a
mailbox command and accesses of different functions interleave.  The two seconds
a waiter grants may end at any point.  The stage-2 mask of the code
(`STAGE2 | ~stage_mask`, applied with "and") is modelled by what it computes,
which is stage 0.

**IdcState.**  The four shared registers, and for each FCoE function the place of
its thread of `dpc_hp_wq` (or of probe) in `nic_core_reset` and
`idc_state_handler`, the works that are queued, what the thread of `dpc_lp_wq`
has read, and its flags.  The IDC lock of `IdcLock` is a plain lock here: an
action is a stretch under the lock, and `Locked`, `Briefly` say whether the
thread keeps it.  The sleeps of one second without the lock are steps, after
which the handler looks at the registers again, its timeouts expired or not.
What is left between two stretches under the lock is a place of its own: the
look at the heartbeat (`alive`, `start`), the restart, the end of the work before
`hdlr_active` is cleared (`leave`), the time between `nic_core_fw_load` and the
creation of the work queues (`probing`), in which events are lost.  Drivers of
other protocols are external: they acknowledge, and conduct resets of their own.

**PortLogin.**  `dpc.at` is the place of the DPC thread in one round of its loop:
the work list (`work` is what is posted, `todo` what the thread has taken),
`abort_isp`, relogin, loop resync with its scan.  Link events, answers, timers and
failing commands change ports, `loop_state` and `dpc_flags` between any two of
its steps; where the code tests a condition and acts on it later (`Ready` and
`SetReady`, `Configure` and `ClearUpdates`, `ReadDatabase` and `LoginOk`) there are
two steps.  `sent` holds a port's requests in the firmware, which works on them
in order.  `mishaps` is a history variable that only the properties read.

**AsyncSrb.**  The steps that hold `hardware_lock` (`start_sp`, the interrupt
handler, `sp_timeout`, `abort_all_cmds`) are one action each.  A timer has a
state of its own for a handler that has begun and waits for the lock, because
`del_timer` does not wait for it.  `frees` counts how often the srb went back
to the pool, `slot` and `handle` are `outstanding_cmds` and `sp->handle`; `said`
is what the firmware answered and `told` what the requester was told, and
`ender` whose answer it was, which the driver cannot see.

**P3pIdc.**  `at` is where a function's DPC thread (or probe) is in the state
handler; `dpc_flags` what its watchdog has asked for.  As in `IdcState` an action
is a stretch under the IDC lock, here a plain lock, and the sleeps without it
are steps.  `Is82xx` tells the two adapters apart: who owns a reset, when its bit
in `DRV_STATE` is written, and who is taken out of `DRV_ACTIVE`.  The set
`faults` is chosen at the start and names the disturbances of a behaviour.  A
step that does not wait for a thread that is late - a timeout, a look that comes
before another thread has done its part - is guarded by `Within`, which enters
the function in the history variable `late`; most properties speak of a behaviour
up to the first such step (`InTime`).

**FwDump.**  A dump routine runs under `hardware_lock` or in the one reset
handler and is one action.  What it writes is a set of areas with an offset, a
length and the number of the dump; lengths are small constants.  The 27xx
template and the minidump template are walked twice as in the code, once for
the size and once to fill the buffer; `Minidump` gives for each type of entry
how many words it appends and what a poll that times out makes of it.  Around
the dumps queues come and go, traces are freed, firmware and templates are
replaced, and a process reads through sysfs.

**MbxCommands.**  A call is a record of what a wrapper does: registers it writes,
names in `out_mb` and `in_mb`, and hands on, by adapter and by the
options it tells apart.  `mcp` lies on the stack uncleared, so `unset` holds what
has not been written.  Values are abstracted to where they came from.

**IocbBuild.**  Each start routine is one action: it counts, takes, builds with
its own loops, and may fail at each step.  `built` compares what was announced,
counted and written; `sps` is what each command holds until `sp_free_dma`.
`jiffies` wraps, and `time_after` compares as the code does.

**Steps, BsgRoutines, SetupRoutines, Unwind.**  A routine is a sequence of steps;
each step that can fail carries what the label it jumps to gives back.  `Unwind`
carries them out with any one step failing and keeps what is held, what was
released without being held and what was acquired over something held.  What the
code does leave behind is listed, routine by routine, in the tables `Leaks`,
`Strays` and `Losses` of `Unwind`: the properties say that there is nothing else.

**VportList.**  `stage` is how far the transport's thread is with a port.
`vport_slock` is a spinlock, so that what runs under it is one action; of the
mutex `vport_lock` the model keeps who sleeps with it (`deallocate_vp_id`), and
the other sections under it are one action that waits.  The walks of the
interrupt handler, the DPC thread and `abort_isp` are each at a port with a
reference, and take and give back references together with the steps in the
list; `mark_busy` counts before it looks at `delete_progress`.  `robbed` is a
history variable that only `IdsDiffer` reads.

### Abstractions

- VportList: each port is created once; work of an event is posted one at a
  time; after `scsi_remove_host` no new command comes.  The references of
  `update_fcports` and of the first walks of `abort_isp` are those of the walks
  modelled; `report_id_acquisition` is left out (finding 21).

- AsyncSrb: an srb's memory is not given to another request after it was freed;
  timers do not expire before `start_sp`; the ring has room or not.
- P3pIdc: quiescence, drivers of other protocols, the version registers and
  `ql2xdontresethba` are left out.
- FwDump: one poll times out per minidump; the external memories of the 27xx
  fail together; the contents of what is read is left out.
- Unwind: one failure in each run of a routine; `running_gold_fw` is left out.
- MbxCommands: three wrappers that do not have a mailbox command of their own
  (`write_mpi_register`, `get_thermal_temp`, `report_id_acquisition`) are left
  out.
- Data, formats and registers that no property is about are left out.
- Mailbox: the P3P doorbell and its premature exits, and PCI error states, are
  left out.  The commands `abort_isp` issues after it is online (the traces of
  the firmware) count among `SetupCmds`.  `abort_isp`'s test of `online` and its
  clearing in `abort_isp_cleanup` are one step.  The loop-down timer appears only as `AskReset`, without
  fairness: nothing that is shown relies on it.
- IdcLock: a register access does not fail; the ten looks `idc_unlock` takes at
  the lock id are one, because an id that is not its own never comes back while
  it looks.
- IdcState: register accesses do not fail; quiescence, the version and audit
  registers and the option `ql2xdontresethba` are left out; of the reset of the
  FC core only the part that touches the presence register is there.
- PortLogin: a switched fabric, chips that log in asynchronously, loop ids and
  work items never run out.  "lost" also stands for a port that has not been
  online yet.  The loop-down timer, four minutes, does not expire in the middle
  of a round that found the loop up.  A link that came up stays known as a
  fabric.
- ScsiIo: each command is issued once (a requeued one starts over); a port is
  online exactly when the adapter is.

## 3. Runs

A property that is a conjunction names its parts, each with its own comment in
the module; the mutants of such a property break different parts.

| Run | Shows |
|---|---|
| `ring_any_use` | with any requests, and an out-index read from the register or from its lagging copy: equal indices mean an empty ring, cached room is real, and the ring implements `FifoQueue`, until a request without head room has taken what it should not (`misled`) |
| `io_two_faults` | references match paths, no `done` at zero, no command is forgotten, completions find their commands, `eh_abort` says SUCCESS only for a returned command, the commands of a crossed abort excepted; a command returns or its abort fails |
| `mbx_any_time` | with early timers, stale samples and direct resets by two threads: turns; own answers and no completion left over unless a command was `given_up`; `ABORT_ISP_ACTIVE` with one reset at a time unless one was `crossed`; retries not forgotten but in the one way of `lost_retry`; a timeout leads to a reset; every command and reset ends |
| `mbx_lost_retry` | violation: the request for another attempt is consumed while the failed one is still flagged active |
| `idc_crash` | a stage of the recovery always has a function to clear it; a dead holder's lock is freed |
| `login_fabric` | `FCF_ASYNC_SENT` never outlives its exchange; no two logins of a port at once; a port that stays reachable is not dropped with a clean record; the driver becomes quiet |
| `nic_resets` | beside a driver of another protocol, one function at a time conducts a reset; it does not restart the firmware under a participant; an idle function is not marked as owner |
| `nic_progress` | with two functions: none is restarted under; handlers end; a queued reset makes the firmware run or gives it up; a NIC core given up is given up by all who are told |
| `p3p_idc` | on the 82xx and the 8044: one function starts the firmware, and only while the others are quiet; who issues commands takes part in the IDC, with rings of this firmware; acknowledgements belong to a reset under way; one hang makes one reset, and is handled; all up to the first late step |
| `srb_timers` | a request is freed once and not found in a slot afterwards; its answer finds it and no other; success was said; requests with a timer end |
| `fw_dumps` | a dump stays in its buffer and touches live memory; what the reader is offered is whole and laid out as its headers say; the minidump buffer has its template's size; nothing overwrites a dump that is being read |
| `routines` | no garbage goes to or comes from the mailbox; failed IOCBs are reported; entries written are the entries counted; whatever step fails, what was acquired is given back once, nothing else is, and a job is answered once; beside them, a virtual port that is walked over, or has work or a command, is in the list, and listed ports have ids of their own |

### Bounds, and why they suffice

- Ring: seven entries, commands of one to three entries (5 with head room),
  requests without head room of one and two entries and any number of them at a
  time, every fill level, wrap position and out-index lag.  The proofs remove
  the bound.
- Commands: two commands with two faults (lost commands or resets), so that a
  reset can hit a command that the firmware lost before, and a second reset the
  recovery from the first; three commands with one fault, so that the two handles
  run out and are reused (`MCNext`); one entry in the response queue, behind which
  the firmware keeps the others; sense data with one continuation.  Commands are
  interchangeable, so that liveness is asked of one.  Three commands with two
  faults were checked once, and the safety properties with two entries in the
  queue besides.
- Mailbox: the DPC thread and another one, one command each outside resets, one
  command per reset, one retry, one fault: a timeout during the turn of another
  thread, resets of both threads that cross, a failed reset, a failed retry and a
  disabled board all occur, since resets may fail and timers expire by
  themselves.  With two faults everything holds too, and with three the safety
  properties; the proofs remove the bounds of these.
- IDC: three functions (a holder, a forcing waiter and a third one), one crash.
- IDC states: one FCoE function with a driver of another protocol and four
  disturbances (hangs, fatal errors, failing restarts and configuration reads,
  unloads, user requests, FC resets), and two FCoE functions with two hangs or
  failing restarts; timeouts are free and may expire whenever time can have
  passed.  An adapter has at most two FCoE functions, so only the disturbances
  are bounded.  The safety properties were also checked once with two functions
  and two disturbances of any kind (2.1 million states).  `nic_progress` has no
  init timeout, which would end every handler, no unload and no user requests:
  after an unload of the lower function nobody is left to become the owner, and
  an application's request during the start of the owner is lost in the same gap
  as in finding 11.
- Ports: one target port, FCP2 or not, there or not at the start; two
  disturbances (a link loss, a port that leaves, returns or logs out, a refused
  login, an expired timer, a failed submission or scan, a reset) and as many
  retries, so that retries do not run out because of disturbances alone.  Ports
  share only `dpc_flags`, the loop state and the order of the work list; with
  two ports the state space is out of reach (`FlagComesBack` is proved for any
  number).  With three disturbances, three retries and a plain port that is on
  the fabric at the start, the same holds.
- Asynchronous requests: three requests of seven kinds in four mixes, two
  handles, one reset.  Three requests on two handles let a handle be reused
  while an older answer or timer is due, which is what every exception named in
  the properties needs.
- P3P: two functions, which is what an adapter has, and two disturbances; all
  kinds that need no late thread together, and each late kind with three others.
  Three disturbances take longer than a check should; looked at one adapter at a
  time, with `MaxEvents = 3`, everything holds too.
  The properties hold up to the first step that does not wait for a late thread
  (`InTime`); `OneStarter`, with two functions, holds even after it.
- Dumps: every adapter; two request queues and one response queue besides the
  first; two firmware versions of which the second has more memory and other
  templates; two dumps; five changes (three on the 27xx).  Template entries: one
  of each type.  Two queues created and one deleted is the shortest way to a gap
  in their numbers.
- Routines: every wrapper with every option and adapter it tells apart; up to
  twelve plain segments (two full continuation entries) and every layout of up to
  three protected ones; two commands in flight; every routine with each of its
  steps failing.
- Virtual ports: two, with room for one id or two, one thread with commands, and
  the three walks side by side; each port comes and goes while the other takes
  its id.  Nothing else is bounded.
- Deadlock is not checked in `ScsiIo`, `Mailbox`, `IdcState`, `PortLogin`,
  `AsyncSrb`, `P3pIdc` and `MCRoutines`: with all requests issued, all faults
  spent or the routine at its end the system rightly stops.  It is checked in the
  others.

### What the environment takes away

Some properties hold only where the environment behaves.  That is not assumed: a
history variable, which no guard reads, records the step that takes the property
away, and it holds up to there.

| History variable | Records | Until then | Afterwards |
|---|---|---|---|
| `misled` (`ReqRing`) | a request without head room took the last entry, or more than the copy of the out-index shows | `CreditIsSound`, `EqualIndicesMeanEmpty`, FIFO | finding 1 |
| `crossed` (`ScsiIo`) | commands whose abort crossed another end of theirs | `SrbsAreSound` of these commands; the other properties except them | finding 2 |
| `given_up` (`Mailbox`) | the wait for a command ended with its answer on the way | `OwnAnswer`, `NoLeftoverWakeup` | finding 3 |
| `crossed` (`Mailbox`) | `abort_isp` was called while it ran | one reset at a time | finding 4 |
| `lost_retry` (`Mailbox`) | the DPC thread took the request for a retry in vain | a retry is pending | finding 5, run `mbx_lost_retry` |
| `late` (`P3pIdc`) | functions that did not wait for a late thread | `InTime` | finding 15 |

`misled`, `given_up`, the `crossed` of `Mailbox` and `lost_retry` are cleared by
what makes up for them: the clearing of the rings, a reset that finds the
mailbox free, the end of one of two resets, the next reset.

`TimeoutsAreOvercome` of `Mailbox` depends on `lost_retry` alone: early timers,
stale samples and crossed resets do not keep a command from ending or the
firmware from being reset.

`ShadowCapable` of `ReqRing` is a kind of chip: its out-index is read from a copy
that lags.

`PortLogin` keeps what goes wrong inside the driver in `mishaps`; its properties
name those they exclude, each because it breaks them:

| Property | Holds without | Otherwise |
|---|---|---|
| `NoStuckAsync` | a failed submission | `do_work` ignores the result of `async_login` and the flag stays set |
| `OneLogin` | resets and expired SRB timers | both forget an exchange whose answer or logout is still due |
| `PortsComeBack` | failed submissions, failed scans, a link event between the test and the store of `LOOP_READY`, overlapping exchanges | the port is not logged in to until the next state change |
| `Settles` | exchanges that overlap for ever | they log each other out for ever |

### Fairness

Weak fairness only, with two exceptions, and on nothing but steps the code or the
chip takes by itself:

- threads that are in a function go on (`MailboxStep`, `IspStep`, `EhStep`,
  `LockStep`, `UnlockStep`, `AbortIspStep`), because every wait in them has a
  timeout;
- the DPC thread runs, because the timer wakes it each second;
- the firmware fetches and answers while it lives, and interrupts are delivered;
- the midlayer's timer ends in `eh_abort` (`EhAbort`);
- a reset that is asked for begins (`ResetChip` in `ScsiIo`; that this holds is
  what `Mailbox` checks);
- the firmware answers every request of a port, and the fabric delivers its state
  changes (`FwAnswers`, `Rscn` in `PortLogin`); links need not come back;
- strong fairness on `ForceRecovery` in `IdcLock`: real time passes, so the
  two seconds of a waiter that keeps looking do end;
- strong fairness on the steps of `IdcState` that need the IDC lock (`HpStep`,
  `ServiceAen`, `FcResetEnd`, `OtherStep`): its holders sleep without it for
  200 ms or more each time, and a waiter looks more often than that
  (`qla83xx_idc_lock`, `qla83xx_wait_logic`).  Drivers that begin to load get to
  the IDC (`FwLoad`); a driver that never loads would leave the others waiting
  for an owner.

- `AsyncSrb`: timers expire, their handlers get the lock, and a thread that was
  woken runs; nothing is assumed of the firmware, which may never answer;
- `P3pIdc`: a function's watchdog runs each second, its DPC thread goes on, and
  the PCI error handler calls `resume`; strong fairness on the steps of the
  threads (`HandlerStep`, `ThreadStep`), which need the IDC lock, as in `IdcState`.

Submitting, crashing, losing, resetting without need and new mailbox commands
have no fairness.

## 4. Findings

Each was met while a property was being stated.  Finding 5 has
a run and is quoted in `PROJECT.json`; for the others, what shows them is said
here: a change of a `.cfg`, or the exception that the property named spells out
and that TLC violates when it is taken away.

1. `alloc_iocbs` uses the last ring slot, after which a full ring looks empty
   (`qla_iocb.c:1839`), "Check for room on request queue" (`qla_iocb.c:1814`)
   notwithstanding: `ReqRing_any_use.cfg` with the invariant
   `EqualIndicesMeanEmpty`.  On a chip that publishes its out-index in memory the
   in-index may overtake the copy in the same way.
2. `eh_abort` drops the firmware's reference on "no such command" although the
   completion may be in the response queue (`qla_os.c:992`).  A chip reset
   between that answer and its use completes the command as well.
   `ScsiIo_two_faults.cfg` with the invariant `NoDoneAtZero`, even with
   `MaxFaults = 0`: `done` finds the count at zero, which is a `BUG()` with extended
   logging (`qla_os.c:666`).  In one order the count reaches zero before anybody
   frees the command, and `eh_abort` says SUCCESS for a command that is never
   returned.
3. Between the end of the wait and the clearing of `MBX_INTR_WAIT` the interrupt
   may complete `mbx_intr_comp`; the next command wakes at once
   (`qla_mbx.c:169`).  `Mailbox_any_time.cfg` with the invariant
   `NoLeftoverWakeup`.  A restart that fails with the firmware alive
   (`qla_init.c:4735-4758`) leaves the interrupts off until the end of the DPC
   loop (`qla_os.c:5099`); the answer to a command that timed out in between ends
   the next one.  The same file with `OwnAnswer`.
4. The flags that keep resets apart are tested and set in separate steps
   (`qla_mbx.c:334`), and not only "in the DPC thread" (`qla_mbx.c:330`), since
   other threads issue commands without `IOCTL_CMD`: `Mailbox_any_time.cfg` with
   the invariant `ResetsRunAlone`.
5. A failed direct reset asks for another before it clears `ABORT_ISP_ACTIVE`;
   the DPC thread may consume the request in between (`qla_mbx.c:354`; run
   `mbx_lost_retry`).  A command that times out while a reset is about to report its
   success asks for no reset either, because the flag it finds set is about to be
   cleared (`qla_mbx.c:309`): the premise `~active` of `TimeoutLeadsToReset`.
6. The recovery of the IDC lock compares two reads of the same round and not the
   id the wait began with (`qla_os.c:4388`).  `IdcLock_crash.cfg` with
   `MaxCrashes = 0` and the invariant `OnlyStuckLockIsForced`.
7. `mark_device_lost` asks for a retry only when the count of retries is zero; a
   request that came too early is consumed, and the retries that are left are
   never made (`qla_os.c:3327`).  `PortLogin_fabric.cfg` with the invariant
   `RetriesPending`.
8. A reset that is refused because resets are disabled leaves
   `nic_core_reset_owner` set (`qla_init.c:4283`), "iff" the comment at
   `qla_init.c:4179` notwithstanding.  `IdcState_resets.cfg` with the invariant
   `OneOwner`.
9. The bootstrap clears the whole IDC control word, disabled resets included,
   although it has computed one without the graceful-reset bit only
   (`qla_os.c:4633`).  `IdcState_progress.cfg` with the faults "hang" and "disable"
   and the property `OnlyEnabledByUser`.
10. The state handler tests its timeout before the state and may overwrite READY
    with FAILED (`qla_os.c:4668`; `qla_nx.c:3236`).  `IdcState_progress.cfg` with
    "init_timeout" among the faults and the property `ReadyStays`.
11. The wait of a function that is not the owner has no timeout
    (`qla_init.c:4303`).  If the owner's error event comes before its work queues
    exist (`qla_os.c:4137`) it lasts for ever, and an unload with it.
    `IdcState_progress.cfg` with the property `WaitsEnd`.
12. Error events are skipped until the reset work has ended, although the
    firmware runs again before (`qla_os.c:4137`).  `IdcState_progress.cfg` with the
    property `ErrorIsHandled`.
13. Asynchronous requests.  `alloc_iocbs` enters the srb in its slot before it
    looks for room, and a caller without room frees it there
    (`qla_iocb.c:1810`).  `sp_timeout` empties the slot of its handle and frees the
    srb without looking whether it is still there (`qla_init.c:54`), and frees a
    task management request that the thread it wakes frees again
    (`qla_init.c:321`).  An answer to a request that was given up ends the next
    owner of its handle.  `els_ct_entry` reports success whatever the status;
    `tm_iocb_entry` only logs its error; a thread that a reset wakes reads success.
    Exceptions of `SlotsAreLive`, `FreedOnce`, `OwnAnswer`, `SuccessIsReported`.
14. Job timeouts and loopback: `bsg_timeout` finds three types of request only
    (`qla_bsg.c:2245`); an ADISC or logout that times out posts nothing
    (`AsyncSrb`, `BsgTimeout` and `TimerRuns`).
15. P3P resets with a late thread, that is, without `InTime`: a function that loads
    during NEED_RESET acknowledges and the bit stays; the owner's first comparison
    of acknowledgements is not masked (`qla_nx.c:3063`); a late function puts a
    READY device to COLD, or one that is being started and that a failing probe has
    marked FAILED (`qla_nx.c:3104`, "Force to DEV_COLD unless someone else is
    starting a reset", and `qla_os.c:2783`): `P3pIdc_all.cfg` with
    `Chips = {"82xx"}`, `Fcoe <- MCThreeFcoe`, `FaultSets <- MCLateAck`,
    `MaxEvents = 1` and the invariant `OneStarter`.  On the 8044 a late function is taken
    out of `DRV_ACTIVE` and keeps running (`qla_nx2.c:1689`), and
    `dev_failed_handler` clears its bit after it unlocked (`qla_nx2.c:1994`).  A
    function whose `abort_isp` failed sets `online` again after it was disabled
    (`qla_nx.c:3531`); the result of `restart_isp` is ignored (`qla_nx.c:3526`).
    The search for the recovering function ends at function 0, so that several may
    own the reset when 0 is among them (`qla_os.c:5537`); a function that is
    offline when a PCI error comes keeps its wish for a reset (`qla_os.c:5531`),
    and the device is reset once more when it has recovered.
    In time, too: a recovery makes an 82xx READY without taking back an earlier
    ownership of the reset (`qla_os.c:5570`), and the two owners of the next one
    acknowledge nothing and wait for each other until `fcoe_reset_timeout`
    (`OwnersWait`).  An 8044 function taken out of `DRV_ACTIVE` that is left alone
    stays in its state handler for ever: it may not start the reset it has asked
    for (`qla_nx2.c:1710`), and after the timeout only a function in `DRV_ACTIVE`
    writes FAILED (`qla_nx2.c:1938`); `NobodyTakesPart` in `HangsEnd`.
16. Dumps.  Firmware replaced by one with more memory (`qla_init.c:1490`), or a
    27xx template by a longer one, overruns the buffer; the 83xx path after a RISC
    that cannot be paused reads a quarter of the memory and reports a good dump
    (`qla_dbg.c:2333`); `copy_mqueues` stops at the first number that is free; the
    chain bit of an earlier dump stays on the 81xx and 83xx; the 27xx writes over
    a dump being read; a written template frees the buffer without a lock and
    leaves `fw_dumped` set; a failed `md_alloc` leaves its size in `md_dump_size`
    (`qla_nx.c:4375`) and no minidump succeeds until it is cleared; `fw_dump` "2"
    on P3P, and a forced reset of the 8044 (`qla_nx2.c:1430`), drop a waiting
    dump; `no_md_cap` outlives the reset it was set for.  Exceptions of the
    properties of `FwDump`.
17. Minidump entries: `pollwr` tests `r_value & poll` and not the mask; an `rdmem`
    whose agent times out returns success without data; a template of void
    entries, or whose last poll fails, counts as failed (`Minidump`).
18. Ring entries.  A pass-through job of the FX00 with several segments both ways
    writes more entries than it reserved (`qla_bsg.c:2015`); a CT job with several
    request segments announces all and describes one; a CDB of more than 16 bytes
    without protection ends in `BUG()` (`qla_iocb.c:1314`) or is sent without its
    CDB; the retry delay is compared with zero as if zero were a time
    (`qla_os.c:750`).  Exceptions of the properties of `IocbBuild`.
19. Mailbox wrappers.  `init_req_que`, `init_rsp_que`, `set_fcp_prio` and
    `configure_vfs` send registers they never wrote; the completion of
    `logout_iocb` and the entry status of `modify_vp_config` and `verify_chip` are
    dropped.  `Careless` and `DropsStatus` of `MbxCommands`.
20. Error ladders.  `Leaks`, `Strays` and `Losses` of `Unwind` name them one by one;
    the larger ones: `-ENOMEM` of `mem_alloc` and `alloc_queues` is taken for
    success (`qla_os.c:2637`, 2690); a failed `kthread_create` is passed to
    `kthread_stop`; the test before `iounmap` is inverted for P3P; a failed
    `scsi_add_host` leaves the work queues, or the virtual port;
    a reference to the host is kept by two failing BSG requests; the fcport of an
    ELS job of an offline host leaks.
21. Virtual ports.  `vport_delete` clears the bit of the id a second time when
    another port may have it (`qla_attr.c:2165`): the exception `robbed` of
    `IdsDiffer`.  A port that `scsi_add_host` refused stays in `cur_vport_count`
    (`PortsAreCounted` counts `add_failed`), which `delete_all_vps` waits for; its
    timer is not stopped; a host without an id is not given back (stage
    "leaked").  From reading, without a property: `deallocate_vp_id` sleeps with
    `vport_lock` until nobody holds the port (`qla_mid.c:64`), while the walk of
    `abort_isp` holds it and waits for `vport_lock` in `control_vp` or `enable_vp`
    (`qla_mid.c:181`): neither ends.  Work posted for a port is done only while
    the topology is a fabric (`qla_mid.c:368`), so that the deletion may wait as
    long.  `report_id_acquisition` uses a port without a reference
    (`qla_mbx.c:3284`).  `control_vp` refuses the last id `allocate_vp_id` gives
    (`qla_mbx.c:3401`).

## 5. Proofs

| Theorem | States | Assumes |
|---|---|---|
| `CalcIocbsExact` | entries charged = entries written, every format and segment count | – |
| `NeverLooksEmptyWhenFull` | `[]OnlyOthersFillTheRing`, any mix of requests | nothing; the property itself says `misled` |
| `RingAlwaysSound` (from `TypeCorrect`, `CreditAlwaysSound`) | `[]RingIsSound`, register and lagging copy | the same |
| `RingIsAFifo` | the steps of `ImplementsFifo`: each one appends a request, takes the oldest, drops all, changes nothing, or is the one at which the ring is `broken` | the same |
| `CommandsNeverOverlap` | `[]OneTurn` | nothing: any threads, faults and races |
| `ResetsNeverOverlap` | `[]OneReset` | the same; the property says `crossed` |
| `RetriesAlwaysPending` | `[]RetriesArePending` | the same; the property says `lost_retry` |
| `AnswersAlwaysOwn` | `[]AnswersAreOwn`, any threads, commands, faults and retries | the same; the property says `given_up` |
| `LockAlwaysSound` (from `LockTypeCorrect`, `StageAlwaysHasOwner`) | `[]LockIsSound` for any functions and crashes | – |
| `MarksAlwaysComeBack` (from `TypeCorrect`, `FlagComesBack`) | `[]MarksComeBack`, any number of ports, retries and disturbances | nothing; the property itself excludes a failed `start_sp` |
| `OneLoginAtATime` | `[]OneLogin`, the same | nothing; the property excludes resets and expired timers |
| `SrbsAlwaysSound` | `[]SrbsAreSound`, any number of requests, handles and resets | nothing; the property names its exceptions |
| `AnswersAlwaysReach` | `[]AnswersReachTheirRequest` | the same |
| `SuccessAlwaysReported` | `[]SuccessIsReported` | the same |
| `ReferencesAlwaysMatch` | `[]SrbsAreSound`, any commands, handles, queue and sense data, any resets and losses | nothing; the property excepts `crossed` commands |
| `CompletionsAlwaysMatch` | `[]CompletionsFindTheirCommand` | the same |
| `SuccessAlwaysMeansReturned` | `AbortSuccessMeansReturned` | the same |
| `OwnersAlwaysSound` | `[]OwnersAreSound`, any disturbances and any drivers of other protocols | nothing; the property excepts refused resets |
| `RestartsAlwaysPrepared` | `Prepared` of `IdcState` | nothing |
| `StartsAlwaysPrepared` | `[]StartsArePrepared` of `P3pIdc`, any of the functions 1 to 7 and any disturbances and late threads, either adapter | `NoFunction0`; the property speaks up to the first late step |
| `RunningAlwaysTakesPart` | `[]RunningTakesPart` | the same |
| `OneResetForEveryHang` | `OneResetPerHang` | the same |
| `VportsAlwaysSound` | `[]VportsAreSound`, any virtual ports, limits and users | nothing; the property names its exceptions |
| `CommandsAlwaysBuilt` | `[]CommandsAreBuilt`, any commands and jobs, sizes of blocks, lists and clock, and number of commands in flight | `IocbBuildAssumption`: at most 1024 segments a command, 128 each way a job; the property names its exceptions |
| `CommandsGiveBack` | `[]NothingLeft` of `IocbBuild`, a part of `AllIsGivenBack`, the same | the same |
| `DumpMemoryIsOwn` | `[]MemoryIsOwn`, any layouts, templates, queues and versions of the firmware | `FwDumpAssumption`; the property excepts firmware with more memory and templates replaced |
| `DumpAlwaysReadable` | `[]DumpIsReadable`, the same | `FwDumpAssumption`; the property says of each layout what is in it when memory, template or RISC fail |
| `DumpMdSize` | `[]MdSizeIsTemplates`, the same | `FwDumpAssumption`; the property excepts what follows a failed `md_alloc` |
| `DumpKeptForReader` | `KeptForReader`, the same | `FwDumpAssumption`; the property names its exceptions |

**ReqRing.**  `EqualIndicesMeanEmpty` is not inductive: it says nothing of a ring
that is almost full.  `IInv` says, unless the driver was misled (`Ring`), that the
occupied slots are exactly those from the out-index to `ring_index` (`Occupied`, so
their number is a function of the two indices), that `cnt` never exceeds what is
then free, and that the copy in memory lies on the stretch the firmware has passed
since (`Shadow`: room computed from it is too small, never too large).
`RoomIsReal` and `PostExtends` are the two facts the submitters share: the SCSI
path keeps an entry free by its own head room, whatever the others have left; a
request without head room keeps one too, or is the step at which `misled` becomes
true.  For `RingIsAFifo` the occupied slots, read from the out-index on, are the
abstract queue (`StretchIsQueue`): a request adds its entries at the end
(`PostAppends`), the firmware takes from the front (`FetchTakes`), a reset drops
everything (`ResetDrops`), and no other step moves an index.

**Mailbox.**  `TurnInv` says `mbx_cmd_comp` is 1 and no thread has the turn, or 0
and exactly one does; every action keeps, takes or passes it on
(`TurnKept`, `TurnTaken`, `TurnPassed`), and cardinalities come in only at the
end.  `ResetInv` counts who runs `abort_isp`: unless a call has crossed another,
`ABORT_ISP_ACTIVE` is set and one thread runs it, once (`outer`), or neither.
`RetryInv` adds to the property where the DPC thread is (`DpcBusy`: it resets, or
is about to, only in its loop, so a request it has cleared is one it serves) and
that an adapter to be tried again is online, but while an attempt has still to
say how it went (`RetryOnline`).  `AnswersAreOwn` needs to know of every answer on
the way, and who waits for it: while no command was given up with its answer on
the way, there is one answer at most, only while its command waits, and
`MBX_INTR_WAIT` and `mbx_intr_comp` say whether a sleeper has still to be woken
(`MsgInv`).  A reset that finds nobody in the mailbox brings this about again,
however things stood; for that the invariant must bound, even in between, how
often `mbx_intr_comp` may still be completed (`BoundInv`).

**IdcLock.**  `StageHasOwner` speaks of the `pc` of the owner LOCK_RECOVERY
names, so the invariant adds that a stage above zero names a function
(`StageNamesFunction`; the cleared register names 0, which need not be one).
A function leaves the recovery before the ownership check only if another one
has overwritten its entry (`OutsideRecovery`, `PastCheck`, `StageZero`).

**PortLogin.**  `NoStuckAsync` asks for an item or request that clears the flag,
and that item travels: work list, list in hand, firmware, work list again.  The
lemmas on the lists (`ClearsAppend`, `ClearsTail`, `SentTail` ...) say what is
gained at the end and lost at the head.  Two facts make it inductive: where the
DPC thread has items in hand, and that a successful login stays in hand while
the port database is read (`InHand`); and that no port is marked while
`abort_isp` flushes its requests (`NoneAtFlush`), since a flushed login clears
nothing.  `OneLogin` becomes inductive when it says more: a port has no exchange
under way while its flag is clear, one at most while it is set (`OneMarked`).
Exchanges are numbers of places in queues; `CountAppend` and `CountTail` say what
an item at the end adds to them and the head takes away.

**AsyncSrb.**  Neither `SlotsAreLive` nor `FreedOnce` is inductive: the thread that
was woken, the transport's timeout and a late timer free a request without
looking whether it is in a slot or was freed before.  `IInv` adds that a request
is in no slot but that of its handle (`SlotOfHandle`), that who wakes a thread or
expires a job has emptied that slot first (`OutOfSlot`), that a request is entered
once, when nothing knows it (`Fresh`), that answers and timers come with a handle
(`HasHandle`), and that freeing ends a request, the exceptions apart
(`FreedIsDone`).  For the answers, the exceptions themselves have to last: who has
lost its slot stays so, since the firmware answers a request once and an answer
ends a request once (`AnsweredOnce`, `Onward`, `DisplacedLasts`).  A thread may
have been woken while the answer to its request is still to come: by its timer,
or by the answer to another (`WokenByOther`); and the status it will read is one
of the reasons already (`StatusIsSound`).

**ScsiIo.**  A completion names a handle, and the handle may have been given away
since.  `IInv` therefore speaks of everything that holds a handle at once: while
the firmware runs, the slot of each command it holds and of each completion on
the queue has that command (`Agree`), and a command is in the firmware, or
completed on the queue, once (`Once`).  An error status is dropped while sense
data is awaited, so the invariant also says that continuations follow their status
with nothing between (`SenseFollows`, which is why `Isr` never meets another
status there).  References are counted along two paths, the driver's (slot, sense
data, submission) and `eh_abort`'s (`Refs`); a command is freed when the last of
them ends (`Freed`).  The answer "no such command", on which `eh_abort` empties the
slot by itself, stays true until it has done so, or the command is `crossed`
(`MissStays`).  The work is in keeping a crossed command apart from the others: it
drops no references but its own, and the slot its abort empties is its own, or
that of a command that becomes crossed by it.  The chip is reset only by a fault or
for a crossed command, whose completion finds an empty slot (`Stopped`).

**IdcState.**  That the owner is alone rests on three facts: only the lowest
function becomes one (`OwnerIsLowest`); a driver of another protocol that
conducts a reset is present, so that no owner is made meanwhile
(`OthersTakePart`); and none begins beside an owner, because it asks when it
reads READY, and the owner, which keeps the lock from writing READY to reading
it, reads it first and ceases to be one (`OwnerAlone`).  A restart is prepared
because an acknowledgement lasts as long as its function waits (`AckedWaits`),
the functions without one are withdrawn from DRV_PRESENCE, and COLD is read by
no function but the owner that wrote it, or while drivers are first loaded
(`ColdIsPrepared`).  Of the drivers of other protocols, which are external, the
proofs use that they conduct one reset at a time, a guard of `OtherAsks`; the
runs have one such driver.

**P3pIdc.**  Nobody is in charge of a reset: each function's driver goes its own
way through the shared registers.  That the firmware is started by one function,
with the others quiet, needs to be known from the acknowledgements on.  Who has
acknowledged is in the need-reset handler or on its way out (`AcksFit`); a
READY device has no participant in it, and nobody is on the way out of the last
reset when the next is asked for (`ResetsApart`); so when all participants have
acknowledged, or an owner gives up waiting for another owner that waits for it,
all of them wait, and stay so through COLD (`ColdIsQuiet`) until
the start is over (`StartIsQuiet`).  Participants are all that can run, but for
those that failed or were taken out (`PresentIsActive`, `FailedRests`).  On the
8044 nothing is written between: that no second function starts rests on the
owner being the lowest (`OwnerIsLowest`, `StarterIsOwner`).  PCI errors keep
everyone out of the handler (`EehAlone`) and are recovered from in the order of
the functions (`EehInOrder`).  `OneResetPerHang` needs a second invariant, built
on the first: every wish for a reset - a flag of a DPC thread, NEED_RESET, an
acknowledgement, COLD - is there because a reset is due (`FlagsAreDue`,
`ResetsAreDue`), and when the firmware is alive again no such wish is left,
since the watchdogs leave alone who handles a reset (`Unflagged`, `HungIsDue`).

All this holds up to the first late step (`InTime`), and the proof shows that no
other step breaks it: what makes a step late is its own guard (`Within`), not an
assumption on the environment.  Afterwards two functions keep to one starter
still, three do not (finding 15).  `NoFunction0` is a statement about the board, on
which function 0 belongs to another protocol.  The invariants were checked by TLC
with three functions before they were proved.

**VportList.**  That whoever uses a port finds it in the list rests on the
references: a deletion takes the port out of the list when `vref_count` is zero.
`VportInv` therefore says of every holder what it holds: who walks the list,
who has work or a command for a port, and the counts are the numbers of those
(`HeldIsListed`, `RefsAreHeld`, `UsingIsGot`).  A port is in the list exactly in
the stages between its id and its removal, once, and the list is as long as
`num_vhosts` says (`StageIsListed`, `ListIsCounted`); a port whose addition
failed is at one of the stages towards its end (`FailedAreGone`), which the count
of the ports needs.  The counts are cardinalities of sets that change by one
element at each step (`OneMoves`); what a port at the end adds to the list, and
the deletion takes out of it, is said once (`Appended`, `Removed`).

**IocbBuild.**  What is counted is a formula, what is written the result of a loop
over the segments; the loops are folds, and as with `FwDump` (below) their values
are those of lists of partial results (`FoldSteps`, `IntervalFold`).  Each loop then
has an invariant of its own.  The builders of entries: the descriptors put so far
are those of the entries begun, less the room left in the last (`PutIs`,
`BuiltFrom`, `BidirIs`).  The builders of lists: the descriptors announced and those
used differ by what the current list has room for, and a walk that announced all
that it puts begins no list for none (`WalkIsWhole`).  The cutting into protection
intervals: the bytes passed are the whole blocks cut and the part begun, so that
there are no more whole blocks than the length announced holds (`WholesFit`).
`CommandInv` puts this together over any sequence of commands: what the last
builder did is right (`RightFact`); of the DSD lists, `gbl_dsd_inuse` is the sum of
what the commands in flight hold, a command that holds lists is live and flagged as
the owner of them, and the lists at hand are those counted as such
(`HeldIsCounted`, for which `OutChanges` says what one command adds to the sum); and the
timestamp is as many ticks ahead of `jiffies` as the delay lasts, or behind by the
ticks since, modulo the width of the clock (`ClockIs`), which decides what
`time_after` answers (`RefusalIsRight`).  1024 is `QLA_SG_ALL` (`qla_def.h:3592`), the value of
`ql2xsg_tablesize` unless the module's parameter says otherwise (`qla_os.c:228`): a table
of 1272 segments or more would need 256 entries, which the 8-bit `entry_count` does not hold.
For `CommandsGiveBack` the invariant says that everything a live command holds goes
with the flag on which `qla2x00_sp_free_dma` gives it back, and is held once
(`Paired`; DSD lists may be many, and go with their flag together): each step of a
start takes a thing and sets its flag, or its error path undoes it
(`PairedTake`, `PairedLists`, `P3pErrorIs`, `ErrorGivesBack`), and what is paired is
left with nothing (`FreeLeaves`).

**FwDump.**  What is allocated is the length of one list of areas, what is written
is another, made much later from other queues, traces and memory; the heart of the
proof is to compare the two.  Lengths are folds, which no prover unfolds: the
first sections of the proof show that a fold is the last of a list of partial
sums (`FoldSteps`, `OffsetsExist`, `LengthOf`), by taking the least number at which
two such lists differ (`LeastNat`, `FoldExists`, from the well-foundedness of the naturals, so
without induction over an operator).  From it follow that lengths of lists add up
(`Joined`), that areas lie behind one another within that length and leave no gap
(`PlaceTiles`), that a list whose areas are no longer than another's is no longer
(`Compared`), that the chain never exceeds the room kept for it and a walk of the
27xx template never a dry walk (`WalkFits`), and that a walk of a minidump's
entries adds at most what they claim, whichever poll times out (`WalkWithin`,
`MdFits`), and all of it when it ends where it should (`MdWhole`).  `BufferInv` says of the buffer which
layout it was made for, per adapter: its size as a function of the memory, the
event trace and the queues of then (`LaidBuffer`), of the template as it was
(`WalkedBuffer`), of the minidump template (`MdBuffer`); what can be there before
the first firmware (`FirstOfAll`, `NothingThere`); which traces an adapter has
(`TracesKnown`); and what the last dump says of its circumstances (`LastOK`).
`FitInv` adds what the latest dump has written.  That a dump is readable needs
besides that queues are pairs of a kind and a number (`ReadInv`): then what a
routine writes when nothing fails is the layout of the buffer (`BodyIsWritten`),
the areas of a list are those of its parts (`FilledJoin`), so that each queue there
was is found in the chain (`ChainedReads`) or the walk (`WalkedReads`), and the
steps that take no dump leave the one that is offered (`Calm`).

Only model-checked: all liveness properties, with the liveness part of
`ImplementsFifo`; and, of `MCRoutines`,
`AllIsGivenBack` (but for its part on commands), `WrappersAreFaithful`,
`OnlyHeldIsTouched` and `JobAnsweredOnce`.
Liveness is out of the prover's reach.  The four are about tables of routines and
wrappers that are given in full, so that TLC's exploration of every failing step
is no small instance of anything more general.

## 6. Plan

What is left, the most important first:

1. `PortLogin`, further: the loop and point-to-point topologies, LIP events,
   failing work items, two ports; an abstract specification of the DPC loop (a
   set of pending requests, each served after it was made) refined by the flags.
2. `VportList`, further: the unload (`delete_all_vps`) and the end of a deletion,
   which the code does not guarantee (finding 21).
3. Quiescence of the P3P adapters and the 83xx; the lock of `IdcState` as what
   `IdcLock` implements while no holder dies.
4. The reset handlers of the midlayer (device, target, bus, host) above the task
   management requests.
5. The optrom state machine of sysfs and the flash sector arithmetic: pure
   operators checked against reference definitions.
6. PCI error recovery of the adapters other than P3P; the FX00's own copies of
   mailbox, status and timer code.

Proofs: the safety parts of what the first two items add.

## 7. Not modelled

Register layouts, debug output, debugfs and build files have no behaviour of
their own.  ROM loaders, register lists of the dumps and the reset sequences of
the 8044 are data of the chip.  Flash and NVRAM access are sequential register
protocols with one user.  Of the FX00 only its resources and ring entries are
modelled, of several queues what they acquire and how they are dumped.
`PROJECT.json` says for each component what of it is left out.
