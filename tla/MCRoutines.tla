---------------------------- MODULE MCRoutines ----------------------------
(***************************************************************************)
(* The parts that do not meet one another: the wrappers of the mailbox     *)
(* commands (MbxCommands), the builders of ring entries (IocbBuild), the   *)
(* error ladders (Unwind), and the list of virtual ports (VportList).  The *)
(* four share no state; each behaviour is one of one of them, while the    *)
(* others stay as they start.                                              *)
(***************************************************************************)
EXTENDS Integers, FiniteSets, SequencesExt

CONSTANTS
  SrbSlots, Commands, Jobs, PerList, Chains, ShiftCtl, BlockSize, Jiffies, Delays,
  MbxChips, Routines, Vports, Limits, Users, NoPort

VARIABLES
  part,                                                      \* which of them
  mbx_chip, call, phase, unset, loaded, rval, iocb, buffer, given,
  ring_chip, sps, gbl_dsd, built, left, jiffies, retry_delay_timestamp,
  pending, old, refused,
  routine, pc, held, stray, lost, result, done, zero,
  max_npiv_vports, stage, add_failed, vp_idx, vp_idx_map, vp_list, num_vhosts,
  cur_vport_count, vport_lock, vref_count, work_list, at, doing, using, got, robbed

mbxVars == <<mbx_chip, call, phase, unset, loaded, rval, iocb, buffer, given>>
ringVars == <<ring_chip, sps, gbl_dsd, built, left, jiffies, retry_delay_timestamp,
              pending, old, refused>>
unwindVars == <<routine, pc, held, stray, lost, result, done, zero>>
vportVars == <<max_npiv_vports, stage, add_failed, vp_idx, vp_idx_map, vp_list, num_vhosts,
               cur_vport_count, vport_lock, vref_count, work_list, at, doing, using,
               got, robbed>>
routineVars == <<part, mbxVars, ringVars, unwindVars, vportVars>>

--------------------------------------------------------------------------
(* Bounds.                                                                 *)

Command(op, cdb, segs, prot) == [op |-> op, cdb |-> cdb, segs |-> segs, prot |-> prot]

Sum2(segs) == FoldSeq(LAMBDA a, b : a + b, 0, segs)

\* Every number of segments up to twelve, which is two full continuation
\* entries; and every layout of up to three segments for protection.
Plain == {Command("normal", 16, [i \in 1..n |-> 1], 0) : n \in 0..12}
Layouts == {segs \in UNION {[1..n -> 1..4] : n \in 1..3} : Sum2(segs) % BlockSize = 0}
Protected ==
  {Command("insert", 16, segs, 1) : segs \in Layouts}
  \cup {Command("strip", 32, [i \in 1..n |-> BlockSize], 0) : n \in 1..5}
  \cup {Command("pass", 16, [i \in 1..n |-> BlockSize], m) : n \in 1..5, m \in 1..3}
Long == {Command("normal", cdb, segs, 0) : cdb \in {18, 32}, segs \in {<<>>, <<2>>}}

Symmetry == Permutations(SrbSlots) \cup Permutations(Vports)

MCCommands == Plain \cup Protected \cup Long
MCJobs == [req : 1..8, rsp : 1..8]

\* One adapter of every family the wrappers tell apart.
MCMbxChips == {"2100", "2200", "2300", "2322", "2422", "8432", "2532", "8001",
            "8021", "2031", "8031", "8044", "2071"}

B == INSTANCE BsgRoutines
S == INSTANCE SetupRoutines
AllRoutines == B!bsg_request \cup S!setup_routines

M == INSTANCE MbxCommands WITH chip <- mbx_chip
U == INSTANCE Unwind
I == INSTANCE IocbBuild WITH chip <- ring_chip, Slots <- SrbSlots
V == INSTANCE VportList

ASSUME MCRoutinesAssumption ==
  M!MbxCommandsAssumption /\ I!IocbBuildAssumption /\ U!UnwindAssumption
  /\ V!VportListAssumption

--------------------------------------------------------------------------

\* The parts that do not run start in one state only.
RoutinesInit ==
  /\ part \in {"mbx", "ring", "unwind", "vports"}
  /\ M!Init /\ (part # "mbx" => mbx_chip = "2532")
  /\ I!Init /\ (part # "ring" => ring_chip = "25xx")
  /\ U!Init /\ (part # "unwind" => routine = CHOOSE r \in Routines : TRUE)
  /\ V!Init /\ (part # "vports" => max_npiv_vports = CHOOSE n \in Limits : TRUE)

MbxNext ==
  part = "mbx" /\ M!Next /\ UNCHANGED <<part, ringVars, unwindVars, vportVars>>
RingNext ==
  part = "ring" /\ I!Next /\ UNCHANGED <<part, mbxVars, unwindVars, vportVars>>
UnwindNext ==
  part = "unwind" /\ U!Next /\ UNCHANGED <<part, mbxVars, ringVars, vportVars>>
VportNext ==
  part = "vports" /\ V!Next /\ UNCHANGED <<part, mbxVars, ringVars, unwindVars>>

RoutinesNext == MbxNext \/ RingNext \/ UnwindNext \/ VportNext

RoutinesSpec == RoutinesInit /\ [][RoutinesNext]_routineVars

--------------------------------------------------------------------------
(* The properties of the four, whose parts their modules explain.         *)

\* Types of the four.
RoutinesTypeOK == M!TypeOK /\ I!TypeOK /\ U!TypeOK /\ V!TypeOK

\* Mailbox wrappers: what goes to the firmware was written by the wrapper,
\* what is handed on came from the firmware, and an IOCB the firmware has
\* failed is not reported as done.
WrappersAreFaithful == M!NoGarbageSent /\ M!AnswersAreRead /\ M!IocbErrorsReported

\* Whichever step fails, what was acquired before is given back, once: the DMA
\* buffer of a mailbox wrapper, what a command holds, and what the routines of
\* BSG and of the set-up hold.
AllIsGivenBack == RoutinesTypeOK /\ M!BufferReturned /\ I!NothingLeft /\ U!NothingLeft

\* Builders of ring entries: no more is written than was counted, what is
\* announced is what was written, the DSD lists hold what was counted, and the
\* adapter's counters of these lists are right.  A command the driver offers to
\* take is sent, with its CDB, and is refused only while the target has asked
\* for a delay.
CommandsAreBuilt ==
  /\ I!WrittenIsReserved /\ I!ToldWhatIsWritten /\ I!ListsAreFilled /\ I!ListsAreCounted
  /\ I!CommandIsSent /\ I!RefusedWhileDelayed

\* Error ladders: nothing is released or used that is not held, and nothing
\* is acquired over what is held.
OnlyHeldIsTouched == U!TouchesOnlyHeld /\ U!NothingLost

\* Error ladders: a job of the transport is answered exactly once.
JobAnsweredOnce == U!JobAnsweredOnce

\* Virtual ports: a port somebody walks over, or has work or a command for, is
\* in the list; the references are those that are held; ports of the list have
\* ids of their own; and the count of ports is of those there are.
VportsAreSound == V!RefsAreHeld /\ V!UsedIsListed /\ V!IdsDiffer /\ V!PortsAreCounted
==========================================================================
