------------------------------- MODULE FwDump -------------------------------
(***************************************************************************)
(* Firmware dumps: a buffer is laid out and allocated once, from sizes the *)
(* firmware reports then; much later, when the firmware has failed, a dump *)
(* routine fills it from what the adapter has now; and a process reads it  *)
(* through sysfs while the adapter is reset, its queues come and go, and   *)
(* its firmware is replaced.                                               *)
(*                                                                         *)
(* There are three kinds of dumps: a fixed layout with a chain of records  *)
(* behind it (2100 to 83xx), a template that is walked once to compute the *)
(* size and again to fill the buffer (27xx), and the minidump of the P3P   *)
(* adapters, whose template is the firmware's (82xx, 8044).  A dump runs   *)
(* under hardware_lock, or in the one reset handler of a P3P function, and *)
(* is one action.  The contents are abstracted to who wrote what where: an *)
(* area of the dump has an offset, a length and the number of the dump.    *)
(***************************************************************************)
EXTENDS Integers, FiniteSets, SequencesExt, Minidump

CONSTANTS
  ChipSet,      \* the adapters looked at
  MaxQueue,     \* the highest number of a queue of each kind
  Firmware,     \* the versions of the firmware, from 1
  Mem,          \* external memory of each version
  Walked,       \* 27xx: what each template reads of registers and tables
  MdEntries,    \* P3P: the minidump template of each adapter and version
  Hdr, Regs, Ram, Req, Rsp, ExtraRsp, Eft, Fce, Mq, QueHdr, Tmpl, \* lengths
  MaxDumps,     \* bound: dumps taken
  MaxChanges,   \* bound: changes of firmware, templates and queues
  MaxLen        \* bound: md_dump_size

P3P == {"82xx", "8044"}
Chips == {"2100", "2300", "2322", "24xx", "25xx", "81xx", "83xx", "27xx"} \cup P3P
Fwi2 == {"24xx", "25xx", "81xx", "83xx"}
FceChips == {"25xx", "81xx", "83xx", "27xx"}
Laid == Chips \ (P3P \cup {"27xx"})

Kinds == {"req", "rsp"}
Queues(kind) == 1..MaxQueue[kind]

Total(s) == FoldLeft(LAMBDA a, b : a + b, 0, s)

\* Templates: what a file of sysfs has written so far, the driver's own, one
\* that came through sysfs, and those of the versions of the firmware.
None == 0
Partial == 1
Default == 2
User == 3
Of(f) == 3 + f
Templates == {Default, User} \cup {Of(f) : f \in Firmware}

ASSUME FwDumpAssumption ==
  /\ ChipSet \subseteq Chips
  /\ MaxQueue \in [Kinds -> Nat]
  /\ IsFiniteSet(Firmware) /\ Firmware = 1..Cardinality(Firmware)
  /\ Mem \in [Firmware -> {n \in 4..4000 : n % 4 = 0}]
  /\ Walked \in [Templates -> Nat \ {0}]
  /\ MdEntries \in [P3P -> [Firmware -> Seq(Entries(Types8044))]]
  /\ \A c \in P3P, f \in Firmware : Claimed(MdEntries[c][f]) > 0
  /\ {Hdr, Regs, Ram, Req, Rsp, ExtraRsp, Eft, Fce, Mq, QueHdr, Tmpl} \subseteq Nat \ {0}
  \* Headers are 20 bytes, a ring is at least 32 KB, queues are at most 255;
  \* RESPONSE_ENTRY_CNT_MQ is less than RESPONSE_ENTRY_CNT_2300.
  /\ (MaxQueue["req"] + MaxQueue["rsp"]) * QueHdr <= Req + Rsp
  /\ ExtraRsp <= Rsp
  /\ MaxDumps \in Nat /\ MaxChanges \in [ChipSet -> Nat] /\ MaxLen \in Nat

VARIABLES
  chip, mqenable,
  fw,           \* the running firmware; 0 before the first
  fce, eft,     \* trace buffers: "none", "live", or "stale": freed, not cleared
  buf,          \* fw_dump (md_dump on P3P): its size and what its header says
  len,          \* fw_dump_len (md_dump_size)
  variant,      \* DUMP_CHAIN_VARIANT in the header's version
  areas,        \* what has been written into it
  fw_dumped, fw_dump_reading,
  queues,       \* the queues in req_q_map and rsp_q_map, besides queue 0
  tmplt,        \* fw_dump_template; on P3P md_tmplt_hdr
  spare,        \* on P3P: the fw_dump nobody uses
  reset,        \* P3P: the reset under way
  no_md_cap,    \* isp82xx_no_md_cap, or GRACEFUL_RESET_BIT1 on the 8044
  prev_minidump_failed,
  starved,      \* md_alloc found no memory since md_dump_size was cleared
  dumps, last,  \* the number of dumps, and the circumstances of the last
  changes       \* for the bound

sysfs == <<fw_dumped, fw_dump_reading>>
dumpBuffer == <<buf, len, variant, areas>>
traces == <<fce, eft>>
p3p == <<spare, reset, no_md_cap, prev_minidump_failed, starved>>
taken == <<dumps, last>>
dumpVars == <<chip, mqenable, fw, traces, dumpBuffer, sysfs, queues, tmplt, p3p, taken, changes>>

Change == changes < MaxChanges[chip] /\ changes' = changes + 1
MdBuf(size) == [size |-> size, mem |-> 0, tmplt |-> None, eft |-> 0, chain |-> 0]
NoBuf == MdBuf(0)
NoDump == [mem |-> 0, tmplt |-> None, hammered |-> FALSE, lost |-> {}, freed |-> {}, queues |-> {}]
A(name) == <<name, 0>>
Ring(kind, q) == IF kind = "req" THEN Req ELSE IF q = 0 THEN Rsp ELSE ExtraRsp

--------------------------------------------------------------------------
(* Layouts.  A list of areas with their lengths, one behind the other.     *)

Length(list) == Total([i \in DOMAIN list |-> list[i].len])
P(area, n) == <<[area |-> area, len |-> n]>>
If(c, list) == IF c THEN list ELSE <<>>

\* The areas of list that are not empty, the first of them at offset at.
Place(list, at) ==
  {[area |-> list[i].area, at |-> at + Length(SubSeq(list, 1, i - 1)),
    len |-> list[i].len] : i \in {j \in DOMAIN list : list[j].len > 0}}

\* qla2xxx_copy_queues.
copy_queues == P(A("req"), Req) \o P(A("rsp"), Rsp)

\* The layout a buffer is allocated for.
Body(mem, eft_size) ==
  P(A("regs"), Regs) \o P(A("ram"), Ram)
  \o If(chip # "2100", P(A("ext"), mem))
  \o copy_queues
  \o If(eft_size > 0, P(A("eft"), eft_size))

\* Slip: what is behind the chain's start is not counted.
mq_sizeSlip(on) == IF on /\ chip # "83xx" THEN Mq ELSE 0
\* Room for as many queues as the adapter has, the first one included.
mq_size(on) ==
  IF ~on THEN 0
  ELSE (IF chip = "83xx" THEN 0 ELSE Mq) + (MaxQueue["req"] + 1) * Req + (MaxQueue["rsp"] + 1) * Rsp

\* qla25xx_copy_mqueues stops at the first number that is not in use.
\* Slip: the last queue is left out.
CreatedSlip(kind) ==
  {q \in Queues(kind) \ {MaxQueue[kind]} : \A p \in 1..q : <<kind, p>> \in queues}
Created(kind) == {q \in Queues(kind) : \A p \in 1..q : <<kind, p>> \in queues}
copied(kind) ==
  [q \in 1..Cardinality(Created(kind)) |-> [area |-> <<kind, q>>, len |-> QueHdr + Ring(kind, q)]]
copy_mqueues == If(mqenable, copied("req") \o copied("rsp"))
copy_fce == If(fce # "none", P(A("fce"), Fce))
copy_mq == If(mqenable /\ chip # "83xx", P(A("mq"), Mq))
Chain == IF chip \in FceChips THEN copy_mq \o copy_fce \o copy_mqueues ELSE <<>>

\* Walking the 27xx template.  The entries of a kind are taken for one.
registers(t) == P(A("regs"), Walked[t])        \* of the chip: t256 to t261
remote(t) == P(A("remote"), Walked[t])         \* behind it: t269, t270, t273, t275
t262(mem) == P(A("ext"), mem)
t264(fce_now) == If(fce_now # "none", P(A("fce"), Fce))
t268(eft_now) == If(eft_now # "none", P(A("eft"), Eft))
t272 == P(A("mpi"), Ram)
\* Queues and their shadow pointers; when there is no buffer yet (dry), as if
\* every queue were there.
Present(kind, dry) == {q \in 0..MaxQueue[kind] : q = 0 \/ <<kind, q>> \in queues \/ dry}
t263(kind, dry) ==
  [i \in 1..MaxQueue[kind] + 1 |->
     [area |-> <<kind, i - 1>>,
      len |-> IF i - 1 \in Present(kind, dry) THEN QueHdr + Ring(kind, i - 1) ELSE 0]]
t274(kind, dry) ==
  P(<<"shadow", IF kind = "req" THEN 0 ELSE 1>>, Cardinality(Present(kind, dry)) * (QueHdr + 1))

walk_template(t, mem, fce_now, eft_now, dry) ==
  P(A("template"), Tmpl) \o registers(t) \o t262(mem)
  \o t263("req", dry) \o t263("rsp", dry)
  \o t264(fce_now) \o t268(eft_now)
  \o remote(t) \o t272 \o t274("req", dry) \o t274("rsp", dry)

--------------------------------------------------------------------------
(* qla2x00_alloc_fw_dump.  Each allocation may fail; the size of a buffer  *)
(* that is there is never looked at again.                                 *)

\* Slip: the trace buffers are given back but still pointed to.
NoMemorySlip(fce1, eft1) ==
  /\ fce' = (IF fce1 = "none" THEN "none" ELSE "stale")
  /\ eft' = (IF eft1 = "none" THEN "none" ELSE "stale")
  /\ UNCHANGED dumpBuffer
NoMemory(fce1, eft1) ==
  /\ fce' = "none" /\ eft' = "none"
  /\ UNCHANGED dumpBuffer

\* A trace buffer that is there is freed; if the new one cannot be had, the
\* adapter keeps the pointer.
Again(had, ok) == IF ok THEN "live" ELSE IF had = "none" THEN "none" ELSE "stale"

new_fce(ok) == IF chip \in FceChips THEN Again(fce, ok) ELSE fce
new_eft(ok) == IF chip \in Fwi2 \cup {"27xx"} THEN Again(eft, ok) ELSE eft

\* The buffer for firmware f, by the traces that could be had.
new_buf(f, fce_ok, eft_ok) ==
  LET eft_size == IF chip \in Fwi2 /\ eft_ok THEN Eft ELSE 0
      fce_size == IF chip \in FceChips /\ fce_ok THEN Fce ELSE 0
      chain_offset == Hdr + Length(Body(Mem[f], eft_size))
      on == mqenable /\ chip \in Fwi2
  IN IF chip = "27xx"
     THEN [size |-> Length(walk_template(tmplt, Mem[f], new_fce(fce_ok), new_eft(eft_ok), TRUE)),
           mem |-> Mem[f], tmplt |-> tmplt, eft |-> 0, chain |-> 0]
     ELSE [size |-> chain_offset + mq_size(on) + fce_size,
           mem |-> Mem[f], tmplt |-> None, eft |-> eft_size, chain |-> chain_offset]

alloc_fw_dump(f) ==
  \E fce_ok, eft_ok, mem_ok \in BOOLEAN :
    IF buf # NoBuf THEN UNCHANGED <<traces, dumpBuffer, fw_dumped>>
    ELSE /\ fw_dumped' = FALSE
         /\ IF chip = "27xx" /\ tmplt = None
            THEN /\ fce' = new_fce(fce_ok) /\ eft' = new_eft(eft_ok)
                 /\ UNCHANGED dumpBuffer
            ELSE IF ~mem_ok \/ (chip = "27xx" /\ tmplt = Partial)
            THEN NoMemory(new_fce(fce_ok), new_eft(eft_ok))
            ELSE /\ fce' = new_fce(fce_ok) /\ eft' = new_eft(eft_ok)
                 /\ buf' = new_buf(f, fce_ok, eft_ok) /\ len' = buf'.size
                 /\ variant' = FALSE /\ areas' = {}

\* The firmware is started, for the first time or in a reset, and says how
\* much memory it has.  The buffer is allocated once.  The 27xx template is
\* loaded with the firmware, and replaced with it.
LoadedTemplates(f) == IF chip = "27xx" THEN {None, Default, Of(f)} ELSE {tmplt}
chip_setup(f) ==
  /\ Change
  /\ chip \notin P3P
  /\ fw # 0
  /\ fw' = f /\ tmplt' \in LoadedTemplates(f)
  /\ UNCHANGED <<chip, mqenable, traces, dumpBuffer, sysfs, queues, p3p, taken>>

\* The first time, by which the template has been loaded already.
first_setup(f) ==
  /\ chip \notin P3P
  /\ fw = 0 /\ fw' = f
  /\ tmplt \in {None, Default, Of(f)}
  /\ alloc_fw_dump(f)
  /\ UNCHANGED <<chip, mqenable, fw_dump_reading, queues, tmplt, p3p, taken, changes>>

\* Slip: the number is not compared with max_req_queues (max_rsp_queues).
UnusedSlip(kind) == {q \in 1..MaxQueue[kind] + 1 : <<kind, q>> \notin queues}
Unused(kind) == {q \in Queues(kind) : <<kind, q>> \notin queues}

\* qla25xx_create_req_que and _rsp_que take the first number that is free.
create_que(kind) ==
  /\ Change /\ mqenable /\ chip \notin P3P /\ fw # 0
  /\ Unused(kind) # {}
  /\ LET que_id == CHOOSE q \in Unused(kind) : \A p \in Unused(kind) : q <= p
     IN queues' = queues \cup {<<kind, que_id>>}
  /\ UNCHANGED <<chip, mqenable, fw, traces, dumpBuffer, sysfs, tmplt, p3p, taken>>

\* qla25xx_delete_req_que and _rsp_que.  (They hold no lock a dump takes: a
\* dump may copy a ring that has just been freed.)
delete_que ==
  /\ Change
  /\ \E q \in queues : queues' = queues \ {q}
  /\ UNCHANGED <<chip, mqenable, fw, traces, dumpBuffer, sysfs, tmplt, p3p, taken>>

--------------------------------------------------------------------------
(* The dump routines.                                                      *)

AreasOf(list) == {list[i].area : i \in DOMAIN list}

\* A dump writes some areas; what is not written stays.
Write(new) ==
  /\ dumps < MaxDumps /\ dumps' = dumps + 1
  /\ areas' = {x \in areas : \A y \in new : y.area # x.area}
              \cup {[area |-> y.area, at |-> y.at, len |-> y.len, by |-> dumps'] : y \in new}

\* Its circumstances: which traces it copied after they were freed, which
\* queues there were.
Took(list, hammered, lost) ==
  last' = [mem |-> Mem[fw], tmplt |-> tmplt, hammered |-> hammered, lost |-> lost,
           freed |-> {x \in AreasOf(list) : \/ x = A("fce") /\ fce = "stale"
                                            \/ x = A("eft") /\ eft = "stale"},
           queues |-> IF list = <<>> THEN {} ELSE queues]

\* What is written when the RISC does not pause, or fails while its registers,
\* its RAM or its external memory are read; and when nothing fails.
Reached(list, end) ==
  CASE end = "pause" -> <<>>
    [] end \in {"regs", "ram"} -> SubSeq(list, 1, 1)
    [] end = "ext" -> SubSeq(list, 1, 2)
    [] end = "done" -> list

\* Slip: an earlier dump is not looked for.
IdleSlip == buf # NoBuf
\* There is a buffer, and no dump in it.
Idle == buf # NoBuf /\ ~fw_dumped

\* Slip: a dump that failed is reported.
post_processSlip(end) == fw_dumped' = TRUE
\* qla2xxx_dump_post_process.
post_process(end) == fw_dumped' = (end \in {"done", "hammered"})

\* Slip: the length stays that of the buffer.
valid_lenSlip(chain) == buf.size
valid_len(chain) == buf.chain + Length(chain)

\* What the routines have in common.
dump_ram == P(A("regs"), Regs) \o P(A("ram"), Ram)
dump_memory == dump_ram \o P(A("ext"), Mem[fw])
copy_eft == If(eft # "none" /\ buf.eft > 0, P(A("eft"), buf.eft))

prep_dump(on) ==
  /\ chip \in on /\ fw # 0
  /\ Idle
  /\ UNCHANGED <<chip, mqenable, fw, traces, buf, fw_dump_reading, queues, tmplt, p3p, changes>>

\* A routine that writes list.
plain_dump(list, end) ==
  /\ Write(Place(Reached(list, end), Hdr))
  /\ post_process(end)
  /\ Took(If(end = "done", list), FALSE, {})
  /\ UNCHANGED <<len, variant>>

qla2100_fw_dump ==
  /\ prep_dump({"2100"})
  /\ \E end \in {"pause", "regs", "ram", "done"} : plain_dump(dump_ram \o copy_queues, end)
qla2300_fw_dump ==
  /\ prep_dump({"2300", "2322"})
  /\ \E end \in {"pause", "regs", "ram", "ext", "done"} :
       /\ end = "regs" => chip # "2300"          \* it does not wait for the ROM
       /\ plain_dump(dump_memory \o copy_queues, end)
\* A RISC that does not pause is only noted, in this routine and the next ones.
qla24xx_fw_dump ==
  /\ prep_dump({"24xx"})
  /\ \E end \in {"regs", "ram", "ext", "done"} :
       plain_dump(dump_memory \o copy_queues \o copy_eft, end)

\* The queue registers are the first record of the chain, before the RISC is
\* reset; the others are the last of the dump.
chained_dump(fixed, list, end) ==
  LET complete == end \in {"done", "hammered"}
      chain == IF complete THEN Chain ELSE copy_mq
  IN /\ Write(fixed \cup Place(chain, buf.chain))
     /\ post_process(end)
     /\ len' = IF complete THEN valid_len(chain) ELSE len
     \* Only qla25xx_fw_dump sets the version anew.
     /\ variant' = \/ variant /\ chip # "25xx"
                   \/ complete /\ chain # <<>>
     /\ Took(If(complete, list \o chain), end = "hammered", {})

fw_dump_25xx(end) ==
  LET list == dump_memory \o copy_queues \o copy_eft
  IN chained_dump(Place(Reached(list, end), Hdr), list, end)
qla25xx_fw_dump ==
  /\ prep_dump({"25xx"})
  /\ \E end \in {"regs", "ram", "ext", "done"} : fw_dump_25xx(end)
qla81xx_fw_dump ==
  /\ prep_dump({"81xx"})
  /\ \E end \in {"regs", "ram", "ext", "done"} : fw_dump_25xx(end)
\* Continues with a RISC that cannot be reset: it steps over the RAM and, as
\* it adds a number of words to a pointer to void, over a quarter of the
\* external memory.
qla83xx_fw_dump ==
  /\ prep_dump({"83xx"})
  /\ \/ \E end \in {"ram", "ext", "done"} : fw_dump_25xx(end)
     \/ LET queues_eft == copy_queues \o copy_eft
        IN chained_dump(Place(P(A("regs"), Regs), Hdr)
                          \cup Place(queues_eft, Hdr + Regs + Ram + Mem[fw] \div 4),
                        dump_memory \o queues_eft, "hammered")

\* qla27xx_fwdump looks neither at fw_dumped nor at the size of the buffer.  A
\* memory that cannot be read is stepped over.  (Bound: when the RISC does not
\* answer, it answers for neither memory.)
fwdump_27xx(lost) ==
  LET list == walk_template(tmplt, Mem[fw], fce, eft, FALSE)
  IN /\ chip = "27xx" /\ buf # NoBuf /\ tmplt \in Templates
     /\ Write({x \in Place(list, 0) : x.area \notin lost})
     /\ fw_dumped' = TRUE /\ len' = Length(list)
     /\ Took(list, FALSE, lost)
     /\ UNCHANGED <<chip, mqenable, fw, traces, buf, variant, fw_dump_reading, queues, tmplt, p3p, changes>>

Dump ==
  \/ qla2100_fw_dump \/ qla2300_fw_dump \/ qla24xx_fw_dump
  \/ qla25xx_fw_dump \/ qla81xx_fw_dump \/ qla83xx_fw_dump
  \/ \E lost \in {{}, {A("ext"), A("mpi")}} : fwdump_27xx(lost)

--------------------------------------------------------------------------
(* The minidump of the P3P adapters.                                       *)

template == MdEntries[chip][tmplt - Of(0)]
md_needs(t) == Claimed(MdEntries[chip][t - Of(0)])

\* Slip: the size is kept.
md_freeSlip == [has |-> FALSE, size |-> len]
\* qla82xx_md_free: md_dump_size is cleared when there was a buffer.
md_free == [has |-> FALSE, size |-> IF buf # NoBuf THEN 0 ELSE len]

\* qla82xx_md_prep after qla82xx_md_free: the template of the firmware and a
\* buffer for what it says it captures, which qla82xx_md_alloc adds to
\* md_dump_size.
md_prep(f, got, mem_ok) ==
  LET size == md_free.size + md_needs(Of(f))
  IN /\ areas' = {}
     /\ IF ~got
        THEN /\ buf' = NoBuf /\ len' = md_free.size /\ tmplt' = None
             /\ starved' = (starved /\ buf = NoBuf)
        ELSE /\ size <= MaxLen /\ len' = size
             /\ buf' = IF mem_ok THEN MdBuf(size) ELSE NoBuf
             /\ tmplt' = IF mem_ok THEN Of(f) ELSE None
             /\ starved' = ((starved /\ buf = NoBuf) \/ ~mem_ok)

\* qla82xx_check_md_needed, when the firmware has been started.
check_md_needed(f) ==
  /\ chip \in P3P /\ reset = "started"
  /\ fw' = f /\ reset' = "no"
  /\ IF ~fw_dumped /\ (fw' # fw \/ prev_minidump_failed)
     THEN \E got, mem_ok \in BOOLEAN : md_prep(f, got, mem_ok)
     ELSE UNCHANGED <<buf, len, areas, tmplt, starved>>
  /\ UNCHANGED <<chip, mqenable, traces, variant, sysfs, queues, spare, no_md_cap,
                 prev_minidump_failed, taken, changes>>

\* Requests that a reset take no minidump: sysfs (and on the 82xx the firmware
\* dump of a failure, and an update of the flash without any reset).
suppress(ask) ==
  /\ chip \in P3P /\ reset = "no"
  /\ chip = "8044" => ask
  /\ no_md_cap' = TRUE
  /\ reset' = IF ask THEN "asked" ELSE reset
  /\ UNCHANGED <<chip, mqenable, fw, traces, dumpBuffer, sysfs, queues, tmplt, spare,
                 prev_minidump_failed, starved, taken, changes>>
fw_hung ==
  /\ chip \in P3P /\ reset = "no" /\ fw # 0
  /\ reset' = "asked"
  /\ UNCHANGED <<chip, mqenable, fw, traces, dumpBuffer, sysfs, queues, tmplt, spare, no_md_cap,
                 prev_minidump_failed, starved, taken, changes>>

\* qla82xx_md_collect and qla8044_collect_md_data, in the function that
\* restarts the firmware.  Bound: one poll times out in a dump, of entry
\* fault[1] (0: none).
NoFault == <<0, 0>>
Fault == {NoFault} \cup
  {<<i, at>> : i \in 1..Len(template), at \in 1..2}
Room == buf # NoBuf /\ tmplt # None

\* Slip: the walk came to the end of the template.
md_doneSlip(w) == ~w.stopped
md_done(w) == ~w.stopped /\ w.ptr = len

Collected(w) ==
  /\ Write(w.data)
  /\ last' = NoDump
  /\ UNCHANGED <<buf, len, variant>>

qla82xx_md_collect ==
  /\ chip = "82xx" /\ reset = "asked"
  /\ reset' = "started"
  /\ IF fw_dumped \/ ~Room
     THEN UNCHANGED <<dumpBuffer, taken, fw_dumped, no_md_cap>>
     ELSE IF no_md_cap
     THEN no_md_cap' = FALSE /\ UNCHANGED <<dumpBuffer, taken, fw_dumped>>
     ELSE \E fault \in Fault :
            LET w == md_walk_82xx(template, len, fault)
            IN /\ Collected(w)
               /\ fw_dumped' = md_done(w)
               /\ UNCHANGED no_md_cap
  /\ UNCHANGED <<chip, mqenable, fw, traces, fw_dump_reading, queues, tmplt, spare,
                 prev_minidump_failed, starved, changes>>

\* And qla8044_get_minidump: the walk's status is that of the last entry that
\* has one; a total that does not match is a failure.
qla8044_collect_md_data ==
  /\ chip = "8044" /\ reset = "asked"
  /\ reset' = "started"
  /\ no_md_cap' = FALSE        \* here, or when the firmware has been restarted
  /\ IF fw_dumped \/ ~Room
     THEN \* Restarted by request: the mark of a dump that waits is dropped.
          /\ fw_dumped' = (fw_dumped /\ ~no_md_cap)
          /\ prev_minidump_failed' = TRUE
          /\ UNCHANGED <<dumpBuffer, taken>>
     ELSE IF no_md_cap
     THEN prev_minidump_failed' = TRUE /\ UNCHANGED <<dumpBuffer, taken, fw_dumped>>
     ELSE \E fault \in Fault :
            LET w == md_walk_8044(template, len, fault)
                ok == w.ok /\ (w.ptr = len \/ (w.stopped /\ w.ptr > len))
            IN /\ Collected(w)
               /\ fw_dumped' = (md_done(w) \/ ok)
               /\ prev_minidump_failed' = ~ok
  /\ UNCHANGED <<chip, mqenable, fw, traces, fw_dump_reading, queues, tmplt, spare, starved, changes>>

\* Another function restarts the firmware.
not_collected ==
  /\ chip \in P3P /\ reset = "asked"
  /\ reset' = "started"
  /\ no_md_cap' = (no_md_cap /\ chip = "82xx")   \* the bit of the 8044 is shared
  /\ UNCHANGED <<chip, mqenable, fw, traces, dumpBuffer, sysfs, queues, tmplt, spare,
                 prev_minidump_failed, starved, taken, changes>>

Minidump ==
  \/ \E f \in Firmware : check_md_needed(f)
  \/ \E ask \in BOOLEAN : suppress(ask)
  \/ fw_hung
  \/ qla82xx_md_collect
  \/ qla8044_collect_md_data
  \/ not_collected

--------------------------------------------------------------------------
(* Sysfs: the files fw_dump and fw_dump_template.                          *)

\* 1: a dump can be read.
start_reading ==
  /\ fw_dumped /\ ~fw_dump_reading
  /\ fw_dump_reading' = TRUE
  /\ UNCHANGED <<chip, mqenable, fw, traces, dumpBuffer, fw_dumped, queues, tmplt, p3p, taken, changes>>

\* 0: it has been read.  P3P fetches template and buffer again.
clear ==
  /\ fw_dump_reading
  /\ fw_dump_reading' = FALSE /\ fw_dumped' = FALSE
  /\ IF chip \in P3P /\ fw # 0
     THEN \E got, mem_ok \in BOOLEAN : md_prep(fw, got, mem_ok)
     ELSE UNCHANGED <<buf, len, areas, tmplt, starved>>
  /\ UNCHANGED <<chip, mqenable, fw, traces, variant, queues, spare, reset, no_md_cap,
                 prev_minidump_failed, taken, changes>>

\* 2: the buffer is allocated, if it is not there.  On P3P that is a buffer
\* no dump is written to.
alloc ==
  /\ fw # 0
  /\ IF chip \in P3P
     THEN /\ ~spare
          /\ fw_dumped' = FALSE /\ spare' \in BOOLEAN
          /\ UNCHANGED <<traces, dumpBuffer>>
     ELSE /\ alloc_fw_dump(fw)
          /\ UNCHANGED spare
  /\ UNCHANGED <<chip, mqenable, fw, fw_dump_reading, queues, tmplt, reset, no_md_cap,
                 prev_minidump_failed, starved, taken, changes>>

\* The first part of a template, and the last.
write_template ==
  /\ Change
  /\ chip = "27xx" /\ fw # 0
  /\ buf' = NoBuf /\ len' = 0 /\ areas' = {}
  /\ tmplt' \in {None, Partial}
  /\ UNCHANGED <<chip, mqenable, fw, traces, variant, sysfs, queues, p3p, taken>>
write_template_end ==
  /\ tmplt = Partial
  /\ tmplt' = User
  /\ \/ UNCHANGED <<buf, len>>                    \* no memory
     \/ LET size == Length(walk_template(User, Mem[fw], fce, eft, TRUE))
        IN /\ buf' = [size |-> size, mem |-> Mem[fw], tmplt |-> User, eft |-> 0, chain |-> 0]
           /\ len' = size
  /\ UNCHANGED <<chip, mqenable, fw, traces, variant, areas, sysfs, queues, p3p, taken, changes>>

Sysfs == start_reading \/ clear \/ alloc \/ write_template \/ write_template_end

--------------------------------------------------------------------------
DumpInit ==
  /\ chip \in ChipSet
  /\ mqenable \in (IF chip \in FceChips THEN BOOLEAN ELSE {FALSE})
  /\ fw = 0
  /\ fce = "none" /\ eft = "none"
  /\ buf = NoBuf /\ len = 0 /\ variant = FALSE /\ areas = {}
  /\ fw_dumped = FALSE /\ fw_dump_reading = FALSE
  /\ queues = {}
  /\ tmplt \in (IF chip = "27xx" THEN {None, Default} \cup {Of(f) : f \in Firmware} ELSE {None})
  /\ spare = FALSE
  /\ reset = IF chip \in P3P THEN "started" ELSE "no"
  /\ no_md_cap = FALSE /\ prev_minidump_failed = FALSE /\ starved = FALSE
  /\ dumps = 0 /\ last = NoDump /\ changes = 0

DumpNext ==
  \/ \E f \in Firmware : first_setup(f) \/ chip_setup(f)
  \/ \E kind \in Kinds : create_que(kind)
  \/ delete_que
  \/ Dump
  \/ Minidump
  \/ Sysfs

DumpSpec == DumpInit /\ [][DumpNext]_dumpVars

--------------------------------------------------------------------------
(* Properties.                                                             *)

Names == {"template", "regs", "remote", "mpi", "shadow", "ram", "ext", "req", "rsp", "eft", "fce", "mq", "md"}

\* Every variable has a value of its kind.
DumpTypeOK ==
  /\ chip \in ChipSet /\ mqenable \in BOOLEAN
  /\ fw \in Firmware \cup {0}
  /\ fce \in {"none", "live", "stale"} /\ eft \in {"none", "live", "stale"}
  /\ buf \in [size : Nat, mem : Nat, tmplt : Templates \cup {None}, eft : {0, Eft}, chain : Nat]
  /\ len \in Nat /\ variant \in BOOLEAN
  /\ \A x \in areas : /\ x.area \in Names \X Nat /\ x.at \in Nat /\ x.len \in Nat \ {0}
                      /\ x.by \in 1..dumps
  /\ fw_dumped \in BOOLEAN /\ fw_dump_reading \in BOOLEAN
  /\ \A q \in queues : q[1] \in Kinds /\ q[2] \in Queues(q[1])
  /\ tmplt \in Templates \cup {None, Partial}
  /\ spare \in BOOLEAN /\ reset \in {"no", "asked", "started"}
  /\ changes \in 0..MaxChanges[chip]
  /\ no_md_cap \in BOOLEAN /\ prev_minidump_failed \in BOOLEAN /\ starved \in BOOLEAN
  /\ dumps \in 0..MaxDumps

Latest == {x \in areas : x.by = dumps}
\* The latest dump has written these.
Have(place) == \A x \in place : \E y \in Latest : y.area = x.area /\ y.at = x.at /\ y.len = x.len
\* The firmware whose sizes the buffer was allocated for.
AsAllocated == last.mem = buf.mem /\ last.tmplt = buf.tmplt

\* A dump stays within its buffer, however many queues have been created and
\* whichever traces could be started: what is allocated (qla2x00_alloc_fw_dump,
\* or the walk of the template without a buffer) covers what is written.
\* Except after the firmware was replaced by one with more memory, or the
\* 27xx template by another, which no routine looks at.
WithinBuffer ==
  buf # NoBuf /\ (AsAllocated \/ (last.mem < buf.mem /\ chip # "27xx"))
    => \A x \in Latest : x.at + x.len <= buf.size

\* A dump that is offered to the reader is one dump, and whole: each area lies
\* where the header or the template before it says, and was written by the
\* same dump; of a minidump, every entry that is to be captured, whichever
\* poll timed out.  Except after other firmware was loaded, or when qla83xx_fw_dump
\* continued without a RISC, or qla27xx_fwdump could not read a memory; and
\* a written 27xx template leaves fw_dumped set for an empty buffer.
DumpIsWhole ==
  fw_dumped /\ areas # {} /\ AsAllocated /\ ~last.hammered =>
    /\ chip \in Laid => Have(Place(Body(buf.mem, buf.eft), Hdr))
    /\ chip = "27xx" /\ last.lost = {} =>
         \A at \in 0..len - 1 : \E x \in Latest : at \in x.at..x.at + x.len - 1
    /\ chip = "82xx" => Have(md_walk_82xx(template, len, NoFault).data)
    /\ chip = "8044" => Have(md_walk_8044(template, len, NoFault).data)

\* The chain behind a dump starts where the header says and ends where the
\* file ends, and there is one exactly if the header says so.  Except on the
\* 83xx without the event trace: qla83xx_fw_dump does not set the version
\* anew, and when the queues of an earlier dump are gone it still announces
\* their chain.
Chained == {x \in Latest : x.area[1] \in {"mq", "fce"} \/ x.area[2] > 0}
ChainIsWhole ==
  fw_dumped /\ chip \in FceChips \cap Laid /\ last.mem <= buf.mem /\ ~(chip = "83xx" /\ fce = "none") =>
    /\ variant = (Chained # {})
    /\ \A at \in buf.chain..len - 1 : \E x \in Chained : at \in x.at..x.at + x.len - 1
    /\ \A x \in Chained : x.at >= buf.chain /\ x.at + x.len <= len

\* Every queue is in the dump, except those with a number above one that is
\* free: qla25xx_copy_mqueues stops there.
QueuesAreDumped ==
  fw_dumped /\ areas # {} /\ chip \in FceChips =>
    \A q \in last.queues :
      \/ \E x \in Latest : x.area = q
      \/ chip # "27xx" /\ \E p \in 1..q[2] - 1 : <<q[1], p>> \notin last.queues

\* No dump copies a trace buffer that has been freed.  Except on the 27xx,
\* where a buffer allocated again after a template was written frees the
\* traces before it knows that there will be others.
CopiesLiveTraces == last.freed = {} \/ chip = "27xx"

\* The minidump buffer has the size the firmware's template asks for, whatever
\* was replaced or cleared before.  Except after md_alloc found no memory: the
\* size it added to md_dump_size stays, no minidump has that size again, and
\* on the 82xx none succeeds until the firmware is replaced.
MdSizeIsTemplates ==
  chip \in P3P /\ buf # NoBuf /\ ~starved => buf.size = len /\ len = md_needs(tmplt)

\* As long as a process reads a dump nothing changes it: neither another
\* failure, nor a reset, nor new firmware.  Except: the 27xx writes over it
\* and replaces its template; on P3P a fw_dump allocated through sysfs, and on
\* the 8044 a reset asked for through sysfs, drop the mark that protects it.
KeptForReader ==
  [][ fw_dump_reading /\ fw_dumped /\ fw_dump_reading' =>
        \/ fw_dumped' /\ UNCHANGED dumpBuffer
        \/ chip = "27xx"
        \/ chip \in P3P /\ alloc
        \/ chip = "8044" /\ no_md_cap /\ UNCHANGED dumpBuffer ]_dumpVars

\* A dump touches only memory that is its own.
MemoryIsOwn == DumpTypeOK /\ WithinBuffer /\ CopiesLiveTraces

\* What is offered to the reader can be taken apart: areas, chain and queues
\* are where the headers say, and all of them are there.
DumpIsReadable == DumpIsWhole /\ ChainIsWhole /\ QueuesAreDumped
=============================================================================
