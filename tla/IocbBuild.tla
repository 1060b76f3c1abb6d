----------------------------- MODULE IocbBuild -----------------------------
(***************************************************************************)
(* What a request occupies: entries of the request ring, data segment      *)
(* descriptors (DSDs), the lists and contexts they live in, and mappings.  *)
(* Each start routine first counts what the request will need and then     *)
(* builds it, in two pieces of code that must agree; a command that cannot *)
(* be started gives everything back, partly in the routine and partly in   *)
(* qla2x00_sp_free_dma, which looks at sp->flags.                          *)
(*                                                                         *)
(* A start runs under hardware_lock and is one action; the commands in     *)
(* flight share the DSD lists of the adapter.  Where the ring's indices    *)
(* go, and when there is room, is the subject of ReqRing: here room is     *)
(* there or not.                                                           *)
(***************************************************************************)
EXTENDS Integers, FiniteSets, SequencesExt

CONSTANTS
  Slots,        \* bound: commands in flight
  Commands,     \* the SCSI commands queued
  Jobs,         \* the pass-through jobs: segments of request and reply
  PerList,      \* QLA_DSDS_PER_IOCB
  Chains,       \* NUM_DSD_CHAIN
  ShiftCtl,     \* ql2xshiftctondsd
  BlockSize,    \* cmd->device->sector_size
  Jiffies,        \* jiffies counts modulo this
  Delays        \* ticks of delay a target can ask for

Chips == {"2x32", "2x64", "24xx", "25xx", "82xx", "fx00"}
ProtOps == {"normal",
            "insert",   \* READ_INSERT, WRITE_STRIP: protection in memory only
            "strip",    \* READ_STRIP, WRITE_INSERT: protection on the wire only
            "pass"}

IocbBuildAssumption ==
  /\ IsFiniteSet(Slots)
  /\ \A c \in Commands :
       /\ c.op \in ProtOps
       /\ c.cdb \in {16, 18, 32}          \* cmd->cmd_len
       /\ c.segs \in Seq(Nat \ {0})       \* lengths of the mapped segments
       /\ Len(c.segs) <= 1024            \* ql2xsg_tablesize, QLA_SG_ALL
       /\ c.prot \in Nat                  \* mapped protection segments
       /\ c.op # "normal" => c.segs # <<>> /\ c.cdb # 18
  /\ \A j \in Jobs : {j.req, j.rsp} \subseteq 1..128   \* what the block layer allows
  /\ {PerList, Chains, ShiftCtl, BlockSize} \subseteq Nat \ {0}
  /\ Jiffies \in Nat /\ Jiffies % 2 = 0 /\ Jiffies > 2
  /\ Delays \subseteq 1..(Jiffies \div 2) - 1

VARIABLES
  chip,
  sps,       \* the srbs in flight and what each of them holds
  gbl_dsd,   \* the adapter's DSD lists: how many are in gbl_dsd_list, and
             \* the counters gbl_dsd_avail and gbl_dsd_inuse
  built,     \* what the last request built was given and told
  left,      \* what the last request that ended still held
  jiffies, retry_delay_timestamp,   \* the second is the port's
  pending,   \* ticks until the delay the target has asked for is over
  old,       \* ticks since, as long as no command has been queued
  refused    \* the last command was refused because of a delay

clock == <<jiffies, retry_delay_timestamp, pending, old>>
vars == <<chip, sps, gbl_dsd, built, left, clock, refused>>

Flags == {"DMA_VALID", "CRC_PROT_DMA_VALID", "CRC_CTX_DSD_VALID",
          "CRC_CTX_DMA_VALID", "FCP_CMND_DMA_VALID"}
Things == {"data", "prot",      \* DMA mappings
           "crc_ctx", "dl",     \* from dl_dma_pool: context, DSD lists
           "ct6_ctx", "fcp_cmnd",
           "gbl",               \* lists taken from gbl_dsd_list
           "credit", "slot"}    \* entries taken off req->cnt, outstanding_cmds
Nothing == [t \in Things |-> 0]
NoSp == [has |-> Nothing, flags |-> {}, sg |-> FALSE, live |-> FALSE]
NotBuilt == [kind |-> "none"]

Lowest(a, b) == IF a < b THEN a ELSE b

--------------------------------------------------------------------------
(* Counting.                                                               *)

Up(n, k) == (n \div k) + IF n % k > 0 THEN 1 ELSE 0

calc_iocbs_32(dsds) == 1 + IF dsds > 3 THEN Up(dsds - 3, 7) ELSE 0
calc_iocbs_64(dsds) == 1 + IF dsds > 2 THEN Up(dsds - 2, 5) ELSE 0
calc_ct_iocbs(dsds) == 1 + IF dsds > 2 THEN Up(dsds - 2, 5) ELSE 0

\* Slip: the remainder is forgotten.
calc_iocbsSlip(dsds) == 1 + IF dsds > 1 THEN (dsds - 1) \div 5 ELSE 0
calc_iocbs(dsds) == 1 + IF dsds > 1 THEN Up(dsds - 1, 5) ELSE 0

calc_dsd_lists(dsds) == Up(dsds, PerList)

--------------------------------------------------------------------------
(* Building: entries.  A builder keeps in avail how many DSDs still fit    *)
(* into the entry it fills.                                                *)

OneDsd(at, cont) ==
  IF at.avail = 0 THEN [entries |-> at.entries + 1, avail |-> cont - 1]
  ELSE [at EXCEPT !.avail = @ - 1]

\* Slip: the next entry is begun when the last place has been filled.
PutDsdsSlip(at, cont, n) ==
  LET Put(x) == IF x.avail = 1 THEN [entries |-> x.entries + 1, avail |-> cont]
                ELSE [x EXCEPT !.avail = @ - 1]
  IN FoldLeft(LAMBDA x, i : Put(x), at, [i \in 1..n |-> i])

\* n DSDs, with cont of them in each continuation entry.
PutDsds(at, cont, n) == FoldLeft(LAMBDA x, i : OneDsd(x, cont), at, [i \in 1..n |-> i])

First(avail) == [entries |-> 1, avail |-> avail]

build_scsi_iocbs_32(n) == PutDsds(First(3), 7, n).entries
build_scsi_iocbs_64(n) == PutDsds(First(2), 5, n).entries
build_scsi_iocbs(n)    == PutDsds(First(1), 5, n).entries
build_bidir_iocb(j) ==
  PutDsds(PutDsds(First(1), 5, j.req), 5, j.rsp).entries
\* The request of a CT job is described by one DSD.
ct_iocb(j) == PutDsds(First(1), 5, j.rsp).entries
\* Request and reply each have a DSD in the first entry, and continuation
\* entries of their own.
fxdisc_iocb(j) ==
  PutDsds(First(1), 5, j.req).entries + PutDsds(First(1), 5, j.rsp).entries - 1

--------------------------------------------------------------------------
(* Building: DSD lists of commands with protection.                        *)

\* qla24xx_get_one_block_sg: the next piece of the data that lies in one
\* block and in one segment.
get_one_block_sg(g, segs) ==
  LET rest == segs[g.sg] - g.consumed
      whole == g.partial + rest >= BlockSize
      len == IF whole THEN BlockSize - g.partial ELSE rest
      emptied == g.consumed + len = segs[g.sg]
  IN [sg |-> IF emptied THEN g.sg + 1 ELSE g.sg,
      consumed |-> IF emptied THEN 0 ELSE g.consumed + len,
      partial |-> IF whole THEN 0 ELSE g.partial + len,
      pieces |-> Append(g.pieces, [sg |-> g.sg, len |-> len, whole |-> whole])]

Bytes(segs) == FoldLeft(LAMBDA a, b : a + b, 0, segs)

\* The pieces of the whole command: at most one for every byte.
Pieces(segs) ==
  LET Walk(g, i) == IF g.sg > Len(segs) THEN g ELSE get_one_block_sg(g, segs)
  IN FoldLeft(Walk, [sg |-> 1, consumed |-> 0, partial |-> 0, pieces |-> <<>>],
              [i \in 1..Bytes(segs) |-> i]).pieces

\* One DSD, into a new list if the last is full: a list is made for as many
\* of the used DSDs announced as it can hold.
ListDsd(w) ==
  IF w.avail = 0
  THEN LET n == Lowest(PerList, w.used)
       IN [lists |-> w.lists + 1, used |-> w.used - n,
           avail |-> n - 1, over |-> w.over \/ n = 0]
  ELSE [w EXCEPT !.avail = @ - 1]

\* A walk that writes n DSDs and was announced used of them.
Walk(n, used) ==
  FoldLeft(LAMBDA w, i : ListDsd(w),
           [lists |-> 0, used |-> used, avail |-> 0, over |-> FALSE],
           [i \in 1..n |-> i])

\* Slip: the DSDs for the protection data are not announced.
walk_and_build_sglist_no_difbSlip(c, tot) ==
  Walk(Len(Pieces(c.segs)) + Bytes(c.segs) \div BlockSize,
       tot - Bytes(c.segs) \div BlockSize)

\* Pieces of the data, and after each block eight bytes of protection.
walk_and_build_sglist_no_difb(c, tot) ==
  Walk(Cardinality(DOMAIN Pieces(c.segs))
       + Cardinality({i \in DOMAIN Pieces(c.segs) : Pieces(c.segs)[i].whole}), tot)
walk_and_build_sglist(c, tot) == Walk(tot, tot)
walk_and_build_prot_sglist(c, tot) == Walk(tot, tot)

\* What qla24xx_dif_start_scsi counts.
DataDsds(c) == IF c.op = "insert" THEN Len(Pieces(c.segs)) ELSE Len(c.segs)
ProtDsds(c) == IF c.prot = 0 THEN 0
               ELSE IF c.op = "insert" THEN Bytes(c.segs) \div BlockSize ELSE c.prot
TotDsds(c) == DataDsds(c) + ProtDsds(c)

\* The walks of qla24xx_build_scsi_crc_2_iocbs.
Walks(c) ==
  IF c.op = "insert" /\ ProtDsds(c) > 0
  THEN <<walk_and_build_sglist_no_difb(c, TotDsds(c))>>
  ELSE <<walk_and_build_sglist(c, TotDsds(c) - ProtDsds(c))>>
       \o IF c.op = "pass" /\ ProtDsds(c) > 0
          THEN <<walk_and_build_prot_sglist(c, ProtDsds(c))>> ELSE <<>>
Lists(ws) == FoldLeft(LAMBDA a, w : a + w.lists, 0, ws)

--------------------------------------------------------------------------
(* Holding and giving back.                                                *)

Gain(sp, t, n) == [sp EXCEPT !.has[t] = @ + n]
Flag(sp, f) == [sp EXCEPT !.flags = @ \cup {f}]
Sp(n) == [NoSp EXCEPT !.sg = n > 0]

\* dma_map_sg and scsi_dma_unmap do nothing for a command without data.
Map(sp) == IF sp.sg THEN Gain(sp, "data", 1) ELSE sp
Unmap(sp) == IF sp.sg THEN Gain(sp, "data", -1) ELSE sp
Enter(sp, req_cnt) == Gain(Gain(sp, "slot", 1), "credit", req_cnt)

\* Slip: the lists come back, and are still counted as in use.
spliceSlip(p, n) == [p EXCEPT !.list = @ + n, !.avail = @ + n]
\* The lists of a command return to the adapter.
splice(p, n) == [list |-> p.list + n, avail |-> p.avail + n, inuse |-> p.inuse - n]

\* Slip: the mapping of the protection data is forgotten.
sp_free_dmaSlip(sp, p) ==
  LET freed == [Unmap(sp) EXCEPT !.has["dl"] = 0, !.has["crc_ctx"] = 0]
  IN [sp |-> IF "DMA_VALID" \in sp.flags THEN freed ELSE sp, pool |-> p]

\* qla2x00_sp_free_dma on a command sp and the adapter's lists p.
sp_free_dma(sp, p) ==
  LET ct6 == "FCP_CMND_DMA_VALID" \in sp.flags
      unmapped == IF "DMA_VALID" \in sp.flags THEN Unmap(sp) ELSE sp
      Less(f, n) == IF f \in sp.flags THEN n - 1 ELSE n
  IN [sp |-> [unmapped EXCEPT
        !.has["prot"] = Less("CRC_PROT_DMA_VALID", @),
        !.has["dl"] = IF "CRC_CTX_DSD_VALID" \in sp.flags THEN 0 ELSE @,
        !.has["crc_ctx"] = Less("CRC_CTX_DMA_VALID", @),
        !.has["fcp_cmnd"] = IF ct6 THEN @ - 1 ELSE @,
        !.has["ct6_ctx"] = IF ct6 THEN @ - 1 ELSE @,
        !.has["gbl"] = IF ct6 THEN 0 ELSE @],
      pool |-> IF ct6 THEN splice(p, sp.has["gbl"]) ELSE p]

--------------------------------------------------------------------------
(* Starting: every way a start can end, as the command it leaves, the      *)
(* adapter's lists p, and whether it was started, ran into BUG() or was    *)
(* sent without its CDB.                                                   *)

Way(sp, p) == [sp |-> sp, pool |-> p, ok |-> FALSE, bug |-> FALSE, cdb |-> TRUE]
Started(w) == [w EXCEPT !.ok = TRUE, !.sp.live = TRUE]

\* qla2x00_start_scsi, qla24xx_start_scsi, qlafx00_start_scsi: no handle or
\* no mapping, no room, started.
start_scsi(n, req_cnt, p) ==
  { Way(Sp(n), p),
    Way(Unmap(Map(Sp(n))), p),
    Started(Way(Flag(Enter(Map(Sp(n)), req_cnt), "DMA_VALID"), p)) }

\* Slip: the operations without protection data in memory are forgotten.
KnownProtOpSlip(c) == c.op \in {"insert", "pass"}
\* The cases of the switch that ends in BUG().
KnownProtOp(c) == c.op \in {"insert", "strip", "pass"}

\* qla24xx_build_scsi_crc_2_iocbs, entered with sp.
build_scsi_crc_2_iocbs(sp, c, p) ==
  LET withCtx == Flag(Gain(sp, "crc_ctx", 1), "CRC_CTX_DMA_VALID")
      WithLists(k) == IF k = 0 THEN withCtx
                      ELSE Flag(Gain(withCtx, "dl", k), "CRC_CTX_DSD_VALID")
      n == Lists(Walks(c))
  IN IF c.segs = <<>> THEN {[Started(Way(sp, p)) EXCEPT !.cdb = FALSE]}
     ELSE {Way(sp, p)} \cup
          IF c.cdb % 4 # 0 THEN {Way(withCtx, p)}
          ELSE IF ~KnownProtOp(c) THEN {[Way(withCtx, p) EXCEPT !.bug = TRUE]}
          ELSE {Way(WithLists(k), p) : k \in 0..n - 1} \cup {Started(Way(WithLists(n), p))}

\* queuing_error of qla24xx_dif_start_scsi; the rest is left to the caller.
dif_queuing_error(w) == [w EXCEPT !.sp.has["slot"] = 0, !.sp.has["credit"] = 0]

dif_start_scsi(c, p) ==
  IF c.op = "normal" /\ c.cdb <= 16
  THEN start_scsi(Len(c.segs), calc_iocbs(Len(c.segs)), p)
  ELSE LET new == Sp(Len(c.segs))
           mapped == IF new.sg THEN Flag(Map(new), "DMA_VALID") ELSE new
           prot == IF c.prot = 0 THEN mapped
                   ELSE Flag(Gain(mapped, "prot", 1), "CRC_PROT_DMA_VALID")
           ends == build_scsi_crc_2_iocbs(Enter(prot, 1), c, p)
       IN {Way(new, p), Way(mapped, p), Way(prot, p)}
          \cup {w \in ends : w.ok \/ w.bug}
          \cup {dif_queuing_error(w) : w \in {x \in ends : ~x.ok /\ ~x.bug}}

\* queuing_error of qla82xx_start_scsi.
p3p_queuing_error(sp) == [Unmap(sp) EXCEPT !.has["ct6_ctx"] = 0]

\* Slip: lists that are there are counted on twice.
more_dsd_listsSlip(n, p) == 0
\* The lists to be allocated before a command of n segments can be built.
more_dsd_lists(n, p) ==
  IF calc_dsd_lists(n) <= p.avail THEN 0 ELSE calc_dsd_lists(n) - p.avail

\* The lists move from the adapter to the command.
build_scsi_type_6_iocbs(n, p) ==
  LET k == calc_dsd_lists(n)
  IN [list |-> p.list - k, avail |-> p.avail - k, inuse |-> p.inuse + k]

\* qla82xx_start_scsi for a command of more than ql2xshiftctondsd segments.
start_type_6(n, p) ==
  LET mapped == Map(Sp(n))
      more == more_dsd_lists(n, p)
      Grown(k) == [p EXCEPT !.list = @ + k, !.avail = @ + k]
      ctx == Gain(mapped, "ct6_ctx", 1)
      whole == Flag(Flag(Gain(Gain(ctx, "fcp_cmnd", 1), "gbl", calc_dsd_lists(n)),
                         "FCP_CMND_DMA_VALID"), "DMA_VALID")
  IN {Way(Sp(n), p), Way(p3p_queuing_error(mapped), p)} \cup
     IF calc_dsd_lists(n) + p.inuse >= Chains THEN {}
     ELSE {Way(p3p_queuing_error(mapped), Grown(k)) : k \in 0..more}
          \cup {Way(p3p_queuing_error(ctx), Grown(more)),
                Started(Way(Enter(whole, 1), build_scsi_type_6_iocbs(n, Grown(more))))}

start_scsi_82xx(c, p) ==
  IF Len(c.segs) > ShiftCtl THEN start_type_6(Len(c.segs), p)
  ELSE start_scsi(Len(c.segs), calc_iocbs(Len(c.segs)), p)

--------------------------------------------------------------------------
(* What the firmware is told.                                              *)

Fact(kind, reserved, written, told) ==
  [kind |-> kind, reserved |-> reserved, written |-> written, told |-> told,
   dsds |-> 0, put |-> 0, over |-> FALSE, wide |-> FALSE, bug |-> FALSE, cdb |-> TRUE]

\* entry_count of a SCSI command is what was reserved.
ScsiFact(c, w) ==
  LET n == Len(c.segs)
      Plain(kind, reserved, written) == Fact(kind, reserved, written, reserved % 256)
      dif == chip = "25xx" /\ ~(c.op = "normal" /\ c.cdb <= 16)
      ct6 == chip = "82xx" /\ n > ShiftCtl
  IN IF dif
     THEN [Fact(IF c.op = "normal" THEN "long" ELSE "crc_2", 1, 1, 1) EXCEPT
             !.over = w.ok /\ \E i \in DOMAIN Walks(c) : Walks(c)[i].over,
             !.bug = w.bug, !.cdb = w.ok => w.cdb]
     ELSE IF ct6 THEN [Fact("type_6", 1, 1, 1) EXCEPT !.over = w.pool.list < 0]
     ELSE IF chip = "2x32" THEN Plain("type_2", calc_iocbs_32(n), build_scsi_iocbs_32(n))
     ELSE IF chip = "2x64" THEN Plain("type_3", calc_iocbs_64(n), build_scsi_iocbs_64(n))
     ELSE Plain("type_7", calc_iocbs(n), build_scsi_iocbs(n))

\* entry_count of a job is what has been written.  A CT job announces all
\* segments of the request and describes one; before the 24xx it counts one
\* for the reply.
JobFacts(j) ==
  LET ct == calc_ct_iocbs(j.req + j.rsp)
      Of(kind, reserved, written, dsds, put) ==
        [Fact(kind, reserved, written, written % 256) EXCEPT
           !.dsds = dsds, !.put = put, !.wide = j.req > 1 /\ j.rsp > 1]
      all == j.req + j.rsp
      announced == IF chip \in {"2x32", "2x64"} THEN j.req + 1 ELSE all
  IN IF chip = "fx00" THEN {Of("fxdisc", ct, fxdisc_iocb(j), all, all)}
     ELSE {Of("ct", ct, ct_iocb(j), announced, 1 + j.rsp)} \cup
          IF chip = "25xx"
          THEN {Of("bidir", calc_iocbs(all), build_bidir_iocb(j), all, all)} ELSE {}

Init ==
  /\ chip \in Chips
  /\ sps = [s \in Slots |-> NoSp]
  /\ gbl_dsd = [list |-> 0, avail |-> 0, inuse |-> 0]
  /\ built = NotBuilt
  /\ left = Nothing
  /\ IF chip = "24xx" THEN jiffies \in 0..Jiffies - 1 ELSE jiffies = 1
  /\ retry_delay_timestamp = 0
  /\ pending = 0 /\ old = 0
  /\ refused = FALSE

Ways(c) ==
  LET n == Len(c.segs)
  IN CASE chip = "2x32" -> start_scsi(n, calc_iocbs_32(n), gbl_dsd)
       [] chip = "2x64" -> start_scsi(n, calc_iocbs_64(n), gbl_dsd)
       [] chip \in {"24xx", "fx00"} -> start_scsi(n, calc_iocbs(n), gbl_dsd)
       [] chip = "25xx" -> dif_start_scsi(c, gbl_dsd)
       [] chip = "82xx" -> start_scsi_82xx(c, gbl_dsd)

\* Bound: the clock runs with the 24xx, one of the chips whose response tells
\* a delay; with the others it stands still.
Timed == chip = "24xx"

\* Protection and long CDBs are offered where IS_T10_PI_CAPABLE says so.
Offered(c) == chip = "25xx" \/ (c.op = "normal" /\ c.cdb <= 16)

\* Slip: the operands are swapped.
time_afterSlip(a, b) == (a - b) % Jiffies >= Jiffies \div 2
\* The difference is taken as a signed number.
time_after(a, b) == (b - a) % Jiffies >= Jiffies \div 2

\* The port has not asked for a delay, or it is over.
Due ==
  /\ time_after(jiffies, retry_delay_timestamp)
  /\ retry_delay_timestamp' = 0
  /\ refused' = FALSE
  /\ old' = 0
  /\ UNCHANGED <<jiffies, pending>>

\* SCSI_MLQUEUE_TARGET_BUSY.
QueueDelayed ==
  /\ ~time_after(jiffies, retry_delay_timestamp)
  /\ refused' = TRUE
  /\ built' = NotBuilt /\ left' = Nothing
  /\ UNCHANGED <<chip, sps, gbl_dsd, clock>>

\* queuecommand of a command that is started, or stops in BUG().
QueueCommand(s, c) ==
  /\ ~sps[s].live /\ Offered(c)
  /\ Due
  /\ \E w \in Ways(c) :
       /\ w.ok \/ w.bug
       /\ sps' = [sps EXCEPT ![s] = w.sp]
       /\ gbl_dsd' = w.pool
       /\ built' = ScsiFact(c, w)
  /\ left' = Nothing
  /\ UNCHANGED chip

\* queuecommand of a command that cannot be started: SCSI_MLQUEUE_HOST_BUSY.
QueueBusy(c) ==
  /\ Offered(c)
  /\ Due
  /\ \E w \in Ways(c) :
       /\ ~w.ok /\ ~w.bug
       /\ LET end == sp_free_dma(w.sp, w.pool)
          IN gbl_dsd' = end.pool /\ left' = end.sp.has
  /\ built' = NotBuilt
  /\ UNCHANGED <<chip, sps>>

\* Jobs share nothing with commands; bound: they are built between them, and
\* at one reading of the clock.
BuildJob(j) ==
  /\ \A s \in Slots : ~sps[s].live
  /\ jiffies = 1
  /\ built' \in JobFacts(j)
  /\ left' = Nothing /\ refused' = FALSE
  /\ UNCHANGED <<chip, sps, gbl_dsd, clock>>

\* The firmware has fetched the entries and answered; status_entry notes the
\* delay if the target is busy and asks for one, and qla2x00_sp_compl ends
\* the command.
Complete(s) ==
  /\ sps[s].live
  /\ LET end == sp_free_dma(sps[s], gbl_dsd)
     IN /\ gbl_dsd' = end.pool
        /\ left' = [end.sp.has EXCEPT !["slot"] = 0, !["credit"] = 0]
  /\ sps' = [sps EXCEPT ![s] = NoSp]
  /\ \/ UNCHANGED clock
     \/ /\ Timed
        /\ \E d \in Delays :
             /\ retry_delay_timestamp' = (jiffies + d) % Jiffies
             /\ pending' = d /\ old' = 0
        /\ UNCHANGED jiffies
  /\ built' = NotBuilt /\ refused' = FALSE
  /\ UNCHANGED chip

Tick ==
  /\ Timed
  /\ jiffies' = (jiffies + 1) % Jiffies
  /\ pending' = IF pending > 0 THEN pending - 1 ELSE 0
  /\ old' = IF pending > 0 \/ retry_delay_timestamp = 0 THEN 0 ELSE Lowest(old + 1, Jiffies)
  /\ built' = NotBuilt /\ left' = Nothing /\ refused' = FALSE
  /\ UNCHANGED <<chip, sps, gbl_dsd, retry_delay_timestamp>>

Next ==
  \/ \E c \in Commands : QueueBusy(c) \/ \E s \in Slots : QueueCommand(s, c)
  \/ \E j \in Jobs : BuildJob(j)
  \/ \E s \in Slots : Complete(s)
  \/ QueueDelayed
  \/ Tick

Spec == Init /\ [][Next]_vars

--------------------------------------------------------------------------
(* Properties.                                                             *)

TypeOK ==
  /\ chip \in Chips
  /\ sps \in [Slots -> [has : [Things -> Int], flags : SUBSET Flags,
                        sg : BOOLEAN, live : BOOLEAN]]
  /\ gbl_dsd \in [list : Nat, avail : Nat, inuse : Nat]
  /\ built = NotBuilt \/ built.told \in 1..255
  /\ left \in [Things -> Int]
  /\ {jiffies, retry_delay_timestamp, pending} \subseteq 0..Jiffies - 1
  /\ old \in 0..Jiffies
  /\ refused \in BOOLEAN

Building == built.kind # "none"

\* No builder writes beyond the entries that were counted for the request:
\* what follows may be entries that the firmware has not read yet.  The
\* exception is a pass-through job of the FX00 whose request and reply both
\* need continuation entries: they are counted as sharing them
\* (qla_bsg.c:2015).
WrittenIsReserved ==
  Building => \/ built.written <= built.reserved
              \/ built.kind = "fxdisc" /\ built.wide

\* The entry count of the IOCB, eight bits wide, is the number of entries
\* that were written: the firmware reads on at the next request.  The number
\* of DSDs announced is the number described, but for CT jobs whose request
\* has more than one segment, or whose reply has on the older chips.
ToldWhatIsWritten ==
  Building => /\ built.told = built.written
              /\ built.dsds = built.put \/ built.kind = "ct"

\* The walks that build DSD lists write as many descriptors as were counted
\* from the segments and the blocks: no list is begun for none, where the
\* count of free places wraps and the walk leaves its buffer.
ListsAreFilled == Building => ~built.over

\* However a start fails, the routine and sp_free_dma between them give back
\* each thing once; and so does the completion of a command.
NothingLeft == left = Nothing

\* The lists of the adapter are in its list or with a command in flight; the
\* counters say so, and their number stays below NUM_DSD_CHAIN.
ListsAreCounted ==
  LET out == FoldFunction(LAMBDA sp, n : n + sp.has["gbl"], 0, sps)
  IN /\ gbl_dsd.avail = gbl_dsd.list
     /\ gbl_dsd.inuse = out
     /\ gbl_dsd.avail + gbl_dsd.inuse < Chains

\* A command the driver has offered to take is sent with its CDB and never
\* stops the machine.  The exception is what qla24xx_dif_start_scsi says it is
\* there for, a long CDB: without protection it ends in BUG(), or, without
\* data, is sent with no CDB at all (qla_iocb.c:1187, 1308).
CommandIsSent == Building => (~built.bug /\ built.cdb) \/ built.kind = "long"

\* A port refuses commands only until the delay is over that its target has
\* asked for.  The exceptions come from the comparison with a timestamp of
\* zero, which stands for no delay: it is in the future for half of the range
\* of jiffies, the first minutes after the boot of a 32-bit machine among
\* them; and so is one that has not been looked at for half of the range.
RefusedWhileDelayed ==
  refused => \/ pending > 0
             \/ retry_delay_timestamp # 0 /\ old = 0       \* the tick it ends
             \/ retry_delay_timestamp = 0 /\ jiffies \notin 1..Jiffies \div 2
             \/ old >= Jiffies \div 2
=============================================================================
