------------------------------ MODULE Minidump ------------------------------
(***************************************************************************)
(* The entries of the minidump template of the P3P adapters, and the walks *)
(* of qla82xx_md_collect and qla8044_collect_md_data.  An entry tells the  *)
(* driver to read something of the chip ops times; each kind of entry      *)
(* appends a number of words to the dump, and some have to poll a register *)
(* first, which may time out.  What the driver makes of that differs: an   *)
(* entry that fails ends the walk, or is skipped, and what an entry read   *)
(* until it failed is given up or kept.                                    *)
(*                                                                         *)
(* An entry is [type, ops, size, captured]: size is the count of addresses *)
(* read in each round, or the number of bytes; captured says whether its   *)
(* mask has a bit of ql2xmdcapmask.  at is the poll that times out, 0 when *)
(* none does.                                                              *)
(***************************************************************************)
EXTENDS Integers, SequencesExt

Done(n) == [words |-> n, ok |-> TRUE]
Failed == [words |-> 0, ok |-> FALSE]
Polled(at, n) == IF at = 0 THEN Done(n) ELSE Failed

Types82xx == {"CNTRL", "RDCRB", "RDMEM", "RDROM", "L2TAG", "L1", "RDOCM", "RDMUX", "QUEUE", "RDNOP"}
Types8044 == Types82xx \cup {"POLLRD", "RDMUX2", "POLLRDMWR", "RDDFE", "RDMDIO", "POLLWR"}
Entries(types) == [type : types, ops : Nat \ {0}, size : Nat \ {0}, captured : BOOLEAN]

--------------------------------------------------------------------------
(* The 82xx.                                                               *)

process_control(e, at) == Polled(at, 0)
process_rdocm(e) == Done(e.ops)
process_rdmux(e) == Done(2 * e.ops)            \* what was selected, what was read
process_rdcrb(e) == Done(2 * e.ops)
process_l2tag(e, at) == Polled(at, e.ops * e.size)
process_l1cache(e) == Done(e.ops * e.size)
process_queue(e) == Done(e.ops * e.size)
process_rdrom(e) == Done(e.size \div 4)
\* Through the test agent, sixteen bytes at a time.
process_rdmem(e, at) == IF e.size % 16 # 0 THEN Failed ELSE Polled(at, 4 * (e.size \div 16))

--------------------------------------------------------------------------
(* The 8044 reads most of it in the same way.                              *)

process_control_8044(e, at) == Polled(at, 0)
process_rdcrb_8044(e) == Done(2 * e.ops)
process_l2tag_8044(e, at) == Polled(at, e.ops * e.size)
process_l1cache_8044(e) == Done(e.ops * e.size)
process_rdocm_8044(e) == Done(e.ops)
process_rdmux_8044(e) == Done(2 * e.ops)
process_queue_8044(e) == Done(e.ops * e.size)
process_rdrom_8044(e, at) == Polled(at, e.size \div 4)
process_pollrd(e, at) == Polled(at, 2 * e.ops)
process_rdmux2(e) == Done(4 * e.ops)
process_pollrdmwr(e, at) == Polled(at, 2)
process_rddfe(e, at) == Polled(at, 2 * e.ops)
\* Keeps what has been read until a poll times out.
process_rdmdio(e, at) ==
  IF at = 0 THEN Done(2 * e.ops) ELSE [words |-> 2 * (at - 1), ok |-> FALSE]
\* Its second poll may time out without an error.
process_pollwr(e, at) == IF at = 1 THEN Failed ELSE Done(0)

\* Memory is read by DMA; what a DMA that failed has read is given up.
start_pex_dma(at) == at = 0
pex_dma_read(e, at) == IF start_pex_dma(at) THEN Done(e.size \div 4) ELSE Failed
\* Then through the test agent, whose timeout is a success without data.
process_rdmem_8044(e, at) ==
  IF e.size % 16 # 0 THEN Failed
  ELSE IF at > 1 THEN Done(0) ELSE Done(4 * (e.size \div 16))

--------------------------------------------------------------------------
(* The walks: where the data of the captured entries lie, and how it ends. *)

Start == [ptr |-> 0, data |-> {}, ok |-> FALSE, stopped |-> FALSE]
\* Where the words of entry i go.
DataOf(w, i, r) ==
  IF r.words = 0 THEN {} ELSE {[area |-> <<"md", i>>, at |-> w.ptr, len |-> r.words]}

\* The entries that end the walk when they fail.
Hard == {"CNTRL", "RDMEM", "L2TAG"}

\* An entry after more has been collected than there is room for ends the walk.
Walk(entries, size, Result(_, _), fault, SetsStatus(_)) ==
  FoldLeft(
    LAMBDA w, i :
      LET e == entries[i]
          r == Result(e, IF fault[1] = i THEN fault[2] ELSE 0)
      IN IF w.stopped THEN w
         ELSE IF w.ptr > size
         THEN [ptr |-> w.ptr, data |-> w.data, ok |-> w.ok, stopped |-> TRUE]
         ELSE IF ~e.captured THEN w
         ELSE [ptr |-> w.ptr + r.words, data |-> w.data \cup DataOf(w, i, r),
               ok |-> IF SetsStatus(e) THEN r.ok ELSE w.ok,
               stopped |-> ~r.ok /\ e.type \in Hard],
    Start, [i \in DOMAIN entries |-> i])

\* Entries of a type the driver does not know are skipped.
Result82xx(e, at) ==
  CASE e.type = "CNTRL" -> process_control(e, at)
    [] e.type = "RDCRB" -> process_rdcrb(e)
    [] e.type = "RDMEM" -> process_rdmem(e, at)
    [] e.type = "RDROM" -> process_rdrom(e)
    [] e.type = "L2TAG" -> process_l2tag(e, at)
    [] e.type = "L1" -> process_l1cache(e)
    [] e.type = "RDOCM" -> process_rdocm(e)
    [] e.type = "RDMUX" -> process_rdmux(e)
    [] e.type = "QUEUE" -> process_queue(e)
    [] OTHER -> Done(0)
md_walk_82xx(entries, size, fault) ==
  LET Sets(e) == e.type \in Hard
  IN Walk(entries, size, Result82xx, fault, Sets)

Result8044(e, at) ==
  CASE e.type = "CNTRL" -> process_control_8044(e, at)
    [] e.type = "RDCRB" -> process_rdcrb_8044(e)
    [] e.type = "RDMEM" -> LET r == pex_dma_read(e, at)
                           IN IF r.ok THEN r ELSE process_rdmem_8044(e, at)
    [] e.type = "RDROM" -> process_rdrom_8044(e, at)
    [] e.type = "L2TAG" -> process_l2tag_8044(e, at)
    [] e.type = "L1" -> process_l1cache_8044(e)
    [] e.type = "RDOCM" -> process_rdocm_8044(e)
    [] e.type = "RDMUX" -> process_rdmux_8044(e)
    [] e.type = "QUEUE" -> process_queue_8044(e)
    [] e.type = "POLLRD" -> process_pollrd(e, at)
    [] e.type = "RDMUX2" -> process_rdmux2(e)
    [] e.type = "POLLRDMWR" -> process_pollrdmwr(e, at)
    [] e.type = "RDDFE" -> process_rddfe(e, at)
    [] e.type = "RDMDIO" -> process_rdmdio(e, at)
    [] e.type = "POLLWR" -> process_pollwr(e, at)
    [] OTHER -> Done(0)
md_walk_8044(entries, size, fault) ==
  LET Sets(e) == e.type \in Hard \cup {"RDROM", "POLLRD", "POLLRDMWR", "RDDFE", "RDMDIO", "POLLWR"}
  IN Walk(entries, size, Result8044, fault, Sets)

\* What the template says it captures: the sizes it gives for each level, of
\* the levels in ql2xmdcapmask.
Claimed(entries) ==
  FoldLeft(LAMBDA n, e : n + (IF e.captured THEN Result8044(e, 0).words ELSE 0), 0, entries)
=============================================================================
