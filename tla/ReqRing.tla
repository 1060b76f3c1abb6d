----------------------------- MODULE ReqRing -----------------------------
(***************************************************************************)
(* The request ring of one adapter (struct req_que): a circular array of   *)
(* IOCB entries written by the driver under ha->hardware_lock and read by  *)
(* the firmware.  The driver keeps its own in-index (ring_index) and a     *)
(* cached count of free entries (cnt); it looks at the firmware's          *)
(* out-index only when the cached count is too small.                      *)
(*                                                                         *)
(* Two kinds of submitters share the ring and check for room differently:  *)
(*   StartScsi   qla24xx_start_scsi and its variants keep two entries of   *)
(*               head room, and on chips with shadow registers read the    *)
(*               out-index from the copy the firmware writes to memory;    *)
(*   StartPlain  qla2x00_alloc_iocbs, used for markers, logins, task       *)
(*               management, aborts and CT/ELS, keeps no head room and     *)
(*               always reads the register.                                *)
(*                                                                         *)
(* Each submission runs under hardware_lock, so it is one action.  What    *)
(* the second kind can do to the ring is recorded in the history variable  *)
(* misled, which no guard reads.                                           *)
(***************************************************************************)
EXTENDS Integers, FiniteSets

CONSTANTS
  Length,        \* req->length, entries in the ring
  CmdType,       \* IOCB format of SCSI commands on this chip
  DsdCounts,     \* data segments of the SCSI commands submitted
  PlainSizes,    \* sp->iocbs of the other requests submitted
  ShadowCapable  \* IS_SHADOW_REG_CAPABLE(ha)

CmdTypes == {"type2", "type3", "type7"}

ASSUME LengthAssumption == Length \in Nat /\ Length >= 4
ASSUME RequestAssumption ==
  /\ CmdType \in CmdTypes
  /\ DsdCounts \subseteq Nat
  /\ PlainSizes \subseteq 1..Length
ASSUME ChipAssumption == ShadowCapable \in BOOLEAN

VARIABLES
  ring,         \* ring memory: what each slot holds for the firmware
  ring_index,   \* req->ring_index, next slot the driver writes
  cnt,          \* req->cnt, cached number of free entries
  req_q_out,    \* the firmware's out-index register
  out_ptr,      \* *req->out_ptr, the copy of it in memory
  misled        \* history: since the last reset, a request without head
                \* room has left the ring in a state the driver misreads

vars == <<ring, ring_index, cnt, req_q_out, out_ptr, misled>>

Slots == 0..Length - 1

\* A fetched slot is Empty.  The driver has no such mark: it is how the
\* model knows which entries the firmware still owes a fetch.
Empty == "empty"
Kinds == {"scsi", "plain"}

TypeOK ==
  /\ ring \in [Slots -> Kinds \cup {Empty}]
  /\ ring_index \in Slots
  /\ cnt \in 0..Length
  /\ req_q_out \in Slots
  /\ out_ptr \in Slots
  /\ misled \in BOOLEAN

--------------------------------------------------------------------------
(* How many entries a command needs, and how many the builder writes.      *)

\* Data segment descriptors in a command IOCB and in its continuations.
FirstDsds(type) == IF type = "type2" THEN 3 ELSE IF type = "type3" THEN 2 ELSE 1
ContDsds(type)  == IF type = "type2" THEN 7 ELSE 5

\* Slip: the last, partly filled continuation is forgotten.
CalcIocbsNoRemainder(type, dsds) ==
  IF dsds > FirstDsds(type)
  THEN 1 + (dsds - FirstDsds(type)) \div ContDsds(type)
  ELSE 1

\* qla2x00_calc_iocbs_32, qla2x00_calc_iocbs_64 and qla24xx_calc_iocbs.
CalcIocbs(type, dsds) ==
  LET more == dsds - FirstDsds(type)
  IN IF dsds > FirstDsds(type)
     THEN 1 + more \div ContDsds(type)
            + (IF more % ContDsds(type) # 0 THEN 1 ELSE 0)
     ELSE 1

DsdsHeld(type, entries) == FirstDsds(type) + (entries - 1) * ContDsds(type)

\* The build loops open a continuation only when the entry at hand is full:
\* they write the least number of entries that holds all the segments.
IocbsBuilt(type, dsds) ==
  CHOOSE n \in 1..dsds + 1 :
     /\ dsds <= DsdsHeld(type, n)
     /\ n > 1 => DsdsHeld(type, n - 1) < dsds

--------------------------------------------------------------------------
(* Ring arithmetic.                                                        *)

\* Slip: the index may stay at length.
AdvanceNoWrapAtEnd(index, n) ==
  IF index + n > Length THEN index + n - Length ELSE index + n

\* n steps of "ring_index++, back to 0 at length".
Advance(index, n) ==
  IF index + n >= Length THEN index + n - Length ELSE index + n

\* Slip: the wrapped case is forgotten.
FreeFromNoWrap(out) == Length - (ring_index - out)

\* Free entries, as computed from an out-index; equal indices mean all.
FreeFrom(out) ==
  IF ring_index < out THEN out - ring_index ELSE Length - (ring_index - out)

\* The n slots from index on.
Window(index, n) ==
  { s \in Slots : (index <= s /\ s < index + n) \/ s < index + n - Length }

--------------------------------------------------------------------------
(* Submission.                                                             *)

\* Write n entries from ring_index on and tell the chip the new index.
Post(n, kind) ==
  /\ ring' = [s \in Slots |-> IF s \in Window(ring_index, n)
                              THEN kind ELSE ring[s]]
  /\ ring_index' = Advance(ring_index, n)

NoRoom(room) == cnt' = room /\ UNCHANGED <<ring, ring_index>>

\* The room the driver believes in: the cached count if it is enough.
RoomFor(need, out) == IF cnt < need THEN FreeFrom(out) ELSE cnt

ScsiOut == IF ShadowCapable THEN out_ptr ELSE req_q_out

\* Slip: no head room is kept.
StartScsiNoHeadRoom(dsds) ==
  LET need == CalcIocbs(CmdType, dsds)
      room == RoomFor(need, ScsiOut)
  IN /\ \/ room < need /\ NoRoom(room)
        \/ /\ room >= need
           /\ cnt' = room - need
           /\ Post(IocbsBuilt(CmdType, dsds), "scsi")
     /\ UNCHANGED <<req_q_out, out_ptr, misled>>

\* qla24xx_start_scsi and its variants: "still no head room then bail out".
StartScsi(dsds) ==
  LET need == CalcIocbs(CmdType, dsds)
      room == RoomFor(need + 2, ScsiOut)
  IN /\ \/ room < need + 2 /\ NoRoom(room)
        \/ /\ room >= need + 2
           /\ cnt' = room - need
           /\ Post(IocbsBuilt(CmdType, dsds), "scsi")
     /\ UNCHANGED <<req_q_out, out_ptr, misled>>

\* qla24xx_dif_start_scsi: one entry, and a build error after the room was
\* taken gives it back (QDSS_GOT_Q_SPACE).
StartDif ==
  LET room == RoomFor(1 + 2, ScsiOut)
  IN /\ \/ NoRoom(room)
        \/ room >= 1 + 2 /\ cnt' = room - 1 /\ Post(1, "scsi")
     /\ UNCHANGED <<req_q_out, out_ptr, misled>>

\* A request takes the last entry before an out-index somebody counts from,
\* which will make the ring look empty; or it counts entries the copy in
\* memory does not show as free yet, so that the in-index may overtake that.
Misleads(n, room) ==
  \/ room >= n /\ n \in { FreeFrom(out) : out \in {req_q_out, ScsiOut} }
  \/ ShadowCapable /\ room > FreeFrom(out_ptr)

\* qla2x00_alloc_iocbs followed by qla2x00_start_iocbs.
StartPlain(n) ==
  LET room == RoomFor(n, req_q_out)
  IN /\ \/ room < n /\ NoRoom(room)
        \/ room >= n /\ cnt' = room - n /\ Post(n, "plain")
     /\ misled' = (misled \/ Misleads(n, room))
     /\ UNCHANGED <<req_q_out, out_ptr>>

--------------------------------------------------------------------------
(* The firmware, and the chip reset.                                       *)

\* The firmware fetches the entry at its out-index and moves on.  All it
\* knows is the two indices: equal means there is nothing to fetch.
FwFetch ==
  /\ req_q_out # ring_index
  /\ ring' = [ring EXCEPT ![req_q_out] = Empty]
  /\ req_q_out' = Advance(req_q_out, 1)
  /\ UNCHANGED <<ring_index, cnt, out_ptr, misled>>

\* The firmware brings the copy in memory up to date, some time later.
FwPublish ==
  /\ out_ptr # req_q_out
  /\ out_ptr' = req_q_out
  /\ UNCHANGED <<ring, ring_index, cnt, req_q_out, misled>>

\* qla2x00_init_rings with config_rings, after the chip was reset.
InitRings ==
  /\ ring' = [s \in Slots |-> Empty]
  /\ ring_index' = 0
  /\ cnt' = Length
  /\ req_q_out' = 0
  /\ out_ptr' = 0
  /\ misled' = FALSE

Init ==
  /\ ring = [s \in Slots |-> Empty]
  /\ ring_index = 0
  /\ cnt = Length
  /\ req_q_out = 0
  /\ out_ptr = 0
  /\ misled = FALSE

Next ==
  \/ \E dsds \in DsdCounts : StartScsi(dsds)
  \/ StartDif
  \/ \E n \in PlainSizes : StartPlain(n)
  \/ FwFetch
  \/ FwPublish
  \/ InitRings

Fairness == WF_vars(FwFetch)

Spec == Init /\ [][Next]_vars /\ Fairness

--------------------------------------------------------------------------
(* Properties                                                              *)

\* Equal indices mean an empty ring: that is how the firmware reads them,
\* and how the driver does when it recomputes req->cnt.  A ring filled to
\* its last slot looks empty, and the entries in it are lost.  qla2x00_
\* alloc_iocbs says "Check for room on request queue", of every entry.
EqualIndicesMeanEmpty ==
  ring_index = req_q_out => \A s \in Slots : ring[s] = Empty

\* The same, and what can make it wrong: a request without head room alone.
\* SCSI commands never fill the ring, with the out-index they read however
\* old and the other requests among them however large.
OnlyOthersFillTheRing == misled \/ EqualIndicesMeanEmpty

\* The cached count never promises a slot that still holds an entry, however
\* long ago the out-index was read and from wherever it was: the next
\* req->cnt slots can be written without losing anything.
CreditIsSound == \A s \in Window(ring_index, cnt) : ring[s] = Empty

\* The cached room is real until a request without head room has taken the
\* last entry, or more entries than the copy of the out-index shows as free;
\* and the indices stay in the ring whatever happens.
RingIsSound == TypeOK /\ (misled \/ CreditIsSound)

\* What the firmware has yet to fetch, oldest first.
Queued == [i \in 1..Cardinality({ s \in Slots : ring[s] # Empty }) |->
             ring[Advance(req_q_out, i - 1)]]

\* What it is sure to fetch.
Promised == IF misled THEN << >> ELSE Queued

Fifo == INSTANCE FifoQueue
          WITH queue <- Promised, broken <- misled,
               Entries <- Kinds, Capacity <- Length - 1

\* The ring is a bounded FIFO, which a request without head room may break:
\* until one does, and again from the next reset of the chip, requests reach
\* the firmware whole, in the order of submission, each entry once, and every
\* entry is eventually fetched unless the chip is reset.
ImplementsFifo == Fifo!QSpec
==========================================================================
