------------------------ MODULE RingAndVports_proof ------------------------
(***************************************************************************)
(* Two lists that many hands reach at a time, the request ring and the     *)
(* list of virtual ports, and what requests occupy.  They share no state.  *)
(*                                                                         *)
(* The ring (ReqRing), for any length, any IOCB format and any mix of      *)
(* requests: until a request without head room takes the last entry, or    *)
(* more than the copy of the out-index shows, what the ring promises to be *)
(* free is free, it never looks empty when it is full, and it is a FIFO;   *)
(* nothing else breaks it.                                                 *)
(*                                                                         *)
(* The virtual ports (VportList under MCRoutines), for any number of       *)
(* ports, of threads that submit commands, and of ids: nobody stays at a   *)
(* port that has left the list, no reference is lost or counted back       *)
(* twice, ports of the list do not share an id, and the count is right.    *)
(*                                                                         *)
(* What requests occupy (IocbBuild under MCRoutines), for any commands and *)
(* jobs that the block layer can hand down, any sizes of blocks and lists, *)
(* any number of commands in flight, and any width of the clock: what is   *)
(* counted is what is built, the lists are with the adapter or with a      *)
(* command, and what a command has taken is given back, once, however its  *)
(* start ends.                                                             *)
(***************************************************************************)
EXTENDS MCRoutines, ReqRing, FiniteSetTheorems, SequenceTheorems, TLAPS

--------------------------------------------------------------------------
(* The request ring.                                                       *)

\* Entries from an out-index to the in-index.
Dist(out, in) == IF in >= out THEN in - out ELSE in - out + Length

Used == Dist(req_q_out, ring_index)

\* Exactly the slots from the out-index to the in-index hold entries.
Occupied == \A s \in Slots : ring[s] # Empty <=> s \in Window(req_q_out, Used)

\* The copy of the out-index trails the register, and the slots the driver
\* takes for free lie outside the stretch from the copy to the in-index.
Shadow ==
  ShadowCapable =>
    /\ Dist(out_ptr, req_q_out) + Used = Dist(out_ptr, ring_index)
    /\ cnt <= Length - Dist(out_ptr, ring_index)

\* The ring while nothing has misled the driver.
Ring == Occupied /\ cnt <= Length - Used /\ Shadow

Sane == TypeOK /\ ~misled /\ Ring

IInv == TypeOK /\ (~misled => Ring)

--------------------------------------------------------------------------
(* The count of entries computed for a command is the number its build     *)
(* loop writes, for every format and every number of segments.             *)

LEMMA CalcIocbsHolds ==
  ASSUME NEW type \in CmdTypes, NEW dsds \in Nat
  PROVE  LET n == CalcIocbs(type, dsds)
         IN /\ n \in 1..dsds + 1
            /\ dsds <= DsdsHeld(type, n)
            /\ n > 1 => DsdsHeld(type, n - 1) < dsds
<1>1. CASE type = "type2"
  BY <1>1 DEF CalcIocbs, DsdsHeld, FirstDsds, ContDsds
<1>2. CASE type = "type3"
  BY <1>2 DEF CalcIocbs, DsdsHeld, FirstDsds, ContDsds
<1>3. CASE type = "type7"
  BY <1>3 DEF CalcIocbs, DsdsHeld, FirstDsds, ContDsds
<1> QED BY <1>1, <1>2, <1>3 DEF CmdTypes

\* qla2x00_calc_iocbs_32, qla2x00_calc_iocbs_64 and qla24xx_calc_iocbs agree
\* with the loops of qla2x00_build_scsi_iocbs_32, _64 and
\* qla24xx_build_scsi_iocbs: the credit taken is the ring space written.
THEOREM CalcIocbsExact ==
  ASSUME NEW type \in CmdTypes, NEW dsds \in Nat
  PROVE  CalcIocbs(type, dsds) = IocbsBuilt(type, dsds)
<1> DEFINE Fits(n) == /\ dsds <= DsdsHeld(type, n)
                      /\ n > 1 => DsdsHeld(type, n - 1) < dsds
           c == CalcIocbs(type, dsds)
           b == IocbsBuilt(type, dsds)
<1>1. c \in 1..dsds + 1 /\ Fits(c)
  BY CalcIocbsHolds
<1>2. b \in 1..dsds + 1 /\ Fits(b)
  BY <1>1 DEF IocbsBuilt
<1>3. ASSUME NEW m \in 1..dsds + 1, NEW n \in 1..dsds + 1, Fits(m), Fits(n), m < n
      PROVE  FALSE
  <2>1. m <= n - 1 /\ n > 1
    BY <1>3
  <2>2. DsdsHeld(type, m) <= DsdsHeld(type, n - 1)
    BY <2>1 DEF DsdsHeld, FirstDsds, ContDsds
  <2> QED BY <1>3, <2>1, <2>2 DEF DsdsHeld, FirstDsds, ContDsds
<1>4. ~(b < c) /\ ~(c < b)
  BY <1>1, <1>2, <1>3
<1> QED BY <1>1, <1>2, <1>4

--------------------------------------------------------------------------
(* The inductive invariant.                                                *)

LEMMA InitInv == Init => Sane
<1> SUFFICES ASSUME Init PROVE Sane
  OBVIOUS
<1>1. TypeOK
  <2>1. ring \in [Slots -> Kinds \cup {Empty}]
    BY DEF Init
  <2>2. misled \in BOOLEAN
    BY DEF Init
  <2> QED BY <2>1, <2>2, LengthAssumption DEF Init, TypeOK, Slots
<1>2. Used = 0 /\ Dist(out_ptr, req_q_out) = 0 /\ Dist(out_ptr, ring_index) = 0
  BY DEF Init, Used, Dist
<1>3. Occupied
  BY <1>2, LengthAssumption DEF Init, Occupied, Window, Slots
<1> QED BY <1>1, <1>2, <1>3, LengthAssumption DEF Init, Sane, Ring, Shadow

\* Whatever room a submitter finds, it is not more than the ring.
LEMMA RoomInRing ==
  ASSUME TypeOK, NEW need \in Nat
  PROVE  RoomFor(need, ScsiOut) \in 0..Length /\ RoomFor(need, req_q_out) \in 0..Length
  BY LengthAssumption, ChipAssumption DEF TypeOK, RoomFor, ScsiOut, FreeFrom, Slots

\* The room a submitter finds, by its cached count or by a look at the
\* out-index, is really there.
LEMMA RoomIsReal ==
  ASSUME Sane, NEW need \in Nat
  PROVE  /\ RoomFor(need, ScsiOut) <= Length - Used
         /\ RoomFor(need, req_q_out) <= Length - Used
         /\ ShadowCapable =>
              RoomFor(need, ScsiOut) <= Length - Dist(out_ptr, ring_index)
  BY LengthAssumption, ChipAssumption
  DEF Sane, Ring, TypeOK, Shadow, RoomFor, ScsiOut, FreeFrom, Used, Dist, Slots

\* Posting keeps the indices and the count in the ring.
LEMMA PostInRing ==
  ASSUME TypeOK, NEW n \in 1..Length, NEW room \in 0..Length, n <= room,
         NEW kind \in Kinds, cnt' = room - n, Post(n, kind), misled' \in BOOLEAN,
         UNCHANGED <<req_q_out, out_ptr>>
  PROVE  TypeOK'
<1> USE LengthAssumption
<1>1. ring_index' \in Slots /\ cnt' \in 0..Length
  BY DEF TypeOK, Post, Advance, Slots
<1>2. ring' \in [Slots -> Kinds \cup {Empty}]
  BY DEF TypeOK, Post
<1> QED BY <1>1, <1>2 DEF TypeOK

\* Posting n entries into free slots, with one slot left, extends the
\* occupied stretch by n.
LEMMA PostExtends ==
  ASSUME Sane, NEW n \in 1..Length, NEW kind \in Kinds,
         n <= Length - 1 - Used,
         Post(n, kind), UNCHANGED <<req_q_out, out_ptr>>
  PROVE  /\ ring' \in [Slots -> Kinds \cup {Empty}]
         /\ ring_index' \in Slots
         /\ Used' = Used + n
         /\ Occupied'
         /\ \A s \in Slots : ring[s] # Empty => ring'[s] = ring[s]
         /\ ring'[ring_index] = kind
<1> USE LengthAssumption DEF Sane, Ring, TypeOK, Slots
<1>1. ring_index' \in Slots /\ Used' = Used + n
  BY DEF Post, Advance, Used, Dist
<1>2. \A s \in Slots : s \in Window(ring_index, n) => s \notin Window(req_q_out, Used)
  BY DEF Window, Used, Dist
<1>3. \A s \in Slots : s \in Window(req_q_out, Used + n) <=>
                         \/ s \in Window(ring_index, n)
                         \/ s \in Window(req_q_out, Used)
  BY DEF Window, Used, Dist
<1>4. kind # Empty
  BY DEF Kinds, Empty
<1>5. Occupied'
  BY <1>1, <1>3, <1>4 DEF Post, Occupied
<1>6. \A s \in Slots : ring[s] # Empty => ring'[s] = ring[s]
  BY <1>2 DEF Post, Occupied
<1>7. ring_index \in Window(ring_index, n)
  BY DEF Window
<1> QED BY <1>1, <1>5, <1>6, <1>7 DEF Post, Kinds

\* Entries posted that leave a slot free before every out-index counted from.
LEMMA PostKeepsRing ==
  ASSUME Sane, NEW n \in 1..Length, NEW room \in 0..Length, NEW kind \in Kinds,
         room <= Length - Used, n <= room, n <= Length - 1 - Used,
         ShadowCapable => /\ room <= Length - Dist(out_ptr, ring_index)
                          /\ n <= Length - 1 - Dist(out_ptr, ring_index),
         cnt' = room - n, Post(n, kind), UNCHANGED <<req_q_out, out_ptr>>
  PROVE  Ring'
<1> USE LengthAssumption
<1>0. TypeOK
  BY DEF Sane
<1>0a. Used \in 0..Length - 1
  BY <1>0 DEF TypeOK, Used, Dist, Slots
<1>1. Used' = Used + n /\ Occupied'
  BY PostExtends
<1>2. cnt' <= Length - Used'
  BY <1>0a, <1>1
<1>3. Shadow'
  <2> SUFFICES ASSUME ShadowCapable PROVE Shadow'
    BY DEF Shadow
  <2>1. Dist(out_ptr, ring_index) \in 0..Length - 1
    BY <1>0 DEF Dist, TypeOK, Slots
  <2>2. Dist(out_ptr', ring_index') = Dist(out_ptr, ring_index) + n
    BY <1>0, <2>1 DEF Post, Advance, Dist, TypeOK, Slots
  <2>3. Dist(out_ptr', req_q_out') = Dist(out_ptr, req_q_out)
    BY DEF Dist
  <2>4. Dist(out_ptr, req_q_out) + Used = Dist(out_ptr, ring_index)
    BY DEF Sane, Ring, Shadow
  <2>5. Dist(out_ptr, req_q_out) \in 0..Length - 1
    BY <1>0 DEF Dist, TypeOK, Slots
  <2>6. Dist(out_ptr, req_q_out) + Used' = Dist(out_ptr', ring_index')
    BY <1>0a, <1>1, <2>2, <2>4, <2>5
  <2> QED BY <2>1, <2>2, <2>3, <2>6 DEF Shadow
<1> QED BY <1>1, <1>2, <1>3 DEF Ring

\* Nothing posted: only the cached count is renewed.
LEMMA NoRoomKeepsRing ==
  ASSUME Sane, NEW room \in 0..Length, room <= Length - Used,
         ShadowCapable => room <= Length - Dist(out_ptr, ring_index),
         NoRoom(room), UNCHANGED <<req_q_out, out_ptr>>
  PROVE  Ring'
  BY DEF Sane, Ring, NoRoom, Occupied, Used, Shadow

\* A command is posted with two entries to spare, or is not posted.
LEMMA ScsiInv ==
  ASSUME IInv, NEW n \in Nat \ {0}, NEW room, room = RoomFor(n + 2, ScsiOut),
         \/ NoRoom(room)
         \/ room >= n + 2 /\ cnt' = room - n /\ Post(n, "scsi"),
         UNCHANGED <<req_q_out, out_ptr, misled>>
  PROVE  IInv'
<1> USE LengthAssumption
<1>1. TypeOK /\ room \in 0..Length
  BY RoomInRing DEF IInv
<1>2. TypeOK'
  <2>1. CASE NoRoom(room)
    BY <1>1, <2>1 DEF TypeOK, NoRoom
  <2>2. CASE room >= n + 2 /\ cnt' = room - n /\ Post(n, "scsi")
    <3>1. n \in 1..Length /\ n <= room /\ misled' \in BOOLEAN /\ "scsi" \in Kinds
      BY <1>1, <2>2 DEF TypeOK, Kinds
    <3> QED BY <1>1, <2>2, <3>1, PostInRing
  <2> QED BY <2>1, <2>2
<1>3. ASSUME ~misled' PROVE Ring'
  <2>1. Sane
    BY <1>3 DEF IInv, Sane
  <2>2. /\ room <= Length - Used
        /\ ShadowCapable => room <= Length - Dist(out_ptr, ring_index)
    BY <2>1, RoomIsReal
  <2>3. CASE NoRoom(room)
    BY <1>1, <2>1, <2>2, <2>3, NoRoomKeepsRing
  <2>4. CASE room >= n + 2 /\ cnt' = room - n /\ Post(n, "scsi")
    <3>1. /\ Used \in 0..Length - 1 /\ Dist(out_ptr, ring_index) \in 0..Length - 1
      BY <1>1 DEF TypeOK, Used, Dist, Slots
    <3>2. /\ n \in 1..Length /\ n <= room /\ n <= Length - 1 - Used
          /\ ShadowCapable => n <= Length - 1 - Dist(out_ptr, ring_index)
          /\ "scsi" \in Kinds
      BY <1>1, <2>2, <2>4, <3>1 DEF Kinds
    <3> QED BY <1>1, <2>1, <2>2, <2>4, <3>2, PostKeepsRing
  <2> QED BY <2>3, <2>4
<1> QED BY <1>2, <1>3 DEF IInv

LEMMA StartScsiInv ==
  ASSUME IInv, NEW dsds \in DsdCounts, StartScsi(dsds)
  PROVE  IInv'
<1> DEFINE need == CalcIocbs(CmdType, dsds)
           room == RoomFor(need + 2, ScsiOut)
<1>1. need = IocbsBuilt(CmdType, dsds) /\ need \in Nat \ {0}
  BY CalcIocbsExact, CalcIocbsHolds, RequestAssumption
<1>2. /\ \/ NoRoom(room)
         \/ room >= need + 2 /\ cnt' = room - need /\ Post(need, "scsi")
      /\ UNCHANGED <<req_q_out, out_ptr, misled>>
  BY <1>1 DEF StartScsi
<1> QED BY <1>1, <1>2, ScsiInv

LEMMA StartDifInv ==
  ASSUME IInv, StartDif
  PROVE  IInv'
<1> DEFINE room == RoomFor(1 + 2, ScsiOut)
<1>1. /\ \/ NoRoom(room)
         \/ room >= 1 + 2 /\ cnt' = room - 1 /\ Post(1, "scsi")
      /\ UNCHANGED <<req_q_out, out_ptr, misled>>
  BY DEF StartDif
<1> QED BY <1>1, ScsiInv

\* A request of the other kind that misleads nobody leaves a slot free too.
LEMMA PlainLeavesASlot ==
  ASSUME Sane, NEW n \in 1..Length, NEW room \in 0..Length,
         room = RoomFor(n, req_q_out), ~Misleads(n, room)
  PROVE  /\ room <= Length - Used
         /\ ShadowCapable => room <= Length - Dist(out_ptr, ring_index)
         /\ n <= room => /\ n <= Length - 1 - Used
                         /\ ShadowCapable => n <= Length - 1 - Dist(out_ptr, ring_index)
<1> USE LengthAssumption, ChipAssumption
<1>1. room <= Length - Used /\ TypeOK
  BY RoomIsReal DEF Sane
<1>2. /\ FreeFrom(req_q_out) = Length - Used
      /\ FreeFrom(out_ptr) = Length - Dist(out_ptr, ring_index)
  BY <1>1 DEF FreeFrom, Used, Dist, TypeOK, Slots
<1>3. /\ n <= room => n # FreeFrom(req_q_out) /\ n # FreeFrom(ScsiOut)
      /\ ShadowCapable => ~(room > FreeFrom(out_ptr))
  BY DEF Misleads
<1>4. Used \in 0..Length - 1 /\ Dist(out_ptr, ring_index) \in 0..Length - 1
  BY <1>1 DEF TypeOK, Used, Dist, Slots
<1> QED BY <1>1, <1>2, <1>3, <1>4 DEF ScsiOut

LEMMA StartPlainInv ==
  ASSUME IInv, NEW n \in PlainSizes, StartPlain(n)
  PROVE  IInv'
<1> USE LengthAssumption
<1> DEFINE room == RoomFor(n, req_q_out)
<1>1. TypeOK /\ room \in 0..Length /\ n \in 1..Length /\ n \in Nat
  BY RoomInRing, RequestAssumption DEF IInv
<1>2. /\ NoRoom(room) \/ (room >= n /\ cnt' = room - n /\ Post(n, "plain"))
      /\ misled' = (misled \/ Misleads(n, room))
      /\ UNCHANGED <<req_q_out, out_ptr>>
  BY DEF StartPlain
<1>2a. misled' \in BOOLEAN /\ "plain" \in Kinds
  BY <1>2 DEF Kinds
<1>3. TypeOK'
  <2>1. CASE NoRoom(room)
    BY <1>1, <1>2, <1>2a, <2>1 DEF TypeOK, NoRoom
  <2>2. CASE room >= n /\ cnt' = room - n /\ Post(n, "plain")
    BY <1>1, <1>2, <1>2a, <2>2, PostInRing
  <2> QED BY <1>2, <2>1, <2>2
<1>4. ASSUME ~misled' PROVE Ring'
  <2>1. Sane /\ ~Misleads(n, room)
    BY <1>2, <1>4 DEF IInv, Sane
  <2>2. /\ room <= Length - Used
        /\ ShadowCapable => room <= Length - Dist(out_ptr, ring_index)
        /\ n <= room => /\ n <= Length - 1 - Used
                        /\ ShadowCapable => n <= Length - 1 - Dist(out_ptr, ring_index)
    BY <1>1, <2>1, PlainLeavesASlot
  <2>3. CASE NoRoom(room)
    BY <1>1, <1>2, <2>1, <2>2, <2>3, NoRoomKeepsRing
  <2>4. CASE room >= n /\ cnt' = room - n /\ Post(n, "plain")
    <3> HIDE DEF room
    <3>1. n <= room
      BY <1>1, <2>4
    <3> QED BY <1>1, <1>2, <1>2a, <2>1, <2>2, <2>4, <3>1, PostKeepsRing
  <2> QED BY <1>2, <2>3, <2>4
<1> QED BY <1>3, <1>4 DEF IInv

LEMMA FwFetchRing ==
  ASSUME Sane, FwFetch
  PROVE  Ring'
<1> USE LengthAssumption
<1>0. TypeOK
  BY DEF Sane
<1>1. /\ Used \in 1..Length - 1
      /\ Used' = Used - 1
  BY <1>0 DEF FwFetch, Advance, Used, Dist, TypeOK, Slots
<1>3. \A s \in Slots : s \in Window(req_q_out', Used') <=>
                         s \in Window(req_q_out, Used) /\ s # req_q_out
  BY <1>0, <1>1 DEF FwFetch, Advance, Window, TypeOK, Slots, Used, Dist
<1>4. Occupied'
  BY <1>0, <1>3 DEF Sane, Ring, Occupied, FwFetch, TypeOK, Empty
<1>6. cnt' <= Length - Used'
  BY <1>0, <1>1 DEF Sane, Ring, FwFetch, TypeOK
<1>7. Shadow'
  <2> SUFFICES ASSUME ShadowCapable PROVE Shadow'
    BY DEF Shadow
  <2>1. /\ Dist(out_ptr, req_q_out) + Used = Dist(out_ptr, ring_index)
        /\ cnt <= Length - Dist(out_ptr, ring_index)
    BY DEF Sane, Ring, Shadow
  <2>2. Dist(out_ptr, req_q_out) \in 0..Length - 2
    BY <1>0, <1>1, <2>1 DEF Dist, TypeOK, Slots
  <2>3. Dist(out_ptr', req_q_out') = Dist(out_ptr, req_q_out) + 1
    BY <1>0, <2>2 DEF FwFetch, Advance, Dist, TypeOK, Slots
  <2>4. Dist(out_ptr', ring_index') = Dist(out_ptr, ring_index) /\ cnt' = cnt
    BY DEF FwFetch, Dist
  <2>5. Dist(out_ptr', req_q_out') + Used' = Dist(out_ptr', ring_index')
    BY <1>1, <2>1, <2>2, <2>3, <2>4
  <2> QED BY <2>1, <2>4, <2>5 DEF Shadow
<1> QED BY <1>4, <1>6, <1>7 DEF Ring

LEMMA FwFetchInv ==
  ASSUME IInv, FwFetch
  PROVE  IInv'
<1>1. TypeOK'
  BY LengthAssumption DEF IInv, FwFetch, TypeOK, Advance, Slots
<1>2. ~misled' => Sane
  BY DEF IInv, Sane, FwFetch
<1> QED BY <1>1, <1>2, FwFetchRing DEF IInv

LEMMA FwPublishInv ==
  ASSUME IInv, FwPublish
  PROVE  IInv'
<1> USE LengthAssumption
<1>1. TypeOK /\ TypeOK'
  BY DEF IInv, FwPublish, TypeOK
<1>2. Used' = Used /\ Used \in 0..Length - 1
  BY <1>1 DEF FwPublish, Used, Dist, TypeOK, Slots
<1>3. ASSUME ~misled' PROVE Occupied' /\ cnt' <= Length - Used'
  BY <1>2, <1>3 DEF IInv, Ring, FwPublish, Occupied
<1>4. ASSUME ~misled' PROVE Shadow'
  <2>1. Dist(out_ptr', req_q_out') = 0 /\ Dist(out_ptr', ring_index') = Used
    BY <1>1 DEF FwPublish, Dist, Used, TypeOK, Slots
  <2> QED BY <1>2, <1>3, <1>4, <2>1 DEF Shadow
<1> QED BY <1>1, <1>3, <1>4 DEF IInv, Ring

LEMMA InitRingsInv ==
  ASSUME InitRings
  PROVE  IInv' /\ Used' = 0
<1> USE LengthAssumption
<1>1. TypeOK'
  <2>1. ring' \in [Slots -> Kinds \cup {Empty}]
    BY DEF InitRings
  <2>2. misled' \in BOOLEAN
    BY DEF InitRings
  <2> QED BY <2>1, <2>2 DEF InitRings, TypeOK, Slots
<1>2. /\ Used' = 0
      /\ Dist(out_ptr', req_q_out') = 0
      /\ Dist(out_ptr', ring_index') = 0
  BY DEF InitRings, Used, Dist
<1>3. Occupied'
  BY <1>2 DEF InitRings, Occupied, Window, Slots
<1> QED BY <1>1, <1>2, <1>3 DEF InitRings, IInv, Ring, Shadow

LEMMA StepInv == IInv /\ [Next]_vars => IInv'
<1> SUFFICES ASSUME IInv, [Next]_vars PROVE IInv'
  OBVIOUS
<1>1. CASE \E dsds \in DsdCounts : StartScsi(dsds)
  BY <1>1, StartScsiInv
<1>2. CASE StartDif
  BY <1>2, StartDifInv
<1>3. CASE \E n \in PlainSizes : StartPlain(n)
  BY <1>3, StartPlainInv
<1>4. CASE FwFetch
  BY <1>4, FwFetchInv
<1>5. CASE FwPublish
  BY <1>5, FwPublishInv
<1>6. CASE InitRings
  BY <1>6, InitRingsInv
<1>7. CASE UNCHANGED vars
  BY <1>7 DEF vars, IInv, Ring, TypeOK, Occupied, Shadow, Used
<1> QED BY <1>1, <1>2, <1>3, <1>4, <1>5, <1>6, <1>7 DEF Next

LEMMA InvHolds == Spec => []IInv
<1>1. Init => IInv
  BY InitInv DEF Sane, IInv
<1> QED BY <1>1, StepInv, PTL DEF Spec

--------------------------------------------------------------------------
\* Type correctness, whatever is submitted: the indices and the count stay in
\* the ring even after a request has misled the driver.
THEOREM TypeCorrect == Spec => []TypeOK
<1>1. IInv => TypeOK
  BY DEF IInv
<1> QED BY <1>1, InvHolds, PTL

\* In a ring of any length, under any load, SCSI commands never fill the ring
\* so that it looks empty: neither the firmware nor FreeFrom mistakes a full
\* ring for an empty one before a request without head room has taken the
\* last entry, or more than the copy of the out-index shows.
THEOREM NeverLooksEmptyWhenFull == Spec => []OnlyOthersFillTheRing
<1>1. IInv => OnlyOthersFillTheRing
  BY LengthAssumption
  DEF IInv, Ring, Occupied, OnlyOthersFillTheRing, EqualIndicesMeanEmpty, Used,
      Dist, Window, TypeOK, Slots
<1> QED BY <1>1, InvHolds, PTL

\* Up to the same event req->cnt is sound credit: whatever was fetched, posted
\* or left stale since the out-index was read, the next req->cnt slots hold
\* no entry the firmware still owes a fetch.
THEOREM RingAlwaysSound == Spec => []RingIsSound
<1>1. IInv => RingIsSound
  <2> SUFFICES ASSUME IInv, ~misled PROVE CreditIsSound
    BY DEF IInv, RingIsSound
  <2> QED BY LengthAssumption
    DEF IInv, Ring, Occupied, CreditIsSound, Used, Dist, Window, TypeOK, Slots
<1> QED BY <1>1, InvHolds, PTL

--------------------------------------------------------------------------
(* The ring implements the queue: every step of the ring appends a batch,  *)
(* takes an entry, drops the queue, or leaves it as it is.                 *)

\* The entries of a ring r from slot out on are a sequence as long as there
\* are occupied slots.
LEMMA StretchIsQueue ==
  ASSUME NEW r \in [Slots -> Kinds \cup {Empty}], NEW out \in Slots,
         NEW u \in 0..Length - 1,
         \A s \in Slots : r[s] # Empty <=> s \in Window(out, u)
  PROVE  /\ Cardinality({ s \in Slots : r[s] # Empty }) = u
         /\ \A i \in 1..u : /\ Advance(out, i - 1) \in Slots
                            /\ r[Advance(out, i - 1)] \in Kinds
<1> USE LengthAssumption
<1> DEFINE Nth(i) == Advance(out, i - 1)
           Filled == { s \in Slots : r[s] # Empty }
           f == [i \in 1..u |-> Nth(i)]
<1>1. \A i \in 1..u : Nth(i) \in Slots /\ Nth(i) \in Window(out, u)
  BY DEF Advance, Window, Slots
<1>2. \A i, j \in 1..u : Nth(i) = Nth(j) => i = j
  BY DEF Advance, Slots
<1>3. ASSUME NEW s \in Filled PROVE \E i \in 1..u : Nth(i) = s
  <2>1. s \in Slots /\ s \in Window(out, u)
    OBVIOUS
  <2> DEFINE i == IF s >= out THEN s - out + 1 ELSE s - out + Length + 1
  <2>2. i \in 1..u /\ Nth(i) = s
    BY <2>1 DEF Advance, Window, Slots
  <2> QED BY <2>2
<1>4. \A i \in 1..u : Nth(i) \in Filled
  BY <1>1
<1>5. \A i \in 1..u : r[Nth(i)] \in Kinds
  BY <1>4
<1> HIDE DEF Nth, Filled
<1>6. f \in Bijection(1..u, Filled)
  BY <1>2, <1>3, <1>4 DEF Bijection, Injection, Surjection, IsInjective
<1>7. Cardinality(Filled) = u
  BY <1>6, FS_CountingElements DEF ExistsBijection
<1> QED BY <1>1, <1>5, <1>7 DEF Nth, Filled

LEMMA DistInRange ==
  ASSUME NEW out \in Slots, NEW in \in Slots
  PROVE  Dist(out, in) \in 0..Length - 1
BY LengthAssumption DEF Dist, Slots

LEMMA UsedInRange ==
  ASSUME TypeOK PROVE Used \in 0..Length - 1
BY DistInRange DEF TypeOK, Used

LEMMA QueuedIs ==
  ASSUME Sane
  PROVE  /\ Queued \in Seq(Kinds) /\ Len(Queued) = Used
         /\ \A i \in 1..Used : /\ Queued[i] = ring[Advance(req_q_out, i - 1)]
                               /\ Advance(req_q_out, i - 1) \in Slots
<1>1. Used \in 0..Length - 1
  BY UsedInRange DEF Sane
<1>2. /\ Cardinality({ s \in Slots : ring[s] # Empty }) = Used
      /\ \A i \in 1..Used : /\ Advance(req_q_out, i - 1) \in Slots
                            /\ ring[Advance(req_q_out, i - 1)] \in Kinds
  BY <1>1, StretchIsQueue DEF Sane, Ring, TypeOK, Occupied
<1>3. Queued = [i \in 1..Used |-> ring[Advance(req_q_out, i - 1)]]
  BY <1>2 DEF Queued
<1>4. Used \in Nat /\ Queued \in [1..Used -> Kinds]
  BY <1>1, <1>2, <1>3, LengthAssumption
<1> QED BY <1>2, <1>3, <1>4

\* The same of the next state.
LEMMA QueuedNext ==
  ASSUME Sane'
  PROVE  /\ Queued' \in Seq(Kinds) /\ Len(Queued') = Used'
         /\ \A i \in 1..Used' : Queued'[i] = ring'[Advance(req_q_out', i - 1)]
<1>1. Used' \in 0..Length - 1
  <2>1. ring_index' \in Slots /\ req_q_out' \in Slots
    BY DEF Sane, TypeOK
  <2>2. Used' = Dist(req_q_out', ring_index')
    BY DEF Used
  <2> QED BY <2>1, <2>2, DistInRange
<1>2. /\ Cardinality({ s \in Slots : ring'[s] # Empty }) = Used'
      /\ \A i \in 1..Used' : /\ Advance(req_q_out', i - 1) \in Slots
                             /\ ring'[Advance(req_q_out', i - 1)] \in Kinds
  BY <1>1, StretchIsQueue DEF Sane, Ring, TypeOK, Occupied
<1>3. Queued' = [i \in 1..Used' |-> ring'[Advance(req_q_out', i - 1)]]
  BY <1>2 DEF Queued
<1>4. Used' \in Nat /\ Queued' \in [1..Used' -> Kinds]
  BY <1>1, <1>2, <1>3, LengthAssumption
<1> QED BY <1>3, <1>4

LEMMA PromisedIs ==
  /\ Sane => ~misled /\ Promised = Queued
  /\ Sane' => misled' = FALSE /\ Promised' = Queued'
BY DEF Sane, TypeOK, Promised

\* What is posted is appended, as one batch.
LEMMA PostAppends ==
  ASSUME Sane, Sane', NEW n \in 1..Length, NEW kind \in Kinds,
         n <= Length - 1 - Used,
         Post(n, kind), UNCHANGED <<req_q_out, out_ptr>>
  PROVE  \E batch \in Fifo!Batches : Fifo!Append1(batch)
<1> USE LengthAssumption
<1> DEFINE batch == [i \in 1..n |-> kind]
<1>1. /\ Used \in 0..Length - 1
      /\ Used' = Used + n
      /\ \A s \in Slots : ring[s] # Empty => ring'[s] = ring[s]
  BY PostExtends, UsedInRange DEF Sane
<1>2. \A i \in 1..Used : ring'[Advance(req_q_out, i - 1)] = Queued[i]
  <2>1. \A i \in 1..Used : Queued[i] # Empty
    BY QueuedIs DEF Kinds, Empty
  <2> QED BY <1>1, <2>1, QueuedIs
<1>3. \A i \in Used + 1..Used + n : ring'[Advance(req_q_out, i - 1)] = kind
  <2>1. \A i \in Used + 1..Used + n :
          /\ Advance(req_q_out, i - 1) \in Slots
          /\ Advance(req_q_out, i - 1) \in Window(ring_index, n)
    BY <1>1 DEF Sane, TypeOK, Advance, Window, Used, Dist, Slots
  <2> QED BY <2>1 DEF Post
<1>4. /\ batch \in Seq(Kinds) /\ Len(batch) = n /\ batch \in Fifo!Batches
      /\ \A i \in 1..n : batch[i] = kind
  <2>1. n \in 1..Length - 1
    BY <1>1
  <2> QED BY <2>1 DEF Fifo!Batches
<1> HIDE DEF batch
<1>5. Queued' = Queued \o batch
  <2> DEFINE q == Queued \o batch
  <2>1. /\ q \in Seq(Kinds) /\ Len(q) = Len(Queued) + Len(batch)
        /\ \A i \in 1..Len(Queued) + Len(batch) :
             q[i] = IF i <= Len(Queued) THEN Queued[i] ELSE batch[i - Len(Queued)]
    BY <1>4, QueuedIs, ConcatProperties
  <2> HIDE DEF q
  <2>2. Len(q) = Used + n
    BY <1>4, <2>1, QueuedIs
  <2>3. ASSUME NEW i \in 1..Used + n PROVE Queued'[i] = q[i]
    <3>1. Queued'[i] = ring'[Advance(req_q_out, i - 1)]
      BY <1>1, QueuedNext
    <3>2. CASE i <= Used
      BY <1>1, <1>2, <1>4, <2>1, <3>1, <3>2, QueuedIs
    <3>3. CASE i > Used
      BY <1>1, <1>3, <1>4, <2>1, <3>1, <3>3, QueuedIs
    <3> QED BY <1>1, <3>2, <3>3
  <2>4. Queued' \in Seq(Kinds) /\ Len(Queued') = Used + n
    BY <1>1, QueuedNext
  <2>5. Queued' = q
    BY <2>1, <2>2, <2>3, <2>4, SeqEqual
  <2> QED BY <2>5 DEF q
<1>6. Len(Queued) + Len(batch) <= Length - 1
  BY <1>1, <1>4, QueuedIs
<1> QED BY <1>4, <1>5, <1>6, PromisedIs DEF Fifo!Append1

\* A step that changes neither the ring nor the firmware's index.
LEMMA QueueKept ==
  ASSUME UNCHANGED <<ring, req_q_out, misled>>
  PROVE  UNCHANGED Fifo!QVars
BY DEF Fifo!QVars, Promised, Queued

\* A command is appended, or there was no room for it.
LEMMA ScsiAppends ==
  ASSUME Sane, Sane', NEW n \in Nat \ {0}, NEW room, room = RoomFor(n + 2, ScsiOut),
         NoRoom(room) \/ (room >= n + 2 /\ Post(n, "scsi")),
         UNCHANGED <<req_q_out, out_ptr, misled>>
  PROVE  [Fifo!QNext]_Fifo!QVars
<1>1. CASE NoRoom(room)
  BY <1>1, QueueKept DEF NoRoom
<1>2. CASE room >= n + 2 /\ Post(n, "scsi")
  <2>1. room \in 0..Length /\ room <= Length - Used
    BY RoomInRing, RoomIsReal DEF Sane
  <2>2. n \in 1..Length /\ n <= Length - 1 - Used /\ "scsi" \in Kinds
    BY <1>2, <2>1, LengthAssumption, UsedInRange DEF Sane, Kinds
  <2> QED BY <1>2, <2>2, PostAppends DEF Fifo!QNext
<1> QED BY <1>1, <1>2

LEMMA FetchTakes ==
  ASSUME Sane, Sane', FwFetch
  PROVE  Fifo!Take
<1> USE LengthAssumption
<1>1. Used \in 1..Length - 1 /\ Used' = Used - 1
  BY DEF Sane, FwFetch, Advance, Used, Dist, TypeOK, Slots
<1>2. Queued # << >>
  BY <1>1, QueuedIs
<1>3. \A i \in 1..Used - 1 : ring'[Advance(req_q_out', i - 1)] = Queued[i + 1]
  <2>1. \A i \in 1..Used - 1 : /\ Advance(req_q_out', i - 1) = Advance(req_q_out, i)
                               /\ Advance(req_q_out, i) # req_q_out
    BY <1>1 DEF Sane, TypeOK, FwFetch, Advance, Slots
  <2>2. \A i \in 1..Used - 1 : /\ Queued[i + 1] = ring[Advance(req_q_out, i)]
                               /\ Advance(req_q_out, i) \in Slots
    <3> SUFFICES ASSUME NEW i \in 1..Used - 1
                 PROVE  /\ Queued[i + 1] = ring[Advance(req_q_out, i)]
                        /\ Advance(req_q_out, i) \in Slots
      OBVIOUS
    <3>1. i + 1 \in 1..Used /\ i + 1 - 1 = i
      BY <1>1
    <3> QED BY <3>1, QueuedIs
  <2>3. \A s \in Slots : s # req_q_out => ring'[s] = ring[s]
    BY DEF FwFetch, Sane, TypeOK
  <2> QED BY <2>1, <2>2, <2>3
<1>4. Queued' = Tail(Queued)
  <2>1. /\ Tail(Queued) \in Seq(Kinds) /\ Len(Tail(Queued)) = Used - 1
        /\ \A i \in 1..Used - 1 : Tail(Queued)[i] = Queued[i + 1]
    BY <1>2, QueuedIs, HeadTailProperties
  <2>2. /\ Queued' \in Seq(Kinds) /\ Len(Queued') = Used - 1
        /\ \A i \in 1..Used - 1 : Queued'[i] = Queued[i + 1]
    BY <1>1, <1>3, QueuedNext
  <2> QED BY <2>1, <2>2, SeqEqual
<1> QED BY <1>2, <1>4, PromisedIs DEF Fifo!Take

LEMMA ResetDrops ==
  ASSUME Sane', InitRings
  PROVE  Fifo!Drop
<1>1. Used' = 0
  BY InitRingsInv
<1>2. Queued' \in Seq(Kinds) /\ Len(Queued') = 0
  BY <1>1, QueuedNext
<1> QED BY <1>2, PromisedIs DEF Fifo!Drop

\* While nothing misleads the driver.
LEMMA SaneStepImplements ==
  ASSUME Sane, Sane', [Next]_vars
  PROVE  [Fifo!QNext]_Fifo!QVars
<1>1. ASSUME NEW dsds \in DsdCounts, StartScsi(dsds)
      PROVE  [Fifo!QNext]_Fifo!QVars
  <2> DEFINE need == CalcIocbs(CmdType, dsds)
             room == RoomFor(need + 2, ScsiOut)
  <2>1. need = IocbsBuilt(CmdType, dsds) /\ need \in Nat \ {0}
    BY CalcIocbsExact, CalcIocbsHolds, RequestAssumption
  <2>2. /\ NoRoom(room) \/ (room >= need + 2 /\ Post(need, "scsi"))
        /\ UNCHANGED <<req_q_out, out_ptr, misled>>
    BY <1>1, <2>1 DEF StartScsi
  <2> QED BY <2>1, <2>2, ScsiAppends
<1>2. CASE StartDif
  <2> DEFINE room == RoomFor(1 + 2, ScsiOut)
  <2>1. /\ NoRoom(room) \/ (room >= 1 + 2 /\ Post(1, "scsi"))
        /\ UNCHANGED <<req_q_out, out_ptr, misled>>
    BY <1>2 DEF StartDif
  <2> QED BY <2>1, ScsiAppends
<1>3. ASSUME NEW n \in PlainSizes, StartPlain(n)
      PROVE  [Fifo!QNext]_Fifo!QVars
  <2> DEFINE room == RoomFor(n, req_q_out)
  <2>0. n \in 1..Length /\ n \in Nat
    BY RequestAssumption
  <2>1. /\ room \in 0..Length /\ UNCHANGED <<req_q_out, out_ptr, misled>>
        /\ ~Misleads(n, room)
    <3>1. ~misled /\ misled' = FALSE /\ TypeOK
      BY PromisedIs DEF Sane
    <3>2. misled' = (misled \/ Misleads(n, room)) /\ UNCHANGED <<req_q_out, out_ptr>>
      BY <1>3 DEF StartPlain
    <3>3. room \in 0..Length
      BY <2>0, <3>1, RoomInRing
    <3>4. UNCHANGED misled /\ ~Misleads(n, room)
      <4> HIDE DEF room
      <4>1. misled = FALSE
        BY <3>1 DEF TypeOK
      <4> QED BY <3>1, <3>2, <4>1
    <3> QED BY <3>2, <3>3, <3>4
  <2>2. NoRoom(room) \/ (room >= n /\ Post(n, "plain"))
    BY <1>3 DEF StartPlain
  <2>3. n <= room => n <= Length - 1 - Used
    BY <2>0, <2>1, PlainLeavesASlot
  <2> HIDE DEF room
  <2>4. CASE NoRoom(room)
    BY <2>1, <2>4, QueueKept DEF NoRoom
  <2>5. CASE room >= n /\ Post(n, "plain")
    <3>1. n <= Length - 1 - Used /\ "plain" \in Kinds
      BY <2>0, <2>1, <2>3, <2>5 DEF Kinds
    <3> QED BY <2>0, <2>1, <2>5, <3>1, PostAppends DEF Fifo!QNext
  <2> QED BY <2>2, <2>4, <2>5
<1>4. CASE FwFetch
  BY <1>4, FetchTakes DEF Fifo!QNext
<1>5. CASE FwPublish
  BY <1>5, QueueKept DEF FwPublish
<1>6. CASE InitRings
  BY <1>6, ResetDrops DEF Fifo!QNext
<1>7. CASE UNCHANGED vars
  BY <1>7, QueueKept DEF vars
<1> QED BY <1>1, <1>2, <1>3, <1>4, <1>5, <1>6, <1>7 DEF Next

LEMMA StepImplements ==
  ASSUME IInv, IInv', [Next]_vars
  PROVE  [Fifo!QNext]_Fifo!QVars
<1>1. CASE ~misled /\ ~misled'
  BY <1>1, SaneStepImplements DEF IInv, Sane
<1>2. CASE ~misled /\ misled'
  <2>1. misled' = TRUE /\ Promised' = << >>
    BY <1>2 DEF IInv, TypeOK, Promised
  <2> QED BY <1>2, <2>1 DEF Fifo!QNext, Fifo!Break
<1>3. CASE misled /\ misled'
  BY <1>3 DEF IInv, TypeOK, Promised, Fifo!QVars
<1>4. CASE misled /\ ~misled'
  <2>1. InitRings
    BY <1>4 DEF Next, StartScsi, StartDif, StartPlain, FwFetch, FwPublish, vars
  <2> QED BY <1>4, <2>1, ResetDrops DEF IInv, Sane, Fifo!QNext
<1> QED BY <1>1, <1>2, <1>3, <1>4

\* The ring of any length, under any load, is a bounded first-in first-out
\* queue as FifoQueue specifies it: until a request without head room breaks
\* it, and again from the next reset, nothing is lost, reordered, duplicated
\* or torn.  That the firmware fetches everything in the end is left to TLC.
THEOREM RingIsAFifo == Spec => Fifo!QInit /\ [][Fifo!QNext]_Fifo!QVars
<1>1. Init => Fifo!QInit
  <2> SUFFICES ASSUME Init PROVE Promised = << >> /\ misled = FALSE
    BY DEF Fifo!QInit
  <2>1. Sane /\ Used = 0
    BY InitInv DEF Init, Used, Dist
  <2> QED BY <2>1, QueuedIs, PromisedIs DEF Init
<1>2. IInv /\ IInv' /\ [Next]_vars => [Fifo!QNext]_Fifo!QVars
  BY StepImplements
<1> QED BY <1>1, <1>2, InvHolds, PTL DEF Spec

--------------------------------------------------------------------------
(* The list of virtual ports.                                              *)

\* The steps of a port at which it is in the list, has no id yet, and is not
\* counted.
InList == {"listed", "counted", "added", "failing", "enabling", "live", "disabled",
           "progress", "removed", "deleting"}
WithoutId == {"absent", "asked", "leaked"}
Uncounted == WithoutId \cup {"listed", "cleared", "freed"}

\* The types, with those the run has no need to check.
Types ==
  /\ V!TypeOK
  /\ max_npiv_vports \in Limits
  /\ vp_list \in Seq(Vports)
  /\ got \in [Users -> {"none", "marked", "sp"}]

\* A port is in the list once, and num_vhosts is the list's length.
ListIsCounted ==
  /\ \A i, j \in 1..Len(vp_list) : vp_list[i] = vp_list[j] => i = j
  /\ num_vhosts = Len(vp_list)

\* How far the transport is with a port says whether it is in the list.
StageIsListed == \A v \in Vports : V!Listed(v) <=> stage[v] \in InList

\* Whoever is at a port finds it in the list: so the deletion, which waits for
\* them, is what takes a port out of it.
HeldIsListed ==
  /\ \A w \in V!Walkers : at[w] # NoPort => V!Listed(at[w])
  /\ \A v \in Vports : work_list[v] > 0 => V!Listed(v)
  /\ \A u \in Users : using[u] # NoPort => V!Listed(using[u])

UsingIsGot == \A u \in Users : using[u] = NoPort <=> got[u] = "none"

\* Id 0 is the adapter's own and never free.
IdsAreGiven ==
  /\ 0 \in vp_idx_map
  /\ \A v \in Vports : stage[v] \notin WithoutId => vp_idx[v] # 0

FailedAreGone ==
  \A v \in add_failed :
    stage[v] \in {"failing", "removed", "deleting", "unlisted", "freed"}

VportInv ==
  /\ Types
  /\ ListIsCounted
  /\ StageIsListed
  /\ HeldIsListed
  /\ V!RefsAreHeld
  /\ UsingIsGot
  /\ IdsAreGiven
  /\ FailedAreGone
  /\ V!IdsDiffer
  /\ V!PortsAreCounted

--------------------------------------------------------------------------
(* Lemmas on counting and on the list.                                     *)

\* The instance has finite sets and cardinalities of its own: they are these.
LEMMA InstanceSets ==
  ASSUME NEW T
  PROVE  /\ V!IsFiniteSet(T) <=> IsFiniteSet(T)
         /\ V!Cardinality(T) = Cardinality(T)
<1>1. V!IsFiniteSet(T) <=> IsFiniteSet(T)
  BY DEF V!IsFiniteSet, IsFiniteSet
<1>2. V!Cardinality(T) = Cardinality(T)
  BY DEF V!Cardinality, Cardinality
<1> QED BY <1>1, <1>2

LEMMA Assumptions ==
  /\ Limits \subseteq Nat \ {0}
  /\ IsFiniteSet(Vports) /\ IsFiniteSet(Users)
  /\ NoPort \notin Vports
  BY MCRoutinesAssumption, InstanceSets DEF V!VportListAssumption

LEMMA WalkersAreFinite == IsFiniteSet(V!Walkers)
<1>1. V!Walkers = (({} \cup {"alert_all_vps"}) \cup {"do_dpc_all_vps"}) \cup {"abort_isp"}
  BY DEF V!Walkers
<1> QED BY <1>1, FS_EmptySet, FS_AddElement, Zenon

\* How many are at v.
AtPort(f, D, v) == Cardinality({d \in D : f[d] = v})

\* When one of them moves, the place it leaves has one less and the place it
\* goes to one more.
LEMMA OneMoves ==
  ASSUME NEW D, IsFiniteSet(D), NEW f, NEW g, NEW d \in D,
         \A e \in D \ {d} : g[e] = f[e],
         NEW v
  PROVE  /\ (f[d] = v <=> g[d] = v) => AtPort(g, D, v) = AtPort(f, D, v)
         /\ f[d] = v /\ g[d] # v => AtPort(g, D, v) = AtPort(f, D, v) - 1
         /\ f[d] # v /\ g[d] = v => AtPort(g, D, v) = AtPort(f, D, v) + 1
<1> DEFINE F == {e \in D : f[e] = v}
           G == {e \in D : g[e] = v}
<1>1. IsFiniteSet(F)
  BY FS_Subset
<1>2. CASE f[d] = v <=> g[d] = v
  <2>1. G = F
    BY <1>2
  <2> QED BY <1>2, <2>1 DEF AtPort
<1>3. CASE f[d] = v /\ g[d] # v
  <2>1. G = F \ {d} /\ d \in F
    BY <1>3
  <2>2. Cardinality(G) = Cardinality(F) - 1
    BY <1>1, <2>1, FS_RemoveElement
  <2> QED BY <1>3, <2>2 DEF AtPort
<1>4. CASE f[d] # v /\ g[d] = v
  <2>1. G = F \cup {d} /\ d \notin F
    BY <1>4
  <2>2. Cardinality(G) = Cardinality(F) + 1
    BY <1>1, <2>1, FS_AddElement
  <2> QED BY <1>4, <2>2 DEF AtPort
<1> QED BY <1>2, <1>3, <1>4

LEMMA ListedAt ==
  ASSUME Types, NEW v
  PROVE  V!Listed(v) <=> \E i \in 1..Len(vp_list) : vp_list[i] = v
  BY DEF Types, V!Listed, V!Range

LEMMA PositionIs ==
  ASSUME Types, NEW v \in Vports, V!Listed(v)
  PROVE  /\ V!Position(v) \in 1..Len(vp_list)
         /\ vp_list[V!Position(v)] = v
  BY ListedAt DEF V!Position

LEMMA SameList ==
  ASSUME vp_list' = vp_list
  PROVE  \A v : V!Listed(v)' <=> V!Listed(v)
  BY DEF V!Listed, V!Range

\* What append does.
LEMMA Appended ==
  ASSUME Types, ListIsCounted, NEW v \in Vports, ~V!Listed(v),
         vp_list' = Append(vp_list, v), num_vhosts' = num_vhosts + 1
  PROVE  /\ vp_list' \in Seq(Vports)
         /\ ListIsCounted'
         /\ \A x : V!Listed(x)' <=> (V!Listed(x) \/ x = v)
<1>1. /\ vp_list' \in Seq(Vports) /\ Len(vp_list') = Len(vp_list) + 1
      /\ \A i \in 1..Len(vp_list) : vp_list'[i] = vp_list[i]
      /\ vp_list'[Len(vp_list) + 1] = v
      /\ Len(vp_list) \in Nat
  BY DEF Types
<1>2. \A i \in 1..Len(vp_list) : vp_list[i] # v
  BY ListedAt
<1>3. ListIsCounted'
  BY <1>1, <1>2 DEF ListIsCounted, Types, V!TypeOK
<1>4. \A x : V!Listed(x)' <=> \E i \in 1..Len(vp_list') : vp_list'[i] = x
  BY <1>1 DEF V!Listed, V!Range
<1>5. ASSUME NEW x PROVE V!Listed(x)' <=> (V!Listed(x) \/ x = v)
  BY <1>1, <1>4, ListedAt
<1> QED BY <1>1, <1>3, <1>5

\* What removal of the node of v does.
LEMMA Removed ==
  ASSUME Types, ListIsCounted, NEW v \in Vports, V!Listed(v),
         vp_list' = V!RemoveAt(vp_list, V!Position(v)), num_vhosts' = num_vhosts - 1
  PROVE  /\ vp_list' \in Seq(Vports)
         /\ ListIsCounted' /\ num_vhosts' \in Nat
         /\ \A x : V!Listed(x)' <=> (V!Listed(x) /\ x # v)
<1> DEFINE p == V!Position(v)
           n == Len(vp_list)
<1>1. p \in 1..n /\ vp_list[p] = v /\ n \in Nat
  BY PositionIs DEF Types
<1>2. /\ vp_list' \in Seq(Vports) /\ Len(vp_list') = n - 1
      /\ \A i \in 1..n - 1 : vp_list'[i] = IF i < p THEN vp_list[i] ELSE vp_list[i + 1]
  <2> DEFINE a == SubSeq(vp_list, 1, p - 1)
             b == SubSeq(vp_list, p + 1, n)
  <2>1. a \in Seq(Vports) /\ Len(a) = p - 1 /\ \A i \in 1..p - 1 : a[i] = vp_list[i]
    BY <1>1 DEF Types
  <2>2. b \in Seq(Vports) /\ Len(b) = n - p /\ \A i \in 1..n - p : b[i] = vp_list[p + i]
    BY <1>1 DEF Types
  <2>3. vp_list' = a \o b
    BY DEF V!RemoveAt
  <2> HIDE DEF a, b, p
  <2>4. Len(a \o b) = n - 1 /\ a \o b \in Seq(Vports)
    <3>1. p \in Int /\ p \in 1..n
      BY <1>1 DEF p
    <3>2. a \o b \in Seq(Vports) /\ Len(a \o b) = Len(a) + Len(b)
      BY <2>1, <2>2
    <3> QED BY <1>1, <2>1, <2>2, <3>1, <3>2
  <2>5. ASSUME NEW i \in 1..n - 1
        PROVE  (a \o b)[i] = IF i < p THEN vp_list[i] ELSE vp_list[i + 1]
    BY <1>1, <2>1, <2>2
  <2> QED BY <2>3, <2>4, <2>5
<1> HIDE DEF p
<1>3. ListIsCounted' /\ num_vhosts' \in Nat
  BY <1>1, <1>2 DEF ListIsCounted
<1>4. \A x : V!Listed(x)' <=> \E i \in 1..n - 1 : vp_list'[i] = x
  BY <1>2 DEF V!Listed, V!Range
<1>5. ASSUME NEW x PROVE V!Listed(x)' <=> (V!Listed(x) /\ x # v)
  <2>1. ASSUME V!Listed(x)' PROVE V!Listed(x) /\ x # v
    BY <1>1, <1>2, <1>4, <2>1, ListedAt DEF ListIsCounted
  <2>2. ASSUME V!Listed(x), x # v PROVE V!Listed(x)'
    <3>1. PICK i \in 1..n : vp_list[i] = x
      BY <2>2, ListedAt
    <3>2. CASE i < p
      BY <1>1, <1>2, <1>4, <3>1, <3>2
    <3>3. CASE i > p
      <4>1. i - 1 \in 1..n - 1 /\ vp_list'[i - 1] = x
        BY <1>1, <1>2, <3>1, <3>3
      <4> QED BY <1>4, <4>1
    <3> QED BY <1>1, <2>2, <3>1, <3>2, <3>3
  <2> QED BY <2>1, <2>2
<1> QED BY <1>2, <1>3, <1>5

--------------------------------------------------------------------------
(* Forms of the properties that the steps are proved with.                 *)

Refs(v) == AtPort(at, V!Walkers, v) + work_list[v] + AtPort(using, Users, v)
Counted == add_failed \cup {v \in Vports : stage[v] \notin Uncounted}

LEMMA AtPortType ==
  ASSUME NEW f, NEW v
  PROVE  AtPort(f, V!Walkers, v) \in Nat /\ AtPort(f, Users, v) \in Nat
  BY WalkersAreFinite, Assumptions, FS_Subset, FS_CardinalityType DEF AtPort

LEMMA RefsAre ==
  /\ V!RefsAreHeld <=> \A v \in Vports : vref_count[v] = Refs(v)
  /\ V!RefsAreHeld' <=> \A v \in Vports : vref_count'[v] = Refs(v)'
  BY InstanceSets DEF V!RefsAreHeld, Refs, AtPort

LEMMA CountIs ==
  /\ V!PortsAreCounted <=> cur_vport_count = Cardinality(Counted)
  /\ V!PortsAreCounted' <=> cur_vport_count' = Cardinality(Counted)'
<1>1. Counted = add_failed \cup
        {v \in Vports : stage[v] \notin {"absent", "asked", "leaked", "listed",
                                         "cleared", "freed"}}
  BY DEF Counted, Uncounted, WithoutId
<1>2. Counted' = add_failed' \cup
        {v \in Vports : stage'[v] \notin {"absent", "asked", "leaked", "listed",
                                          "cleared", "freed"}}
  BY DEF Counted, Uncounted, WithoutId
<1>3. V!PortsAreCounted <=> cur_vport_count = Cardinality(Counted)
  BY <1>1, InstanceSets, Zenon DEF V!PortsAreCounted
<1>4. V!PortsAreCounted' <=> cur_vport_count' = Cardinality(Counted)'
  BY <1>2, InstanceSets, Zenon DEF V!PortsAreCounted
<1> QED BY <1>3, <1>4

LEMMA CountedIsFinite ==
  ASSUME Types
  PROVE  IsFiniteSet(Counted) /\ Counted \subseteq Vports
<1>1. Counted \subseteq Vports
  BY DEF Counted, Types, V!TypeOK
<1> QED BY <1>1, Assumptions, FS_Subset

\* Steps of the transport touch no reference.
Refless == UNCHANGED <<vref_count, work_list, at, doing, using, got>>

LEMMA ReflessStep ==
  ASSUME VportInv, Refless
  PROVE  /\ V!RefsAreHeld' /\ UsingIsGot'
         /\ \A v : (\A x \in Vports : (V!Listed(x) /\ x # v) => V!Listed(x)')
                   /\ (V!Listed(v) => V!Listed(v)' \/ vref_count[v] = 0)
                   /\ v \in Vports
                   => HeldIsListed'
<1>1. V!RefsAreHeld' /\ UsingIsGot'
  BY RefsAre DEF VportInv, Refless, Refs, UsingIsGot
<1>2. ASSUME NEW v \in Vports,
             \A x \in Vports : (V!Listed(x) /\ x # v) => V!Listed(x)',
             V!Listed(v) => V!Listed(v)' \/ vref_count[v] = 0
      PROVE  HeldIsListed'
  <2>1. CASE V!Listed(v) => V!Listed(v)'
    BY <1>2, <2>1 DEF HeldIsListed, Refless, VportInv, Types, V!TypeOK
  <2>2. CASE vref_count[v] = 0
    <3>1. AtPort(at, V!Walkers, v) \in Nat /\ AtPort(using, Users, v) \in Nat
      BY AtPortType
    <3>2. AtPort(at, V!Walkers, v) = 0 /\ AtPort(using, Users, v) = 0 /\ work_list[v] = 0
      BY <2>2, <3>1, RefsAre DEF VportInv, Types, V!TypeOK, Refs
    <3>3. \A w \in V!Walkers : at[w] # v
      <4>1. {w \in V!Walkers : at[w] = v} = {}
        BY <3>2, WalkersAreFinite, FS_Subset, FS_EmptySet DEF AtPort
      <4> QED BY <4>1
    <3>4. \A u \in Users : using[u] # v
      <4>1. {u \in Users : using[u] = v} = {}
        BY <3>2, Assumptions, FS_Subset, FS_EmptySet DEF AtPort
      <4> QED BY <4>1
    <3> QED BY <1>2, <3>2, <3>3, <3>4 DEF HeldIsListed, Refless, VportInv, Types, V!TypeOK
  <2> QED BY <1>2, <2>1, <2>2
<1> QED BY <1>1, <1>2

\* A step of one port that leaves the list and the ids alone.
LEMMA StageStep ==
  ASSUME VportInv, NEW v \in Vports, NEW to \in V!Stages,
         stage' = [stage EXCEPT ![v] = to],
         stage[v] \in InList <=> to \in InList,
         stage[v] \in WithoutId => to \in WithoutId,
         add_failed' \subseteq Vports, FailedAreGone',
         vport_lock' \in Vports \cup {NoPort},
         UNCHANGED <<max_npiv_vports, vp_idx, vp_idx_map, num_vhosts, vp_list, robbed>>,
         V!PortsAreCounted', cur_vport_count' \in Nat,
         Refless
  PROVE  VportInv'
<1> USE DEF VportInv
<1>1. \A x : V!Listed(x)' <=> V!Listed(x)
  BY SameList
<1>2. Types'
  BY DEF Types, V!TypeOK, V!Range, V!Ids, Refless
<1>3. ListIsCounted' /\ IdsAreGiven' /\ V!IdsDiffer'
  <2>1. ListIsCounted'
    BY DEF ListIsCounted
  <2>2. IdsAreGiven'
    BY DEF IdsAreGiven, Types, V!TypeOK
  <2>3. V!IdsDiffer'
    BY <1>1 DEF V!IdsDiffer
  <2> QED BY <2>1, <2>2, <2>3
<1>4. StageIsListed'
  BY <1>1 DEF StageIsListed, Types, V!TypeOK
<1>5. V!RefsAreHeld' /\ UsingIsGot' /\ HeldIsListed'
  BY <1>1, ReflessStep
<1> QED BY <1>2, <1>3, <1>4, <1>5

\* And one that does not change who is counted.
LEMMA SameCount ==
  ASSUME VportInv, NEW v \in Vports, NEW to, stage' = [stage EXCEPT ![v] = to],
         stage[v] \in Uncounted <=> to \in Uncounted,
         UNCHANGED add_failed, UNCHANGED cur_vport_count
  PROVE  V!PortsAreCounted' /\ cur_vport_count' \in Nat
<1>1. Counted' = Counted
  BY DEF Counted, VportInv, Types, V!TypeOK
<1> QED BY <1>1, CountIs DEF VportInv, Types, V!TypeOK

--------------------------------------------------------------------------
(* Creating and deleting a port.                                           *)

LEMMA RequestStep ==
  ASSUME VportInv, NEW v \in Vports, V!vport_create_req_sanity_check(v)
  PROVE  VportInv'
<1> USE DEF V!vport_create_req_sanity_check, V!Stage, V!ids, V!Rest, V!walks, V!uses
<1>1. V!PortsAreCounted' /\ cur_vport_count' \in Nat
  BY SameCount DEF Uncounted, WithoutId
<1>2. FailedAreGone'
  BY DEF FailedAreGone, VportInv, Types, V!TypeOK
<1> QED BY <1>1, <1>2, StageStep
        DEF Refless, V!Stages, InList, WithoutId, VportInv, Types, V!TypeOK

\* The id it takes is free: nobody in the list has it, unless it was robbed.
LEMMA AllocateStep ==
  ASSUME VportInv, NEW v \in Vports, V!allocate_vp_id(v)
  PROVE  VportInv'
<1> USE DEF V!Stage, V!ids, V!Rest, V!walks, V!uses
<1>1. CASE V!clear_ids = {}
  <2>1. /\ stage[v] = "asked" /\ stage' = [stage EXCEPT ![v] = "leaked"]
        /\ Refless /\ UNCHANGED <<max_npiv_vports, vp_idx, vp_idx_map, num_vhosts,
                cur_vport_count, robbed, vp_list, add_failed, vport_lock>>
    BY <1>1 DEF V!allocate_vp_id, Refless
  <2>2. V!PortsAreCounted' /\ cur_vport_count' \in Nat
    BY <2>1, SameCount DEF Uncounted, WithoutId
  <2>3. FailedAreGone'
    BY <2>1 DEF FailedAreGone, VportInv, Types, V!TypeOK
  <2> QED BY <2>1, <2>2, <2>3, StageStep
          DEF V!Stages, InList, WithoutId, VportInv, Types, V!TypeOK
<1>2. CASE V!clear_ids # {}
  <2> USE DEF VportInv
  <2>1. PICK vp_id \in V!clear_ids :
          /\ stage[v] = "asked" /\ stage' = [stage EXCEPT ![v] = "listed"]
          /\ vp_idx' = [vp_idx EXCEPT ![v] = vp_id]
          /\ vp_idx_map' = vp_idx_map \cup {vp_id}
          /\ num_vhosts' = num_vhosts + 1
          /\ vp_list' = Append(vp_list, v)
          /\ UNCHANGED <<max_npiv_vports, cur_vport_count, robbed>>
          /\ Refless /\ UNCHANGED <<add_failed, vport_lock>>
    BY <1>2 DEF V!allocate_vp_id, Refless
  <2>2. ~V!Listed(v)
    BY <2>1 DEF StageIsListed, InList
  <2>3. vp_id \in 1..max_npiv_vports /\ vp_id \notin vp_idx_map
    BY Assumptions DEF V!clear_ids, IdsAreGiven, Types
  <2>4. /\ vp_list' \in Seq(Vports) /\ ListIsCounted'
        /\ \A x : V!Listed(x)' <=> (V!Listed(x) \/ x = v)
    BY <2>1, <2>2, Appended
  <2>5. Types'
    <3>1. V!Range(vp_list)' \subseteq Vports
      BY <2>4 DEF V!Range
    <3> QED BY <2>1, <2>3, <2>4, <3>1 DEF Types, V!TypeOK, V!Ids, V!Stages, Refless
  <2>6. StageIsListed'
    BY <2>1, <2>4 DEF StageIsListed, Types, V!TypeOK, InList
  <2>7. IdsAreGiven' /\ FailedAreGone'
    BY <2>1, <2>3 DEF IdsAreGiven, FailedAreGone, Types, V!TypeOK, WithoutId
  <2>8. V!RefsAreHeld' /\ UsingIsGot' /\ HeldIsListed'
    BY <2>1, <2>4, ReflessStep
  <2>9. V!IdsDiffer'
    <3> SUFFICES ASSUME NEW x \in Vports, V!Listed(x)', vp_idx'[x] \notin robbed
                 PROVE  /\ vp_idx'[x] \in vp_idx_map' \ {0}
                        /\ \A y \in Vports \ {x} : V!Listed(y)' => vp_idx'[y] # vp_idx'[x]
      BY <2>1 DEF V!IdsDiffer
    <3>1. vp_idx'[v] = vp_id /\ \A y \in Vports \ {v} : vp_idx'[y] = vp_idx[y]
      BY <2>1 DEF Types, V!TypeOK
    <3>2. CASE x = v
      <4>1. ASSUME NEW y \in Vports \ {v}, V!Listed(y)', vp_idx'[y] = vp_id PROVE FALSE
        BY <2>1, <2>3, <2>4, <3>1, <3>2, <4>1 DEF V!IdsDiffer
      <4> QED BY <2>1, <2>3, <3>1, <3>2, <4>1
    <3>3. CASE x # v
      BY <2>1, <2>3, <2>4, <3>1, <3>3 DEF V!IdsDiffer
    <3> QED BY <3>2, <3>3
  <2>10. V!PortsAreCounted'
    BY <2>1, SameCount DEF Uncounted, WithoutId
  <2> QED BY <2>4, <2>5, <2>6, <2>7, <2>8, <2>9, <2>10
<1> QED BY <1>1, <1>2

LEMMA CreateVhostStep ==
  ASSUME VportInv, NEW v \in Vports, V!create_vhost(v)
  PROVE  VportInv'
<1> USE DEF V!Stage, V!Rest, V!walks, V!uses, VportInv
<1>1. /\ stage[v] = "listed" /\ stage' = [stage EXCEPT ![v] = "counted"]
      /\ vp_idx_map' = vp_idx_map \cup {vp_idx[v]}
      /\ cur_vport_count' = cur_vport_count + 1
      /\ Refless /\ UNCHANGED <<max_npiv_vports, vp_idx, num_vhosts, robbed, add_failed,
                vp_list, vport_lock>>
  BY DEF V!create_vhost, Refless
<1>2. \A x : V!Listed(x)' <=> V!Listed(x)
  BY <1>1, SameList
<1>3. Types'
  <2>1. vp_idx[v] \in {0} \cup V!Ids
    BY DEF Types, V!TypeOK
  <2>2. vp_idx_map' \subseteq ({0} \cup V!Ids)' /\ stage' \in [Vports -> V!Stages]
    BY <1>1, <2>1 DEF Types, V!TypeOK, V!Ids, V!Stages
  <2> QED BY <1>1, <2>2 DEF Types, V!TypeOK, V!Range, V!Ids, Refless
<1>4. ListIsCounted' /\ IdsAreGiven' /\ FailedAreGone'
  BY <1>1 DEF ListIsCounted, IdsAreGiven, FailedAreGone, WithoutId, Types, V!TypeOK
<1>5. StageIsListed'
  BY <1>1, <1>2 DEF StageIsListed, Types, V!TypeOK, InList
<1>6. V!RefsAreHeld' /\ UsingIsGot' /\ HeldIsListed'
  BY <1>1, <1>2, ReflessStep
<1>7. V!IdsDiffer'
  BY <1>1, <1>2 DEF V!IdsDiffer
<1>8. V!PortsAreCounted'
  <2>1. v \notin Counted
    BY <1>1 DEF Counted, FailedAreGone, Uncounted
  <2>2. Counted' = Counted \cup {v}
    BY <1>1 DEF Counted, Uncounted, WithoutId, Types, V!TypeOK
  <2>3. Cardinality(Counted)' = Cardinality(Counted) + 1
    BY <2>1, <2>2, CountedIsFinite, FS_AddElement
  <2> QED BY <1>1, <2>3, CountIs
<1> QED BY <1>3, <1>4, <1>5, <1>6, <1>7, <1>8

LEMMA AddStep ==
  ASSUME VportInv, NEW v \in Vports, V!vport_create(v)
  PROVE  VportInv'
<1> USE DEF V!Stage, V!ids, V!Rest, V!walks, V!uses
<1>1. PICK to \in {"added", "failing"} :
        /\ stage[v] = "counted" /\ stage' = [stage EXCEPT ![v] = to]
        /\ add_failed' = IF to = "failing" THEN add_failed \cup {v} ELSE add_failed
        /\ Refless /\ UNCHANGED <<max_npiv_vports, vp_idx, vp_idx_map, num_vhosts,
                cur_vport_count, robbed, vp_list, vport_lock>>
  BY DEF V!vport_create, Refless
<1>2. FailedAreGone'
  BY <1>1 DEF FailedAreGone, VportInv, Types, V!TypeOK
<1>3. V!PortsAreCounted' /\ cur_vport_count' \in Nat
  <2>1. Counted' = Counted
    BY <1>1 DEF Counted, Uncounted, WithoutId, VportInv, Types, V!TypeOK
  <2> QED BY <1>1, <2>1, CountIs DEF VportInv, Types, V!TypeOK
<1>4. add_failed' \subseteq Vports /\ vport_lock' \in Vports \cup {NoPort}
  BY <1>1 DEF VportInv, Types, V!TypeOK
<1> QED BY <1>1, <1>2, <1>3, <1>4, StageStep DEF V!Stages, InList, WithoutId

\* The steps that only take a port from one stage to the next.
LEMMA EnableDisableStep ==
  ASSUME VportInv, NEW v \in Vports,
         V!vport_disable(v) \/ V!disable_vp(v) \/ V!vport_delete(v)
  PROVE  VportInv'
<1> USE DEF V!Stage, V!ids, V!Rest, V!walks, V!uses
<1> DEFINE Path == {"added", "failing", "enabling", "live", "disabled", "progress", "removed"}
<1>1. PICK to \in Path :
        /\ stage[v] \in Path /\ stage' = [stage EXCEPT ![v] = to]
        /\ stage[v] = "failing" => to = "removed"
        /\ to = "failing" => FALSE
        /\ stage[v] = "removed" => FALSE
        /\ Refless /\ UNCHANGED <<max_npiv_vports, vp_idx, vp_idx_map, num_vhosts,
                cur_vport_count, robbed, vp_list, vport_lock, add_failed>>
  <2>1. CASE V!vport_disable(v)
    BY <2>1 DEF V!vport_disable, Refless
  <2>2. CASE V!disable_vp(v)
    BY <2>2 DEF V!disable_vp, Refless
  <2>3. CASE V!vport_delete(v)
    BY <2>3 DEF V!vport_delete, Refless
  <2> QED BY <2>1, <2>2, <2>3
<1>2. FailedAreGone'
  BY <1>1 DEF FailedAreGone, VportInv, Types, V!TypeOK
<1>3. V!PortsAreCounted' /\ cur_vport_count' \in Nat
  BY <1>1, SameCount DEF Uncounted, WithoutId
<1>4. add_failed' \subseteq Vports /\ vport_lock' \in Vports \cup {NoPort}
  BY <1>1 DEF VportInv, Types, V!TypeOK
<1> QED BY <1>1, <1>2, <1>3, <1>4, StageStep DEF V!Stages, InList, WithoutId

\* The deletion takes the mutex; and when nobody holds the port any longer it
\* takes the port off the list.
LEMMA DeallocateStep ==
  ASSUME VportInv, NEW v \in Vports, V!deallocate_vp_id(v)
  PROVE  VportInv'
<1> USE DEF V!Stage, V!Rest, V!walks, V!uses
<1>1. CASE stage[v] = "removed"
  <2>1. /\ stage' = [stage EXCEPT ![v] = "deleting"] /\ vport_lock' = v
        /\ Refless /\ UNCHANGED <<max_npiv_vports, vp_idx, vp_idx_map, num_vhosts,
                cur_vport_count, robbed, vp_list, add_failed>>
    BY <1>1 DEF V!deallocate_vp_id, Refless
  <2>2. FailedAreGone'
    BY <1>1, <2>1 DEF FailedAreGone, VportInv, Types, V!TypeOK
  <2>3. V!PortsAreCounted' /\ cur_vport_count' \in Nat
    BY <1>1, <2>1, SameCount DEF Uncounted, WithoutId
  <2>4. add_failed' \subseteq Vports /\ vport_lock' \in Vports \cup {NoPort}
    BY <2>1 DEF VportInv, Types, V!TypeOK
  <2> QED BY <1>1, <2>1, <2>2, <2>3, <2>4, StageStep DEF V!Stages, InList, WithoutId
<1>2. CASE stage[v] # "removed"
  <2> USE DEF VportInv
  <2>1. /\ vref_count[v] = 0
        /\ stage[v] = "deleting" /\ stage' = [stage EXCEPT ![v] = "unlisted"]
        /\ vp_list' = V!RemoveAt(vp_list, V!Position(v))
        /\ num_vhosts' = num_vhosts - 1
        /\ vp_idx_map' = vp_idx_map \ {vp_idx[v]}
        /\ vport_lock' = NoPort
        /\ Refless /\ UNCHANGED <<max_npiv_vports, vp_idx, cur_vport_count, robbed, add_failed>>
    BY <1>2 DEF V!deallocate_vp_id, Refless
  <2>2. V!Listed(v)
    BY <2>1 DEF StageIsListed, InList
  <2>3. /\ vp_list' \in Seq(Vports) /\ ListIsCounted' /\ num_vhosts' \in Nat
        /\ \A x : V!Listed(x)' <=> (V!Listed(x) /\ x # v)
    BY <2>1, <2>2, Removed
  <2>4. Types'
    <3>1. V!Range(vp_list)' \subseteq Vports
      BY <2>3 DEF V!Range
    <3> QED BY <2>1, <2>3, <3>1 DEF Types, V!TypeOK, V!Ids, V!Stages, Refless
  <2>5. StageIsListed'
    BY <2>1, <2>3 DEF StageIsListed, Types, V!TypeOK, InList
  <2>6. IdsAreGiven' /\ FailedAreGone'
    BY <2>1 DEF IdsAreGiven, FailedAreGone, Types, V!TypeOK, WithoutId
  <2>7. V!RefsAreHeld' /\ UsingIsGot' /\ HeldIsListed'
    BY <2>1, <2>3, ReflessStep
  <2>8. V!IdsDiffer'
    BY <2>1, <2>2, <2>3 DEF V!IdsDiffer
  <2>9. V!PortsAreCounted'
    BY <2>1, SameCount DEF Uncounted, WithoutId
  <2> QED BY <2>3, <2>4, <2>5, <2>6, <2>7, <2>8, <2>9
<1> QED BY <1>1, <1>2

\* The second clearing robs whoever was given the id in between: that is what
\* robbed records, and nobody else's id becomes free.
LEMMA DeletedStep ==
  ASSUME VportInv, NEW v \in Vports, V!vport_deleted(v)
  PROVE  VportInv'
<1> USE DEF V!Stage, V!Rest, V!walks, V!uses, VportInv
<1>1. /\ v \notin add_failed
      /\ stage[v] = "unlisted" /\ stage' = [stage EXCEPT ![v] = "cleared"]
      /\ cur_vport_count' = cur_vport_count - 1
      /\ vp_idx_map' = vp_idx_map \ {vp_idx[v]}
      /\ robbed' =
           robbed \cup {i \in {vp_idx[v]} : \E x \in Vports : V!Listed(x) /\ vp_idx[x] = i}
      /\ Refless /\ UNCHANGED <<max_npiv_vports, vp_idx, num_vhosts, add_failed, vp_list,
                vport_lock>>
  BY DEF V!vport_deleted, Refless
<1>2. \A x : V!Listed(x)' <=> V!Listed(x)
  BY <1>1, SameList
<1>3. V!PortsAreCounted' /\ cur_vport_count' \in Nat
  <2>1. v \in Counted
    BY <1>1 DEF Counted, Uncounted, WithoutId
  <2>2. Counted' = Counted \ {v}
    BY <1>1 DEF Counted, Uncounted, WithoutId, Types, V!TypeOK
  <2>3. /\ Cardinality(Counted)' = Cardinality(Counted) - 1
        /\ Cardinality(Counted)' \in Nat
    BY <2>1, <2>2, CountedIsFinite, FS_RemoveElement, FS_CardinalityType
  <2> QED BY <1>1, <2>3, CountIs
<1>4. Types'
  BY <1>1, <1>3 DEF Types, V!TypeOK, V!Range, V!Ids, V!Stages, Refless
<1>5. ListIsCounted' /\ IdsAreGiven' /\ FailedAreGone'
  BY <1>1 DEF ListIsCounted, IdsAreGiven, FailedAreGone, WithoutId, Types, V!TypeOK
<1>6. StageIsListed'
  BY <1>1, <1>2 DEF StageIsListed, Types, V!TypeOK, InList
<1>7. V!RefsAreHeld' /\ UsingIsGot' /\ HeldIsListed'
  BY <1>1, <1>2, ReflessStep
<1>8. V!IdsDiffer'
  BY <1>1, <1>2 DEF V!IdsDiffer
<1> QED BY <1>3, <1>4, <1>5, <1>6, <1>7, <1>8

LEMMA PutStep ==
  ASSUME VportInv, NEW v \in Vports, V!host_put(v)
  PROVE  VportInv'
<1> USE DEF V!Stage, V!ids, V!Rest, V!walks, V!uses
<1>1. /\ stage[v] = IF v \in add_failed THEN "unlisted" ELSE "cleared"
      /\ stage' = [stage EXCEPT ![v] = "freed"]
      /\ Refless /\ UNCHANGED <<max_npiv_vports, vp_idx, vp_idx_map, num_vhosts,
                cur_vport_count, robbed, vp_list, vport_lock, add_failed>>
  BY DEF V!host_put, Refless
<1>2. FailedAreGone'
  BY <1>1 DEF FailedAreGone, VportInv, Types, V!TypeOK
<1>3. V!PortsAreCounted' /\ cur_vport_count' \in Nat
  <2>1. Counted' = Counted
    BY <1>1 DEF Counted, Uncounted, WithoutId, VportInv, Types, V!TypeOK
  <2> QED BY <1>1, <2>1, CountIs DEF VportInv, Types, V!TypeOK
<1>4. add_failed' \subseteq Vports /\ vport_lock' \in Vports \cup {NoPort}
  BY <1>1 DEF VportInv, Types, V!TypeOK
<1> QED BY <1>1, <1>2, <1>3, <1>4, StageStep DEF V!Stages, InList, WithoutId

--------------------------------------------------------------------------
(* Walking the list, and commands.                                         *)

\* These leave the transport's side alone.
Elsewhere ==
  UNCHANGED <<max_npiv_vports, stage, add_failed, vp_idx, vp_idx_map, vp_list, num_vhosts,
              cur_vport_count, vport_lock, robbed>>

LEMMA ElsewhereStep ==
  ASSUME VportInv, Elsewhere,
         vref_count' \in [Vports -> Nat], work_list' \in [Vports -> 0..1],
         at' \in [V!Walkers -> Vports \cup {NoPort}],
         using' \in [Users -> Vports \cup {NoPort}],
         got' \in [Users -> {"none", "marked", "sp"}],
         \A w \in V!Walkers : at'[w] # NoPort => V!Listed(at'[w]),
         \A x \in Vports : work_list'[x] > 0 => V!Listed(x),
         \A u \in Users : using'[u] # NoPort => V!Listed(using'[u]),
         V!RefsAreHeld', UsingIsGot'
  PROVE  VportInv'
<1> USE DEF VportInv, Elsewhere
<1>1. \A x : V!Listed(x)' <=> V!Listed(x)
  BY SameList
<1>2. Types'
  BY DEF Types, V!TypeOK, V!Range, V!Ids
<1>3. /\ ListIsCounted' /\ StageIsListed' /\ HeldIsListed'
      /\ IdsAreGiven' /\ FailedAreGone' /\ V!IdsDiffer'
  BY <1>1 DEF ListIsCounted, StageIsListed, HeldIsListed, IdsAreGiven, FailedAreGone,
              V!IdsDiffer
<1>4. V!PortsAreCounted'
  <2>1. Counted' = Counted
    BY DEF Counted
  <2> QED BY <2>1, CountIs
<1> QED BY <1>2, <1>3, <1>4

LEMMA OneWalkerMoves ==
  ASSUME NEW w \in V!Walkers, \A e \in V!Walkers \ {w} : at'[e] = at[e], NEW x
  PROVE  /\ (at[w] = x <=> at'[w] = x) => AtPort(at', V!Walkers, x) = AtPort(at, V!Walkers, x)
         /\ at[w] = x /\ at'[w] # x => AtPort(at', V!Walkers, x) = AtPort(at, V!Walkers, x) - 1
         /\ at[w] # x /\ at'[w] = x => AtPort(at', V!Walkers, x) = AtPort(at, V!Walkers, x) + 1
<1>1. ASSUME NEW W, IsFiniteSet(W), w \in W, \A e \in W \ {w} : at'[e] = at[e]
      PROVE  /\ (at[w] = x <=> at'[w] = x) => AtPort(at', W, x) = AtPort(at, W, x)
             /\ at[w] = x /\ at'[w] # x => AtPort(at', W, x) = AtPort(at, W, x) - 1
             /\ at[w] # x /\ at'[w] = x => AtPort(at', W, x) = AtPort(at, W, x) + 1
  BY <1>1, OneMoves
<1> QED BY <1>1, WalkersAreFinite

\* The references after a walker has moved.
LEMMA WalkerMoves ==
  ASSUME VportInv, NEW w \in V!Walkers, NEW to \in Vports \cup {NoPort},
         at' = [at EXCEPT ![w] = to],
         vref_count' = V!Add(V!Add(vref_count, at[w], -1), to, 1),
         UNCHANGED <<work_list, using>>
  PROVE  V!RefsAreHeld' /\ vref_count' \in [Vports -> Nat]
<1>1. ASSUME NEW x
      PROVE  /\ (at[w] = x <=> to = x) => AtPort(at', V!Walkers, x) = AtPort(at, V!Walkers, x)
             /\ at[w] = x /\ to # x => AtPort(at', V!Walkers, x) = AtPort(at, V!Walkers, x) - 1
             /\ at[w] # x /\ to = x => AtPort(at', V!Walkers, x) = AtPort(at, V!Walkers, x) + 1
  <2>1. at'[w] = to /\ \A e \in V!Walkers \ {w} : at'[e] = at[e]
    BY DEF VportInv, Types, V!TypeOK
  <2> QED BY <2>1, OneWalkerMoves
<1>2. \A x : /\ AtPort(at, V!Walkers, x) \in Nat /\ AtPort(at', V!Walkers, x) \in Nat
             /\ AtPort(using, Users, x) \in Nat
  BY AtPortType
<1>3. vref_count' \in [Vports -> Int]
  BY Assumptions DEF V!Add, VportInv, Types, V!TypeOK
<1>4. ASSUME NEW x \in Vports
      PROVE  /\ (at[w] = x <=> to = x) => vref_count'[x] = vref_count[x]
             /\ at[w] = x /\ to # x => vref_count'[x] = vref_count[x] - 1
             /\ at[w] # x /\ to = x => vref_count'[x] = vref_count[x] + 1
  BY Assumptions DEF V!Add, VportInv, Types, V!TypeOK
<1>5. ASSUME NEW x \in Vports
      PROVE  vref_count'[x] = Refs(x)' /\ vref_count'[x] \in Nat
  <2>1. work_list[x] \in Nat /\ vref_count[x] = Refs(x)
    BY SMTT(30), RefsAre DEF VportInv, Types, V!TypeOK
  <2>2. Refs(x)' = AtPort(at', V!Walkers, x) + work_list[x] + AtPort(using, Users, x)
    BY DEF Refs, AtPort
  <2>3. /\ AtPort(at, V!Walkers, x) \in Nat /\ AtPort(at', V!Walkers, x) \in Nat
        /\ AtPort(using, Users, x) \in Nat
    BY <1>2
  <2>4. vref_count[x] = AtPort(at, V!Walkers, x) + work_list[x] + AtPort(using, Users, x)
    BY <2>1 DEF Refs
  <2>5. CASE at[w] = x <=> to = x
    <3>1. AtPort(at', V!Walkers, x) = AtPort(at, V!Walkers, x)
      BY <1>1, <2>5
    <3>2. vref_count'[x] = vref_count[x]
      BY <1>4, <2>5
    <3> QED BY <2>1, <2>2, <2>3, <2>4, <3>1, <3>2
  <2>6. CASE at[w] = x /\ to # x
    <3>1. AtPort(at', V!Walkers, x) = AtPort(at, V!Walkers, x) - 1
      BY <1>1, <2>6
    <3>2. vref_count'[x] = vref_count[x] - 1
      BY <1>4, <2>6
    <3> QED BY <2>1, <2>2, <2>3, <2>4, <3>1, <3>2
  <2>7. CASE at[w] # x /\ to = x
    <3>1. AtPort(at', V!Walkers, x) = AtPort(at, V!Walkers, x) + 1
      BY <1>1, <2>7
    <3>2. vref_count'[x] = vref_count[x] + 1
      BY <1>4, <2>7
    <3> QED BY <2>1, <2>2, <2>3, <2>4, <3>1, <3>2
  <2> QED BY <2>5, <2>6, <2>7
<1> QED BY <1>3, <1>5, RefsAre

LEMMA WalkStep ==
  ASSUME VportInv, NEW w \in V!Walkers, V!walk(w)
  PROVE  VportInv'
<1> USE DEF V!Quiet, V!ids, V!uses
<1> DEFINE to == Head(vp_list)
<1>1. /\ at[w] = NoPort /\ vp_list # <<>> /\ at' = [at EXCEPT ![w] = to]
      /\ vref_count' = V!Add(vref_count, to, 1)
      /\ Elsewhere /\ UNCHANGED <<work_list, using, got>>
  BY DEF V!walk, V!Move, Elsewhere
<1>2. to \in Vports /\ V!Listed(to)
  BY <1>1, ListedAt DEF VportInv, Types
<1> HIDE DEF to
<1>3. V!Add(vref_count, at[w], -1) = vref_count
  BY <1>1 DEF V!Add
<1>4. V!RefsAreHeld' /\ vref_count' \in [Vports -> Nat]
  BY <1>1, <1>2, <1>3, WalkerMoves
<1>5. /\ at' \in [V!Walkers -> Vports \cup {NoPort}]
      /\ \A x \in V!Walkers : at'[x] # NoPort => V!Listed(at'[x])
  BY <1>1, <1>2 DEF VportInv, Types, V!TypeOK, HeldIsListed
<1> QED BY <1>1, <1>4, <1>5, ElsewhereStep
        DEF VportInv, Types, V!TypeOK, HeldIsListed, UsingIsGot

\* The port it goes on to is in the list as the walker finds it then.
LEMMA NextStep ==
  ASSUME VportInv, NEW w \in V!Walkers, V!list_next(w)
  PROVE  VportInv'
<1> USE DEF V!Quiet, V!ids, V!uses
<1> DEFINE to == V!After(at[w])
<1>1. /\ at[w] # NoPort /\ at' = [at EXCEPT ![w] = to]
      /\ vref_count' = V!Add(V!Add(vref_count, at[w], -1), to, 1)
      /\ Elsewhere /\ UNCHANGED <<work_list, using, got>>
  BY DEF V!list_next, V!Move, Elsewhere
<1>2. V!Listed(at[w]) /\ at[w] \in Vports
  BY <1>1 DEF VportInv, HeldIsListed, Types, V!TypeOK
<1>3. to \in Vports \cup {NoPort} /\ (to # NoPort => V!Listed(to))
  <2>1. V!Position(at[w]) \in 1..Len(vp_list)
    BY <1>2, PositionIs DEF VportInv
  <2> QED BY <2>1, ListedAt DEF V!After, VportInv, Types
<1> HIDE DEF to
<1>4. V!RefsAreHeld' /\ vref_count' \in [Vports -> Nat]
  BY <1>1, <1>3, WalkerMoves
<1>5. /\ at' \in [V!Walkers -> Vports \cup {NoPort}]
      /\ \A x \in V!Walkers : at'[x] # NoPort => V!Listed(at'[x])
  BY <1>1, <1>3 DEF VportInv, Types, V!TypeOK, HeldIsListed
<1> QED BY <1>1, <1>4, <1>5, ElsewhereStep
        DEF VportInv, Types, V!TypeOK, HeldIsListed, UsingIsGot

\* The references after work of a port has been posted or done.
LEMMA WorkMoves ==
  ASSUME VportInv, NEW v \in Vports, NEW n \in 0..1,
         work_list' = [work_list EXCEPT ![v] = n],
         vref_count' = V!Add(vref_count, v, n - work_list[v]),
         UNCHANGED <<at, using>>
  PROVE  V!RefsAreHeld' /\ vref_count' \in [Vports -> Nat]
<1>1. \A x : AtPort(at, V!Walkers, x) \in Nat /\ AtPort(using, Users, x) \in Nat
  BY AtPortType
<1>2. \A x \in Vports : vref_count[x] = Refs(x)
  BY RefsAre DEF VportInv
<1>3. vref_count' \in [Vports -> Int] /\ work_list' \in [Vports -> 0..1]
  BY Assumptions DEF V!Add, VportInv, Types, V!TypeOK
<1>4. \A x \in Vports :
        vref_count'[x] = vref_count[x] - work_list[x] + work_list'[x]
  BY Assumptions DEF V!Add, VportInv, Types, V!TypeOK
<1>5. ASSUME NEW x \in Vports
      PROVE  vref_count'[x] = Refs(x)' /\ vref_count'[x] \in Nat
  <2>1. Refs(x)' = AtPort(at, V!Walkers, x) + work_list'[x] + AtPort(using, Users, x)
    BY DEF Refs, AtPort
  <2>2. work_list[x] \in 0..1 /\ work_list'[x] \in 0..1
    BY <1>3 DEF VportInv, Types, V!TypeOK
  <2> QED BY <1>1, <1>2, <1>4, <2>1, <2>2 DEF Refs
<1> QED BY <1>3, <1>5, RefsAre

\* What a walker does at the port it holds.
LEMMA ThereStep ==
  ASSUME VportInv, NEW w \in V!Walkers, at[w] # NoPort, NEW n \in 0..1,
         work_list' = [work_list EXCEPT ![at[w]] = n],
         vref_count' = V!Add(vref_count, at[w], n - work_list[at[w]]),
         Elsewhere, UNCHANGED <<at, using, got>>
  PROVE  VportInv'
<1>1. at[w] \in Vports /\ V!Listed(at[w])
  BY DEF VportInv, Types, V!TypeOK, HeldIsListed
<1>2. V!RefsAreHeld' /\ vref_count' \in [Vports -> Nat]
  BY <1>1, WorkMoves
<1>3. /\ work_list' \in [Vports -> 0..1]
      /\ \A x \in Vports : work_list'[x] > 0 => V!Listed(x)
  BY <1>1 DEF VportInv, Types, V!TypeOK, HeldIsListed
<1> QED BY <1>2, <1>3, ElsewhereStep
        DEF VportInv, Types, V!TypeOK, HeldIsListed, UsingIsGot

\* It may as well do nothing.
LEMMA IdleThere ==
  ASSUME VportInv, Elsewhere, UNCHANGED <<vref_count, work_list, at, using, got>>
  PROVE  VportInv'
<1>1. V!RefsAreHeld'
  BY RefsAre DEF VportInv, Refs, AtPort
<1> QED BY <1>1, ElsewhereStep DEF VportInv, Types, V!TypeOK, HeldIsListed, UsingIsGot

LEMMA EventStep ==
  ASSUME VportInv, V!async_event
  PROVE  VportInv'
<1> USE DEF V!Do, V!There, V!Quiet, V!ids, V!uses, V!Walkers, Elsewhere
<1> DEFINE v == at["alert_all_vps"]
<1>1. CASE UNCHANGED work_list /\ vref_count' = vref_count
  BY <1>1, IdleThere DEF V!async_event
<1>2. CASE ~(UNCHANGED work_list /\ vref_count' = vref_count)
  <2>1. /\ v # NoPort /\ work_list[v] = 0
        /\ vref_count' = V!Add(vref_count, v, 1)
        /\ work_list' = [work_list EXCEPT ![v] = 1]
        /\ Elsewhere /\ UNCHANGED <<at, using, got>>
    BY <1>2 DEF V!async_event
  <2>2. 1 - work_list[v] = 1
    BY <2>1
  <2> QED BY <2>1, <2>2, ThereStep
<1> QED BY <1>1, <1>2

LEMMA DpcStep ==
  ASSUME VportInv, V!do_dpc_vp
  PROVE  VportInv'
<1> USE DEF V!Do, V!There, V!Quiet, V!ids, V!uses, V!Walkers, Elsewhere
<1> DEFINE v == at["do_dpc_all_vps"]
<1>1. CASE UNCHANGED work_list /\ vref_count' = vref_count
  BY <1>1, IdleThere DEF V!do_dpc_vp
<1>2. CASE ~(UNCHANGED work_list /\ vref_count' = vref_count)
  <2>1. /\ v # NoPort
        /\ vref_count' = V!Add(vref_count, v, -work_list[v])
        /\ work_list' = [work_list EXCEPT ![v] = 0]
        /\ Elsewhere /\ UNCHANGED <<at, using, got>>
    BY <1>2 DEF V!do_dpc_vp
  <2>2. v \in Vports /\ work_list[v] \in Int
    BY <2>1 DEF VportInv, Types, V!TypeOK
  <2>3. 0 - work_list[v] = -work_list[v]
    BY <2>2
  <2> QED BY <2>1, <2>3, ThereStep
<1> QED BY <1>1, <1>2

LEMMA AbortStep ==
  ASSUME VportInv, V!vp_abort_isp
  PROVE  VportInv'
  BY IdleThere DEF V!vp_abort_isp, V!Do, V!There, V!Quiet, V!ids, V!uses, Elsewhere

--------------------------------------------------------------------------

\* A command counts the port it is for as long as it has it.
LEMMA SubmitStep ==
  ASSUME VportInv, NEW u \in Users, NEW v \in Vports, V!Listed(v),
         NEW g \in {"none", "marked", "sp"}, NEW n \in Int,
         using[u] \in {NoPort, v},
         n = (IF g = "none" THEN 0 ELSE 1) - (IF using[u] = v THEN 1 ELSE 0),
         V!Submit(u, v, g, n)
  PROVE  VportInv'
<1> DEFINE to == IF g = "none" THEN NoPort ELSE v
<1>1. /\ using' = [using EXCEPT ![u] = to] /\ got' = [got EXCEPT ![u] = g]
      /\ vref_count' = V!Add(vref_count, v, n)
      /\ Elsewhere /\ UNCHANGED <<work_list, at>>
  BY DEF V!Submit, V!Quiet, V!ids, V!walks, Elsewhere
<1>2. to \in Vports \cup {NoPort}
  OBVIOUS
<1>3. ASSUME NEW x
      PROVE  /\ (using[u] = x <=> to = x) => AtPort(using', Users, x) = AtPort(using, Users, x)
             /\ using[u] = x /\ to # x => AtPort(using', Users, x) = AtPort(using, Users, x) - 1
             /\ using[u] # x /\ to = x => AtPort(using', Users, x) = AtPort(using, Users, x) + 1
  <2> HIDE DEF to
  <2>1. using'[u] = to /\ \A e \in Users \ {u} : using'[e] = using[e]
    BY <1>1 DEF VportInv, Types, V!TypeOK
  <2> QED BY <2>1, OneMoves, Assumptions
<1> USE DEF VportInv
<1>4. \A x \in Vports : vref_count[x] = Refs(x)
  BY RefsAre
<1>5. /\ vref_count' \in [Vports -> Int]
      /\ \A x \in Vports : vref_count'[x] = vref_count[x] + (IF x = v THEN n ELSE 0)
  BY <1>1, Assumptions DEF V!Add, Types, V!TypeOK
<1>6. \A x \in Vports : vref_count'[x] = Refs(x)' /\ vref_count'[x] \in Nat
  <2>1. \A x \in Vports : Refs(x)' =
          AtPort(at, V!Walkers, x) + work_list[x] + AtPort(using', Users, x)
    BY <1>1 DEF Refs, AtPort
  <2> SUFFICES ASSUME NEW x \in Vports PROVE vref_count'[x] = Refs(x)' /\ vref_count'[x] \in Nat
    OBVIOUS
  <2>2. work_list[x] \in Nat /\ vref_count[x] \in Nat
    BY DEF Types, V!TypeOK
  <2>3. /\ x # v => using[u] # x /\ to # x
        /\ x = v => /\ (using[u] = x <=> to = x) => n = 0
                    /\ using[u] = x /\ to # x => n = -1
                    /\ using[u] # x /\ to = x => n = 1
    BY Assumptions
  <2>4. /\ AtPort(using, Users, x) \in Nat /\ AtPort(using', Users, x) \in Nat
        /\ AtPort(at, V!Walkers, x) \in Nat
    BY AtPortType
  <2> QED BY <1>3, <1>4, <1>5, <2>1, <2>2, <2>3, <2>4 DEF Refs
<1>7. V!RefsAreHeld' /\ vref_count' \in [Vports -> Nat]
  BY <1>5, <1>6, RefsAre
<1>8. /\ using' \in [Users -> Vports \cup {NoPort}]
      /\ got' \in [Users -> {"none", "marked", "sp"}]
      /\ \A x \in Users : using'[x] # NoPort => V!Listed(using'[x])
  BY <1>1 DEF Types, V!TypeOK, HeldIsListed
<1>9. UsingIsGot'
  BY <1>1, Assumptions DEF UsingIsGot, Types, V!TypeOK
<1> QED BY <1>1, <1>7, <1>8, <1>9, ElsewhereStep DEF Types, V!TypeOK, HeldIsListed

LEMMA CommandSteps ==
  ASSUME VportInv, NEW u \in Users, V!mark_busy(u) \/ V!get_sp(u) \/ V!rel_sp(u)
  PROVE  VportInv'
<1>1. CASE V!mark_busy(u)
  <2>1. PICK v \in Vports : using[u] = NoPort /\ V!Registered(v) /\ V!Submit(u, v, "marked", 1)
    BY <1>1 DEF V!mark_busy
  <2>2. V!Listed(v) /\ NoPort # v
    BY <2>1, Assumptions DEF V!Registered, VportInv, StageIsListed, InList
  <2> QED BY <2>1, <2>2, SubmitStep
<1>2. CASE V!get_sp(u) \/ V!rel_sp(u)
  <2>1. using[u] \in Vports /\ V!Listed(using[u])
    BY <1>2 DEF V!get_sp, V!rel_sp, VportInv, UsingIsGot, HeldIsListed, Types, V!TypeOK
  <2>2. \/ V!Submit(u, using[u], "none", -1)
        \/ V!Submit(u, using[u], "sp", 0)
    BY <1>2 DEF V!get_sp, V!rel_sp
  <2> QED BY <2>1, <2>2, SubmitStep
<1> QED BY <1>1, <1>2

--------------------------------------------------------------------------
LEMMA VportInit == RoutinesInit => VportInv
<1> SUFFICES ASSUME V!Init PROVE VportInv
  BY DEF RoutinesInit
<1> USE DEF V!Init
<1>1. \A v : ~V!Listed(v)
  BY DEF V!Listed, V!Range
<1>2. Types
  BY Assumptions DEF Types, V!TypeOK, V!Range, V!Ids, V!Stages
<1>3. /\ ListIsCounted /\ StageIsListed /\ HeldIsListed /\ UsingIsGot /\ IdsAreGiven
      /\ FailedAreGone /\ V!IdsDiffer
  BY <1>1 DEF ListIsCounted, StageIsListed, InList, HeldIsListed, UsingIsGot, IdsAreGiven,
              WithoutId, FailedAreGone, V!IdsDiffer
<1>4. V!RefsAreHeld
  <2>1. \A v \in Vports : AtPort(at, V!Walkers, v) = 0 /\ AtPort(using, Users, v) = 0
    <3>1. \A v \in Vports : {w \in V!Walkers : at[w] = v} = {} /\ {u \in Users : using[u] = v} = {}
      BY Assumptions
    <3> QED BY <3>1, FS_EmptySet DEF AtPort
  <2> QED BY <2>1, RefsAre DEF Refs
<1>5. V!PortsAreCounted
  <2>1. Counted = {}
    BY DEF Counted, Uncounted, WithoutId
  <2> QED BY <2>1, CountIs, FS_EmptySet
<1> QED BY <1>2, <1>3, <1>4, <1>5 DEF VportInv

LEMMA VportUnchanged ==
  ASSUME VportInv, UNCHANGED vportVars
  PROVE  VportInv'
  BY IdleThere DEF vportVars, Elsewhere

LEMMA VportStep == VportInv /\ [RoutinesNext]_routineVars => VportInv'
<1> SUFFICES ASSUME VportInv, [RoutinesNext]_routineVars PROVE VportInv'
  OBVIOUS
<1>1. CASE VportNext
  <2>1. ASSUME NEW v \in Vports,
               \/ V!vport_create_req_sanity_check(v) \/ V!allocate_vp_id(v)
               \/ V!create_vhost(v) \/ V!vport_create(v) \/ V!vport_disable(v)
               \/ V!disable_vp(v) \/ V!vport_delete(v) \/ V!deallocate_vp_id(v)
               \/ V!vport_deleted(v) \/ V!host_put(v)
        PROVE  VportInv'
    BY <2>1, RequestStep, AllocateStep, CreateVhostStep, AddStep, EnableDisableStep,
       DeallocateStep, DeletedStep, PutStep
  <2>2. ASSUME NEW w \in V!Walkers, V!walk(w) \/ V!list_next(w) PROVE VportInv'
    BY <2>2, WalkStep, NextStep
  <2>3. CASE V!async_event \/ V!do_dpc_vp \/ V!vp_abort_isp
    BY <2>3, EventStep, DpcStep, AbortStep
  <2>4. ASSUME NEW u \in Users, V!mark_busy(u) \/ V!get_sp(u) \/ V!rel_sp(u) PROVE VportInv'
    BY <2>4, CommandSteps
  <2> QED BY <1>1, <2>1, <2>2, <2>3, <2>4 DEF VportNext, V!Next
<1>2. CASE ~VportNext
  <2>1. UNCHANGED vportVars
    BY <1>2 DEF RoutinesNext, MbxNext, RingNext, UnwindNext, routineVars
  <2> QED BY <2>1, VportUnchanged
<1> QED BY <1>1, <1>2

\* Nobody stays at a port that has left the list: whoever counts a reference
\* on it is at it, has work or a command for it, and finds it there.
LEMMA Sound == VportInv => VportsAreSound
<1> SUFFICES ASSUME VportInv PROVE V!UsedIsListed
  BY DEF VportInv, VportsAreSound
<1> USE DEF VportInv
<1> SUFFICES ASSUME NEW v \in Vports, ~V!Listed(v) PROVE ~(vref_count[v] > 0)
  BY DEF V!UsedIsListed
<1>1. /\ {w \in V!Walkers : at[w] = v} = {} /\ {u \in Users : using[u] = v} = {}
      /\ ~(work_list[v] > 0)
  BY Assumptions DEF HeldIsListed
<1>2. AtPort(at, V!Walkers, v) = 0 /\ AtPort(using, Users, v) = 0
  BY <1>1, FS_EmptySet DEF AtPort
<1>3. work_list[v] = 0
  BY <1>1 DEF Types, V!TypeOK
<1> QED BY <1>2, <1>3, RefsAre DEF Refs

--------------------------------------------------------------------------
\* However many ports the transport creates and deletes, while the interrupt
\* handler, the DPC thread and a reset walk the list and commands come and go:
\* nobody walks over, works for or submits to a port that has left the list, the
\* references are exactly those that are held, the ports of the list have ids of
\* their own (but for the id that the second clearing of a deletion robs), and
\* the count that the unloading driver goes by is right.
THEOREM VportsAlwaysSound == RoutinesSpec => []VportsAreSound
BY VportInit, VportStep, Sound, PTL DEF RoutinesSpec

--------------------------------------------------------------------------
(* What requests occupy.  First, folds: the recursion of MapThenFoldSet has a*)
(* value, whose steps can be followed one at a time.                       *)

LEMMA LeastNat ==
  ASSUME NEW T, T \subseteq Nat, T # {}
  PROVE  \E m \in T : \A k \in T : m <= k
<1> DEFINE R == {ss \in Nat \X Nat : ss[1] < ss[2]}
<1>1. IsWellFoundedOn(R, Nat)
  BY NatLessThanWellFounded, Zenon DEF OpToRel
<1>2. PICK m \in T : \A k \in T : ~ <<k, m>> \in R
  <2> HIDE DEF R
  <2> QED BY <1>1, WFMin
<1>3. \A k \in T : ~ k < m
  <2> SUFFICES ASSUME NEW k \in T, k < m PROVE FALSE
    OBVIOUS
  <2>1. <<k, m>> \in R
    OBVIOUS
  <2> QED BY <2>1, <1>2
<1> QED BY <1>3

\* A set of numbers up to n that can only be entered at 0, and is not.
LEMMA NoneBad ==
  ASSUME NEW n \in Nat, NEW T, T \subseteq 0..n, 0 \notin T,
         \A i \in 1..n : i - 1 \notin T => i \notin T
  PROVE  T = {}
<1> SUFFICES ASSUME T # {} PROVE FALSE
  OBVIOUS
<1>1. T \subseteq Nat
  OBVIOUS
<1>2. PICK m \in T : \A k \in T : m <= k
  BY <1>1, LeastNat
<1>3. m \in 1..n /\ m - 1 \in Int
  OBVIOUS
<1>4. m - 1 \notin T
  BY <1>2, <1>3
<1> QED BY <1>3, <1>4

\* f folds Elems, an element at a time, the last being the one that C names.
FoldsBy(f, Elems, base, C, G) ==
  f = [s \in SUBSET Elems |-> IF s = {} THEN base ELSE G[<<f[s \ {C[s]}], C[s]>>]]

LEMMA FoldExists ==
  ASSUME NEW Elems, IsFiniteSet(Elems), NEW C, \A s \in SUBSET Elems : s # {} => C[s] \in s,
         NEW W, NEW base \in W, NEW G \in [W \X Elems -> W]
  PROVE  \E f \in [SUBSET Elems -> W] : FoldsBy(f, Elems, base, C, G)
<1> DEFINE Next1(f, s) == IF s = {} THEN base ELSE G[<<f[s \ {C[s]}], C[s]>>]
           Up(k) == {s \in SUBSET Elems : Cardinality(s) <= k}
           Good(f, k) == f \in [SUBSET Elems -> W] /\ \A s \in Up(k) : f[s] = Next1(f, s)
           N == Cardinality(Elems)
           T == {k \in 0..N : ~ \E f : Good(f, k)}
<1>1. N \in Nat /\ \A s \in SUBSET Elems : IsFiniteSet(s) /\ Cardinality(s) \in Nat /\ Cardinality(s) <= N
  BY FS_Subset, FS_CardinalityType
<1>2. \A f, s : f \in [SUBSET Elems -> W] /\ s \in SUBSET Elems => Next1(f, s) \in W
  OBVIOUS
<1>3. 0 \notin T
  <2>1. \A s \in Up(0) : s = {}
    BY <1>1, FS_EmptySet
  <2>2. Good([s \in SUBSET Elems |-> base], 0)
    BY <2>1
  <2> QED BY <2>2
<1>4. ASSUME NEW k \in 1..N, k - 1 \notin T PROVE k \notin T
  <2>1. PICK f : Good(f, k - 1)
    <3>1. k - 1 \in 0..N
      BY <1>1
    <3> HIDE DEF Good
    <3> QED BY <1>4, <3>1
  <2> DEFINE g == [s \in SUBSET Elems |-> Next1(f, s)]
  <2>2. g \in [SUBSET Elems -> W]
    <3>1. \A s \in SUBSET Elems : Next1(f, s) \in W
      BY <1>2, <2>1
    <3> HIDE DEF Next1
    <3> QED BY <3>1
  <2>3. \A s \in Up(k - 1) : g[s] = f[s]
    BY <2>1
  <2>4. \A s \in Up(k) : s # {} => s \ {C[s]} \in Up(k - 1)
    <3> SUFFICES ASSUME NEW s \in Up(k), s # {} PROVE s \ {C[s]} \in Up(k - 1)
      OBVIOUS
    <3>1. s \in SUBSET Elems /\ Cardinality(s) <= k /\ C[s] \in s /\ IsFiniteSet(s)
          /\ Cardinality(s) \in Nat
      BY <1>1
    <3>2. Cardinality(s \ {C[s]}) = Cardinality(s) - 1
      BY <3>1, FS_RemoveElement
    <3>3. Cardinality(s \ {C[s]}) <= k - 1
      BY <3>1, <3>2
    <3> QED BY <3>1, <3>3
  <2>5. \A s \in Up(k) : g[s] = Next1(g, s)
    <3> SUFFICES ASSUME NEW s \in Up(k) PROVE g[s] = Next1(g, s)
      OBVIOUS
    <3>1. CASE s = {}
      BY <3>1
    <3>2. CASE s # {}
      <4>1. g[s \ {C[s]}] = f[s \ {C[s]}]
        BY <3>2, <2>3, <2>4
      <4>2. g[s] = Next1(f, s)
        OBVIOUS
      <4> HIDE DEF g
      <4> QED BY <4>1, <4>2, <3>2
    <3> QED BY <3>1, <3>2
  <2>6. Good(g, k)
    BY <2>2, <2>5
  <2> HIDE DEF Good
  <2> QED BY <2>6
<1>5. T = {}
  <2>1. T \subseteq 0..N
    OBVIOUS
  <2> HIDE DEF T, N
  <2> QED BY <1>1, <1>3, <1>4, <2>1, NoneBad
<1>6. PICK f : Good(f, N)
  <2> HIDE DEF Good, N
  <2>1. N \in 0..N
    BY <1>1
  <2> QED BY <1>5, <2>1
<1>7. \A s \in SUBSET Elems : f[s] = Next1(f, s)
  BY <1>1, <1>6
<1>8. f = [s \in SUBSET Elems |-> Next1(f, s)]
  <2>1. f = [s \in SUBSET Elems |-> f[s]]
    BY <1>6
  <2> HIDE DEF Next1
  <2> QED BY <1>7, <2>1
<1> QED BY <1>6, <1>8 DEF FoldsBy

LEMMA MaxIs ==
  ASSUME NEW n \in Nat, NEW s, s \subseteq 1..n, s # {}
  PROVE  I!Max(s) \in s /\ \A k \in s : I!Max(s) >= k
<1> DEFINE T == {n - k : k \in s}
<1>1. T \subseteq Nat /\ T # {}
  OBVIOUS
<1>2. PICK m \in T : \A k \in T : m <= k
  <2> HIDE DEF T
  <2> QED BY <1>1, LeastNat
<1>3. PICK x \in s : m = n - x
  OBVIOUS
<1>4. \A k \in s : x >= k
  BY <1>2, <1>3
<1>5. \E y \in s : \A k \in s : y >= k
  BY <1>4
<1> QED BY <1>5 DEF I!Max

\* Folding a sequence goes from the top of an interval to its bottom.
LEMMA LastIs ==
  ASSUME NEW n \in Nat
  PROVE  /\ IsFiniteSet(1..n)
         /\ \A s \in SUBSET (1..n) : s # {} => I!Max(s) \in s
         /\ \A i \in 1..n : /\ 1..i \in SUBSET (1..n) /\ 1..i # {}
                            /\ I!Max(1..i) = i /\ (1..i) \ {I!Max(1..i)} = 1..(i - 1)
<1>1. ASSUME NEW s \in SUBSET (1..n), s # {}
      PROVE  I!Max(s) \in s /\ \A k \in s : I!Max(s) >= k
  BY <1>1, MaxIs
<1>2. ASSUME NEW i \in 1..n
      PROVE  /\ 1..i \in SUBSET (1..n) /\ 1..i # {}
             /\ I!Max(1..i) = i /\ (1..i) \ {I!Max(1..i)} = 1..(i - 1)
  <2>1. 1..i \in SUBSET (1..n) /\ 1..i # {} /\ i \in 1..i
    OBVIOUS
  <2>2. I!Max(1..i) \in 1..i /\ \A k \in 1..i : I!Max(1..i) >= k
    BY <1>1, <2>1
  <2>3. I!Max(1..i) = i
    BY <2>1, <2>2
  <2> QED BY <2>1, <2>3
<1>3. IsFiniteSet(1..n)
  BY FS_Interval
<1> QED BY <1>1, <1>2, <1>3

\* f is a fold of 1..n.
Folds(f, n, W, base, G) ==
  /\ n \in Nat /\ base \in W /\ G \in [W \X (1..n) -> W]
  /\ f[{}] = base
  /\ \A i \in 1..n : f[1..(i - 1)] \in W => f[1..i] = G[<<f[1..(i - 1)], i>>]

\* The values of a fold, one element after the other.
Values(h, n, W, base, G) ==
  /\ h \in [0..n -> W]
  /\ h[0] = base
  /\ \A i \in 1..n : h[i] = G[<<h[i - 1], i>>]

LEMMA FoldSteps ==
  ASSUME NEW n, NEW W, NEW G, NEW base, NEW f, Folds(f, n, W, base, G)
  PROVE  \E h : Values(h, n, W, base, G) /\ h[n] = f[1..n]
<1> DEFINE T == {k \in 0..n : f[1..k] \notin W}
           h == [i \in 0..n |-> f[1..i]]
<1> USE DEF Folds
<1>1. f[1..0] = f[{}]
  <2>1. 1..0 = {}
    OBVIOUS
  <2> QED BY <2>1
<1>2. T = {}
  <2>1. T \subseteq 0..n /\ 0 \notin T
    BY <1>1
  <2>2. ASSUME NEW i \in 1..n, i - 1 \notin T PROVE i \notin T
    <3>1. i - 1 \in 0..n
      OBVIOUS
    <3>2. f[1..(i - 1)] \in W
      BY <2>2, <3>1
    <3> QED BY <3>2
  <2> HIDE DEF T
  <2> QED BY <2>1, <2>2, NoneBad
<1>3. h \in [0..n -> W]
  BY <1>2
<1>4. 0 \in 0..n /\ n \in 0..n
  OBVIOUS
<1>5. h[0] = base /\ h[n] = f[1..n]
  BY <1>1, <1>4
<1>6. \A i \in 1..n : h[i] = G[<<h[i - 1], i>>]
  <2> SUFFICES ASSUME NEW i \in 1..n PROVE h[i] = G[<<h[i - 1], i>>]
    OBVIOUS
  <2>1. i \in 0..n /\ i - 1 \in 0..n
    OBVIOUS
  <2> QED BY <1>2, <2>1
<1> QED BY <1>3, <1>5, <1>6 DEF Values

\* f folds 1..n as FoldLeft does.
FoldsUp(f, n, base, G) ==
  f = [s \in SUBSET (1..n) |-> IF s = {} THEN base ELSE G[<<f[s \ {I!Max(s)}], I!Max(s)>>]]

LEMMA IntervalFold ==
  ASSUME NEW n \in Nat, NEW W, NEW base \in W, NEW G \in [W \X (1..n) -> W]
  PROVE  \E f \in [SUBSET (1..n) -> W] : FoldsUp(f, n, base, G)
<1> DEFINE C == [s \in SUBSET (1..n) |-> I!Max(s)]
<1>1. \A s \in SUBSET (1..n) : C[s] = I!Max(s)
  OBVIOUS
<1>2. \A s \in SUBSET (1..n) : s # {} => C[s] \in s
  BY LastIs
<1>3. IsFiniteSet(1..n)
  BY LastIs
<1> HIDE DEF C
<1>4. PICK f \in [SUBSET (1..n) -> W] : FoldsBy(f, 1..n, base, C, G)
  BY <1>2, <1>3, FoldExists
<1>5. [s \in SUBSET (1..n) |-> IF s = {} THEN base ELSE G[<<f[s \ {C[s]}], C[s]>>]]
      = [s \in SUBSET (1..n) |->
           IF s = {} THEN base ELSE G[<<f[s \ {I!Max(s)}], I!Max(s)>>]]
  BY <1>1
<1> QED BY <1>4, <1>5 DEF FoldsBy, FoldsUp

--------------------------------------------------------------------------
(* DSDs in ring entries.                                                   *)

Ats == [entries : Nat, avail : Nat]

LEMMA OneIs ==
  ASSUME NEW from \in Ats, NEW cont \in {5, 7}
  PROVE  LET x == I!OneDsd(from, cont)
         IN /\ x \in Ats
            /\ cont * x.entries - x.avail = cont * from.entries - from.avail + 1
            /\ x.entries >= from.entries
            /\ x.avail < cont \/ (x.entries = from.entries /\ x.avail <= from.avail)
<1>1. CASE from.avail = 0
  <2>1. I!OneDsd(from, cont) = [entries |-> from.entries + 1, avail |-> cont - 1]
    BY <1>1 DEF I!OneDsd
  <2> QED BY <1>1, <2>1 DEF Ats
<1>2. CASE from.avail # 0
  <2>1. I!OneDsd(from, cont) = [from EXCEPT !.avail = from.avail - 1]
    BY <1>2 DEF I!OneDsd
  <2>2. [from EXCEPT !.avail = from.avail - 1] = [entries |-> from.entries, avail |-> from.avail - 1]
    BY DEF Ats
  <2>3. from.avail - 1 \in Nat /\ from.entries \in Nat /\ from.avail \in Nat
    BY <1>2 DEF Ats
  <2> QED BY <1>2, <2>1, <2>2, <2>3 DEF Ats
<1> QED BY <1>1, <1>2

LEMMA PutSteps ==
  ASSUME NEW from \in Ats, NEW cont \in {5, 7}, NEW n \in Nat
  PROVE  \E h \in [0..n -> Ats] :
           /\ h[0] = from /\ h[n] = I!PutDsds(from, cont, n)
           /\ \A i \in 1..n : h[i] = I!OneDsd(h[i - 1], cont)
<1> DEFINE G == [p \in Ats \X (1..n) |-> I!OneDsd(p[1], cont)]
           F(f) == [t \in SUBSET (1..n) |->
                      IF t = {} THEN from ELSE I!OneDsd(f[t \ {I!Max(t)}], cont)]
           it == CHOOSE f : f = F(f)
<1>1. /\ G \in [Ats \X (1..n) -> Ats]
      /\ \A a \in Ats, i \in 1..n : G[<<a, i>>] = I!OneDsd(a, cont)
  BY OneIs
<1>2. I!PutDsds(from, cont, n) = it[1..n]
  <2>1. DOMAIN [i \in 1..n |-> i] = 1..n
    OBVIOUS
  <2> QED BY <2>1 DEF I!PutDsds, I!FoldLeft, I!MapThenFoldSet
<1>3. \E f : f = F(f)
  <2> HIDE DEF G
  <2>1. PICK f \in [SUBSET (1..n) -> Ats] : FoldsUp(f, n, from, G)
    BY <1>1, IntervalFold
  <2>2. \A t \in SUBSET (1..n) : t # {} => f[t \ {I!Max(t)}] \in Ats /\ I!Max(t) \in 1..n
    BY LastIs
  <2>3. \A t \in SUBSET (1..n) : t # {} =>
          G[<<f[t \ {I!Max(t)}], I!Max(t)>>] = I!OneDsd(f[t \ {I!Max(t)}], cont)
    BY <2>2, <1>1
  <2>4. F(f) = [s \in SUBSET (1..n) |-> IF s = {} THEN from ELSE G[<<f[s \ {I!Max(s)}], I!Max(s)>>]]
    BY <2>3
  <2> QED BY <2>1, <2>4 DEF FoldsUp
<1>4. it = F(it)
  <2> HIDE DEF F
  <2> QED BY <1>3
<1>5. \A t \in SUBSET (1..n) :
        it[t] = IF t = {} THEN from ELSE I!OneDsd(it[t \ {I!Max(t)}], cont)
  <2> HIDE DEF it
  <2> QED BY <1>4
<1>6. it[{}] = from
  <2> HIDE DEF it
  <2> QED BY <1>5
<1>7. ASSUME NEW i \in 1..n, it[1..(i - 1)] \in Ats
      PROVE  it[1..i] = G[<<it[1..(i - 1)], i>>]
  <2> HIDE DEF it, G
  <2>1. it[1..i] = I!OneDsd(it[1..(i - 1)], cont)
    BY <1>5, LastIs
  <2> QED BY <1>1, <1>7, <2>1
<1>8. PICK h : Values(h, n, Ats, from, G) /\ h[n] = it[1..n]
  <2> HIDE DEF it, G
  <2>1. Folds(it, n, Ats, from, G)
    BY <1>1, <1>6, <1>7 DEF Folds
  <2> QED BY <2>1, FoldSteps
<1>9. \A i \in 1..n : h[i] = I!OneDsd(h[i - 1], cont)
  <2> HIDE DEF it, G
  <2> SUFFICES ASSUME NEW i \in 1..n PROVE h[i] = I!OneDsd(h[i - 1], cont)
    OBVIOUS
  <2>1. i - 1 \in 0..n
    OBVIOUS
  <2> QED BY <1>1, <1>8, <2>1 DEF Values
<1> HIDE DEF it, G
<1> QED BY <1>2, <1>8, <1>9 DEF Values

LEMMA OneMore ==
  ASSUME NEW c \in {5, 7}, NEW i \in Int, NEW xe \in Nat, NEW xa \in Nat,
         NEW ye \in Nat, NEW ya \in Nat, NEW ae \in Nat, NEW aa \in Nat,
         c * xe - xa = c * ae - aa + (i - 1), c * ye - ya = c * xe - xa + 1
  PROVE  c * ye - ya = c * ae - aa + i
<1>1. CASE c = 5
  BY <1>1
<1>2. CASE c = 7
  BY <1>2
<1> QED BY <1>1, <1>2

\* What n DSDs fill, whatever the entry they begin in.
LEMMA PutIs ==
  ASSUME NEW from \in Ats, NEW cont \in {5, 7}, NEW n \in Nat
  PROVE  LET x == I!PutDsds(from, cont, n)
         IN /\ x \in Ats
            /\ cont * x.entries - x.avail = cont * from.entries - from.avail + n
            /\ x.entries >= from.entries
            /\ x.avail < cont \/ (x.entries = from.entries /\ x.avail <= from.avail)
<1>1. PICK h \in [0..n -> Ats] :
        /\ h[0] = from /\ h[n] = I!PutDsds(from, cont, n)
        /\ \A i \in 1..n : h[i] = I!OneDsd(h[i - 1], cont)
  BY ZenonT(40), PutSteps
<1> DEFINE Right(i) ==
             /\ cont * h[i].entries - h[i].avail = cont * from.entries - from.avail + i
             /\ h[i].entries >= from.entries
             /\ h[i].avail < cont \/ (h[i].entries = from.entries /\ h[i].avail <= from.avail)
           T == {i \in 0..n : ~Right(i)}
<1>2. 0 \notin T
  BY <1>1 DEF Ats
<1>3. ASSUME NEW i \in 1..n, i - 1 \notin T PROVE i \notin T
  <2>1. Right(i - 1) /\ h[i - 1] \in Ats /\ h[i] \in Ats /\ i - 1 \in Nat
    <3>1. i - 1 \in 0..n /\ i \in 0..n
      OBVIOUS
    <3> HIDE DEF Right
    <3> QED BY <1>3, <3>1
  <2> DEFINE x == h[i - 1]
             y == h[i]
  <2>2. /\ cont * y.entries - y.avail = cont * x.entries - x.avail + 1
        /\ y.entries >= x.entries
        /\ y.avail < cont \/ (y.entries = x.entries /\ y.avail <= x.avail)
    BY <1>1, <2>1, OneIs
  <2>3. /\ y.entries \in Nat /\ y.avail \in Nat /\ x.entries \in Nat /\ x.avail \in Nat
        /\ from.entries \in Nat /\ from.avail \in Nat
    BY <2>1 DEF Ats
  <2>4. Right(i)
    <3> HIDE DEF x, y
    <3>1. /\ cont * y.entries - y.avail = cont * from.entries - from.avail + i
          /\ y.entries >= from.entries
          /\ y.avail < cont \/ (y.entries = from.entries /\ y.avail <= from.avail)
      <4>1. /\ cont * x.entries - x.avail = cont * from.entries - from.avail + (i - 1)
            /\ x.entries >= from.entries
            /\ x.avail < cont \/ (x.entries = from.entries /\ x.avail <= from.avail)
        BY <2>1 DEF x
      <4>2. cont * y.entries - y.avail = cont * from.entries - from.avail + i
        BY <2>2, <2>3, <4>1, OneMore
      <4>3. y.entries >= from.entries
        BY <2>2, <2>3, <4>1
      <4>4. y.avail < cont \/ (y.entries = from.entries /\ y.avail <= from.avail)
        <5>1. CASE y.avail < cont
          BY <5>1
        <5>2. CASE y.entries = x.entries /\ y.avail <= x.avail
          BY <2>3, <4>1, <5>2
        <5> QED BY <2>2, <5>1, <5>2
      <4> QED BY <4>2, <4>3, <4>4
    <3> QED BY <3>1 DEF y
  <2> QED BY <2>4
<1>4. Right(n)
  <2>1. T \subseteq 0..n
    OBVIOUS
  <2>2. T = {}
    <3> HIDE DEF T
    <3> QED BY <1>2, <1>3, <2>1, NoneBad
  <2>3. n \in 0..n
    OBVIOUS
  <2> HIDE DEF Right
  <2> QED BY <2>2, <2>3
<1>5. h[n] \in Ats
  OBVIOUS
<1> QED BY <1>1, <1>4, <1>5

LEMMA BuiltFrom ==
  ASSUME NEW a \in {1, 2, 3}, NEW cont \in {5, 7}, NEW n \in Nat
  PROVE  LET e == I!PutDsds(I!First(a), cont, n).entries
         IN e = 1 + IF n > a THEN I!Up(n - a, cont) ELSE 0
<1>1. I!First(a) \in Ats /\ I!First(a).entries = 1 /\ I!First(a).avail = a
  BY DEF I!First, Ats
<1> DEFINE x == I!PutDsds(I!First(a), cont, n)
<1>2. /\ x \in Ats
      /\ cont * x.entries - x.avail = cont - a + n
      /\ x.entries >= 1
      /\ x.avail < cont \/ (x.entries = 1 /\ x.avail <= a)
  <2>1. /\ x \in Ats
        /\ cont * x.entries - x.avail = cont * I!First(a).entries - I!First(a).avail + n
        /\ x.entries >= I!First(a).entries
        /\ x.avail < cont \/ (x.entries = I!First(a).entries /\ x.avail <= I!First(a).avail)
    BY <1>1, PutIs
  <2> HIDE DEF x
  <2> QED BY <1>1, <2>1
<1>3. x.entries \in Nat /\ x.avail \in Nat
  BY <1>2 DEF Ats
<1> HIDE DEF x
<1>4. CASE n > a
  <2>1. ASSUME cont = 5 PROVE x.entries = 1 + I!Up(n - a, cont)
    BY <1>2, <1>3, <1>4, <2>1 DEF I!Up
  <2>2. ASSUME cont = 7 PROVE x.entries = 1 + I!Up(n - a, cont)
    BY <1>2, <1>3, <1>4, <2>2 DEF I!Up
  <2>3. x.entries = 1 + I!Up(n - a, cont)
    BY <2>1, <2>2
  <2> QED BY <1>4, <2>3 DEF x
<1>5. CASE ~(n > a)
  <2>1. x.entries = 1
    BY <1>2, <1>3, <1>5
  <2> QED BY <1>5, <2>1 DEF x
<1> QED BY <1>4, <1>5

--------------------------------------------------------------------------
(* DSDs in lists.                                                          *)

\* The walks that fill DSD lists.
Walking == [lists : Nat, used : Nat, avail : Int, over : BOOLEAN]

LEMMA RingSizes ==
  /\ PerList \in Nat \ {0} /\ Chains \in Nat \ {0} /\ ShiftCtl \in Nat \ {0}
  /\ BlockSize \in Nat \ {0}
  /\ IsFiniteSet(SrbSlots)
BY MCRoutinesAssumption DEF I!IocbBuildAssumption, I!IsFiniteSet, IsFiniteSet

LEMMA ListDsdIs ==
  ASSUME NEW w \in Walking
  PROVE  /\ I!ListDsd(w) \in Walking
         /\ w.avail > 0 => /\ I!ListDsd(w).used = w.used
                           /\ I!ListDsd(w).avail = w.avail - 1
                           /\ I!ListDsd(w).over = w.over
         /\ w.avail = 0 /\ w.used > 0 =>
              /\ I!ListDsd(w).used + I!ListDsd(w).avail = w.used - 1
              /\ I!ListDsd(w).avail >= 0
              /\ I!ListDsd(w).over = w.over
<1> DEFINE n == I!Lowest(PerList, w.used)
<1>1. /\ w.lists \in Nat /\ w.used \in Nat /\ w.avail \in Int /\ w.over \in BOOLEAN
  BY DEF Walking
<1>2. n \in Nat /\ n <= w.used /\ (w.used > 0 => n > 0)
  BY <1>1, RingSizes DEF I!Lowest
<1>3. CASE w.avail = 0
  <2>1. I!ListDsd(w) = [lists |-> w.lists + 1, used |-> w.used - n,
                        avail |-> n - 1, over |-> w.over \/ n = 0]
    BY <1>3 DEF I!ListDsd
  <2> HIDE DEF n
  <2>2. w.used - n \in Nat /\ n - 1 \in Int /\ (w.over \/ n = 0) \in BOOLEAN /\ w.lists + 1 \in Nat
    BY <1>1, <1>2
  <2>3. I!ListDsd(w) \in Walking
    BY <2>1, <2>2 DEF Walking
  <2>4. w.used > 0 => (w.over \/ n = 0) = w.over
    BY <1>1, <1>2
  <2> QED BY <1>1, <1>2, <1>3, <2>1, <2>3, <2>4
<1>4. CASE w.avail # 0
  <2>1. I!ListDsd(w) = [w EXCEPT !.avail = w.avail - 1]
    BY <1>4 DEF I!ListDsd
  <2>2. [w EXCEPT !.avail = w.avail - 1]
        = [lists |-> w.lists, used |-> w.used, avail |-> w.avail - 1, over |-> w.over]
    BY DEF Walking
  <2> QED BY <1>1, <1>4, <2>1, <2>2 DEF Walking
<1> QED BY <1>3, <1>4

NewWalk(used) == [lists |-> 0, used |-> used, avail |-> 0, over |-> FALSE]

LEMMA WalkSteps ==
  ASSUME NEW n \in Nat, NEW used \in Nat
  PROVE  \E h \in [0..n -> Walking] :
           /\ h[0] = NewWalk(used) /\ h[n] = I!Walk(n, used)
           /\ \A i \in 1..n : h[i] = I!ListDsd(h[i - 1])
<1> DEFINE G == [p \in Walking \X (1..n) |-> I!ListDsd(p[1])]
           F(f) == [t \in SUBSET (1..n) |->
                      IF t = {} THEN NewWalk(used) ELSE I!ListDsd(f[t \ {I!Max(t)}])]
           it == CHOOSE f : f = F(f)
<1>1. /\ G \in [Walking \X (1..n) -> Walking]
      /\ \A a \in Walking, i \in 1..n : G[<<a, i>>] = I!ListDsd(a)
  BY ListDsdIs
<1>2. n \in Nat /\ NewWalk(used) \in Walking
  BY DEF NewWalk, Walking
<1>3. I!Walk(n, used) = it[1..n]
  <2>1. DOMAIN [i \in 1..n |-> i] = 1..n
    OBVIOUS
  <2> QED BY <2>1 DEF I!Walk, NewWalk, I!FoldLeft, I!MapThenFoldSet
<1>4. \E f : f = F(f)
  <2> HIDE DEF G
  <2>1. PICK f \in [SUBSET (1..n) -> Walking] : FoldsUp(f, n, NewWalk(used), G)
    BY <1>1, <1>2, IntervalFold
  <2>2. \A t \in SUBSET (1..n) : t # {} => f[t \ {I!Max(t)}] \in Walking /\ I!Max(t) \in 1..n
    BY <1>2, LastIs
  <2>3. \A t \in SUBSET (1..n) : t # {} =>
          G[<<f[t \ {I!Max(t)}], I!Max(t)>>] = I!ListDsd(f[t \ {I!Max(t)}])
    BY <2>2, <1>1
  <2>4. F(f) = [s \in SUBSET (1..n) |->
                  IF s = {} THEN NewWalk(used) ELSE G[<<f[s \ {I!Max(s)}], I!Max(s)>>]]
    BY <2>3
  <2> QED BY <2>1, <2>4 DEF FoldsUp
<1>5. it = F(it)
  <2> HIDE DEF F
  <2> QED BY <1>4
<1>6. \A t \in SUBSET (1..n) :
        it[t] = IF t = {} THEN NewWalk(used) ELSE I!ListDsd(it[t \ {I!Max(t)}])
  <2> HIDE DEF it
  <2> QED BY <1>5
<1>7. it[{}] = NewWalk(used)
  <2> HIDE DEF it
  <2> QED BY <1>6
<1>8. ASSUME NEW i \in 1..n, it[1..(i - 1)] \in Walking
      PROVE  it[1..i] = G[<<it[1..(i - 1)], i>>]
  <2> HIDE DEF it, G
  <2>1. it[1..i] = I!ListDsd(it[1..(i - 1)])
    BY <1>2, <1>6, LastIs
  <2> QED BY <1>1, <1>8, <2>1
<1>9. PICK h : Values(h, n, Walking, NewWalk(used), G) /\ h[n] = it[1..n]
  <2> HIDE DEF it, G
  <2>1. Folds(it, n, Walking, NewWalk(used), G)
    BY <1>1, <1>2, <1>7, <1>8 DEF Folds
  <2> QED BY <2>1, FoldSteps
<1>10. \A i \in 1..n : h[i] = I!ListDsd(h[i - 1])
  <2> HIDE DEF it, G
  <2> SUFFICES ASSUME NEW i \in 1..n PROVE h[i] = I!ListDsd(h[i - 1])
    OBVIOUS
  <2>1. i - 1 \in 0..n
    BY <1>2
  <2> QED BY <1>1, <1>9, <2>1 DEF Values
<1> HIDE DEF it, G
<1> QED BY <1>3, <1>9, <1>10 DEF Values

\* A walk that was announced all its DSDs begins no list for none.
LEMMA WalkIsWhole ==
  ASSUME NEW n \in Nat, NEW used \in Nat, n <= used
  PROVE  I!Walk(n, used).over = FALSE
<1>1. PICK h \in [0..n -> Walking] :
        /\ h[0] = NewWalk(used) /\ h[n] = I!Walk(n, used)
        /\ \A i \in 1..n : h[i] = I!ListDsd(h[i - 1])
  BY WalkSteps
<1> DEFINE Right(i) == /\ h[i].used + h[i].avail = used - i
                       /\ h[i].avail >= 0
                       /\ h[i].over = FALSE
           T == {i \in 0..n : ~Right(i)}
<1>2. 0 \notin T
  BY <1>1 DEF NewWalk
<1>3. ASSUME NEW i \in 1..n, i - 1 \notin T PROVE i \notin T
  <2>1. Right(i - 1) /\ h[i - 1] \in Walking /\ h[i] \in Walking
    <3>1. i - 1 \in 0..n /\ i \in 0..n
      OBVIOUS
    <3> HIDE DEF Right
    <3> QED BY <1>3, <3>1
  <2> DEFINE x == h[i - 1]
             y == h[i]
  <2>2. y = I!ListDsd(x)
    BY <1>1
  <2>3. /\ x.used \in Nat /\ x.avail \in Int /\ y.used \in Nat /\ y.avail \in Int /\ x \in Walking
    BY <2>1 DEF Walking
  <2>4. x.used + x.avail = used - (i - 1) /\ x.avail >= 0 /\ x.over = FALSE
    BY <2>1
  <2> HIDE DEF x, y
  <2>5. y.used + y.avail = used - i /\ y.avail >= 0 /\ y.over = FALSE
    <3>1. CASE x.avail > 0
      <4>1. y.used = x.used /\ y.avail = x.avail - 1 /\ y.over = x.over
        BY <2>2, <2>3, <3>1, ListDsdIs
      <4>2. i \in Int /\ used \in Int
        OBVIOUS
      <4>3. y.used + y.avail = used - i
        BY <2>3, <2>4, <4>1, <4>2
      <4>4. y.avail >= 0
        BY <2>3, <3>1, <4>1
      <4> QED BY <2>4, <4>1, <4>3, <4>4
    <3>2. CASE x.avail = 0
      <4>1. x.used > 0
        BY <2>3, <2>4, <3>2
      <4> QED BY <2>2, <2>3, <2>4, <3>2, <4>1, ListDsdIs
    <3>3. x.avail > 0 \/ x.avail = 0
      BY <2>3, <2>4
    <3> QED BY <3>1, <3>2, <3>3
  <2>6. Right(i)
    BY <2>5 DEF y
  <2> QED BY <2>6
<1>4. T = {}
  <2>1. T \subseteq 0..n
    OBVIOUS
  <2> HIDE DEF T
  <2> QED BY <1>2, <1>3, <2>1, NoneBad
<1>5. Right(n)
  <2>1. n \in 0..n
    OBVIOUS
  <2> HIDE DEF Right
  <2> QED BY <1>4, <2>1
<1> QED BY <1>1, <1>5

--------------------------------------------------------------------------
(* The bytes of a command.                                                 *)

Segments == Seq(Nat \ {0})

LEMMA BytesSteps ==
  ASSUME NEW segs \in Segments
  PROVE  \E h \in [0..Len(segs) -> Nat] :
           /\ h[0] = 0 /\ h[Len(segs)] = I!Bytes(segs)
           /\ \A i \in 1..Len(segs) : h[i] = h[i - 1] + segs[i]
<1> DEFINE G == [p \in Nat \X (1..Len(segs)) |-> p[1] + segs[p[2]]]
           F(f) == [t \in SUBSET (1..Len(segs)) |->
                      IF t = {} THEN 0 ELSE f[t \ {I!Max(t)}] + segs[I!Max(t)]]
           it == CHOOSE f : f = F(f)
<1>1. /\ G \in [Nat \X (1..Len(segs)) -> Nat]
      /\ \A a \in Nat, i \in 1..Len(segs) : G[<<a, i>>] = a + segs[i]
  BY DEF Segments
<1>2. Len(segs) \in Nat /\ 0 \in Nat
  BY DEF Segments
<1>3. I!Bytes(segs) = it[1..Len(segs)]
  <2>1. DOMAIN segs = 1..Len(segs)
    BY DEF Segments
  <2> QED BY <2>1 DEF I!Bytes, I!FoldLeft, I!MapThenFoldSet
<1>4. \E f : f = F(f)
  <2> HIDE DEF G
  <2>1. PICK f \in [SUBSET (1..Len(segs)) -> Nat] : FoldsUp(f, Len(segs), 0, G)
    BY <1>1, <1>2, IntervalFold
  <2>2. \A t \in SUBSET (1..Len(segs)) : t # {} => f[t \ {I!Max(t)}] \in Nat /\ I!Max(t) \in 1..Len(segs)
    BY <1>2, LastIs
  <2>3. \A t \in SUBSET (1..Len(segs)) : t # {} =>
          G[<<f[t \ {I!Max(t)}], I!Max(t)>>] = f[t \ {I!Max(t)}] + segs[I!Max(t)]
    BY <2>2, <1>1
  <2>4. F(f) = [s \in SUBSET (1..Len(segs)) |->
                  IF s = {} THEN 0 ELSE G[<<f[s \ {I!Max(s)}], I!Max(s)>>]]
    BY <2>3
  <2> QED BY <2>1, <2>4 DEF FoldsUp
<1>5. it = F(it)
  <2> HIDE DEF F
  <2> QED BY <1>4
<1>6. \A t \in SUBSET (1..Len(segs)) :
        it[t] = IF t = {} THEN 0 ELSE it[t \ {I!Max(t)}] + segs[I!Max(t)]
  <2> HIDE DEF it
  <2> QED BY <1>5
<1>7. it[{}] = 0
  <2> HIDE DEF it
  <2> QED BY <1>6
<1>8. ASSUME NEW i \in 1..Len(segs), it[1..(i - 1)] \in Nat
      PROVE  it[1..i] = G[<<it[1..(i - 1)], i>>]
  <2> HIDE DEF it, G
  <2>1. it[1..i] = it[1..(i - 1)] + segs[i]
    BY <1>2, <1>6, LastIs
  <2> QED BY <1>1, <1>8, <2>1
<1>9. PICK h : Values(h, Len(segs), Nat, 0, G) /\ h[Len(segs)] = it[1..Len(segs)]
  <2> HIDE DEF it, G
  <2>1. Folds(it, Len(segs), Nat, 0, G)
    BY <1>1, <1>2, <1>7, <1>8 DEF Folds
  <2> QED BY <2>1, FoldSteps
<1>10. \A i \in 1..Len(segs) : h[i] = h[i - 1] + segs[i]
  <2> HIDE DEF it, G
  <2> SUFFICES ASSUME NEW i \in 1..Len(segs) PROVE h[i] = h[i - 1] + segs[i]
    OBVIOUS
  <2>1. i - 1 \in 0..Len(segs)
    BY <1>2
  <2> QED BY <1>1, <1>9, <2>1 DEF Values
<1> HIDE DEF it, G
<1> QED BY <1>3, <1>9, <1>10 DEF Values

--------------------------------------------------------------------------
(* The pieces of a command.                                                *)

Piece == [sg : Nat, len : Int, whole : BOOLEAN]
Place(segs) ==
  {g \in [sg : 1..Len(segs) + 1, consumed : Nat, partial : 0..BlockSize - 1, pieces : Seq(Piece)] :
     /\ g.sg <= Len(segs) => g.consumed < segs[g.sg]
     /\ g.sg > Len(segs) => g.consumed = 0}
Start == [sg |-> 1, consumed |-> 0, partial |-> 0, pieces |-> <<>>]

\* How far x has come from g: by a piece of l bytes, which ended a block or not.
OnBy(g, x, segs, l, whole) ==
  /\ l \in Nat
  /\ x.pieces = Append(g.pieces, [sg |-> g.sg, len |-> l, whole |-> whole])
  /\ \/ x.sg = g.sg /\ x.consumed = g.consumed + l
     \/ x.sg = g.sg + 1 /\ x.consumed = 0 /\ g.consumed + l = segs[g.sg]
  /\ whole => x.partial = 0 /\ g.partial + l = BlockSize
  /\ ~whole => x.partial = g.partial + l

LEMMA PieceIs ==
  ASSUME NEW segs \in Segments, NEW g \in Place(segs), g.sg <= Len(segs)
  PROVE  /\ I!get_one_block_sg(g, segs) \in Place(segs)
         /\ \E l \in Nat, whole \in BOOLEAN : OnBy(g, I!get_one_block_sg(g, segs), segs, l, whole)
<1> DEFINE rest == segs[g.sg] - g.consumed
           whole == g.partial + rest >= BlockSize
           l == IF whole THEN BlockSize - g.partial ELSE rest
           emptied == g.consumed + l = segs[g.sg]
           p == [sg |-> g.sg, len |-> l, whole |-> whole]
           x == [sg |-> IF emptied THEN g.sg + 1 ELSE g.sg,
                 consumed |-> IF emptied THEN 0 ELSE g.consumed + l,
                 partial |-> IF whole THEN 0 ELSE g.partial + l,
                 pieces |-> Append(g.pieces, p)]
<1>1. I!get_one_block_sg(g, segs) = x
  BY DEF I!get_one_block_sg
<1>2. /\ g.sg \in Nat /\ g.sg >= 1 /\ g.consumed \in Nat /\ g.partial \in Nat /\ g.partial < BlockSize
      /\ g.pieces \in Seq(Piece)
      /\ segs[g.sg] \in Nat /\ g.consumed < segs[g.sg] /\ Len(segs) \in Nat
      /\ BlockSize \in Nat
  <2>1. g.sg \in 1..Len(segs) + 1 /\ Len(segs) \in Nat
    BY DEF Place, Segments
  <2>2. g.sg \in 1..Len(segs)
    BY <2>1
  <2>3. segs[g.sg] \in Nat
    BY <2>2 DEF Segments
  <2> QED BY <2>1, <2>2, <2>3, RingSizes DEF Place
<1>3. rest \in Nat /\ rest > 0 /\ whole \in BOOLEAN
  BY <1>2
<1>4. /\ l \in Nat /\ l <= rest
      /\ whole => g.partial + l = BlockSize
      /\ ~whole => l = rest /\ g.partial + l < BlockSize
  BY <1>2, <1>3
<1>5. p \in Piece
  BY <1>2, <1>3, <1>4 DEF Piece
<1>6. /\ emptied => g.consumed + l = segs[g.sg]
      /\ ~emptied => g.consumed + l < segs[g.sg]
  BY SMTT(30), <1>2, <1>4
<1> HIDE DEF p
<1>7. Append(g.pieces, p) \in Seq(Piece)
  BY <1>2, <1>5
<1>8. /\ x.sg = IF emptied THEN g.sg + 1 ELSE g.sg
      /\ x.consumed = IF emptied THEN 0 ELSE g.consumed + l
      /\ x.partial = IF whole THEN 0 ELSE g.partial + l
      /\ x.pieces = Append(g.pieces, p)
  BY Zenon
<1>9. x \in Place(segs)
  <2>1. /\ x.sg \in 1..Len(segs) + 1 /\ x.consumed \in Nat /\ x.partial \in 0..BlockSize - 1
        /\ x.pieces \in Seq(Piece)
    <3>1. CASE emptied
      <4>1. x.sg = g.sg + 1 /\ x.consumed = 0
        BY <1>8, <3>1
      <4>2. g.sg + 1 \in 1..Len(segs) + 1
        BY <1>2
      <4>3. x.partial \in 0..BlockSize - 1
        <5> HIDE DEF x, emptied, l, whole
        <5> QED BY SMTT(30), <1>2, <1>4, <1>8
      <4>4. x.pieces \in Seq(Piece)
        BY <1>7, <1>8, Zenon
      <4> HIDE DEF x
      <4> QED BY <4>1, <4>2, <4>3, <4>4
    <3>2. CASE ~emptied
      <4>1. x.sg = g.sg /\ x.consumed = g.consumed + l
        BY <1>8, <3>2
      <4>2. g.sg \in 1..Len(segs) + 1 /\ g.consumed + l \in Nat
        <5> HIDE DEF l
        <5> QED BY <1>2, <1>4
      <4>3. x.partial \in 0..BlockSize - 1
        <5> HIDE DEF x, emptied, l, whole
        <5> QED BY SMTT(30), <1>2, <1>4, <1>8
      <4>4. x.pieces \in Seq(Piece)
        BY <1>7, <1>8, Zenon
      <4> HIDE DEF x
      <4> QED BY <4>1, <4>2, <4>3, <4>4
    <3> QED BY <3>1, <3>2
  <2>2. /\ x.sg <= Len(segs) => x.consumed < segs[x.sg]
        /\ x.sg > Len(segs) => x.consumed = 0
    <3>1. CASE emptied
      <4>1. x.sg = g.sg + 1 /\ x.consumed = 0
        BY <1>8, <3>1
      <4>2. ASSUME x.sg <= Len(segs) PROVE segs[x.sg] > 0
        <5>1. x.sg \in 1..Len(segs)
          BY <1>2, <4>1, <4>2
        <5> QED BY <5>1 DEF Segments
      <4> QED BY <4>1, <4>2
    <3>2. CASE ~emptied
      <4>1. x.sg = g.sg /\ x.consumed = g.consumed + l
        BY <1>8, <3>2
      <4> QED BY <1>2, <1>6, <3>2, <4>1
    <3> QED BY <3>1, <3>2
  <2>3. x \in [sg : 1..Len(segs) + 1, consumed : Nat, partial : 0..BlockSize - 1, pieces : Seq(Piece)]
    BY <2>1
  <2> HIDE DEF x
  <2> QED BY <2>2, <2>3 DEF Place
<1>10. OnBy(g, x, segs, l, whole)
  <2>1. x.pieces = Append(g.pieces, [sg |-> g.sg, len |-> l, whole |-> whole])
    BY <1>8 DEF p
  <2>2. \/ x.sg = g.sg /\ x.consumed = g.consumed + l
        \/ x.sg = g.sg + 1 /\ x.consumed = 0 /\ g.consumed + l = segs[g.sg]
    BY <1>6, <1>8
  <2>3. /\ whole => x.partial = 0 /\ g.partial + l = BlockSize
        /\ ~whole => x.partial = g.partial + l
    BY <1>4, <1>8
  <2> HIDE DEF x, whole, l
  <2> QED BY <1>4, <2>1, <2>2, <2>3 DEF OnBy
<1> HIDE DEF x, whole, l
<1> QED BY <1>1, <1>3, <1>4, <1>9, <1>10

OnePiece(g, segs) == IF g.sg > Len(segs) THEN g ELSE I!get_one_block_sg(g, segs)

LEMMA OnePieceIs ==
  ASSUME NEW segs \in Segments, NEW g \in Place(segs)
  PROVE  OnePiece(g, segs) \in Place(segs)
<1>1. g.sg \in Nat /\ Len(segs) \in Nat
  BY DEF Place, Segments
<1> QED BY <1>1, PieceIs DEF OnePiece

\* Where the walk over the pieces ends.
Walked(segs) ==
  LET Walk(g, i) == IF g.sg > Len(segs) THEN g ELSE I!get_one_block_sg(g, segs)
  IN I!FoldLeft(Walk, [sg |-> 1, consumed |-> 0, partial |-> 0, pieces |-> <<>>],
                [i \in 1..I!Bytes(segs) |-> i])

LEMMA WalkedIs ==
  ASSUME NEW segs
  PROVE  I!Pieces(segs) = Walked(segs).pieces
BY DEF I!Pieces, Walked

LEMMA BytesIs ==
  ASSUME NEW segs \in Segments
  PROVE  I!Bytes(segs) \in Nat
<1>1. PICK h \in [0..Len(segs) -> Nat] : h[Len(segs)] = I!Bytes(segs)
  BY BytesSteps
<1>2. Len(segs) \in 0..Len(segs)
  BY DEF Segments
<1> QED BY <1>1, <1>2

LEMMA StartIs ==
  ASSUME NEW segs \in Segments
  PROVE  Start \in Place(segs)
<1>1. <<>> \in Seq(Piece) /\ Len(segs) \in Nat /\ 0 \in 0..BlockSize - 1
  BY RingSizes DEF Segments
<1>2. 1 <= Len(segs) => 0 < segs[1]
  BY <1>1 DEF Segments
<1>3. 1 \in 1..Len(segs) + 1
  BY <1>1
<1> QED BY <1>1, <1>2, <1>3 DEF Start, Place

LEMMA PieceSteps ==
  ASSUME NEW segs \in Segments
  PROVE  \E h \in [0..I!Bytes(segs) -> Place(segs)] :
           /\ h[0] = Start /\ h[I!Bytes(segs)] = Walked(segs)
           /\ \A i \in 1..I!Bytes(segs) : h[i] = OnePiece(h[i - 1], segs)
<1> DEFINE G == [p \in Place(segs) \X (1..I!Bytes(segs)) |-> OnePiece(p[1], segs)]
           F(f) == [t \in SUBSET (1..I!Bytes(segs)) |->
                      IF t = {} THEN Start ELSE OnePiece(f[t \ {I!Max(t)}], segs)]
           it == CHOOSE f : f = F(f)
<1>1. /\ G \in [Place(segs) \X (1..I!Bytes(segs)) -> Place(segs)]
      /\ \A a \in Place(segs), i \in 1..I!Bytes(segs) : G[<<a, i>>] = OnePiece(a, segs)
  BY OnePieceIs
<1>2. I!Bytes(segs) \in Nat /\ Start \in Place(segs)
  BY BytesIs, StartIs
<1>3. Walked(segs) = it[1..I!Bytes(segs)]
  <2>1. DOMAIN [i \in 1..I!Bytes(segs) |-> i] = 1..I!Bytes(segs)
    BY BytesIs
  <2> QED BY <2>1 DEF Walked, OnePiece, Start, I!FoldLeft, I!MapThenFoldSet
<1>4. \E f : f = F(f)
  <2> HIDE DEF G
  <2>1. PICK f \in [SUBSET (1..I!Bytes(segs)) -> Place(segs)] : FoldsUp(f, I!Bytes(segs), Start, G)
    BY <1>1, <1>2, IntervalFold
  <2>2. \A t \in SUBSET (1..I!Bytes(segs)) : t # {} => f[t \ {I!Max(t)}] \in Place(segs) /\ I!Max(t) \in 1..I!Bytes(segs)
    BY <1>2, LastIs
  <2>3. \A t \in SUBSET (1..I!Bytes(segs)) : t # {} =>
          G[<<f[t \ {I!Max(t)}], I!Max(t)>>] = OnePiece(f[t \ {I!Max(t)}], segs)
    BY <2>2, <1>1
  <2>4. F(f) = [s \in SUBSET (1..I!Bytes(segs)) |->
                  IF s = {} THEN Start ELSE G[<<f[s \ {I!Max(s)}], I!Max(s)>>]]
    BY <2>3
  <2> QED BY <2>1, <2>4 DEF FoldsUp
<1>5. it = F(it)
  <2> HIDE DEF F
  <2> QED BY <1>4
<1>6. \A t \in SUBSET (1..I!Bytes(segs)) :
        it[t] = IF t = {} THEN Start ELSE OnePiece(it[t \ {I!Max(t)}], segs)
  <2> HIDE DEF it
  <2> QED BY <1>5
<1>7. it[{}] = Start
  <2> HIDE DEF it
  <2> QED BY <1>6
<1>8. ASSUME NEW i \in 1..I!Bytes(segs), it[1..(i - 1)] \in Place(segs)
      PROVE  it[1..i] = G[<<it[1..(i - 1)], i>>]
  <2> HIDE DEF it, G
  <2>1. it[1..i] = OnePiece(it[1..(i - 1)], segs)
    BY <1>2, <1>6, LastIs
  <2> QED BY <1>1, <1>8, <2>1
<1>9. PICK h : Values(h, I!Bytes(segs), Place(segs), Start, G) /\ h[I!Bytes(segs)] = it[1..I!Bytes(segs)]
  <2> HIDE DEF it, G
  <2>1. Folds(it, I!Bytes(segs), Place(segs), Start, G)
    BY <1>1, <1>2, <1>7, <1>8 DEF Folds
  <2> QED BY <2>1, FoldSteps
<1>10. \A i \in 1..I!Bytes(segs) : h[i] = OnePiece(h[i - 1], segs)
  <2> HIDE DEF it, G
  <2> SUFFICES ASSUME NEW i \in 1..I!Bytes(segs) PROVE h[i] = OnePiece(h[i - 1], segs)
    OBVIOUS
  <2>1. i - 1 \in 0..I!Bytes(segs)
    BY <1>2
  <2> QED BY <1>1, <1>9, <2>1 DEF Values
<1> HIDE DEF it, G
<1> QED BY <1>3, <1>9, <1>10 DEF Values

Wholes(ps) == Cardinality({i \in DOMAIN ps : ps[i].whole})

LEMMA RingSets ==
  ASSUME NEW T
  PROVE  I!Cardinality(T) = Cardinality(T)
BY DEF I!Cardinality, Cardinality

LEMMA NoPiece == Wholes(<<>>) = 0
<1>1. {i \in DOMAIN <<>> : <<>>[i].whole} = {}
  OBVIOUS
<1> QED BY <1>1, FS_EmptySet DEF Wholes

LEMMA OneMorePiece ==
  ASSUME NEW ps \in Seq(Piece), NEW p \in Piece
  PROVE  /\ Wholes(ps) \in Nat
         /\ p.whole => Wholes(Append(ps, p)) = Wholes(ps) + 1
         /\ ~p.whole => Wholes(Append(ps, p)) = Wholes(ps)
<1> DEFINE F == {i \in DOMAIN ps : ps[i].whole}
           G == {i \in DOMAIN Append(ps, p) : Append(ps, p)[i].whole}
           n == Len(ps)
<1>1. /\ n \in Nat /\ DOMAIN ps = 1..n /\ DOMAIN Append(ps, p) = 1..(n + 1)
      /\ \A i \in 1..n : Append(ps, p)[i] = ps[i]
      /\ Append(ps, p)[n + 1] = p
  OBVIOUS
<1>2. F \subseteq 1..n /\ IsFiniteSet(1..n)
  BY <1>1, FS_Interval
<1>3. IsFiniteSet(F) /\ Cardinality(F) \in Nat
  <2> HIDE DEF F
  <2> QED BY <1>2, FS_Subset, FS_CardinalityType
<1>4. n + 1 \notin F
  <2> HIDE DEF F
  <2> QED BY <1>1, <1>2
<1>5. ASSUME p.whole PROVE G = F \cup {n + 1}
  <2>1. n + 1 \in 1..(n + 1)
    BY <1>1
  <2>2. \A i \in 1..(n + 1) : i \in 1..n \/ i = n + 1
    BY <1>1
  <2> QED BY <1>1, <1>5, <2>1, <2>2
<1>6. ASSUME ~p.whole PROVE G = F
  <2>1. \A i \in 1..(n + 1) : i \in 1..n \/ i = n + 1
    BY <1>1
  <2>2. \A i \in 1..n : i \in 1..(n + 1)
    BY <1>1
  <2> QED BY <1>1, <1>6, <2>1, <2>2
<1>7. Wholes(ps) = Cardinality(F) /\ Wholes(Append(ps, p)) = Cardinality(G)
  BY DEF Wholes
<1> HIDE DEF F, G, n
<1>8. p.whole => Cardinality(G) = Cardinality(F) + 1
  BY <1>3, <1>4, <1>5, FS_AddElement
<1> QED BY <1>3, <1>6, <1>7, <1>8

\* Sums of the beginnings of segs.
Sums(segs, b) ==
  /\ b \in [0..Len(segs) -> Nat]
  /\ b[0] = 0 /\ b[Len(segs)] = I!Bytes(segs)
  /\ \A i \in 1..Len(segs) : b[i] = b[i - 1] + segs[i]

LEMMA SumsGrow ==
  ASSUME NEW segs \in Segments, NEW b, Sums(segs, b)
  PROVE  \A k \in 0..Len(segs) : b[k] <= I!Bytes(segs)
<1> DEFINE n == Len(segs)
           T == {k \in 0..n : ~(b[n - k] <= b[n])}
<1>1. n \in Nat /\ b \in [0..n -> Nat] /\ \A i \in 1..n : segs[i] \in Nat
  BY DEF Segments, Sums
<1>2. 0 \notin T
  BY <1>1
<1>3. ASSUME NEW k \in 1..n, k - 1 \notin T PROVE k \notin T
  <2>1. /\ k - 1 \in 0..n /\ n - k \in 0..n /\ n - (k - 1) \in 1..n /\ n - (k - 1) \in 0..n
        /\ n - (k - 1) - 1 = n - k
    BY <1>1
  <2>2. b[n - (k - 1)] <= b[n]
    BY <1>3, <2>1
  <2>3. b[n - (k - 1)] = b[n - k] + segs[n - (k - 1)]
    <3> HIDE DEF n
    <3>1. \A i \in 1..n : b[i] = b[i - 1] + segs[i]
      BY DEF Sums, n
    <3> QED BY <2>1, <3>1
  <2>4. b[n - k] \in Nat /\ b[n] \in Nat /\ segs[n - (k - 1)] \in Nat /\ b[n - (k - 1)] \in Nat
    <3>1. n \in 0..n
      BY <1>1
    <3> HIDE DEF n
    <3> QED BY <1>1, <2>1, <3>1
  <2>5. b[n - k] <= b[n]
    <3> HIDE DEF n
    <3> QED BY <2>2, <2>3, <2>4
  <2> QED BY <2>5
<1>4. T = {}
  <2>1. T \subseteq 0..n
    OBVIOUS
  <2> HIDE DEF T, n
  <2> QED BY <1>1, <1>2, <1>3, <2>1, NoneBad
<1>5. ASSUME NEW k \in 0..n PROVE b[k] <= b[n]
  <2>1. n - k \in 0..n /\ n - (n - k) = k
    BY <1>1
  <2>2. b[n - (n - k)] <= b[n]
    BY <1>4, <2>1
  <2> QED BY <2>1, <2>2
<1> QED BY <1>5 DEF Sums

\* The bytes up to where g has come.
Taken(g, b) == b[g.sg - 1] + g.consumed

LEMMA TakenIs ==
  ASSUME NEW segs \in Segments, NEW b, Sums(segs, b), NEW g \in Place(segs)
  PROVE  Taken(g, b) \in Nat /\ Taken(g, b) <= I!Bytes(segs)
<1>1. /\ g.sg \in 1..Len(segs) + 1 /\ g.consumed \in Nat /\ Len(segs) \in Nat
      /\ b \in [0..Len(segs) -> Nat]
  BY DEF Place, Segments, Sums
<1>2. g.sg - 1 \in 0..Len(segs)
  BY <1>1
<1>3. b[g.sg - 1] \in Nat /\ b[g.sg - 1] <= I!Bytes(segs) /\ I!Bytes(segs) \in Nat
  BY <1>1, <1>2, SumsGrow, BytesIs
<1>4. CASE g.sg <= Len(segs)
  <2>1. g.sg \in 1..Len(segs) /\ g.sg \in 0..Len(segs) /\ g.consumed < segs[g.sg]
    BY <1>1, <1>4 DEF Place
  <2>2. b[g.sg] = b[g.sg - 1] + segs[g.sg] /\ b[g.sg] <= I!Bytes(segs) /\ segs[g.sg] \in Nat
    <3>1. b[g.sg] = b[g.sg - 1] + segs[g.sg]
      BY <2>1 DEF Sums
    <3>2. b[g.sg] <= I!Bytes(segs)
      BY <2>1, SumsGrow
    <3>3. segs[g.sg] \in Nat
      BY <2>1 DEF Segments
    <3> QED BY <3>1, <3>2, <3>3
  <2> QED BY SMTT(30), <1>1, <1>3, <2>1, <2>2 DEF Taken
<1>5. CASE ~(g.sg <= Len(segs))
  <2>1. g.consumed = 0
    BY <1>1, <1>5 DEF Place
  <2> QED BY <1>3, <2>1 DEF Taken
<1> QED BY <1>4, <1>5

LEMMA TakenGrows ==
  ASSUME NEW segs \in Segments, NEW b, Sums(segs, b), NEW g \in Place(segs), g.sg <= Len(segs),
         NEW x \in Place(segs), NEW l \in Nat, NEW whole \in BOOLEAN, OnBy(g, x, segs, l, whole)
  PROVE  Taken(x, b) = Taken(g, b) + l
<1>1. /\ g.sg \in 1..Len(segs) + 1 /\ g.consumed \in Nat /\ Len(segs) \in Nat
      /\ b \in [0..Len(segs) -> Nat] /\ x.consumed \in Nat
  BY DEF Place, Segments, Sums
<1>2. g.sg \in 1..Len(segs) /\ g.sg - 1 \in 0..Len(segs)
  BY <1>1
<1>3. b[g.sg] = b[g.sg - 1] + segs[g.sg] /\ b[g.sg - 1] \in Nat /\ segs[g.sg] \in Nat
  BY <1>1, <1>2 DEF Sums, Segments
<1>4. CASE x.sg = g.sg /\ x.consumed = g.consumed + l
  BY <1>1, <1>3, <1>4 DEF Taken
<1>5. CASE x.sg = g.sg + 1 /\ x.consumed = 0 /\ g.consumed + l = segs[g.sg]
  <2>1. x.sg - 1 = g.sg
    BY <1>1, <1>5
  <2> QED BY <1>1, <1>3, <1>5, <2>1 DEF Taken
<1> QED BY <1>4, <1>5 DEF OnBy

\* Every whole piece ends a block of its own.
Blocks(g, b) == BlockSize * Wholes(g.pieces) + g.partial = Taken(g, b)

LEMMA BlocksStay ==
  ASSUME NEW segs \in Segments, NEW b, Sums(segs, b), NEW g \in Place(segs), Blocks(g, b)
  PROVE  Blocks(OnePiece(g, segs), b)
<1>1. g.sg \in Nat /\ Len(segs) \in Nat /\ g.pieces \in Seq(Piece) /\ g.partial \in Nat
      /\ BlockSize \in Nat
  BY RingSizes DEF Place, Segments
<1>2. CASE g.sg > Len(segs)
  BY <1>2 DEF OnePiece
<1>3. CASE g.sg <= Len(segs)
  <2> DEFINE x == I!get_one_block_sg(g, segs)
  <2>1. OnePiece(g, segs) = x
    BY <1>1, <1>3 DEF OnePiece
  <2>2. PICK l \in Nat, whole \in BOOLEAN : x \in Place(segs) /\ OnBy(g, x, segs, l, whole)
    BY <1>3, PieceIs
  <2> HIDE DEF x
  <2>3. Taken(x, b) = Taken(g, b) + l /\ Taken(g, b) \in Nat
    BY <1>3, <2>2, TakenGrows, TakenIs
  <2> DEFINE p == [sg |-> g.sg, len |-> l, whole |-> whole]
             w == Wholes(g.pieces)
  <2>4. p \in Piece /\ p.whole = whole
    BY <1>1 DEF Piece
  <2>5. x.pieces = Append(g.pieces, p)
    BY <2>2 DEF OnBy
  <2> HIDE DEF p
  <2>6. /\ w \in Nat
        /\ whole => Wholes(x.pieces) = w + 1
        /\ ~whole => Wholes(x.pieces) = w
    BY <1>1, <2>4, <2>5, OneMorePiece
  <2> HIDE DEF w
  <2>7. BlockSize * w \in Nat /\ BlockSize * (w + 1) = BlockSize * w + BlockSize
    BY <1>1, <2>6
  <2>8. /\ whole => x.partial = 0 /\ g.partial + l = BlockSize
        /\ ~whole => x.partial = g.partial + l
    BY <2>2 DEF OnBy
  <2>9. BlockSize * w + g.partial = Taken(g, b)
    BY DEF Blocks, w
  <2>10. CASE whole
    <3> DEFINE t == BlockSize * w
    <3>1. BlockSize * Wholes(x.pieces) = t + BlockSize /\ x.partial = 0
      BY <2>6, <2>7, <2>8, <2>10
    <3>2. t \in Nat /\ t + g.partial = Taken(g, b)
      BY <2>7, <2>9
    <3> HIDE DEF t
    <3>3. (t + BlockSize) + 0 = Taken(x, b)
      <4> DEFINE u == Taken(x, b)
                 v == Taken(g, b)
      <4>1. u = v + l /\ v \in Nat /\ t + g.partial = v
        BY <2>3, <3>2
      <4>2. g.partial + l = BlockSize
        BY <2>8, <2>10
      <4> HIDE DEF u, v
      <4>3. t + BlockSize = u
        BY <1>1, <3>2, <4>1, <4>2
      <4> QED BY <1>1, <3>2, <4>3 DEF u
    <3> QED BY <2>1, <3>1, <3>3 DEF Blocks
  <2>11. CASE ~whole
    BY <1>1, <2>1, <2>3, <2>6, <2>7, <2>8, <2>9, <2>11 DEF Blocks
  <2> QED BY <2>10, <2>11
<1> QED BY <1>1, <1>2, <1>3

\* There are no more whole pieces than blocks.
LEMMA WholesFit ==
  ASSUME NEW segs \in Segments
  PROVE  /\ I!Pieces(segs) \in Seq(Piece)
         /\ Wholes(I!Pieces(segs)) \in Nat
         /\ I!Bytes(segs) \div BlockSize \in Nat
         /\ Wholes(I!Pieces(segs)) <= I!Bytes(segs) \div BlockSize
<1> DEFINE n == I!Bytes(segs)
<1>1. n \in Nat
  BY BytesIs
<1>2. PICK b : Sums(segs, b)
  BY BytesSteps DEF Sums
<1>3. PICK h \in [0..n -> Place(segs)] :
        /\ h[0] = Start /\ h[n] = Walked(segs)
        /\ \A i \in 1..n : h[i] = OnePiece(h[i - 1], segs)
  BY PieceSteps
<1> HIDE DEF n
<1> DEFINE T == {i \in 0..n : ~Blocks(h[i], b)}
<1>4. 0 \notin T
  <2>1. Start.pieces = <<>> /\ Start.partial = 0 /\ Start.consumed = 0 /\ Start.sg - 1 = 0
    BY DEF Start
  <2>2. Blocks(Start, b)
    <3>1. BlockSize * 0 + 0 = 0
      BY RingSizes
    <3>2. Taken(Start, b) = 0
      BY <1>2, <2>1 DEF Taken, Sums
    <3> QED BY <2>1, <3>1, <3>2, NoPiece DEF Blocks
  <2> QED BY <1>3, <2>2
<1>5. ASSUME NEW i \in 1..n, i - 1 \notin T PROVE i \notin T
  <2>1. i - 1 \in 0..n
    BY <1>1
  <2>2. Blocks(h[i - 1], b) /\ h[i - 1] \in Place(segs)
    BY <1>5, <2>1
  <2>3. Blocks(h[i], b)
    BY <1>2, <1>3, <2>2, BlocksStay
  <2> QED BY <2>3
<1>6. T = {}
  <2>1. T \subseteq 0..n
    OBVIOUS
  <2> HIDE DEF T
  <2> QED BY <1>1, <1>4, <1>5, <2>1, NoneBad
<1> DEFINE g == Walked(segs)
           w == Wholes(g.pieces)
<1>7. g \in Place(segs) /\ Blocks(g, b)
  <2>1. n \in 0..n
    BY <1>1
  <2> QED BY <1>3, <1>6, <2>1
<1>8. g.pieces \in Seq(Piece) /\ g.partial \in Nat /\ BlockSize \in Nat /\ BlockSize > 0
  BY <1>7, RingSizes DEF Place
<1>9. w \in Nat
  <2>1. \E p : p \in Piece
    <3>1. [sg |-> 0, len |-> 0, whole |-> TRUE] \in Piece
      BY DEF Piece
    <3> QED BY <3>1
  <2> QED BY <1>8, <2>1, OneMorePiece
<1>10. Taken(g, b) \in Nat /\ Taken(g, b) <= n
  BY <1>2, <1>7, TakenIs DEF n
<1>11. BlockSize * w <= n
  <2>1. BlockSize * w + g.partial = Taken(g, b)
    BY <1>7 DEF Blocks
  <2> HIDE DEF w, g
  <2>2. BlockSize * w \in Nat
    BY <1>8, <1>9
  <2> QED BY <1>1, <1>8, <1>10, <2>1, <2>2
<1>12. n \div BlockSize \in Nat /\ w <= n \div BlockSize
  <2> HIDE DEF w, g
  <2> DEFINE q == n \div BlockSize
             r == n % BlockSize
  <2>1. q \in Nat /\ r \in 0..BlockSize - 1 /\ n = BlockSize * q + r
    BY <1>1, <1>8
  <2> HIDE DEF q, r
  <2>2. ASSUME w > q PROVE FALSE
    <3>1. w >= q + 1
      BY <1>9, <2>1, <2>2
    <3>2. BlockSize * w >= BlockSize * (q + 1)
      <4>1. w = (q + 1) + (w - (q + 1)) /\ w - (q + 1) \in Nat
        BY <1>9, <2>1, <3>1
      <4> DEFINE d == w - (q + 1)
      <4> HIDE DEF d
      <4>2. d \in Nat /\ w = (q + 1) + d
        BY <4>1 DEF d
      <4>3. BlockSize * ((q + 1) + d) = BlockSize * (q + 1) + BlockSize * d
        BY <1>8, <2>1, <4>2
      <4>4. BlockSize * d \in Nat /\ BlockSize * (q + 1) \in Nat
        BY <1>8, <2>1, <4>2
      <4> QED BY <4>2, <4>3, <4>4
    <3>3. BlockSize * (q + 1) = BlockSize * q + BlockSize
      BY <1>8, <2>1
    <3>4. BlockSize * q \in Nat /\ BlockSize * w \in Nat
      BY <1>8, <1>9, <2>1
    <3> QED BY <1>1, <1>8, <1>11, <2>1, <3>2, <3>3, <3>4
  <2>3. q \in Nat /\ w <= q
    BY <1>9, <2>1, <2>2
  <2> QED BY <2>3 DEF q
<1> HIDE DEF w
<1>13. I!Pieces(segs) = g.pieces
  BY WalkedIs
<1> QED BY <1>8, <1>9, <1>12, <1>13 DEF w, n

--------------------------------------------------------------------------
(* The lists that the commands in flight hold.                             *)

SpSet == [has : [I!Things -> Int], flags : SUBSET I!Flags, sg : BOOLEAN, live : BOOLEAN]

\* I!ListsAreCounted calls it out.
Out(f) == I!FoldFunction(LAMBDA sp, n : n + sp.has["gbl"], 0, f)

\* The slot that the fold takes from a set of slots.
Taking(s) == CHOOSE x \in s : TRUE

\* Sets of slots, one slot at a time.
LEMMA SlotInduction ==
  ASSUME NEW Q, {} \in Q,
         \A s \in SUBSET SrbSlots : s # {} /\ s \ {Taking(s)} \in Q => s \in Q
  PROVE  SUBSET SrbSlots \subseteq Q
<1> DEFINE N == Cardinality(SrbSlots)
           T == {n \in 0..N : ~ \A s \in SUBSET SrbSlots : Cardinality(s) = n => s \in Q}
<1>1. N \in Nat /\ \A s \in SUBSET SrbSlots : IsFiniteSet(s) /\ Cardinality(s) \in Nat /\ Cardinality(s) <= N
  BY RingSizes, FS_Subset, FS_CardinalityType
<1>2. 0 \notin T
  <2>1. \A s \in SUBSET SrbSlots : Cardinality(s) = 0 => s = {}
    BY <1>1, FS_EmptySet
  <2> QED BY <2>1
<1>3. ASSUME NEW n \in 1..N, n - 1 \notin T PROVE n \notin T
  <2>1. n - 1 \in 0..N
    BY <1>1
  <2>2. \A s \in SUBSET SrbSlots : Cardinality(s) = n - 1 => s \in Q
    BY <1>3, <2>1
  <2> SUFFICES ASSUME NEW s \in SUBSET SrbSlots, Cardinality(s) = n PROVE s \in Q
    OBVIOUS
  <2>3. s # {}
    <3>1. Cardinality({}) = 0 /\ n # 0
      BY <1>1, FS_EmptySet
    <3> QED BY <3>1
  <2>4. Taking(s) \in s
    BY <2>3 DEF Taking
  <2>5. Cardinality(s \ {Taking(s)}) = n - 1
    BY <1>1, <2>4, FS_RemoveElement
  <2>6. s \ {Taking(s)} \in SUBSET SrbSlots
    OBVIOUS
  <2> QED BY <2>2, <2>3, <2>5, <2>6
<1>4. T = {}
  <2>1. T \subseteq 0..N
    OBVIOUS
  <2> HIDE DEF T, N
  <2> QED BY <1>1, <1>2, <1>3, <2>1, NoneBad
<1> SUFFICES ASSUME NEW s \in SUBSET SrbSlots PROVE s \in Q
  OBVIOUS
<1>5. Cardinality(s) \in 0..N
  BY <1>1
<1> HIDE DEF N
<1> QED BY <1>4, <1>5

\* it sums what the slots of a set hold in f.
SlotSums(it, f) ==
  \A s \in SUBSET SrbSlots :
    /\ it[s] \in Int
    /\ it[s] = IF s = {} THEN 0 ELSE it[s \ {Taking(s)}] + f[Taking(s)].has["gbl"]

LEMMA OutSums ==
  ASSUME NEW f \in [SrbSlots -> SpSet]
  PROVE  \E it : SlotSums(it, f) /\ Out(f) = it[SrbSlots]
<1> DEFINE C == [s \in SUBSET SrbSlots |-> Taking(s)]
           G == [p \in Int \X SrbSlots |-> p[1] + f[p[2]].has["gbl"]]
           F(g) == [s \in SUBSET SrbSlots |->
                      IF s = {} THEN 0 ELSE g[s \ {Taking(s)}] + f[Taking(s)].has["gbl"]]
           it == CHOOSE g : g = F(g)
<1>0. \A k \in SrbSlots : f[k].has["gbl"] \in Int
  BY DEF SpSet, I!Things
<1>1. /\ G \in [Int \X SrbSlots -> Int]
      /\ \A a \in Int, k \in SrbSlots : G[<<a, k>>] = a + f[k].has["gbl"]
  BY <1>0
<1>2. /\ \A s \in SUBSET SrbSlots : s # {} => C[s] \in s
      /\ \A s \in SUBSET SrbSlots : s # {} => Taking(s) \in s
  BY DEF Taking
<1>3. Out(f) = it[SrbSlots]
  <2>1. DOMAIN f = SrbSlots
    OBVIOUS
  <2> QED BY <2>1 DEF Out, I!FoldFunction, I!FoldFunctionOnSet, I!MapThenFoldSet, Taking
<1>4. PICK h \in [SUBSET SrbSlots -> Int] : h = F(h)
  <2>1. PICK h \in [SUBSET SrbSlots -> Int] : FoldsBy(h, SrbSlots, 0, C, G)
    <3>1. 0 \in Int /\ IsFiniteSet(SrbSlots)
      BY RingSizes
    <3> HIDE DEF C, G
    <3> QED BY <1>1, <1>2, <3>1, FoldExists
  <2>2. h = [s \in SUBSET SrbSlots |-> IF s = {} THEN 0 ELSE G[<<h[s \ {C[s]}], C[s]>>]]
    BY <2>1 DEF FoldsBy
  <2>3. \A s \in SUBSET SrbSlots : s # {} =>
          G[<<h[s \ {C[s]}], C[s]>>] = h[s \ {Taking(s)}] + f[Taking(s)].has["gbl"]
    <3> SUFFICES ASSUME NEW s \in SUBSET SrbSlots, s # {}
                 PROVE G[<<h[s \ {C[s]}], C[s]>>] = h[s \ {Taking(s)}] + f[Taking(s)].has["gbl"]
      OBVIOUS
    <3>1. C[s] = Taking(s) /\ Taking(s) \in SrbSlots
      BY <1>2
    <3>2. h[s \ {Taking(s)}] \in Int
      OBVIOUS
    <3> HIDE DEF C, G
    <3> QED BY <1>1, <3>1, <3>2
  <2>4. h = F(h)
    <3> HIDE DEF C, G
    <3> QED BY <2>2, <2>3
  <2> HIDE DEF F
  <2> QED BY <2>4
<1>5. it = F(it)
  <2> HIDE DEF F
  <2> QED BY <1>4
<1>6. \A s \in SUBSET SrbSlots :
        it[s] = IF s = {} THEN 0 ELSE it[s \ {Taking(s)}] + f[Taking(s)].has["gbl"]
  <2> HIDE DEF it
  <2> QED BY <1>5
<1> HIDE DEF it
<1> DEFINE Q == {s \in SUBSET SrbSlots : it[s] \in Int}
<1>7. {} \in Q
  <2>1. it[{}] = 0
    BY <1>6
  <2> QED BY <2>1
<1>8. \A s \in SUBSET SrbSlots : s # {} /\ s \ {Taking(s)} \in Q => s \in Q
  <2> SUFFICES ASSUME NEW s \in SUBSET SrbSlots, s # {}, s \ {Taking(s)} \in Q PROVE s \in Q
    OBVIOUS
  <2>1. Taking(s) \in SrbSlots
    BY <1>2
  <2>2. f[Taking(s)].has["gbl"] \in Int
    BY <1>0, <2>1
  <2>3. it[s \ {Taking(s)}] \in Int
    OBVIOUS
  <2>4. it[s] = it[s \ {Taking(s)}] + f[Taking(s)].has["gbl"]
    BY <1>6
  <2> QED BY <2>2, <2>3, <2>4
<1>9. SUBSET SrbSlots \subseteq Q
  <2> HIDE DEF Q
  <2> QED BY <1>7, <1>8, SlotInduction
<1>10. SlotSums(it, f)
  BY <1>6, <1>9 DEF SlotSums
<1> QED BY <1>3, <1>10

LEMMA OutIsInt ==
  ASSUME NEW f \in [SrbSlots -> SpSet]
  PROVE  Out(f) \in Int
BY OutSums DEF SlotSums

LEMMA OutIsZero ==
  ASSUME NEW f \in [SrbSlots -> SpSet], \A k \in SrbSlots : f[k].has["gbl"] = 0
  PROVE  Out(f) = 0
<1>1. PICK it : SlotSums(it, f) /\ Out(f) = it[SrbSlots]
  BY OutSums
<1> DEFINE Q == {s \in SUBSET SrbSlots : it[s] = 0}
<1>2. {} \in Q
  BY <1>1 DEF SlotSums
<1>3. \A s \in SUBSET SrbSlots : s # {} /\ s \ {Taking(s)} \in Q => s \in Q
  <2> SUFFICES ASSUME NEW s \in SUBSET SrbSlots, s # {}, s \ {Taking(s)} \in Q PROVE s \in Q
    OBVIOUS
  <2>1. Taking(s) \in SrbSlots
    BY DEF Taking
  <2>2. it[s \ {Taking(s)}] = 0
    OBVIOUS
  <2>3. it[s] = it[s \ {Taking(s)}] + f[Taking(s)].has["gbl"]
    BY <1>1 DEF SlotSums
  <2> QED BY <2>1, <2>2, <2>3
<1>4. SUBSET SrbSlots \subseteq Q
  <2> HIDE DEF Q
  <2> QED BY <1>2, <1>3, SlotInduction
<1> QED BY <1>1, <1>4

\* What a slot takes or returns is what the sum changes by.
LEMMA OutChanges ==
  ASSUME NEW f \in [SrbSlots -> SpSet], NEW k \in SrbSlots, NEW sp \in SpSet
  PROVE  Out([f EXCEPT ![k] = sp]) = Out(f) + sp.has["gbl"] - f[k].has["gbl"]
<1> DEFINE g == [f EXCEPT ![k] = sp]
           d == sp.has["gbl"] - f[k].has["gbl"]
<1>1. PICK it : SlotSums(it, f) /\ Out(f) = it[SrbSlots]
  BY OutSums
<1>2. /\ g \in [SrbSlots -> SpSet] /\ g[k] = sp
      /\ \A j \in SrbSlots : j # k => g[j] = f[j]
  OBVIOUS
<1>3. \A j \in SrbSlots : f[j].has["gbl"] \in Int /\ sp.has["gbl"] \in Int
  BY DEF SpSet, I!Things
<1>4. d \in Int /\ sp.has["gbl"] = f[k].has["gbl"] + d
  BY <1>3
<1> HIDE DEF g, d
<1>5. PICK ig : SlotSums(ig, g) /\ Out(g) = ig[SrbSlots]
  BY <1>2, OutSums
<1> DEFINE Q == {s \in SUBSET SrbSlots : ig[s] = it[s] + IF k \in s THEN d ELSE 0}
<1>6. {} \in Q
  <2>1. it[{}] = 0 /\ ig[{}] = 0
    BY <1>1, <1>5 DEF SlotSums
  <2> QED BY <2>1
<1>7. \A s \in SUBSET SrbSlots : s # {} /\ s \ {Taking(s)} \in Q => s \in Q
  <2> SUFFICES ASSUME NEW s \in SUBSET SrbSlots, s # {}, s \ {Taking(s)} \in Q PROVE s \in Q
    OBVIOUS
  <2> DEFINE t == Taking(s)
             r == s \ {t}
  <2>1. t \in s /\ t \in SrbSlots
    BY DEF Taking
  <2>2. ig[r] = it[r] + IF k \in r THEN d ELSE 0
    OBVIOUS
  <2>3. /\ it[s] = it[r] + f[t].has["gbl"] /\ ig[s] = ig[r] + g[t].has["gbl"]
        /\ it[r] \in Int /\ ig[r] \in Int /\ it[s] \in Int /\ ig[s] \in Int
    BY <1>1, <1>5 DEF SlotSums
  <2>4. CASE t = k
    <3>1. k \notin r /\ k \in s
      BY <2>1, <2>4
    <3>2. g[t].has["gbl"] = f[t].has["gbl"] + d
      BY <1>2, <1>4, <2>4
    <3>3. f[t].has["gbl"] \in Int
      BY <1>3, <2>1
    <3> HIDE DEF r, t
    <3>4. ig[s] = it[s] + d
      BY <1>4, <2>2, <2>3, <3>1, <3>2, <3>3
    <3> QED BY <3>1, <3>4
  <2>5. CASE t # k
    <3>1. k \in r <=> k \in s
      BY <2>5
    <3>2. g[t] = f[t] /\ f[t].has["gbl"] \in Int
      BY <1>2, <1>3, <2>1, <2>5
    <3> HIDE DEF r, t
    <3>3. ig[s] = it[s] + IF k \in s THEN d ELSE 0
      BY <1>4, <2>2, <2>3, <3>1, <3>2
    <3> QED BY <3>3
  <2> QED BY <2>4, <2>5
<1>8. SUBSET SrbSlots \subseteq Q
  <2> HIDE DEF Q
  <2> QED BY <1>6, <1>7, SlotInduction
<1>9. ig[SrbSlots] = it[SrbSlots] + d
  BY <1>8
<1> QED
  <2>1. Out(g) = Out(f) + d /\ Out(f) \in Int
    BY <1>1, <1>5, <1>9, OutIsInt
  <2>2. f[k].has["gbl"] \in Int /\ sp.has["gbl"] \in Int
    BY <1>3
  <2>3. Out(g) = Out(f) + sp.has["gbl"] - f[k].has["gbl"]
    BY <2>1, <2>2 DEF d
  <2> QED BY <2>3 DEF g

--------------------------------------------------------------------------
(* Commands as they are started.                                           *)

LEMMA CommandIs ==
  ASSUME NEW c \in Commands
  PROVE  /\ c.op \in I!ProtOps /\ c.cdb \in {16, 18, 32}
         /\ c.segs \in Segments /\ Len(c.segs) \in Nat /\ Len(c.segs) <= 1024 /\ c.prot \in Nat
         /\ c.op # "normal" => c.segs # <<>> /\ c.cdb # 18
<1>1. /\ c.op \in I!ProtOps /\ c.cdb \in {16, 18, 32}
      /\ c.segs \in Segments /\ Len(c.segs) <= 1024 /\ c.prot \in Nat
      /\ c.op # "normal" => c.segs # <<>> /\ c.cdb # 18
  BY MCRoutinesAssumption DEF I!IocbBuildAssumption, Segments
<1>2. Len(c.segs) \in Nat
  BY <1>1 DEF Segments
<1> QED BY <1>1, <1>2

LEMMA JobIs ==
  ASSUME NEW j \in Jobs
  PROVE  j.req \in 1..128 /\ j.rsp \in 1..128
BY MCRoutinesAssumption DEF I!IocbBuildAssumption

LEMMA Protections == I!ProtOps = {"normal", "insert", "strip", "pass"}
BY DEF I!ProtOps

\* A command that holds none of the adapter's lists.
NoLists(sp) == sp \in SpSet /\ sp.has["gbl"] = 0

LEMMA GainIs ==
  ASSUME NEW sp \in SpSet, NEW t \in I!Things, NEW n \in Int
  PROVE  /\ I!Gain(sp, t, n) \in SpSet
         /\ I!Gain(sp, t, n).flags = sp.flags
         /\ I!Gain(sp, t, n).live = sp.live
         /\ t # "gbl" => I!Gain(sp, t, n).has["gbl"] = sp.has["gbl"]
         /\ t = "gbl" => I!Gain(sp, t, n).has["gbl"] = sp.has["gbl"] + n
<1>1. "gbl" \in I!Things
  BY DEF I!Things
<1>2. sp.has[t] + n \in Int
  BY DEF SpSet
<1>3. I!Gain(sp, t, n) = [sp EXCEPT !.has = [sp.has EXCEPT ![t] = sp.has[t] + n]]
  BY DEF I!Gain, SpSet
<1> QED BY <1>1, <1>2, <1>3 DEF SpSet

LEMMA GainLists ==
  ASSUME NEW sp, NoLists(sp), NEW t \in I!Things, t # "gbl", NEW n \in Int
  PROVE  NoLists(I!Gain(sp, t, n))
BY GainIs DEF NoLists

LEMMA FlagIs ==
  ASSUME NEW sp \in SpSet, NEW f \in I!Flags
  PROVE  /\ I!Flag(sp, f) \in SpSet
         /\ I!Flag(sp, f).flags = sp.flags \cup {f}
         /\ I!Flag(sp, f).live = sp.live
         /\ I!Flag(sp, f).has = sp.has
BY DEF I!Flag, SpSet

LEMMA FlagLists ==
  ASSUME NEW sp, NoLists(sp), NEW f \in I!Flags
  PROVE  NoLists(I!Flag(sp, f))
BY FlagIs DEF NoLists

LEMMA NoSpIs == NoLists(I!NoSp) /\ I!NoSp.live = FALSE /\ I!NoSp.flags = {}
<1>1. "gbl" \in I!Things
  BY DEF I!Things
<1>2. I!Nothing \in [I!Things -> Int] /\ I!Nothing["gbl"] = 0
  BY <1>1 DEF I!Nothing
<1> QED BY <1>2 DEF NoLists, SpSet, I!NoSp

LEMMA NewSpIs ==
  ASSUME NEW n \in Nat
  PROVE  NoLists(I!Sp(n)) /\ I!Sp(n).live = FALSE /\ I!Sp(n).flags = {}
<1>1. (n > 0) \in BOOLEAN
  OBVIOUS
<1> QED BY <1>1, NoSpIs DEF NoLists, SpSet, I!Sp

LEMMA MapLists ==
  ASSUME NEW sp, NoLists(sp)
  PROVE  NoLists(I!Map(sp)) /\ NoLists(I!Unmap(sp))
<1>1. "data" \in I!Things /\ "data" # "gbl" /\ 1 \in Int /\ -1 \in Int
  BY DEF I!Things
<1>2. NoLists(I!Gain(sp, "data", 1)) /\ NoLists(I!Gain(sp, "data", -1))
  BY <1>1, GainLists
<1> QED BY <1>2 DEF I!Map, I!Unmap

LEMMA EnterLists ==
  ASSUME NEW sp, NoLists(sp), NEW n \in Int
  PROVE  NoLists(I!Enter(sp, n))
<1>1. "slot" \in I!Things /\ "slot" # "gbl" /\ "credit" \in I!Things /\ "credit" # "gbl" /\ 1 \in Int
  BY DEF I!Things
<1>2. NoLists(I!Gain(sp, "slot", 1))
  BY <1>1, GainLists
<1> QED BY <1>1, <1>2, GainLists DEF I!Enter

\* Setting what a command has of one thing.
LEMMA SetLists ==
  ASSUME NEW sp, NoLists(sp), NEW t \in I!Things, t # "gbl", NEW n \in Int
  PROVE  NoLists([sp EXCEPT !.has[t] = n])
<1>1. "gbl" \in I!Things
  BY DEF I!Things
<1>2. [sp EXCEPT !.has[t] = n] = [sp EXCEPT !.has = [sp.has EXCEPT ![t] = n]]
  BY DEF NoLists, SpSet
<1> QED BY <1>1, <1>2 DEF NoLists, SpSet

--------------------------------------------------------------------------
(* The ways a start can end.                                               *)

PoolSet == [list : Int, avail : Int, inuse : Int]
WaySet == [sp : SpSet, pool : PoolSet, ok : BOOLEAN, bug : BOOLEAN, cdb : BOOLEAN]

\* A way in which the adapter's lists play no part.
Listless(w, p) == w \in WaySet /\ NoLists(w.sp) /\ w.pool = p
Fine(w) == w.bug = FALSE /\ w.cdb = TRUE

\* What a way leaves.
Leaves(w, sp, p, ok) ==
  w \in WaySet /\ w.sp = sp /\ w.pool = p /\ w.ok = ok /\ w.bug = FALSE /\ w.cdb = TRUE
Live(sp) == [sp EXCEPT !.live = TRUE]

LEMMA LiveIs ==
  ASSUME NEW sp \in SpSet
  PROVE  Live(sp) \in SpSet /\ Live(sp).has = sp.has /\ Live(sp).flags = sp.flags /\ Live(sp).live = TRUE
BY DEF Live, SpSet

LEMMA WayIs ==
  ASSUME NEW sp \in SpSet, NEW p \in PoolSet
  PROVE  /\ Leaves(I!Way(sp, p), sp, p, FALSE)
         /\ Leaves(I!Started(I!Way(sp, p)), Live(sp), p, TRUE)
<1> DEFINE w == I!Way(sp, p)
<1>1. Leaves(w, sp, p, FALSE)
  BY DEF I!Way, WaySet, Leaves
<1> HIDE DEF w
<1> DEFINE v == [w EXCEPT !.ok = TRUE]
           x == Live(sp)
<1>2. I!Started(w) = [v EXCEPT !.sp = x]
  BY <1>1 DEF I!Started, WaySet, Leaves, Live
<1>3. Leaves(v, sp, p, TRUE)
  BY <1>1 DEF WaySet, Leaves
<1> HIDE DEF v, x
<1>4. x \in SpSet
  BY LiveIs DEF x
<1>5. Leaves(I!Started(w), x, p, TRUE)
  BY <1>2, <1>3, <1>4 DEF WaySet, Leaves
<1> QED BY <1>1, <1>5 DEF w, x

LEMMA ListlessWay ==
  ASSUME NEW sp, NoLists(sp), NEW p \in PoolSet
  PROVE  /\ Listless(I!Way(sp, p), p) /\ Fine(I!Way(sp, p))
         /\ Listless(I!Started(I!Way(sp, p)), p) /\ Fine(I!Started(I!Way(sp, p)))
<1>1. sp \in SpSet
  BY DEF NoLists
<1>2. Leaves(I!Way(sp, p), sp, p, FALSE) /\ Leaves(I!Started(I!Way(sp, p)), Live(sp), p, TRUE)
  BY <1>1, WayIs
<1>3. NoLists(Live(sp))
  BY <1>1, LiveIs DEF NoLists
<1> QED BY <1>2, <1>3 DEF Leaves, Listless, Fine

LEMMA PlainStart ==
  ASSUME NEW n \in Nat, NEW req_cnt \in Int, NEW p \in PoolSet, NEW w \in I!start_scsi(n, req_cnt, p)
  PROVE  Listless(w, p) /\ Fine(w)
<1>1. NoLists(I!Sp(n)) /\ NoLists(I!Map(I!Sp(n))) /\ NoLists(I!Unmap(I!Map(I!Sp(n))))
      /\ NoLists(I!Enter(I!Map(I!Sp(n)), req_cnt))
  BY NewSpIs, MapLists, EnterLists
<1>2. "DMA_VALID" \in I!Flags
  BY DEF I!Flags
<1>3. NoLists(I!Flag(I!Enter(I!Map(I!Sp(n)), req_cnt), "DMA_VALID"))
  BY <1>1, <1>2, FlagLists
<1> QED BY <1>1, <1>3, ListlessWay DEF I!start_scsi

--------------------------------------------------------------------------
(* The walks of a command with protection.                                 *)

LEMMA ListsSteps ==
  ASSUME NEW ws \in Seq(Walking)
  PROVE  \E h \in [0..Len(ws) -> Nat] :
           /\ h[0] = 0 /\ h[Len(ws)] = I!Lists(ws)
           /\ \A i \in 1..Len(ws) : h[i] = h[i - 1] + ws[i].lists
<1> DEFINE G == [p \in Nat \X (1..Len(ws)) |-> p[1] + ws[p[2]].lists]
           F(f) == [t \in SUBSET (1..Len(ws)) |->
                      IF t = {} THEN 0 ELSE f[t \ {I!Max(t)}] + ws[I!Max(t)].lists]
           it == CHOOSE f : f = F(f)
<1>0. \A i \in 1..Len(ws) : ws[i].lists \in Nat
  <2>1. \A i \in 1..Len(ws) : ws[i] \in Walking
    OBVIOUS
  <2> QED BY <2>1 DEF Walking
<1>1. /\ G \in [Nat \X (1..Len(ws)) -> Nat]
      /\ \A a \in Nat, i \in 1..Len(ws) : G[<<a, i>>] = a + ws[i].lists
  BY <1>0
<1>2. Len(ws) \in Nat /\ 0 \in Nat
  OBVIOUS
<1>3. I!Lists(ws) = it[1..Len(ws)]
  <2>1. DOMAIN ws = 1..Len(ws)
    OBVIOUS
  <2> QED BY <2>1 DEF I!Lists, I!FoldLeft, I!MapThenFoldSet
<1>4. \E f : f = F(f)
  <2> HIDE DEF G
  <2>1. PICK f \in [SUBSET (1..Len(ws)) -> Nat] : FoldsUp(f, Len(ws), 0, G)
    BY <1>1, <1>2, IntervalFold
  <2>2. \A t \in SUBSET (1..Len(ws)) : t # {} => f[t \ {I!Max(t)}] \in Nat /\ I!Max(t) \in 1..Len(ws)
    BY <1>2, LastIs
  <2>3. \A t \in SUBSET (1..Len(ws)) : t # {} =>
          G[<<f[t \ {I!Max(t)}], I!Max(t)>>] = f[t \ {I!Max(t)}] + ws[I!Max(t)].lists
    BY <2>2, <1>1
  <2>4. F(f) = [s \in SUBSET (1..Len(ws)) |->
                  IF s = {} THEN 0 ELSE G[<<f[s \ {I!Max(s)}], I!Max(s)>>]]
    BY <2>3
  <2> QED BY <2>1, <2>4 DEF FoldsUp
<1>5. it = F(it)
  <2> HIDE DEF F
  <2> QED BY <1>4
<1>6. \A t \in SUBSET (1..Len(ws)) :
        it[t] = IF t = {} THEN 0 ELSE it[t \ {I!Max(t)}] + ws[I!Max(t)].lists
  <2> HIDE DEF it
  <2> QED BY <1>5
<1>7. it[{}] = 0
  <2> HIDE DEF it
  <2> QED BY <1>6
<1>8. ASSUME NEW i \in 1..Len(ws), it[1..(i - 1)] \in Nat
      PROVE  it[1..i] = G[<<it[1..(i - 1)], i>>]
  <2> HIDE DEF it, G
  <2>1. it[1..i] = it[1..(i - 1)] + ws[i].lists
    BY <1>2, <1>6, LastIs
  <2> QED BY <1>1, <1>8, <2>1
<1>9. PICK h : Values(h, Len(ws), Nat, 0, G) /\ h[Len(ws)] = it[1..Len(ws)]
  <2> HIDE DEF it, G
  <2>1. Folds(it, Len(ws), Nat, 0, G)
    BY <1>1, <1>2, <1>7, <1>8 DEF Folds
  <2> QED BY <2>1, FoldSteps
<1>10. \A i \in 1..Len(ws) : h[i] = h[i - 1] + ws[i].lists
  <2> HIDE DEF it, G
  <2> SUFFICES ASSUME NEW i \in 1..Len(ws) PROVE h[i] = h[i - 1] + ws[i].lists
    OBVIOUS
  <2>1. i - 1 \in 0..Len(ws)
    BY <1>2
  <2> QED BY <1>1, <1>9, <2>1 DEF Values
<1> HIDE DEF it, G
<1> QED BY <1>3, <1>9, <1>10 DEF Values

LEMMA WalkFine ==
  ASSUME NEW n \in Nat, NEW used \in Nat, n <= used
  PROVE  I!Walk(n, used) \in Walking /\ I!Walk(n, used).over = FALSE
<1>1. PICK h \in [0..n -> Walking] : h[n] = I!Walk(n, used)
  BY WalkSteps
<1>2. n \in 0..n
  OBVIOUS
<1> QED BY <1>1, <1>2, WalkIsWhole

\* What is counted, and that the pieces are counted as they are written.
LEMMA CountsAre ==
  ASSUME NEW c \in Commands
  PROVE  /\ I!DataDsds(c) \in Nat /\ I!ProtDsds(c) \in Nat
         /\ I!TotDsds(c) = I!DataDsds(c) + I!ProtDsds(c)
         /\ I!walk_and_build_sglist_no_difb(c, I!TotDsds(c))
              = I!Walk(I!Len(I!Pieces(c.segs)) + Wholes(I!Pieces(c.segs)), I!TotDsds(c))
<1> DEFINE ps == I!Pieces(c.segs)
           b == I!Bytes(c.segs) \div BlockSize
<1>1. /\ c.segs \in Segments /\ c.prot \in Nat
      /\ ps \in Seq(Piece) /\ b \in Nat
  BY CommandIs, WholesFit
<1> HIDE DEF ps, b
<1>2. Len(ps) \in Nat /\ DOMAIN ps = 1..Len(ps) /\ Len(c.segs) \in Nat
  BY <1>1 DEF Segments
<1>3. Cardinality(DOMAIN ps) = Len(ps)
  <2>1. 1 \in Int /\ Len(ps) \in Int
    BY <1>2
  <2>2. Cardinality(1..Len(ps)) = IF 1 > Len(ps) THEN 0 ELSE Len(ps) - 1 + 1
    BY <2>1, FS_Interval
  <2> QED BY <1>2, <2>2
<1>4. I!DataDsds(c) \in Nat /\ I!ProtDsds(c) \in Nat
  BY <1>1, <1>2 DEF I!DataDsds, I!ProtDsds, ps, b
<1>5. I!walk_and_build_sglist_no_difb(c, I!TotDsds(c)) = I!Walk(Len(ps) + Wholes(ps), I!TotDsds(c))
  <2>1. I!Cardinality(DOMAIN ps) = Len(ps)
    BY <1>3, RingSets
  <2>2. I!Cardinality({i \in DOMAIN ps : ps[i].whole}) = Wholes(ps)
    BY RingSets DEF Wholes
  <2> QED BY <2>1, <2>2 DEF I!walk_and_build_sglist_no_difb, ps
<1> QED BY <1>4, <1>5 DEF I!TotDsds, ps

LEMMA WalksAre ==
  ASSUME NEW c \in Commands
  PROVE  /\ I!Walks(c) \in Seq(Walking)
         /\ \A i \in DOMAIN I!Walks(c) : I!Walks(c)[i].over = FALSE
<1> DEFINE d == I!DataDsds(c)
           p == I!ProtDsds(c)
           t == I!TotDsds(c)
<1>1. d \in Nat /\ p \in Nat /\ t = d + p
  BY CountsAre
<1>2. CASE c.op = "insert" /\ p > 0
  <2> DEFINE w == I!walk_and_build_sglist_no_difb(c, t)
             k == Len(I!Pieces(c.segs))
             m == Wholes(I!Pieces(c.segs))
  <2>1. I!Walks(c) = <<w>>
    BY <1>2 DEF I!Walks
  <2>2. w = I!Walk(k + m, t)
    BY CountsAre
  <2>3. I!DataDsds(c) = k /\ I!ProtDsds(c) = I!Bytes(c.segs) \div BlockSize
    BY <1>1, <1>2 DEF I!DataDsds, I!ProtDsds
  <2>4. m \in Nat /\ m <= p
    BY <2>3, CommandIs, WholesFit
  <2> HIDE DEF w, k, m, d, p, t
  <2>5. k = d
    BY <2>3 DEF d
  <2>6. k + m \in Nat /\ t \in Nat /\ k + m <= t
    BY <1>1, <2>4, <2>5
  <2>7. w \in Walking /\ w.over = FALSE
    BY <2>2, <2>6, WalkFine
  <2>8. <<w>> \in Seq(Walking) /\ \A i \in DOMAIN <<w>> : <<w>>[i].over = FALSE
    BY <2>7
  <2> QED BY <2>1, <2>8
<1>3. CASE ~(c.op = "insert" /\ p > 0)
  <2> DEFINE w == I!Walk(t - p, t - p)
             v == I!Walk(p, p)
  <2>1. \/ I!Walks(c) = <<w>> \o <<v>>
        \/ I!Walks(c) = <<w>> \o <<>>
    BY <1>3 DEF I!Walks, I!walk_and_build_sglist, I!walk_and_build_prot_sglist
  <2> HIDE DEF d, p, t
  <2>2. t - p \in Nat /\ t - p <= t - p /\ p <= p
    BY <1>1
  <2>3. w \in Walking /\ w.over = FALSE /\ v \in Walking /\ v.over = FALSE
    BY <1>1, <2>2, WalkFine
  <2> HIDE DEF w, v
  <2> DEFINE x == <<w>> \o <<v>>
  <2>4. <<w>> \in Seq(Walking) /\ <<v>> \in Seq(Walking) /\ <<w>> \o <<>> = <<w>>
    <3>1. <<w>> \in Seq(Walking) /\ <<v>> \in Seq(Walking)
      BY <2>3
    <3> QED BY <3>1
  <2>5. x \in Seq(Walking) /\ \A i \in DOMAIN x : x[i] \in {w, v}
    BY <2>4
  <2> HIDE DEF x
  <2>6. x \in Seq(Walking) /\ \A i \in DOMAIN x : x[i].over = FALSE
    BY <2>3, <2>5
  <2>7. \A i \in DOMAIN <<w>> : <<w>>[i].over = FALSE
    BY <2>3
  <2> QED BY <2>1, <2>4, <2>6, <2>7 DEF x
<1> QED BY <1>2, <1>3

LEMMA ListsIs ==
  ASSUME NEW c \in Commands
  PROVE  I!Lists(I!Walks(c)) \in Nat
<1>1. I!Walks(c) \in Seq(Walking)
  BY WalksAre
<1> DEFINE ws == I!Walks(c)
<1> HIDE DEF ws
<1>2. Len(ws) \in 0..Len(ws)
  BY <1>1 DEF ws
<1>3. I!Lists(ws) \in Nat
  BY <1>1, <1>2, ListsSteps DEF ws
<1> QED BY <1>3 DEF ws

\* The ways to build a command with protection, from one that holds none of the
\* adapter's lists.
LEMMA CrcBuild ==
  ASSUME NEW sp, NoLists(sp), NEW c \in Commands, NEW p \in PoolSet,
         NEW w \in I!build_scsi_crc_2_iocbs(sp, c, p)
  PROVE  Listless(w, p) /\ (c.op # "normal" => Fine(w))
<1> DEFINE ctx == I!Flag(I!Gain(sp, "crc_ctx", 1), "CRC_CTX_DMA_VALID")
           More(k) == IF k = 0 THEN ctx ELSE I!Flag(I!Gain(ctx, "dl", k), "CRC_CTX_DSD_VALID")
           n == I!Lists(I!Walks(c))
<1>1. n \in Nat
  BY ListsIs
<1>2. /\ {"crc_ctx", "dl"} \subseteq I!Things \ {"gbl"}
      /\ {"CRC_CTX_DMA_VALID", "CRC_CTX_DSD_VALID"} \subseteq I!Flags
  BY DEF I!Things, I!Flags
<1>3. NoLists(ctx)
  <2>1. NoLists(I!Gain(sp, "crc_ctx", 1))
    BY <1>2, GainLists
  <2> QED BY <1>2, <2>1, FlagLists
<1>4. \A k \in Int : NoLists(More(k))
  <2> HIDE DEF ctx
  <2> SUFFICES ASSUME NEW k \in Int PROVE NoLists(More(k))
    OBVIOUS
  <2>1. NoLists(I!Gain(ctx, "dl", k))
    BY <1>2, <1>3, GainLists
  <2>2. NoLists(I!Flag(I!Gain(ctx, "dl", k), "CRC_CTX_DSD_VALID"))
    BY <1>2, <2>1, FlagLists
  <2> QED BY <1>3, <2>2
<1> HIDE DEF More, n, ctx
<1>5. \/ c.segs = <<>> /\ w = [I!Started(I!Way(sp, p)) EXCEPT !.cdb = FALSE]
      \/ w = I!Way(sp, p)
      \/ w = I!Way(ctx, p)
      \/ ~I!KnownProtOp(c) /\ w = [I!Way(ctx, p) EXCEPT !.bug = TRUE]
      \/ \E k \in 0..n - 1 : w = I!Way(More(k), p)
      \/ w = I!Started(I!Way(More(n), p))
  BY Zenon DEF I!build_scsi_crc_2_iocbs, More, n, ctx
<1>6. CASE c.segs = <<>> /\ w = [I!Started(I!Way(sp, p)) EXCEPT !.cdb = FALSE]
  <2> DEFINE v == I!Started(I!Way(sp, p))
  <2>1. Listless(v, p)
    BY ListlessWay
  <2>2. w = [v EXCEPT !.cdb = FALSE]
    BY <1>6
  <2> HIDE DEF v
  <2>3. w \in WaySet /\ w.sp = v.sp /\ w.pool = v.pool
    BY <2>1, <2>2 DEF Listless, WaySet
  <2>4. Listless(w, p)
    BY <2>1, <2>3 DEF Listless
  <2>5. c.op = "normal"
    BY <1>6, CommandIs
  <2> QED BY <2>4, <2>5
<1>7. CASE ~I!KnownProtOp(c) /\ w = [I!Way(ctx, p) EXCEPT !.bug = TRUE]
  <2> DEFINE v == I!Way(ctx, p)
  <2>1. Listless(v, p)
    BY <1>3, ListlessWay
  <2>2. w = [v EXCEPT !.bug = TRUE]
    BY <1>7
  <2> HIDE DEF v
  <2>3. w \in WaySet /\ w.sp = v.sp /\ w.pool = v.pool
    BY <2>1, <2>2 DEF Listless, WaySet
  <2>4. Listless(w, p)
    BY <2>1, <2>3 DEF Listless
  <2>5. c.op = "normal"
    BY <1>7, CommandIs, Protections DEF I!KnownProtOp
  <2> QED BY <2>4, <2>5
<1>8. ASSUME NEW k \in 0..n - 1, w = I!Way(More(k), p)
      PROVE  Listless(w, p) /\ Fine(w)
  <2>1. k \in Int
    BY <1>1
  <2> QED BY <1>4, <1>8, <2>1, ListlessWay
<1>9. CASE w = I!Started(I!Way(More(n), p))
  BY <1>1, <1>4, <1>9, ListlessWay
<1>10. CASE w = I!Way(sp, p) \/ w = I!Way(ctx, p)
  BY <1>3, <1>10, ListlessWay
<1> QED BY <1>5, <1>6, <1>7, <1>8, <1>9, <1>10

LEMMA QueuingError ==
  ASSUME NEW w, NEW p, Listless(w, p)
  PROVE  /\ Listless(I!dif_queuing_error(w), p)
         /\ I!dif_queuing_error(w).ok = w.ok
         /\ I!dif_queuing_error(w).bug = w.bug /\ I!dif_queuing_error(w).cdb = w.cdb
<1> DEFINE one == [w.sp EXCEPT !.has["slot"] = 0]
           two == [one EXCEPT !.has["credit"] = 0]
<1>1. {"slot", "credit"} \subseteq I!Things \ {"gbl"} /\ NoLists(w.sp) /\ w \in WaySet
  BY DEF I!Things, Listless
<1>2. NoLists(one)
  BY <1>1, SetLists
<1>3. NoLists(two)
  <2> HIDE DEF one
  <2> QED BY <1>1, <1>2, SetLists
<1>4. I!dif_queuing_error(w) = [w EXCEPT !.sp = two]
  <2> DEFINE v == [w EXCEPT !.sp = one]
  <2>1. I!dif_queuing_error(w) = [v EXCEPT !.sp = [v.sp EXCEPT !.has["credit"] = 0]]
    BY DEF I!dif_queuing_error
  <2>2. v.sp = one /\ v \in WaySet
    <3> HIDE DEF one
    <3> QED BY <1>1, <1>2 DEF WaySet, NoLists
  <2> HIDE DEF v
  <2>3. I!dif_queuing_error(w) = [v EXCEPT !.sp = two]
    BY <2>1, <2>2
  <2> HIDE DEF two, one
  <2>4. [v EXCEPT !.sp = two] = [w EXCEPT !.sp = two]
    BY <1>1, <1>2, <1>3 DEF v, WaySet, NoLists
  <2> QED BY <2>3, <2>4
<1> HIDE DEF one, two
<1>5. I!dif_queuing_error(w) \in WaySet /\ I!dif_queuing_error(w).sp = two
      /\ I!dif_queuing_error(w).pool = w.pool
      /\ I!dif_queuing_error(w).ok = w.ok
      /\ I!dif_queuing_error(w).bug = w.bug /\ I!dif_queuing_error(w).cdb = w.cdb
  BY <1>1, <1>3, <1>4 DEF WaySet, NoLists
<1> QED BY <1>3, <1>5 DEF Listless

LEMMA DifStart ==
  ASSUME NEW c \in Commands, NEW p \in PoolSet, NEW w \in I!dif_start_scsi(c, p)
  PROVE  Listless(w, p) /\ (c.op # "normal" \/ c.cdb <= 16 => Fine(w))
<1>0. Len(c.segs) \in Nat /\ Len(c.segs) \in Nat /\ c.prot \in Nat
  BY CommandIs
<1>1. CASE c.op = "normal" /\ c.cdb <= 16
  <2>1. w \in I!start_scsi(Len(c.segs), I!calc_iocbs(Len(c.segs)), p)
    BY <1>1 DEF I!dif_start_scsi
  <2>2. I!calc_iocbs(Len(c.segs)) \in Int
    BY <1>0 DEF I!calc_iocbs, I!Up
  <2> QED BY <1>0, <2>1, <2>2, PlainStart
<1>2. CASE ~(c.op = "normal" /\ c.cdb <= 16)
  <2> DEFINE new == I!Sp(Len(c.segs))
             mapped == IF new.sg THEN I!Flag(I!Map(new), "DMA_VALID") ELSE new
             prot == IF c.prot = 0 THEN mapped
                     ELSE I!Flag(I!Gain(mapped, "prot", 1), "CRC_PROT_DMA_VALID")
             ends == I!build_scsi_crc_2_iocbs(I!Enter(prot, 1), c, p)
  <2>1. /\ {"DMA_VALID", "CRC_PROT_DMA_VALID"} \subseteq I!Flags
        /\ "prot" \in I!Things \ {"gbl"}
    BY DEF I!Flags, I!Things
  <2>2. NoLists(new)
    BY <1>0, NewSpIs
  <2>3. NoLists(mapped)
    <3> HIDE DEF new
    <3>1. NoLists(I!Flag(I!Map(new), "DMA_VALID"))
      BY <2>1, <2>2, MapLists, FlagLists
    <3> QED BY <2>2, <3>1
  <2>4. NoLists(prot)
    <3> HIDE DEF mapped
    <3>1. NoLists(I!Gain(mapped, "prot", 1))
      BY <2>1, <2>3, GainLists
    <3>2. NoLists(I!Flag(I!Gain(mapped, "prot", 1), "CRC_PROT_DMA_VALID"))
      BY <2>1, <3>1, FlagLists
    <3> QED BY <2>3, <3>2
  <2>5. \A x \in ends : Listless(x, p) /\ (c.op # "normal" => Fine(x))
    <3> HIDE DEF prot
    <3>1. NoLists(I!Enter(prot, 1))
      BY <2>4, EnterLists
    <3> QED BY <3>1, CrcBuild
  <2>6. \/ w \in {I!Way(new, p), I!Way(mapped, p), I!Way(prot, p)}
        \/ w \in ends
        \/ \E x \in ends : w = I!dif_queuing_error(x)
    <3> HIDE DEF new, mapped, prot, ends
    <3>1. w \in {I!Way(new, p), I!Way(mapped, p), I!Way(prot, p)}
          \cup {x \in ends : x.ok \/ x.bug}
          \cup {I!dif_queuing_error(x) : x \in {y \in ends : ~y.ok /\ ~y.bug}}
      BY <1>2, Zenon DEF I!dif_start_scsi, new, mapped, prot, ends
    <3> QED BY <3>1, Zenon
  <2>7. c.op # "normal" \/ c.cdb <= 16 => c.op # "normal"
    BY <1>2
  <2> HIDE DEF new, mapped, prot, ends
  <2>8. CASE w \in {I!Way(new, p), I!Way(mapped, p), I!Way(prot, p)}
    BY <2>2, <2>3, <2>4, <2>8, ListlessWay
  <2>9. CASE w \in ends
    BY <2>5, <2>7, <2>9
  <2>10. ASSUME NEW x \in ends, w = I!dif_queuing_error(x)
         PROVE  Listless(w, p) /\ (c.op # "normal" => Fine(w))
    BY <2>5, <2>10, QueuingError DEF Fine
  <2> QED BY <2>6, <2>7, <2>8, <2>9, <2>10
<1> QED BY <1>1, <1>2

--------------------------------------------------------------------------
(* Starting with the adapter's lists, and every start.                     *)

\* I!ListsAreCounted of the adapter's lists themselves.
PoolOk(p) == p \in PoolSet /\ p.list >= 0 /\ p.avail = p.list /\ p.avail + p.inuse < Chains

\* A command that holds lists is in flight, and its flags say so.
HeldSp(sp) ==
  /\ sp \in SpSet /\ sp.has["gbl"] >= 0
  /\ sp.has["gbl"] # 0 => sp.live /\ "FCP_CMND_DMA_VALID" \in sp.flags

\* What the command of a way holds is what the adapter counts as in use.
WayOk(w, p) ==
  /\ w \in WaySet /\ PoolOk(w.pool) /\ HeldSp(w.sp)
  /\ w.pool.inuse = p.inuse + w.sp.has["gbl"]

LEMMA ListlessOk ==
  ASSUME NEW w, NEW p, NEW q, Listless(w, q), PoolOk(p), PoolOk(q), q.inuse = p.inuse
  PROVE  WayOk(w, p)
<1>1. q.inuse = p.inuse + 0
  BY DEF PoolOk, PoolSet
<1>2. HeldSp(w.sp)
  BY DEF Listless, NoLists, HeldSp
<1> QED BY <1>1, <1>2 DEF Listless, NoLists, WayOk

LEMMA UpIs ==
  ASSUME NEW n \in Nat, NEW k \in Nat \ {0}
  PROVE  I!Up(n, k) \in Nat
BY DEF I!Up

\* A command that holds n of the lists, and says so.
Carries(sp, n) ==
  sp \in SpSet /\ sp.has["gbl"] = n /\ "FCP_CMND_DMA_VALID" \in sp.flags

LEMMA CarriesGain ==
  ASSUME NEW sp, NEW n, Carries(sp, n), NEW t \in {"slot", "credit"}
  PROVE  Carries(I!Gain(sp, t, 1), n)
<1>1. t \in I!Things /\ t # "gbl" /\ 1 \in Int /\ sp \in SpSet
  BY DEF I!Things, Carries
<1>2. /\ I!Gain(sp, t, 1) \in SpSet
      /\ I!Gain(sp, t, 1).flags = sp.flags
      /\ I!Gain(sp, t, 1).has["gbl"] = sp.has["gbl"]
  BY <1>1, GainIs
<1> QED BY <1>2 DEF Carries

LEMMA CarriesTaken ==
  ASSUME NEW sp, NoLists(sp), NEW n \in Int
  PROVE  Carries(I!Flag(I!Flag(I!Gain(sp, "gbl", n), "FCP_CMND_DMA_VALID"), "DMA_VALID"), n)
<1> DEFINE x == I!Gain(sp, "gbl", n)
           y == I!Flag(x, "FCP_CMND_DMA_VALID")
<1>1. /\ {"FCP_CMND_DMA_VALID", "DMA_VALID"} \subseteq I!Flags
      /\ "gbl" \in I!Things
  BY DEF I!Flags, I!Things
<1>2. sp \in SpSet /\ sp.has["gbl"] = 0
  BY DEF NoLists
<1>3. x \in SpSet /\ x.has["gbl"] = sp.has["gbl"] + n
  BY <1>1, <1>2, GainIs
<1>4. x \in SpSet /\ x.has["gbl"] = n
  BY <1>2, <1>3
<1> HIDE DEF x
<1>5. y \in SpSet /\ y.has["gbl"] = n /\ "FCP_CMND_DMA_VALID" \in y.flags
  BY <1>1, <1>4, FlagIs
<1> HIDE DEF y
<1>6. Carries(I!Flag(y, "DMA_VALID"), n)
  BY <1>1, <1>5, FlagIs DEF Carries
<1> QED BY <1>6 DEF x, y

LEMMA TypeSix ==
  ASSUME NEW n \in Nat, NEW p, PoolOk(p), NEW w \in I!start_type_6(n, p)
  PROVE  WayOk(w, p) /\ Fine(w)
<1> DEFINE mapped == I!Map(I!Sp(n))
           more == I!more_dsd_lists(n, p)
           Grown(k) == [p EXCEPT !.list = @ + k, !.avail = @ + k]
           ctx == I!Gain(mapped, "ct6_ctx", 1)
           whole == I!Flag(I!Flag(I!Gain(I!Gain(ctx, "fcp_cmnd", 1), "gbl", I!calc_dsd_lists(n)),
                                  "FCP_CMND_DMA_VALID"), "DMA_VALID")
           need == I!calc_dsd_lists(n)
           entered == I!Enter(whole, 1)
           taken == I!build_scsi_type_6_iocbs(n, Grown(more))
<1>1. /\ {"ct6_ctx", "fcp_cmnd", "slot", "credit"} \subseteq I!Things \ {"gbl"}
      /\ "gbl" \in I!Things
      /\ {"FCP_CMND_DMA_VALID", "DMA_VALID"} \subseteq I!Flags
  BY DEF I!Things, I!Flags
<1>2. /\ p \in PoolSet /\ need \in Nat /\ more \in Nat
      /\ p.list \in Int /\ p.avail \in Int /\ p.inuse \in Int
      /\ p.avail = p.list /\ p.list >= 0 /\ p.avail + p.inuse < Chains
      /\ need <= p.avail => more = 0
      /\ ~(need <= p.avail) => more = need - p.avail
  <2>1. need \in Nat
    BY RingSizes, UpIs DEF I!calc_dsd_lists
  <2> HIDE DEF need
  <2>2. /\ p \in PoolSet /\ p.list \in Int /\ p.avail \in Int /\ p.inuse \in Int
        /\ p.avail = p.list /\ p.list >= 0 /\ p.avail + p.inuse < Chains
    BY DEF PoolOk, PoolSet
  <2>3. more = IF need <= p.avail THEN 0 ELSE need - p.avail
    BY DEF I!more_dsd_lists, need
  <2> HIDE DEF more
  <2> QED BY <2>1, <2>2, <2>3
<1>3. NoLists(I!Sp(n)) /\ NoLists(mapped)
  BY NewSpIs, MapLists
<1> HIDE DEF mapped
<1>4. NoLists(ctx)
  BY <1>1, <1>3, GainLists
<1> HIDE DEF ctx
<1>5. NoLists(I!p3p_queuing_error(mapped)) /\ NoLists(I!p3p_queuing_error(ctx))
  <2>1. NoLists(I!Unmap(mapped)) /\ NoLists(I!Unmap(ctx))
    BY <1>3, <1>4, MapLists
  <2> QED BY <1>1, <2>1, SetLists DEF I!p3p_queuing_error
<1> HIDE DEF need, more
<1>6. ASSUME need + p.inuse < Chains, NEW k \in Nat, k <= more
      PROVE  /\ PoolOk(Grown(k)) /\ Grown(k).inuse = p.inuse
             /\ Grown(k).list = p.list + k /\ Grown(k).avail = p.avail + k
  <2> DEFINE g == Grown(k)
             l == p.list + k
             v == p.avail + k
  <2>1. l \in Int /\ v \in Int /\ l >= 0 /\ v = l /\ v + p.inuse < Chains
    <3>1. CASE need <= p.avail
      <4>1. k = 0
        BY <1>2, <1>6, <3>1
      <4> QED BY <1>2, <4>1
    <3>2. CASE ~(need <= p.avail)
      <4>1. k <= need - p.avail
        BY <1>2, <1>6, <3>2
      <4>2. Chains \in Int
        BY RingSizes
      <4> QED BY <1>2, <1>6, <4>1, <4>2
    <3> QED BY <3>1, <3>2
  <2>2. g = [[p EXCEPT !.list = l] EXCEPT !.avail = v]
    BY <1>2 DEF PoolSet
  <2> HIDE DEF l, v
  <2>3. g \in PoolSet /\ g.list = l /\ g.avail = v /\ g.inuse = p.inuse
    <3> HIDE DEF g
    <3> QED BY <1>2, <2>1, <2>2 DEF PoolSet
  <2> HIDE DEF g
  <2>4. PoolOk(g) /\ g.inuse = p.inuse /\ g.list = l /\ g.avail = v
    BY <2>1, <2>3 DEF PoolOk
  <2> QED BY <2>4 DEF g, l, v
<1>7. /\ entered \in SpSet /\ entered.has["gbl"] = need
      /\ "FCP_CMND_DMA_VALID" \in entered.flags
  <2> DEFINE a == I!Gain(ctx, "fcp_cmnd", 1)
             d == I!Flag(I!Flag(I!Gain(a, "gbl", need), "FCP_CMND_DMA_VALID"), "DMA_VALID")
             e == I!Gain(d, "slot", 1)
  <2>1. NoLists(a)
    BY <1>1, <1>4, GainLists
  <2> HIDE DEF a
  <2>2. Carries(d, need)
    BY <1>2, <2>1, CarriesTaken
  <2> HIDE DEF d
  <2>3. Carries(e, need)
    BY <2>2, CarriesGain
  <2> HIDE DEF e
  <2>4. Carries(I!Gain(e, "credit", 1), need)
    BY <2>3, CarriesGain
  <2>5. entered = I!Gain(e, "credit", 1)
    BY Zenon DEF I!Enter, a, d, e, need
  <2> QED BY <2>4, <2>5 DEF Carries
<1> HIDE DEF entered
<1>8. ASSUME need + p.inuse < Chains
      PROVE  PoolOk(taken) /\ taken.inuse = p.inuse + need
  <2> DEFINE g == Grown(more)
  <2>1. g.inuse = p.inuse /\ g.list = p.list + more /\ g.avail = p.avail + more
    <3>1. more \in Nat /\ more <= more
      BY <1>2
    <3> HIDE DEF Grown
    <3> QED BY <1>6, <1>8, <3>1
  <2>2. taken = [list |-> g.list - need, avail |-> g.avail - need, inuse |-> g.inuse + need]
    BY DEF I!build_scsi_type_6_iocbs, need
  <2> HIDE DEF g, taken
  <2>3. g.list - need \in Int /\ g.list - need >= 0 /\ g.avail - need = g.list - need
        /\ g.inuse + need \in Int
        /\ (g.avail - need) + (g.inuse + need) < Chains
    <3>1. p.avail + more - need >= 0 /\ p.avail + more - need + need + p.inuse < Chains
      <4>0. Chains \in Int
        BY RingSizes
      <4>1. CASE need <= p.avail
        BY <1>2, <4>0, <4>1
      <4>2. CASE ~(need <= p.avail)
        <5>1. p.avail + more = need
          BY <1>2, <4>2
        <5> QED BY <1>2, <1>8, <4>0, <5>1
      <4> QED BY <4>1, <4>2
    <3> DEFINE gl == g.list
               ga == g.avail
               gi == g.inuse
               pl == p.list
               pa == p.avail
               pi == p.inuse
    <3>2. /\ gi = pi /\ gl = pl + more /\ ga = pa + more
          /\ pl \in Int /\ pa \in Int /\ pi \in Int /\ pa = pl
          /\ pa + more - need >= 0 /\ pa + more - need + need + pi < Chains
      BY <1>2, <2>1, <3>1
    <3> HIDE DEF gl, ga, gi, pl, pa, pi
    <3>3. /\ need \in Int /\ more \in Int /\ Chains \in Int
      BY <1>2, RingSizes
    <3>4. gl - need \in Int /\ gl - need >= 0 /\ ga - need = gl - need
          /\ gi + need \in Int /\ (ga - need) + (gi + need) < Chains
      BY <3>2, <3>3
    <3> QED BY <3>4 DEF gl, ga, gi
  <2>4. taken \in PoolSet /\ taken.list = g.list - need /\ taken.avail = g.avail - need
        /\ taken.inuse = g.inuse + need
    BY <2>2, <2>3 DEF PoolSet
  <2> QED BY <2>1, <2>3, <2>4 DEF PoolOk
<1>9. \/ w = I!Way(I!Sp(n), p)
      \/ w = I!Way(I!p3p_queuing_error(mapped), p)
      \/ /\ ~(need + p.inuse >= Chains)
         /\ \/ \E k \in 0..more : w = I!Way(I!p3p_queuing_error(mapped), Grown(k))
            \/ w = I!Way(I!p3p_queuing_error(ctx), Grown(more))
            \/ w = I!Started(I!Way(entered, taken))
  BY Zenon DEF I!start_type_6, need, mapped, more, ctx, entered
<1> HIDE DEF Grown, taken
<1>10. ASSUME NEW q, NEW sp, PoolOk(q), q.inuse = p.inuse, NoLists(sp), w = I!Way(sp, q)
       PROVE  WayOk(w, p) /\ Fine(w)
  <2>1. Listless(w, q) /\ Fine(w)
    BY <1>10, ListlessWay DEF PoolOk
  <2> QED BY <1>10, <2>1, ListlessOk
<1>11. CASE w = I!Way(I!Sp(n), p) \/ w = I!Way(I!p3p_queuing_error(mapped), p)
  BY <1>3, <1>5, <1>10, <1>11
<1>12. CASE ~(need + p.inuse >= Chains)
  <2>0. need + p.inuse < Chains
    BY <1>2, <1>12, RingSizes
  <2>1. ASSUME NEW k \in 0..more, w = I!Way(I!p3p_queuing_error(mapped), Grown(k))
        PROVE  WayOk(w, p) /\ Fine(w)
    <3>1. k \in Nat /\ k <= more
      BY <1>2
    <3>2. PoolOk(Grown(k)) /\ Grown(k).inuse = p.inuse
      BY <1>6, <2>0, <3>1
    <3> QED BY <1>5, <1>10, <2>1, <3>2
  <2>2. CASE w = I!Way(I!p3p_queuing_error(ctx), Grown(more))
    <3>1. more <= more
      BY <1>2
    <3>2. PoolOk(Grown(more)) /\ Grown(more).inuse = p.inuse
      BY <1>2, <1>6, <2>0, <3>1
    <3> QED BY <1>5, <1>10, <2>2, <3>2
  <2>3. CASE w = I!Started(I!Way(entered, taken))
    <3>1. PoolOk(taken) /\ taken.inuse = p.inuse + need /\ taken \in PoolSet
      BY <1>8, <2>0 DEF PoolOk
    <3>2. Leaves(w, Live(entered), taken, TRUE)
      BY <1>7, <2>3, <3>1, WayIs
    <3>3. Live(entered) \in SpSet /\ Live(entered).has["gbl"] = need
          /\ Live(entered).live = TRUE /\ "FCP_CMND_DMA_VALID" \in Live(entered).flags
      BY <1>7, LiveIs
    <3>4. HeldSp(Live(entered))
      BY <1>2, <3>3 DEF HeldSp
    <3> QED BY <3>1, <3>2, <3>3, <3>4 DEF Leaves, WayOk, Fine
  <2> QED BY <1>9, <1>11, <2>1, <2>2, <2>3
<1> QED BY <1>9, <1>11, <1>12

LEMMA CountIsInt ==
  ASSUME NEW n \in Nat
  PROVE  /\ I!calc_iocbs_32(n) \in Int /\ I!calc_iocbs_64(n) \in Int /\ I!calc_iocbs(n) \in Int
BY DEF I!calc_iocbs_32, I!calc_iocbs_64, I!calc_iocbs, I!Up

LEMMA WaysOk ==
  ASSUME NEW c \in Commands, I!Offered(c), ring_chip \in I!Chips, PoolOk(gbl_dsd),
         NEW w \in I!Ways(c)
  PROVE  WayOk(w, gbl_dsd) /\ (c.op # "normal" \/ c.cdb <= 16 => Fine(w))
<1> DEFINE n == Len(c.segs)
<1>1. n \in Nat /\ gbl_dsd \in PoolSet
  BY CommandIs DEF PoolOk
<1>2. ASSUME NEW k \in Int, w \in I!start_scsi(n, k, gbl_dsd)
      PROVE  WayOk(w, gbl_dsd) /\ Fine(w)
  <2>1. Listless(w, gbl_dsd) /\ Fine(w)
    BY <1>1, <1>2, PlainStart
  <2> QED BY <2>1, ListlessOk
<1>3. CASE ring_chip = "2x32"
  <2>1. w \in I!start_scsi(n, I!calc_iocbs_32(n), gbl_dsd)
    BY <1>3, Zenon DEF I!Ways
  <2> QED BY <1>1, <1>2, <2>1, CountIsInt
<1>4. CASE ring_chip = "2x64"
  <2>1. w \in I!start_scsi(n, I!calc_iocbs_64(n), gbl_dsd)
    BY <1>4, Zenon DEF I!Ways
  <2> QED BY <1>1, <1>2, <2>1, CountIsInt
<1>5. CASE ring_chip \in {"24xx", "fx00"}
  <2>1. w \in I!start_scsi(n, I!calc_iocbs(n), gbl_dsd)
    BY <1>5, Zenon DEF I!Ways
  <2> QED BY <1>1, <1>2, <2>1, CountIsInt
<1>6. CASE ring_chip = "25xx"
  <2>1. w \in I!dif_start_scsi(c, gbl_dsd)
    BY <1>6, Zenon DEF I!Ways
  <2>2. Listless(w, gbl_dsd) /\ (c.op # "normal" \/ c.cdb <= 16 => Fine(w))
    BY <1>1, <2>1, DifStart
  <2> QED BY <2>2, ListlessOk
<1>7. CASE ring_chip = "82xx"
  <2>1. w \in I!start_scsi_82xx(c, gbl_dsd)
    BY <1>7, Zenon DEF I!Ways
  <2>2. \/ w \in I!start_type_6(n, gbl_dsd)
        \/ w \in I!start_scsi(n, I!calc_iocbs(n), gbl_dsd)
    BY <2>1 DEF I!start_scsi_82xx
  <2> QED BY <1>1, <1>2, <2>2, CountIsInt, TypeSix
<1> QED BY <1>3, <1>4, <1>5, <1>6, <1>7 DEF I!Chips

--------------------------------------------------------------------------
(* What the firmware is told.                                              *)

\* The four properties of what a request was given and told.
RightFact(b) ==
  /\ b.written <= b.reserved \/ (b.kind = "fxdisc" /\ b.wide)
  /\ b.told = b.written /\ (b.dsds = b.put \/ b.kind = "ct")
  /\ ~b.over
  /\ (~b.bug /\ b.cdb) \/ b.kind = "long"

\* The counters agree with the builders, and their results fit into a byte.
LEMMA CountsAgree ==
  ASSUME NEW n \in Nat, n <= 1024
  PROVE  /\ I!calc_iocbs_32(n) = I!build_scsi_iocbs_32(n)
         /\ I!calc_iocbs_64(n) = I!build_scsi_iocbs_64(n)
         /\ I!calc_iocbs(n) = I!build_scsi_iocbs(n)
         /\ {I!calc_iocbs_32(n), I!calc_iocbs_64(n), I!calc_iocbs(n)} \subseteq 1..255
<1>1. I!calc_iocbs_32(n) = I!build_scsi_iocbs_32(n)
  BY BuiltFrom DEF I!calc_iocbs_32, I!build_scsi_iocbs_32
<1>2. I!calc_iocbs_64(n) = I!build_scsi_iocbs_64(n)
  BY BuiltFrom DEF I!calc_iocbs_64, I!build_scsi_iocbs_64
<1>3. I!calc_iocbs(n) = I!build_scsi_iocbs(n)
  BY BuiltFrom DEF I!calc_iocbs, I!build_scsi_iocbs
<1>4. ASSUME NEW a \in {1, 2, 3}, NEW k \in {5, 7}, n > a
      PROVE  I!Up(n - a, k) \in 0..254
  <2>1. CASE k = 5
    BY <1>4, <2>1 DEF I!Up
  <2>2. CASE k = 7
    BY <1>4, <2>2 DEF I!Up
  <2> QED BY <2>1, <2>2
<1>5. I!calc_iocbs_32(n) \in 1..255
  BY SMTT(30), <1>4 DEF I!calc_iocbs_32
<1>6. I!calc_iocbs_64(n) \in 1..255
  BY SMTT(30), <1>4 DEF I!calc_iocbs_64
<1>7. I!calc_iocbs(n) \in 1..255
  BY SMTT(30), <1>4 DEF I!calc_iocbs
<1> QED BY <1>1, <1>2, <1>3, <1>5, <1>6, <1>7

Facts == [kind : {"long", "crc_2", "type_6"},
          reserved : Int, written : Int, told : Int, dsds : Int, put : Int,
          over : BOOLEAN, wide : BOOLEAN, bug : BOOLEAN, cdb : BOOLEAN]

\* A request of one entry.
OneEntry(x, kind, over, bug, cdb) ==
  /\ x \in Facts /\ x.kind = kind /\ x.reserved = 1 /\ x.written = 1 /\ x.told = 1
  /\ x.dsds = 0 /\ x.put = 0 /\ x.over = over /\ x.bug = bug /\ x.cdb = cdb

LEMMA OneEntryIs ==
  ASSUME NEW kind \in {"long", "crc_2", "type_6"}
  PROVE  OneEntry(I!Fact(kind, 1, 1, 1), kind, FALSE, FALSE, TRUE)
BY DEF I!Fact, Facts, OneEntry

LEMMA OverIs ==
  ASSUME NEW kind, NEW bug, NEW cdb, NEW g, OneEntry(g, kind, FALSE, bug, cdb), NEW over \in BOOLEAN
  PROVE  OneEntry([g EXCEPT !.over = over], kind, over, bug, cdb)
BY DEF Facts, OneEntry

LEMMA BugIs ==
  ASSUME NEW kind, NEW over, NEW g, OneEntry(g, kind, over, FALSE, TRUE),
         NEW bug \in BOOLEAN, NEW cdb \in BOOLEAN
  PROVE  OneEntry([g EXCEPT !.bug = bug, !.cdb = cdb], kind, over, bug, cdb)
BY DEF Facts, OneEntry

LEMMA ScsiFactIsRight ==
  ASSUME NEW c \in Commands, I!Offered(c), ring_chip \in I!Chips, PoolOk(gbl_dsd),
         NEW w \in I!Ways(c)
  PROVE  RightFact(I!ScsiFact(c, w))
<1> DEFINE n == Len(c.segs)
           dif == ring_chip = "25xx" /\ ~(c.op = "normal" /\ c.cdb <= 16)
           ct6 == ring_chip = "82xx" /\ n > ShiftCtl
           over == w.ok /\ \E i \in DOMAIN I!Walks(c) : I!Walks(c)[i].over
           kind == IF c.op = "normal" THEN "long" ELSE "crc_2"
           f == I!ScsiFact(c, w)
<1> SUFFICES RightFact(f)
  OBVIOUS
<1>1. n \in Nat /\ n <= 1024
  BY CommandIs
<1>2. WayOk(w, gbl_dsd) /\ (c.op # "normal" \/ c.cdb <= 16 => Fine(w))
  BY WaysOk
<1>3. ASSUME NEW k, NEW e \in 1..255, f = I!Fact(k, e, e, e % 256)
      PROVE  RightFact(f)
  <2>1. e % 256 = e /\ e <= e
    OBVIOUS
  <2> HIDE DEF f
  <2>2. /\ f.reserved = e /\ f.written = e /\ f.told = e /\ f.dsds = 0 /\ f.put = 0
        /\ f.over = FALSE /\ f.bug = FALSE /\ f.cdb = TRUE
    BY <1>3, <2>1 DEF I!Fact
  <2> QED BY <2>1, <2>2 DEF RightFact
<1>4. CASE dif
  <2> DEFINE g == I!Fact(kind, 1, 1, 1)
             d == w.ok => w.cdb
             v == [g EXCEPT !.over = over]
             b == w.bug
  <2>1. f = [v EXCEPT !.bug = b, !.cdb = d]
    BY <1>4, Zenon DEF I!ScsiFact
  <2>2. over = FALSE
    BY WalksAre
  <2>3. b \in BOOLEAN /\ d \in BOOLEAN
    BY <1>2 DEF WayOk, WaySet
  <2>4. kind = "long" \/ (b = FALSE /\ d = TRUE)
    BY <1>2, <1>4 DEF Fine
  <2>5. kind \in {"long", "crc_2", "type_6"}
    OBVIOUS
  <2> HIDE DEF f, over, b, d, kind
  <2>6. OneEntry(g, kind, FALSE, FALSE, TRUE)
    BY <2>5, OneEntryIs
  <2> HIDE DEF g
  <2>7. OneEntry(v, kind, FALSE, FALSE, TRUE)
    BY <2>2, <2>6, OverIs
  <2> HIDE DEF v
  <2>8. OneEntry(f, kind, FALSE, b, d)
    BY <2>1, <2>3, <2>7, BugIs
  <2> QED BY <2>4, <2>8 DEF RightFact, OneEntry
<1>5. CASE ~dif /\ ct6
  <2> DEFINE g == I!Fact("type_6", 1, 1, 1)
             o == w.pool.list < 0
  <2>1. f = [g EXCEPT !.over = o]
    BY <1>5, Zenon DEF I!ScsiFact
  <2>2. o = FALSE
    BY <1>2 DEF WayOk, PoolOk, PoolSet
  <2> HIDE DEF f, o
  <2>3. OneEntry(g, "type_6", FALSE, FALSE, TRUE)
    BY OneEntryIs
  <2> HIDE DEF g
  <2>4. OneEntry(f, "type_6", FALSE, FALSE, TRUE)
    BY <2>1, <2>2, <2>3, OverIs
  <2> QED BY <2>4 DEF RightFact, OneEntry
<1>6. CASE ~dif /\ ~ct6
  <2>1. CASE ring_chip = "2x32"
    <3>1. f = I!Fact("type_2", I!calc_iocbs_32(n), I!build_scsi_iocbs_32(n), I!calc_iocbs_32(n) % 256)
      BY <1>6, <2>1, Zenon DEF I!ScsiFact
    <3> HIDE DEF f, n
    <3> QED BY <1>1, <1>3, <3>1, CountsAgree
  <2>2. CASE ring_chip = "2x64"
    <3>1. f = I!Fact("type_3", I!calc_iocbs_64(n), I!build_scsi_iocbs_64(n), I!calc_iocbs_64(n) % 256)
      BY <1>6, <2>2, Zenon DEF I!ScsiFact
    <3> HIDE DEF f, n
    <3> QED BY <1>1, <1>3, <3>1, CountsAgree
  <2>3. CASE ring_chip # "2x32" /\ ring_chip # "2x64"
    <3>1. f = I!Fact("type_7", I!calc_iocbs(n), I!build_scsi_iocbs(n), I!calc_iocbs(n) % 256)
      BY <1>6, <2>3, Zenon DEF I!ScsiFact
    <3> HIDE DEF f, n
    <3> QED BY <1>1, <1>3, <3>1, CountsAgree
  <2> QED BY <2>1, <2>2, <2>3
<1> QED BY <1>4, <1>5, <1>6

LEMMA UpFive ==
  ASSUME NEW m \in Nat, NEW n \in Nat, m <= n, n <= 256
  PROVE  I!Up(m, 5) \in 0..52 /\ I!Up(n, 5) \in 0..52 /\ I!Up(m, 5) <= I!Up(n, 5)
BY DEF I!Up

\* Entries filled one after the other by the request and the reply.
LEMMA BidirIs ==
  ASSUME NEW j \in Jobs
  PROVE  I!build_bidir_iocb(j) = I!calc_iocbs(j.req + j.rsp)
<1> DEFINE r == j.req
           s == j.rsp
           x == I!PutDsds(I!First(1), 5, r)
           y == I!PutDsds(x, 5, s)
<1>1. r \in Nat /\ s \in Nat /\ r >= 1 /\ s >= 1
  BY JobIs
<1>2. I!First(1) \in Ats /\ I!First(1).entries = 1 /\ I!First(1).avail = 1
  BY DEF I!First, Ats
<1> HIDE DEF r, s
<1>3. /\ x \in Ats /\ 5 * x.entries - x.avail = 5 * 1 - 1 + r /\ x.entries >= 1
      /\ x.avail < 5 \/ (x.entries = 1 /\ x.avail <= 1)
  BY ZenonT(40), <1>1, <1>2, PutIs
<1> HIDE DEF x
<1>4. /\ y \in Ats /\ 5 * y.entries - y.avail = 5 * x.entries - x.avail + s
      /\ y.avail < 5 \/ (y.entries = x.entries /\ y.avail <= x.avail)
  BY <1>1, <1>3, PutIs
<1> HIDE DEF y
<1> DEFINE e == y.entries
           a == y.avail
           b == x.avail
           f == x.entries
<1>5. e \in Nat /\ a \in Nat /\ b \in Nat /\ f \in Nat
  BY <1>3, <1>4 DEF Ats
<1>6. /\ 5 * f - b = 4 + r /\ b < 5
      /\ 5 * e - a = 5 * f - b + s /\ (a < 5 \/ a <= b)
  <2>1. /\ 5 * f - b = 5 * 1 - 1 + r /\ (b < 5 \/ b <= 1)
        /\ 5 * e - a = 5 * f - b + s /\ (a < 5 \/ a <= b)
    BY <1>3, <1>4
  <2> HIDE DEF e, a, b, f
  <2> QED BY <1>1, <1>5, <2>1
<1> HIDE DEF e, a, b, f
<1>7. 5 * e = 4 + r + s + a /\ a < 5
  BY <1>1, <1>5, <1>6
<1> DEFINE all == r + s
<1>8. all \in Nat /\ all > 1 /\ 5 * e = 4 + all + a
  BY <1>1, <1>5, <1>7
<1> HIDE DEF all
<1>9. e = 1 + I!Up(all - 1, 5)
  BY <1>5, <1>7, <1>8 DEF I!Up
<1>10. I!calc_iocbs(all) = 1 + I!Up(all - 1, 5)
  BY <1>8 DEF I!calc_iocbs
<1>11. I!build_bidir_iocb(j) = e
  BY DEF I!build_bidir_iocb, e, y, x, r, s
<1> QED BY <1>9, <1>10, <1>11 DEF all, r, s

\* Each job's request and reply from entries of their own.
LEMMA OwnEntries ==
  ASSUME NEW n \in Nat, n >= 1
  PROVE  I!PutDsds(I!First(1), 5, n).entries = 1 + I!Up(n - 1, 5)
<1>1. I!PutDsds(I!First(1), 5, n).entries = 1 + IF n > 1 THEN I!Up(n - 1, 5) ELSE 0
  BY BuiltFrom
<1>2. n = 1 => I!Up(n - 1, 5) = 0
  BY DEF I!Up
<1> QED BY <1>1, <1>2

LEMMA CtCount ==
  ASSUME NEW n \in Nat, n >= 2
  PROVE  I!calc_ct_iocbs(n) = 1 + I!Up(n - 2, 5)
<1>1. n = 2 => I!Up(n - 2, 5) = 0
  BY DEF I!Up
<1> QED BY <1>1 DEF I!calc_ct_iocbs

\* What a job is said to be: kind, entries, DSDs and whether both of its parts
\* have several.
JobFact(f, kind, reserved, written, dsds, put, wide) ==
  /\ f.kind = kind /\ f.reserved = reserved /\ f.written = written
  /\ f.told = written % 256 /\ f.dsds = dsds /\ f.put = put /\ f.wide = wide
  /\ f.over = FALSE /\ f.bug = FALSE /\ f.cdb = TRUE

\* I!JobFacts calls it Of.
AsJob(kind, reserved, written, dsds, put, wide) ==
  [I!Fact(kind, reserved, written, written % 256) EXCEPT
     !.dsds = dsds, !.put = put, !.wide = wide]

LEMMA JobFactIs ==
  ASSUME NEW kind, NEW reserved, NEW written, NEW dsds, NEW put, NEW wide
  PROVE  JobFact(AsJob(kind, reserved, written, dsds, put, wide),
                 kind, reserved, written, dsds, put, wide)
BY Zenon DEF I!Fact, JobFact, AsJob

LEMMA JobFactRight ==
  ASSUME NEW f, NEW kind, NEW reserved \in Int, NEW written \in 1..255, NEW dsds, NEW put, NEW wide,
         JobFact(f, kind, reserved, written, dsds, put, wide),
         written <= reserved \/ (kind = "fxdisc" /\ wide),
         dsds = put \/ kind = "ct"
  PROVE  RightFact(f)
<1>1. written % 256 = written
  OBVIOUS
<1> QED BY <1>1 DEF JobFact, RightFact

LEMMA JobFactsAreRight ==
  ASSUME NEW j \in Jobs, NEW f \in I!JobFacts(j)
  PROVE  RightFact(f)
<1> DEFINE r == j.req
           s == j.rsp
           all == r + s
           ct == I!calc_ct_iocbs(all)
           wide == r > 1 /\ s > 1
           announced == IF ring_chip \in {"2x32", "2x64"} THEN r + 1 ELSE all
<1>1. r \in 1..128 /\ s \in 1..128
  BY JobIs
<1>2. \/ f = AsJob("fxdisc", ct, I!fxdisc_iocb(j), all, all, wide)
      \/ f = AsJob("ct", ct, I!ct_iocb(j), announced, 1 + s, wide)
      \/ f = AsJob("bidir", I!calc_iocbs(all), I!build_bidir_iocb(j), all, all, wide)
  BY Zenon DEF I!JobFacts, AsJob
<1>3. /\ I!PutDsds(I!First(1), 5, r).entries = 1 + I!Up(r - 1, 5)
      /\ I!PutDsds(I!First(1), 5, s).entries = 1 + I!Up(s - 1, 5)
  <2>1. r \in Nat /\ r >= 1 /\ s \in Nat /\ s >= 1
    BY <1>1
  <2> QED BY <2>1, OwnEntries
<1> HIDE DEF r, s
<1>4. ct = 1 + I!Up(all - 2, 5)
  <2>1. all \in Nat /\ all >= 2
    BY <1>1
  <2> HIDE DEF all
  <2> QED BY <2>1, CtCount
<1> HIDE DEF ct
<1>5. /\ I!Up(r - 1, 5) \in 0..52 /\ I!Up(s - 1, 5) \in 0..52 /\ I!Up(all - 2, 5) \in 0..52
      /\ I!Up(s - 1, 5) <= I!Up(all - 2, 5)
      /\ I!Up(all - 1, 5) \in 0..52
  <2>1. /\ r - 1 \in Nat /\ s - 1 \in Nat /\ all - 2 \in Nat /\ all - 1 \in Nat
        /\ r - 1 <= 256 /\ s - 1 <= 256 /\ all - 2 <= 256 /\ all - 1 <= 256
        /\ s - 1 <= all - 2
    BY <1>1
  <2> HIDE DEF all
  <2>2. \A n \in Nat : n <= n
    OBVIOUS
  <2>3. /\ I!Up(r - 1, 5) \in 0..52 /\ I!Up(all - 2, 5) \in 0..52 /\ I!Up(all - 1, 5) \in 0..52
    BY <2>1, <2>2, UpFive
  <2>4. I!Up(s - 1, 5) \in 0..52 /\ I!Up(s - 1, 5) <= I!Up(all - 2, 5)
    BY <2>1, UpFive
  <2> QED BY <2>3, <2>4
<1>6. CASE f = AsJob("fxdisc", ct, I!fxdisc_iocb(j), all, all, wide)
  <2> DEFINE e == I!fxdisc_iocb(j)
  <2>1. JobFact(f, "fxdisc", ct, e, all, all, wide)
    BY <1>6, JobFactIs
  <2>2. e = 1 + I!Up(r - 1, 5) + (1 + I!Up(s - 1, 5)) - 1
    BY <1>3 DEF I!fxdisc_iocb, r, s
  <2> HIDE DEF e
  <2>3. e \in 1..255 /\ e = 1 + I!Up(r - 1, 5) + I!Up(s - 1, 5) /\ ct \in Int
    BY <1>4, <1>5, <2>2
  <2>4. e <= ct \/ wide
    <3>1. CASE r = 1
      <4>1. I!Up(r - 1, 5) = 0
        BY <3>1 DEF I!Up
      <4>2. e = 1 + I!Up(s - 1, 5)
        BY <1>5, <2>3, <4>1
      <4> QED BY <1>4, <1>5, <4>2
    <3>2. CASE s = 1
      <4>1. I!Up(s - 1, 5) = 0
        BY <3>2 DEF I!Up
      <4>2. e = 1 + I!Up(r - 1, 5) /\ r - 1 = all - 2
        BY <1>1, <1>5, <2>3, <3>2, <4>1
      <4>3. e = ct
        BY <1>4, <4>2
      <4> QED BY <2>3, <4>3
    <3> QED BY <1>1, <3>1, <3>2
  <2> HIDE DEF all, wide
  <2> QED BY <2>1, <2>3, <2>4, JobFactRight
<1>7. CASE f = AsJob("ct", ct, I!ct_iocb(j), announced, 1 + s, wide)
  <2> DEFINE e == I!ct_iocb(j)
             put == 1 + s
  <2>1. JobFact(f, "ct", ct, e, announced, put, wide)
    BY <1>7, JobFactIs
  <2>2. e = 1 + I!Up(s - 1, 5)
    BY <1>3 DEF I!ct_iocb, s
  <2> HIDE DEF e, put, announced, wide, all
  <2>3. e \in 1..255 /\ ct \in Int /\ e <= ct
    BY <1>4, <1>5, <2>2
  <2> QED BY <2>1, <2>3, JobFactRight
<1>8. CASE f = AsJob("bidir", I!calc_iocbs(all), I!build_bidir_iocb(j), all, all, wide)
  <2> DEFINE e == I!build_bidir_iocb(j)
             d == I!calc_iocbs(all)
  <2>1. JobFact(f, "bidir", d, e, all, all, wide)
    BY <1>8, JobFactIs
  <2>2. e = d
    BY BidirIs DEF r, s
  <2>3. d = 1 + I!Up(all - 1, 5)
    <3>1. all > 1
      BY <1>1
    <3> QED BY <3>1 DEF I!calc_iocbs
  <2> HIDE DEF e, d, wide, all
  <2>4. e \in 1..255 /\ d \in Int /\ e <= d
    BY <1>5, <2>2, <2>3
  <2> QED BY <2>1, <2>4, JobFactRight
<1> QED BY <1>2, <1>6, <1>7, <1>8

--------------------------------------------------------------------------
(* Giving back.                                                            *)

\* The lists that a command holds return to the adapter.
LEMMA FreeIs ==
  ASSUME NEW sp, HeldSp(sp), NEW p, p \in PoolSet, p.list >= 0, p.avail = p.list,
         p.avail + p.inuse < Chains
  PROVE  /\ PoolOk(I!sp_free_dma(sp, p).pool)
         /\ I!sp_free_dma(sp, p).pool.inuse = p.inuse - sp.has["gbl"]
<1> DEFINE n == sp.has["gbl"]
           q == I!sp_free_dma(sp, p).pool
<1>1. "gbl" \in I!Things
  BY DEF I!Things
<1>2. n \in Int /\ n >= 0 /\ (n # 0 => "FCP_CMND_DMA_VALID" \in sp.flags)
  BY <1>1 DEF HeldSp, SpSet
<1>3. q = IF "FCP_CMND_DMA_VALID" \in sp.flags THEN I!splice(p, n) ELSE p
  BY Zenon DEF I!sp_free_dma
<1> HIDE DEF q, n
<1> DEFINE l == p.list
           a == p.avail
           u == p.inuse
<1>4. l \in Int /\ a \in Int /\ u \in Int /\ l >= 0 /\ a = l /\ a + u < Chains /\ Chains \in Int
  BY RingSizes DEF PoolSet
<1>5. CASE "FCP_CMND_DMA_VALID" \in sp.flags
  <2>1. q = [list |-> l + n, avail |-> a + n, inuse |-> u - n]
    BY <1>3, <1>5 DEF I!splice
  <2> HIDE DEF l, a, u
  <2>2. l + n \in Int /\ a + n \in Int /\ u - n \in Int /\ l + n >= 0 /\ a + n = l + n
        /\ (a + n) + (u - n) < Chains
    BY <1>2, <1>4
  <2>3. q \in PoolSet /\ q.list = l + n /\ q.avail = a + n /\ q.inuse = u - n
    BY <2>1, <2>2 DEF PoolSet
  <2>4. PoolOk(q) /\ q.inuse = u - n
    BY <2>2, <2>3 DEF PoolOk
  <2> QED BY <2>4 DEF q, n, u
<1>6. CASE "FCP_CMND_DMA_VALID" \notin sp.flags
  <2>1. q = p /\ n = 0
    BY <1>2, <1>3, <1>6
  <2>2. u = u - n
    BY <1>4, <2>1
  <2>3. PoolOk(q)
    BY <2>1 DEF PoolOk
  <2> QED BY <2>1, <2>2, <2>3 DEF q, n
<1> QED BY <1>5, <1>6

LEMMA NothingHeld == HeldSp(I!NoSp) /\ I!NoSp \in SpSet /\ I!NoSp.has["gbl"] = 0
BY NoSpIs DEF NoLists, HeldSp

--------------------------------------------------------------------------
(* The clock.                                                              *)

LEMMA JiffiesIs ==
  /\ Jiffies \in Nat /\ Jiffies > 2
  /\ Jiffies \div 2 \in Nat /\ 2 * (Jiffies \div 2) = Jiffies
  /\ Delays \subseteq 1..(Jiffies \div 2) - 1
<1>1. /\ Jiffies \in Nat /\ Jiffies > 2 /\ Jiffies % 2 = 0
      /\ Delays \subseteq 1..(Jiffies \div 2) - 1
  BY MCRoutinesAssumption DEF I!IocbBuildAssumption
<1> QED BY <1>1

LEMMA Apart ==
  ASSUME NEW J \in Nat, J > 0, NEW a \in 0..J - 1, NEW b \in 0..J - 1
  PROVE  (a - b) % J = IF a >= b THEN a - b ELSE a - b + J
OBVIOUS

LEMMA Together ==
  ASSUME NEW J \in Nat, J > 0, NEW a \in 0..J - 1, NEW d \in 0..J - 1
  PROVE  (a + d) % J = IF a + d < J THEN a + d ELSE a + d - J
OBVIOUS

LEMMA Later ==
  ASSUME NEW J \in Nat, J > 2, NEW a \in 0..J - 1, NEW b \in 0..J - 1, NEW n \in 0..J - 2,
         (a - b) % J = n
  PROVE  (((a + 1) % J) - b) % J = n + 1
<1> DEFINE c == (a + 1) % J
<1>1. c = IF a + 1 < J THEN a + 1 ELSE a + 1 - J
  <2>1. 1 \in 0..J - 1 /\ J > 0
    OBVIOUS
  <2> QED BY <2>1, Together
<1>2. c \in 0..J - 1
  BY <1>1
<1> HIDE DEF c
<1>3. (c - b) % J = IF c >= b THEN c - b ELSE c - b + J
  BY <1>2, Apart
<1>4. n = IF a >= b THEN a - b ELSE a - b + J
  BY Apart
<1>5. (c - b) % J = n + 1
  BY <1>1, <1>2, <1>3, <1>4
<1> QED BY <1>5 DEF c

LEMMA Sooner ==
  ASSUME NEW J \in Nat, J > 2, NEW a \in 0..J - 1, NEW b \in 0..J - 1, NEW n \in 1..J - 1,
         (b - a) % J = n
  PROVE  (b - ((a + 1) % J)) % J = n - 1
<1> DEFINE c == (a + 1) % J
<1>1. c = IF a + 1 < J THEN a + 1 ELSE a + 1 - J
  <2>1. 1 \in 0..J - 1 /\ J > 0
    OBVIOUS
  <2> QED BY <2>1, Together
<1>2. c \in 0..J - 1
  BY <1>1
<1> HIDE DEF c
<1>3. (b - c) % J = IF b >= c THEN b - c ELSE b - c + J
  BY <1>2, Apart
<1>4. n = IF b >= a THEN b - a ELSE b - a + J
  BY Apart
<1>5. (b - c) % J = n - 1
  BY <1>1, <1>2, <1>3, <1>4
<1> QED BY <1>5 DEF c

LEMMA Ahead ==
  ASSUME NEW J \in Nat, J > 2, NEW a \in 0..J - 1, NEW d \in 1..J - 1
  PROVE  (a + d) % J \in 0..J - 1 /\ (((a + d) % J) - a) % J = d
<1> DEFINE c == (a + d) % J
<1>1. c = IF a + d < J THEN a + d ELSE a + d - J
  BY Together
<1>2. c \in 0..J - 1
  BY <1>1
<1> HIDE DEF c
<1>3. (c - a) % J = IF c >= a THEN c - a ELSE c - a + J
  BY <1>2, Apart
<1>4. (c - a) % J = d
  BY <1>1, <1>2, <1>3
<1> QED BY <1>2, <1>4 DEF c

\* The timestamp is pending ticks ahead of the clock, or old ticks behind it.
ClockIs(j, r, p, o) ==
  /\ j \in 0..Jiffies - 1 /\ r \in 0..Jiffies - 1
  /\ p \in 0..(Jiffies \div 2) - 1 /\ o \in 0..Jiffies
  /\ r # 0 /\ p > 0 => (r - j) % Jiffies = p
  /\ r # 0 /\ p = 0 /\ o < Jiffies \div 2 => (j - r) % Jiffies = o

\* I!RefusedWhileDelayed of a refusal now.
MayRefuse(j, r, p, o) ==
  \/ p > 0
  \/ r # 0 /\ o = 0
  \/ r = 0 /\ j \notin 1..Jiffies \div 2
  \/ o >= Jiffies \div 2

LEMMA RefusalIsRight ==
  ASSUME NEW j, NEW r, NEW p, NEW o, ClockIs(j, r, p, o),
         ~((r - j) % Jiffies >= Jiffies \div 2)
  PROVE  MayRefuse(j, r, p, o)
<1> DEFINE h == Jiffies \div 2
<1>1. /\ Jiffies \in Nat /\ Jiffies > 2 /\ h \in Nat /\ 2 * h = Jiffies
  BY JiffiesIs
<1>2. /\ j \in 0..Jiffies - 1 /\ r \in 0..Jiffies - 1 /\ p \in 0..h - 1 /\ o \in 0..Jiffies
      /\ r # 0 /\ p = 0 /\ o < h => (j - r) % Jiffies = o
  BY DEF ClockIs
<1>3. (r - j) % Jiffies < h
  <2> DEFINE x == (r - j) % Jiffies
  <2>1. x \in Int /\ ~(x >= h)
    BY <1>1, <1>2
  <2> HIDE DEF x, h
  <2>2. x < h
    BY <1>1, <2>1
  <2> QED BY <2>2 DEF x
<1> HIDE DEF h
<1>4. (r - j) % Jiffies = IF r >= j THEN r - j ELSE r - j + Jiffies
  BY <1>1, <1>2, Apart
<1>5. (j - r) % Jiffies = IF j >= r THEN j - r ELSE j - r + Jiffies
  BY <1>1, <1>2, Apart
<1>6. CASE r = 0
  <2>1. j \notin 1..h
    BY <1>1, <1>2, <1>3, <1>4, <1>6
  <2> QED BY <1>6, <2>1 DEF MayRefuse, h
<1>7. CASE r # 0 /\ p = 0 /\ o < h /\ o # 0
  <2>1. (j - r) % Jiffies = o
    BY <1>2, <1>7
  <2> QED BY <1>1, <1>2, <1>3, <1>4, <1>5, <1>7, <2>1
<1>8. CASE r # 0 /\ p = 0 /\ ~(o < h)
  <2>1. o >= h
    BY <1>1, <1>2, <1>8
  <2> QED BY <2>1 DEF MayRefuse, h
<1>9. CASE r # 0 /\ (p # 0 \/ o = 0)
  <2>1. p # 0 => p > 0
    BY <1>1, <1>2
  <2> QED BY <1>9, <2>1 DEF MayRefuse
<1> QED BY <1>6, <1>7, <1>8, <1>9

LEMMA TickIs ==
  ASSUME NEW j, NEW r, NEW p, NEW o, ClockIs(j, r, p, o)
  PROVE  ClockIs((j + 1) % Jiffies, r, IF p > 0 THEN p - 1 ELSE 0,
                 IF p > 0 \/ r = 0 THEN 0 ELSE I!Lowest(o + 1, Jiffies))
<1> DEFINE h == Jiffies \div 2
           i == (j + 1) % Jiffies
           q == IF p > 0 THEN p - 1 ELSE 0
           n == IF p > 0 \/ r = 0 THEN 0 ELSE I!Lowest(o + 1, Jiffies)
<1>1. /\ Jiffies \in Nat /\ Jiffies > 2 /\ h \in Nat /\ 2 * h = Jiffies
  BY JiffiesIs
<1>2. /\ j \in 0..Jiffies - 1 /\ r \in 0..Jiffies - 1 /\ p \in 0..h - 1 /\ o \in 0..Jiffies
      /\ r # 0 /\ p > 0 => (r - j) % Jiffies = p
      /\ r # 0 /\ p = 0 /\ o < h => (j - r) % Jiffies = o
  BY DEF ClockIs
<1> HIDE DEF h
<1>3. i \in 0..Jiffies - 1
  BY <1>1, <1>2
<1>4. q \in 0..h - 1 /\ n \in 0..Jiffies
  BY <1>1, <1>2 DEF I!Lowest
<1>5. ASSUME r # 0, q > 0 PROVE (r - i) % Jiffies = q
  <2>1. p > 0 /\ q = p - 1 /\ p \in 1..Jiffies - 1
    BY <1>1, <1>2, <1>5
  <2>2. (r - j) % Jiffies = p
    BY <1>2, <1>5, <2>1
  <2> HIDE DEF q
  <2>3. (r - i) % Jiffies = p - 1
    BY <1>1, <1>2, <2>1, <2>2, Sooner
  <2> QED BY <2>1, <2>3
<1>6. ASSUME r # 0, q = 0, n < h PROVE (i - r) % Jiffies = n
  <2>1. CASE p > 0
    <3>1. p = 1 /\ n = 0
      BY <1>1, <1>2, <1>6, <2>1
    <3>2. (r - j) % Jiffies = 1
      BY <1>2, <1>6, <3>1
    <3>3. 1 \in 1..Jiffies - 1 /\ 1 - 1 = 0
      BY <1>1
    <3>4. (r - i) % Jiffies = 0
      BY SMTT(30), <1>1, <1>2, <3>2, <3>3, Sooner
    <3> HIDE DEF i, n
    <3>5. (r - i) % Jiffies = IF r >= i THEN r - i ELSE r - i + Jiffies
      BY <1>1, <1>2, <1>3, Apart
    <3>6. r = i
      BY <1>1, <1>2, <1>3, <3>4, <3>5
    <3>7. (i - r) % Jiffies = IF i >= r THEN i - r ELSE i - r + Jiffies
      BY <1>1, <1>2, <1>3, Apart
    <3> QED BY <1>1, <1>2, <3>1, <3>6, <3>7
  <2>2. CASE ~(p > 0)
    <3>1. p = 0
      BY <1>1, <1>2, <2>2
    <3>2. n = I!Lowest(o + 1, Jiffies)
      BY <1>6, <2>2
    <3> HIDE DEF n
    <3>3. n = o + 1 /\ o < h
      BY <1>1, <1>2, <1>6, <3>2 DEF I!Lowest
    <3>4. (j - r) % Jiffies = o /\ o \in 0..Jiffies - 2
      BY <1>1, <1>2, <1>6, <3>1, <3>3
    <3>5. (i - r) % Jiffies = o + 1
      BY <1>1, <1>2, <3>4, Later
    <3> QED BY <3>3, <3>5
  <2> QED BY <2>1, <2>2
<1> HIDE DEF i, q, n
<1>7. ClockIs(i, r, q, n)
  BY <1>2, <1>3, <1>4, <1>5, <1>6 DEF ClockIs, h
<1> QED BY <1>7 DEF i, q, n

LEMMA DelayIs ==
  ASSUME NEW j, NEW r, NEW p, NEW o, ClockIs(j, r, p, o), NEW d \in Delays
  PROVE  ClockIs(j, (j + d) % Jiffies, d, 0)
<1> DEFINE h == Jiffies \div 2
           s == (j + d) % Jiffies
<1>1. /\ Jiffies \in Nat /\ Jiffies > 2 /\ h \in Nat /\ 2 * h = Jiffies /\ d \in 1..h - 1
  BY JiffiesIs
<1>2. j \in 0..Jiffies - 1
  BY DEF ClockIs
<1> HIDE DEF h
<1>3. d \in 1..Jiffies - 1 /\ d \in 0..h - 1 /\ d > 0 /\ 0 \in 0..Jiffies /\ d # 0
  BY <1>1
<1>4. s \in 0..Jiffies - 1 /\ (s - j) % Jiffies = d
  BY <1>1, <1>2, <1>3, Ahead
<1> HIDE DEF s
<1>5. ClockIs(j, s, d, 0)
  BY <1>2, <1>3, <1>4 DEF ClockIs, h
<1> QED BY <1>5 DEF s

LEMMA DueIs ==
  ASSUME NEW j, NEW r, NEW p, NEW o, ClockIs(j, r, p, o)
  PROVE  ClockIs(j, 0, p, 0)
BY JiffiesIs DEF ClockIs

--------------------------------------------------------------------------
(* The inductive invariant of the ring's part.                             *)

HeldIsCounted ==
  /\ ring_chip \in I!Chips
  /\ sps \in [SrbSlots -> SpSet]
  /\ \A s \in SrbSlots : HeldSp(sps[s])
  /\ PoolOk(gbl_dsd)
  /\ gbl_dsd.inuse = Out(sps)

BuiltIsRight == built.kind # "none" => RightFact(built)

DelayIsKnown ==
  /\ ClockIs(jiffies, retry_delay_timestamp, pending, old)
  /\ refused => MayRefuse(jiffies, retry_delay_timestamp, pending, old)

CommandInv == HeldIsCounted /\ BuiltIsRight /\ DelayIsKnown

LEMMA NothingBuilt == I!NotBuilt.kind = "none"
BY DEF I!NotBuilt

LEMMA CommandInit == RoutinesInit => CommandInv
<1> SUFFICES ASSUME I!Init PROVE CommandInv
  BY DEF RoutinesInit
<1>1. /\ ring_chip \in I!Chips /\ sps = [s \in SrbSlots |-> I!NoSp]
      /\ gbl_dsd = [list |-> 0, avail |-> 0, inuse |-> 0] /\ built = I!NotBuilt
      /\ jiffies \in 0..Jiffies - 1 \/ jiffies = 1
      /\ retry_delay_timestamp = 0 /\ pending = 0 /\ old = 0 /\ refused = FALSE
  BY DEF I!Init
<1>2. HeldIsCounted
  <2>1. sps \in [SrbSlots -> SpSet] /\ \A s \in SrbSlots : sps[s] = I!NoSp
    BY <1>1, NothingHeld
  <2>2. Out(sps) = 0
    BY <2>1, NothingHeld, OutIsZero
  <2>3. PoolOk(gbl_dsd) /\ gbl_dsd.inuse = 0
    BY <1>1, RingSizes DEF PoolOk, PoolSet
  <2> QED BY <1>1, <2>1, <2>2, <2>3, NothingHeld DEF HeldIsCounted
<1>3. BuiltIsRight
  BY <1>1, NothingBuilt DEF BuiltIsRight
<1>4. DelayIsKnown
  BY <1>1, JiffiesIs DEF DelayIsKnown, ClockIs
<1> QED BY <1>2, <1>3, <1>4 DEF CommandInv

\* The port is asked for no delay any more.
LEMMA DueStep ==
  ASSUME DelayIsKnown, I!Due
  PROVE  DelayIsKnown'
<1>1. ClockIs(jiffies, 0, pending, 0)
  BY DueIs DEF DelayIsKnown
<1>2. jiffies' = jiffies /\ retry_delay_timestamp' = 0 /\ pending' = pending /\ old' = 0
      /\ refused' = FALSE
  BY DEF I!Due
<1> QED BY <1>1, <1>2 DEF DelayIsKnown

LEMMA HeldStays ==
  ASSUME HeldIsCounted, UNCHANGED <<ring_chip, sps, gbl_dsd>>
  PROVE  HeldIsCounted'
BY DEF HeldIsCounted

LEMMA QueueCommandStep ==
  ASSUME CommandInv, NEW s \in SrbSlots, NEW c \in Commands, I!QueueCommand(s, c)
  PROVE  CommandInv'
<1>0. /\ HeldIsCounted /\ DelayIsKnown
  BY DEF CommandInv
<1>1. PICK w \in I!Ways(c) :
        sps' = [sps EXCEPT ![s] = w.sp] /\ gbl_dsd' = w.pool /\ built' = I!ScsiFact(c, w)
  BY DEF I!QueueCommand
<1>2. ~sps[s].live /\ I!Offered(c) /\ I!Due /\ ring_chip' = ring_chip
  BY DEF I!QueueCommand
<1>3. WayOk(w, gbl_dsd) /\ RightFact(I!ScsiFact(c, w))
  BY <1>0, <1>2, WaysOk, ScsiFactIsRight DEF HeldIsCounted
<1>4. HeldIsCounted'
  <2> DEFINE n == w.sp.has["gbl"]
  <2>1. HeldSp(w.sp) /\ w.sp \in SpSet /\ PoolOk(w.pool) /\ w.pool.inuse = gbl_dsd.inuse + n
    BY <1>3 DEF WayOk, HeldSp
  <2>2. sps[s].has["gbl"] = 0
    BY <1>0, <1>2 DEF HeldIsCounted, HeldSp
  <2>3. Out(sps') = Out(sps) + n - 0
    BY <1>0, <1>1, <2>1, <2>2, OutChanges DEF HeldIsCounted
  <2>4. n \in Int /\ Out(sps) \in Int
    <3>1. "gbl" \in I!Things
      BY DEF I!Things
    <3>2. Out(sps) \in Int
      BY <1>0, OutIsInt DEF HeldIsCounted
    <3> QED BY <2>1, <3>1, <3>2 DEF SpSet
  <2> HIDE DEF n
  <2>5. gbl_dsd'.inuse = Out(sps')
    BY <1>0, <1>1, <2>1, <2>3, <2>4 DEF HeldIsCounted
  <2>6. sps' \in [SrbSlots -> SpSet] /\ \A k \in SrbSlots : HeldSp(sps'[k])
    BY <1>0, <1>1, <2>1 DEF HeldIsCounted
  <2> QED BY <1>0, <1>1, <1>2, <2>1, <2>5, <2>6 DEF HeldIsCounted
<1>5. BuiltIsRight'
  BY <1>1, <1>3 DEF BuiltIsRight
<1>6. DelayIsKnown'
  BY <1>0, <1>2, DueStep
<1> QED BY <1>4, <1>5, <1>6 DEF CommandInv

LEMMA QueueBusyStep ==
  ASSUME CommandInv, NEW c \in Commands, I!QueueBusy(c)
  PROVE  CommandInv'
<1>0. /\ HeldIsCounted /\ DelayIsKnown
  BY DEF CommandInv
<1>1. PICK w \in I!Ways(c) : gbl_dsd' = I!sp_free_dma(w.sp, w.pool).pool
  BY DEF I!QueueBusy
<1>2. /\ I!Offered(c) /\ I!Due /\ ring_chip' = ring_chip /\ sps' = sps
      /\ built' = I!NotBuilt
  BY DEF I!QueueBusy
<1>3. WayOk(w, gbl_dsd)
  BY <1>0, <1>2, WaysOk DEF HeldIsCounted
<1>4. HeldIsCounted'
  <2> DEFINE n == w.sp.has["gbl"]
             q == I!sp_free_dma(w.sp, w.pool).pool
  <2>1. /\ HeldSp(w.sp) /\ w.sp \in SpSet /\ w.pool.inuse = gbl_dsd.inuse + n
        /\ w.pool \in PoolSet /\ w.pool.list >= 0 /\ w.pool.avail = w.pool.list
        /\ w.pool.avail + w.pool.inuse < Chains
    BY <1>3 DEF WayOk, HeldSp, PoolOk
  <2>2. PoolOk(q) /\ q.inuse = w.pool.inuse - n
    BY <2>1, FreeIs
  <2>3. n \in Int /\ gbl_dsd.inuse \in Int
    <3>1. "gbl" \in I!Things
      BY DEF I!Things
    <3> QED BY <1>0, <2>1, <3>1 DEF SpSet, HeldIsCounted, PoolOk, PoolSet
  <2> HIDE DEF q, n
  <2>4. q.inuse = gbl_dsd.inuse
    BY <2>1, <2>2, <2>3
  <2>5. gbl_dsd' = q
    BY <1>1 DEF q
  <2> QED BY <1>0, <1>2, <2>2, <2>4, <2>5 DEF HeldIsCounted
<1>5. BuiltIsRight'
  BY <1>2, NothingBuilt DEF BuiltIsRight
<1>6. DelayIsKnown'
  BY <1>0, <1>2, DueStep
<1> QED BY <1>4, <1>5, <1>6 DEF CommandInv

LEMMA CompleteStep ==
  ASSUME CommandInv, NEW s \in SrbSlots, I!Complete(s)
  PROVE  CommandInv'
<1>0. /\ HeldIsCounted /\ DelayIsKnown
  BY DEF CommandInv
<1>1. /\ gbl_dsd' = I!sp_free_dma(sps[s], gbl_dsd).pool
      /\ sps' = [sps EXCEPT ![s] = I!NoSp]
      /\ built' = I!NotBuilt /\ refused' = FALSE /\ ring_chip' = ring_chip
  BY DEF I!Complete
<1>2. HeldIsCounted'
  <2> DEFINE n == sps[s].has["gbl"]
             q == I!sp_free_dma(sps[s], gbl_dsd).pool
  <2>1. /\ HeldSp(sps[s]) /\ sps[s] \in SpSet
        /\ gbl_dsd \in PoolSet /\ gbl_dsd.list >= 0 /\ gbl_dsd.avail = gbl_dsd.list
        /\ gbl_dsd.avail + gbl_dsd.inuse < Chains
    BY <1>0 DEF HeldIsCounted, PoolOk
  <2>2. PoolOk(q) /\ q.inuse = gbl_dsd.inuse - n
    BY <2>1, FreeIs
  <2>3. Out(sps') = Out(sps) + 0 - n
    BY <1>0, <1>1, NothingHeld, OutChanges DEF HeldIsCounted
  <2>4. n \in Int /\ Out(sps) \in Int
    <3>1. "gbl" \in I!Things
      BY DEF I!Things
    <3>2. Out(sps) \in Int
      BY <1>0, OutIsInt DEF HeldIsCounted
    <3> QED BY <2>1, <3>1, <3>2 DEF SpSet
  <2>5. gbl_dsd' = q
    BY <1>1
  <2> HIDE DEF n, q
  <2>6. gbl_dsd'.inuse = Out(sps')
    BY <1>0, <2>2, <2>3, <2>4, <2>5 DEF HeldIsCounted
  <2>7. sps' \in [SrbSlots -> SpSet] /\ \A k \in SrbSlots : HeldSp(sps'[k])
    BY <1>0, <1>1, NothingHeld DEF HeldIsCounted
  <2> QED BY <1>0, <1>1, <2>2, <2>5, <2>6, <2>7 DEF HeldIsCounted
<1>3. BuiltIsRight'
  BY <1>1, NothingBuilt DEF BuiltIsRight
<1>4. DelayIsKnown'
  <2>1. CASE UNCHANGED I!clock
    BY <1>0, <1>1, <2>1 DEF DelayIsKnown, I!clock
  <2>2. ASSUME NEW d \in Delays, retry_delay_timestamp' = (jiffies + d) % Jiffies,
               pending' = d, old' = 0, jiffies' = jiffies
        PROVE  DelayIsKnown'
    <3>1. ClockIs(jiffies, (jiffies + d) % Jiffies, d, 0)
      BY <1>0, DelayIs DEF DelayIsKnown
    <3> QED BY <1>1, <2>2, <3>1 DEF DelayIsKnown
  <2> QED BY <2>1, <2>2 DEF I!Complete
<1> QED BY <1>2, <1>3, <1>4 DEF CommandInv

LEMMA TickStep ==
  ASSUME CommandInv, I!Tick
  PROVE  CommandInv'
<1>0. /\ HeldIsCounted /\ DelayIsKnown
  BY DEF CommandInv
<1>1. HeldIsCounted'
  BY <1>0, HeldStays DEF I!Tick
<1>2. BuiltIsRight'
  BY NothingBuilt DEF BuiltIsRight, I!Tick
<1>3. DelayIsKnown'
  <2>1. ClockIs((jiffies + 1) % Jiffies, retry_delay_timestamp, IF pending > 0 THEN pending - 1 ELSE 0,
                IF pending > 0 \/ retry_delay_timestamp = 0 THEN 0 ELSE I!Lowest(old + 1, Jiffies))
    BY <1>0, TickIs DEF DelayIsKnown
  <2>2. /\ jiffies' = (jiffies + 1) % Jiffies
        /\ pending' = IF pending > 0 THEN pending - 1 ELSE 0
        /\ old' = IF pending > 0 \/ retry_delay_timestamp = 0 THEN 0 ELSE I!Lowest(old + 1, Jiffies)
        /\ refused' = FALSE /\ retry_delay_timestamp' = retry_delay_timestamp
    BY DEF I!Tick
  <2> QED BY <2>1, <2>2 DEF DelayIsKnown
<1> QED BY <1>1, <1>2, <1>3 DEF CommandInv

LEMMA QueueDelayedStep ==
  ASSUME CommandInv, I!QueueDelayed
  PROVE  CommandInv'
<1>0. /\ HeldIsCounted /\ DelayIsKnown
  BY DEF CommandInv
<1>1. /\ ~((retry_delay_timestamp - jiffies) % Jiffies >= Jiffies \div 2)
      /\ built' = I!NotBuilt /\ UNCHANGED <<ring_chip, sps, gbl_dsd>> /\ UNCHANGED I!clock
  BY DEF I!QueueDelayed, I!time_after
<1>2. HeldIsCounted'
  BY <1>0, <1>1, HeldStays
<1>3. BuiltIsRight'
  BY <1>1, NothingBuilt DEF BuiltIsRight
<1>4. MayRefuse(jiffies, retry_delay_timestamp, pending, old)
  BY <1>0, <1>1, RefusalIsRight DEF DelayIsKnown
<1>5. DelayIsKnown'
  BY <1>0, <1>1, <1>4 DEF DelayIsKnown, I!clock
<1> QED BY <1>2, <1>3, <1>5 DEF CommandInv

LEMMA BuildJobStep ==
  ASSUME CommandInv, NEW j \in Jobs, I!BuildJob(j)
  PROVE  CommandInv'
<1>0. /\ HeldIsCounted /\ DelayIsKnown
  BY DEF CommandInv
<1>1. /\ built' \in I!JobFacts(j) /\ refused' = FALSE
      /\ UNCHANGED <<ring_chip, sps, gbl_dsd>> /\ UNCHANGED I!clock
  BY DEF I!BuildJob
<1>2. HeldIsCounted'
  BY <1>0, <1>1, HeldStays
<1>3. BuiltIsRight'
  BY <1>1, JobFactsAreRight DEF BuiltIsRight
<1>4. DelayIsKnown'
  BY <1>0, <1>1 DEF DelayIsKnown, I!clock
<1> QED BY <1>2, <1>3, <1>4 DEF CommandInv

LEMMA CommandUnchanged ==
  ASSUME CommandInv, UNCHANGED ringVars
  PROVE  CommandInv'
BY DEF CommandInv, HeldIsCounted, BuiltIsRight, DelayIsKnown, ringVars

LEMMA CommandStep == CommandInv /\ [RoutinesNext]_routineVars => CommandInv'
<1> SUFFICES ASSUME CommandInv, [RoutinesNext]_routineVars PROVE CommandInv'
  OBVIOUS
<1>1. CASE RingNext
  <2>1. ASSUME NEW c \in Commands, I!QueueBusy(c) PROVE CommandInv'
    BY <2>1, QueueBusyStep
  <2>2. ASSUME NEW c \in Commands, NEW s \in SrbSlots, I!QueueCommand(s, c) PROVE CommandInv'
    BY <2>2, QueueCommandStep
  <2>3. ASSUME NEW j \in Jobs, I!BuildJob(j) PROVE CommandInv'
    BY <2>3, BuildJobStep
  <2>4. ASSUME NEW s \in SrbSlots, I!Complete(s) PROVE CommandInv'
    BY <2>4, CompleteStep
  <2>5. CASE I!QueueDelayed \/ I!Tick
    BY <2>5, QueueDelayedStep, TickStep
  <2> QED BY <1>1, <2>1, <2>2, <2>3, <2>4, <2>5 DEF RingNext, I!Next
<1>2. CASE ~RingNext
  <2>1. UNCHANGED ringVars
    BY <1>2 DEF RoutinesNext, MbxNext, VportNext, UnwindNext, routineVars
  <2> QED BY <2>1, CommandUnchanged
<1> QED BY <1>1, <1>2

LEMMA BuiltAsCounted == CommandInv => CommandsAreBuilt
<1> SUFFICES ASSUME CommandInv PROVE CommandsAreBuilt
  OBVIOUS
<1>1. I!WrittenIsReserved /\ I!ToldWhatIsWritten /\ I!ListsAreFilled /\ I!CommandIsSent
  BY DEF CommandInv, BuiltIsRight, RightFact, I!Building, I!WrittenIsReserved,
         I!ToldWhatIsWritten, I!ListsAreFilled, I!CommandIsSent
<1>2. I!ListsAreCounted
  BY DEF CommandInv, HeldIsCounted, PoolOk, Out, I!ListsAreCounted
<1>3. I!RefusedWhileDelayed
  BY DEF CommandInv, DelayIsKnown, MayRefuse, I!RefusedWhileDelayed
<1> QED BY <1>1, <1>2, <1>3 DEF CommandsAreBuilt

--------------------------------------------------------------------------
\* Whatever commands and jobs are queued, in whatever order they end and fail,
\* for any sizes of blocks, lists and rings of lists: no builder writes more
\* entries than were counted (but the job of the FX00 with two long parts), the
\* firmware is told what was written, no DSD list is begun for none, the
\* adapter's lists are counted, no command offered stops the machine or is sent
\* without its CDB (but a long one without protection), and a port refuses
\* commands only in the delay its target has asked for (but for a timestamp
\* that is zero or has not been looked at for half of the range of jiffies).
THEOREM CommandsAlwaysBuilt == RoutinesSpec => []CommandsAreBuilt
BY CommandInit, CommandStep, BuiltAsCounted, PTL DEF RoutinesSpec

--------------------------------------------------------------------------
(* What a command holds, and what its flags say of it.                     *)

One(b) == IF b THEN 1 ELSE 0
MinusOne(b) == IF b THEN -1 ELSE 0
Flagged(sp, f) == One(f \in sp.flags)

\* Each thing a command holds goes with a flag, on which qla2x00_sp_free_dma
\* gives it back.  The slot and the entries of the ring are not among them.
Paired(sp) ==
  /\ sp \in SpSet
  /\ sp.has["data"] = IF sp.sg THEN Flagged(sp, "DMA_VALID") ELSE 0
  /\ sp.has["prot"] = Flagged(sp, "CRC_PROT_DMA_VALID")
  /\ sp.has["crc_ctx"] = Flagged(sp, "CRC_CTX_DMA_VALID")
  /\ "CRC_CTX_DSD_VALID" \notin sp.flags => sp.has["dl"] = 0
  /\ sp.has["ct6_ctx"] = Flagged(sp, "FCP_CMND_DMA_VALID")
  /\ sp.has["fcp_cmnd"] = Flagged(sp, "FCP_CMND_DMA_VALID")
  /\ "FCP_CMND_DMA_VALID" \notin sp.flags => sp.has["gbl"] = 0

\* A command that has no slot and has taken no entry.
Outside(sp) == sp.has["slot"] = 0 /\ sp.has["credit"] = 0

LEMMA ThingsAre ==
  I!Things = {"data", "prot", "crc_ctx", "dl", "ct6_ctx", "fcp_cmnd", "gbl", "credit", "slot"}
BY DEF I!Things

LEMMA FlagsAre ==
  I!Flags = {"DMA_VALID", "CRC_PROT_DMA_VALID", "CRC_CTX_DSD_VALID", "CRC_CTX_DMA_VALID",
             "FCP_CMND_DMA_VALID"}
BY DEF I!Flags

Held == [I!Things -> Int]
Plus(h, t, n) == [h EXCEPT ![t] = @ + n]

LEMMA PlusIs ==
  ASSUME NEW h \in Held, NEW t \in I!Things, NEW n \in Int
  PROVE  /\ Plus(h, t, n) \in Held
         /\ \A u \in I!Things : Plus(h, t, n)[u] = IF u = t THEN h[t] + n ELSE h[u]
<1>1. h[t] + n \in Int
  BY DEF Held
<1> QED BY <1>1 DEF Plus, Held

\* A command that has data or not, with its flags and what it holds.
Is(sp, sg, F, h) ==
  /\ sp \in SpSet /\ sg \in BOOLEAN /\ h \in Held /\ F \subseteq I!Flags
  /\ sp.sg = sg /\ sp.flags = F /\ sp.has = h

LEMMA IsGain ==
  ASSUME NEW sp, NEW sg, NEW F, NEW h, Is(sp, sg, F, h), NEW t \in I!Things, NEW n \in Int
  PROVE  Is(I!Gain(sp, t, n), sg, F, Plus(h, t, n))
<1>1. sp \in SpSet /\ h \in Held /\ sp.has = h
  BY DEF Is
<1>2. I!Gain(sp, t, n) = [sp EXCEPT !.has = Plus(h, t, n)]
  BY <1>1 DEF I!Gain, SpSet, Plus
<1>3. Plus(h, t, n) \in Held
  BY <1>1, PlusIs
<1> QED BY <1>2, <1>3 DEF Is, SpSet, Held

LEMMA IsFlag ==
  ASSUME NEW sp, NEW sg, NEW F, NEW h, Is(sp, sg, F, h), NEW f \in I!Flags
  PROVE  Is(I!Flag(sp, f), sg, F \cup {f}, h)
<1>1. I!Flag(sp, f) = [sp EXCEPT !.flags = F \cup {f}]
  BY DEF I!Flag, SpSet, Is
<1> QED BY <1>1 DEF Is, SpSet, Held

LEMMA OneIsNumber ==
  ASSUME NEW b \in BOOLEAN
  PROVE  One(b) \in Int /\ MinusOne(b) \in Int /\ One(b) + MinusOne(b) = 0
BY DEF One, MinusOne

LEMMA PlusZero ==
  ASSUME NEW h \in Held, NEW t \in I!Things
  PROVE  Plus(h, t, 0) = h
BY DEF Plus, Held

LEMMA IsMap ==
  ASSUME NEW sp, NEW sg, NEW F, NEW h, Is(sp, sg, F, h)
  PROVE  /\ Is(I!Map(sp), sg, F, Plus(h, "data", One(sg)))
         /\ Is(I!Unmap(sp), sg, F, Plus(h, "data", MinusOne(sg)))
<1>0. "data" \in I!Things /\ 1 \in Int /\ -1 \in Int /\ h \in Held /\ sg \in BOOLEAN /\ sp.sg = sg
  BY ThingsAre DEF Is
<1>1. CASE sg
  <2>1. I!Map(sp) = I!Gain(sp, "data", 1) /\ I!Unmap(sp) = I!Gain(sp, "data", -1)
    BY <1>0, <1>1 DEF I!Map, I!Unmap
  <2>2. One(sg) = 1 /\ MinusOne(sg) = -1
    BY <1>1, Zenon DEF One, MinusOne
  <2> QED BY <1>0, <2>1, <2>2, IsGain
<1>2. CASE ~sg
  <2>1. I!Map(sp) = sp /\ I!Unmap(sp) = sp
    BY <1>0, <1>2 DEF I!Map, I!Unmap
  <2>2. One(sg) = 0 /\ MinusOne(sg) = 0
    BY <1>2, Zenon DEF One, MinusOne
  <2>3. Plus(h, "data", One(sg)) = Plus(h, "data", 0)
        /\ Plus(h, "data", MinusOne(sg)) = Plus(h, "data", 0)
    BY <2>2, Zenon
  <2>4. Plus(h, "data", 0) = h
    BY <1>0, PlusZero
  <2> QED BY <2>1, <2>3, <2>4
<1> QED BY <1>0, <1>1, <1>2

LEMMA IsEnter ==
  ASSUME NEW sp, NEW sg, NEW F, NEW h, Is(sp, sg, F, h), NEW n \in Int
  PROVE  Is(I!Enter(sp, n), sg, F, Plus(Plus(h, "slot", 1), "credit", n))
<1>1. "slot" \in I!Things /\ "credit" \in I!Things /\ 1 \in Int
  BY ThingsAre
<1>2. Is(I!Gain(sp, "slot", 1), sg, F, Plus(h, "slot", 1))
  BY <1>1, IsGain
<1> QED BY <1>1, <1>2, IsGain DEF I!Enter

LEMMA IsLive ==
  ASSUME NEW sp, NEW sg, NEW F, NEW h, Is(sp, sg, F, h)
  PROVE  Is(Live(sp), sg, F, h)
BY DEF Is, Live, SpSet

LEMMA IsNew ==
  ASSUME NEW n \in Nat
  PROVE  Is(I!Sp(n), n > 0, {}, I!Nothing)
<1>1. (n > 0) \in BOOLEAN
  OBVIOUS
<1>2. I!Nothing \in Held
  BY DEF I!Nothing, Held
<1> QED BY <1>1, <1>2 DEF Is, SpSet, Held, I!Sp, I!NoSp

\* Being paired is a matter of the flags and of what is held.
LEMMA IsPaired ==
  ASSUME NEW sp, NEW sg, NEW F, NEW h, Is(sp, sg, F, h),
         h["data"] = IF sg THEN One("DMA_VALID" \in F) ELSE 0,
         h["prot"] = One("CRC_PROT_DMA_VALID" \in F),
         h["crc_ctx"] = One("CRC_CTX_DMA_VALID" \in F),
         "CRC_CTX_DSD_VALID" \notin F => h["dl"] = 0,
         h["ct6_ctx"] = One("FCP_CMND_DMA_VALID" \in F),
         h["fcp_cmnd"] = One("FCP_CMND_DMA_VALID" \in F),
         "FCP_CMND_DMA_VALID" \notin F => h["gbl"] = 0
  PROVE  Paired(sp)
<1>1. sp \in SpSet /\ sp.sg = sg /\ sp.flags = F /\ sp.has = h
  BY DEF Is
<1> QED BY <1>1, Zenon DEF Paired, Flagged

\* What a command that is paired is left with.
LEMMA FreeLeaves ==
  ASSUME NEW sp, Paired(sp), NEW p
  PROVE  /\ I!sp_free_dma(sp, p).sp.has \in Held
         /\ I!sp_free_dma(sp, p).sp.has["slot"] = sp.has["slot"]
         /\ I!sp_free_dma(sp, p).sp.has["credit"] = sp.has["credit"]
         /\ \A t \in I!Things \ {"slot", "credit"} : I!sp_free_dma(sp, p).sp.has[t] = 0
<1> DEFINE ct6 == "FCP_CMND_DMA_VALID" \in sp.flags
           one == IF "DMA_VALID" \in sp.flags THEN I!Unmap(sp) ELSE sp
           Less(f, n) == IF f \in sp.flags THEN n - 1 ELSE n
           h == one.has
           last == [one EXCEPT
                      !.has["prot"] = Less("CRC_PROT_DMA_VALID", @),
                      !.has["dl"] = IF "CRC_CTX_DSD_VALID" \in sp.flags THEN 0 ELSE @,
                      !.has["crc_ctx"] = Less("CRC_CTX_DMA_VALID", @),
                      !.has["fcp_cmnd"] = IF ct6 THEN @ - 1 ELSE @,
                      !.has["ct6_ctx"] = IF ct6 THEN @ - 1 ELSE @,
                      !.has["gbl"] = IF ct6 THEN 0 ELSE @]
<1>1. I!sp_free_dma(sp, p).sp = last
  BY Zenon DEF I!sp_free_dma
<1>2. /\ one \in SpSet /\ h["data"] = 0
      /\ \A t \in I!Things \ {"data"} : h[t] = sp.has[t]
  <2>1. sp \in SpSet /\ sp.flags \subseteq I!Flags /\ sp.sg \in BOOLEAN /\ sp.has \in Held
    BY DEF Paired, SpSet, Held
  <2>2. Is(sp, sp.sg, sp.flags, sp.has)
    BY <2>1 DEF Is
  <2>3. Is(I!Unmap(sp), sp.sg, sp.flags, Plus(sp.has, "data", MinusOne(sp.sg)))
    BY <2>2, IsMap
  <2>4. "data" \in I!Things /\ MinusOne(sp.sg) \in Int
    BY <2>1, ThingsAre, OneIsNumber
  <2>5. \A u \in I!Things : Plus(sp.has, "data", MinusOne(sp.sg))[u]
                              = IF u = "data" THEN sp.has["data"] + MinusOne(sp.sg) ELSE sp.has[u]
    BY <2>1, <2>4, PlusIs
  <2>6. sp.has["data"] = IF sp.sg THEN Flagged(sp, "DMA_VALID") ELSE 0
    BY DEF Paired
  <2>7. CASE "DMA_VALID" \in sp.flags
    <3>1. one = I!Unmap(sp)
      BY <2>7
    <3>2. sp.has["data"] + MinusOne(sp.sg) = 0
      BY <2>1, <2>6, <2>7 DEF Flagged, One, MinusOne
    <3>3. one \in SpSet /\ h = Plus(sp.has, "data", MinusOne(sp.sg))
      BY <2>3, <3>1 DEF Is
    <3> QED BY <2>4, <2>5, <3>2, <3>3
  <2>8. CASE "DMA_VALID" \notin sp.flags
    <3>1. one = sp
      BY <2>8
    <3>2. sp.has["data"] = 0
      BY <2>1, <2>6, <2>8 DEF Flagged, One
    <3> QED BY <2>1, <3>1, <3>2
  <2> QED BY <2>7, <2>8
<1> HIDE DEF one
<1>3. h \in Held /\ one \in SpSet
  BY <1>2 DEF SpSet, Held
<1>4. last.has = [h EXCEPT
        !["prot"] = Less("CRC_PROT_DMA_VALID", @),
        !["dl"] = IF "CRC_CTX_DSD_VALID" \in sp.flags THEN 0 ELSE @,
        !["crc_ctx"] = Less("CRC_CTX_DMA_VALID", @),
        !["fcp_cmnd"] = IF ct6 THEN @ - 1 ELSE @,
        !["ct6_ctx"] = IF ct6 THEN @ - 1 ELSE @,
        !["gbl"] = IF ct6 THEN 0 ELSE @]
  BY <1>2, ThingsAre DEF SpSet
<1> DEFINE e == last.has
<1> HIDE DEF h, last
<1>5. /\ sp.has["prot"] = Flagged(sp, "CRC_PROT_DMA_VALID")
      /\ sp.has["crc_ctx"] = Flagged(sp, "CRC_CTX_DMA_VALID")
      /\ "CRC_CTX_DSD_VALID" \notin sp.flags => sp.has["dl"] = 0
      /\ sp.has["ct6_ctx"] = Flagged(sp, "FCP_CMND_DMA_VALID")
      /\ sp.has["fcp_cmnd"] = Flagged(sp, "FCP_CMND_DMA_VALID")
      /\ "FCP_CMND_DMA_VALID" \notin sp.flags => sp.has["gbl"] = 0
  BY DEF Paired
<1>6. /\ h["prot"] = sp.has["prot"] /\ h["dl"] = sp.has["dl"]
      /\ h["crc_ctx"] = sp.has["crc_ctx"] /\ h["ct6_ctx"] = sp.has["ct6_ctx"]
      /\ h["fcp_cmnd"] = sp.has["fcp_cmnd"] /\ h["gbl"] = sp.has["gbl"]
      /\ h["slot"] = sp.has["slot"] /\ h["credit"] = sp.has["credit"] /\ h["data"] = 0
  BY <1>2, ThingsAre
<1>7. e \in Held
  BY <1>3, <1>4, ThingsAre DEF Held
<1>8. /\ e["slot"] = sp.has["slot"] /\ e["credit"] = sp.has["credit"] /\ e["data"] = 0
  BY <1>3, <1>4, <1>6, ThingsAre DEF Held
<1>9. e["prot"] = 0 /\ e["crc_ctx"] = 0 /\ e["dl"] = 0
  BY <1>3, <1>4, <1>5, <1>6, ThingsAre DEF Held, Flagged, One
<1>10. e["fcp_cmnd"] = 0 /\ e["ct6_ctx"] = 0 /\ e["gbl"] = 0
  BY <1>3, <1>4, <1>5, <1>6, ThingsAre DEF Held, Flagged, One
<1>11. \A t \in I!Things \ {"slot", "credit"} : e[t] = 0
  BY <1>8, <1>9, <1>10, ThingsAre
<1> QED BY <1>1, <1>7, <1>8, <1>11

LEMMA AllGivenBack ==
  ASSUME NEW h \in Held, h["slot"] = 0, h["credit"] = 0,
         \A t \in I!Things \ {"slot", "credit"} : h[t] = 0
  PROVE  h = I!Nothing
BY ThingsAre DEF Held, I!Nothing

\* However a start ends, the command it leaves is paired; if it has failed it
\* holds no slot and no entries.
BackWay(w) == Paired(w.sp) /\ (~w.ok /\ ~w.bug => Outside(w.sp))

LEMMA PairedWay ==
  ASSUME NEW sp, Paired(sp), NEW p \in PoolSet
  PROVE  /\ Paired(I!Way(sp, p).sp) /\ (Outside(sp) => BackWay(I!Way(sp, p)))
         /\ BackWay(I!Started(I!Way(sp, p)))
         /\ I!Way(sp, p) \in WaySet /\ I!Started(I!Way(sp, p)) \in WaySet
<1>1. sp \in SpSet
  BY DEF Paired
<1>2. Leaves(I!Way(sp, p), sp, p, FALSE) /\ Leaves(I!Started(I!Way(sp, p)), Live(sp), p, TRUE)
  BY <1>1, WayIs
<1>3. Paired(Live(sp))
  BY <1>1 DEF Paired, Live, SpSet, Flagged
<1> QED BY <1>2, <1>3 DEF Leaves, BackWay

LEMMA NothingIs == I!Nothing \in Held /\ \A t \in I!Things : I!Nothing[t] = 0
BY DEF I!Nothing, Held

LEMMA NewPaired ==
  ASSUME NEW n \in Nat
  PROVE  Paired(I!Sp(n)) /\ Outside(I!Sp(n))
<1>1. Is(I!Sp(n), n > 0, {}, I!Nothing)
  BY IsNew
<1>2. Paired(I!Sp(n))
  BY <1>1, NothingIs, ThingsAre, IsPaired DEF One
<1> QED BY <1>1, <1>2, NothingIs, ThingsAre DEF Is, Outside

\* The values after one step, thing by thing.
LEMMA PlainGivesBack ==
  ASSUME NEW n \in Nat, NEW k \in Int, NEW p \in PoolSet, NEW w \in I!start_scsi(n, k, p)
  PROVE  BackWay(w)
<1> DEFINE new == I!Sp(n)
           sg == n > 0
           void == I!Nothing
           h1 == Plus(void, "data", One(sg))
           h2 == Plus(h1, "data", MinusOne(sg))
           h3 == Plus(h1, "slot", 1)
           h4 == Plus(h3, "credit", k)
           in == I!Flag(I!Enter(I!Map(new), k), "DMA_VALID")
<1>1. {"data", "slot", "credit"} \subseteq I!Things /\ "DMA_VALID" \in I!Flags /\ 1 \in Int
  BY ThingsAre, FlagsAre
<1>2. sg \in BOOLEAN /\ One(sg) \in Int /\ MinusOne(sg) \in Int /\ One(sg) + MinusOne(sg) = 0
  <2>1. sg \in BOOLEAN
    OBVIOUS
  <2> HIDE DEF sg
  <2> QED BY <2>1, OneIsNumber
<1>3. Is(new, sg, {}, void)
  BY IsNew
<1>4. Is(I!Map(new), sg, {}, h1)
  BY <1>3, IsMap
<1>5. Is(I!Unmap(I!Map(new)), sg, {}, h2)
  BY <1>4, IsMap
<1>6. Is(I!Enter(I!Map(new), k), sg, {}, h4)
  BY <1>4, IsEnter
<1>7. Is(in, sg, {} \cup {"DMA_VALID"}, h4)
  BY <1>1, <1>6, IsFlag
<1> HIDE DEF new, sg, void, in
<1>8. void \in Held /\ \A t \in I!Things : void[t] = 0
  BY NothingIs DEF void
<1>9. h1 \in Held /\ \A u \in I!Things : h1[u] = IF u = "data" THEN void["data"] + One(sg) ELSE void[u]
  BY <1>1, <1>2, <1>8, PlusIs
<1> HIDE DEF h1
<1>10. h2 \in Held /\ \A u \in I!Things : h2[u] = IF u = "data" THEN h1["data"] + MinusOne(sg) ELSE h1[u]
  BY <1>1, <1>2, <1>9, PlusIs
<1>11. h3 \in Held /\ \A u \in I!Things : h3[u] = IF u = "slot" THEN h1["slot"] + 1 ELSE h1[u]
  BY <1>1, <1>9, PlusIs
<1> HIDE DEF h2, h3
<1>12. h4 \in Held /\ \A u \in I!Things : h4[u] = IF u = "credit" THEN h3["credit"] + k ELSE h3[u]
  BY <1>1, <1>11, PlusIs
<1> HIDE DEF h4
<1>13. Paired(new) /\ Outside(new)
  BY NewPaired DEF new
<1>14. Paired(I!Unmap(I!Map(new))) /\ Outside(I!Unmap(I!Map(new)))
  <2>1. ASSUME NEW u \in I!Things PROVE h2[u] = 0
    <3>1. CASE u = "data"
      <4>1. h2["data"] = h1["data"] + MinusOne(sg)
        BY <1>1, <1>10
      <4>2. h1["data"] = 0 + One(sg)
        BY <1>1, <1>8, <1>9
      <4> QED BY <1>2, <3>1, <4>1, <4>2
    <3>2. CASE u # "data"
      BY <1>8, <1>9, <1>10, <3>2
    <3> QED BY <3>1, <3>2
  <2>2. Paired(I!Unmap(I!Map(new)))
    BY <1>5, <2>1, ThingsAre, IsPaired DEF One
  <2> QED BY <1>5, <2>1, <2>2, ThingsAre DEF Is, Outside
<1>15. Paired(in)
  <2>1. h4["data"] = One(sg) /\ \A u \in I!Things \ {"data", "slot", "credit"} : h4[u] = 0
    BY <1>1, <1>2, <1>8, <1>9, <1>11, <1>12
  <2>2. h4["data"] = IF sg THEN One("DMA_VALID" \in ({} \cup {"DMA_VALID"})) ELSE 0
    BY <1>2, <2>1 DEF One
  <2> QED BY <1>7, <2>1, <2>2, ThingsAre, IsPaired DEF One
<1>16. w \in {I!Way(new, p), I!Way(I!Unmap(I!Map(new)), p), I!Started(I!Way(in, p))}
  BY DEF I!start_scsi, new, in
<1> QED BY <1>13, <1>14, <1>15, <1>16, PairedWay

\* A thing taken together with its flag.
LEMMA PairedTake ==
  ASSUME NEW sp, Paired(sp), NEW t, NEW f, f \notin sp.flags,
         <<t, f>> \in {<<"prot", "CRC_PROT_DMA_VALID">>, <<"crc_ctx", "CRC_CTX_DMA_VALID">>}
  PROVE  /\ Paired(I!Flag(I!Gain(sp, t, 1), f))
         /\ I!Flag(I!Gain(sp, t, 1), f).flags = sp.flags \cup {f}
         /\ Outside(sp) => Outside(I!Flag(I!Gain(sp, t, 1), f))
<1> DEFINE sg == sp.sg
           F == sp.flags
           h == sp.has
           g == Plus(h, t, 1)
           q == I!Flag(I!Gain(sp, t, 1), f)
<1>1. Is(sp, sg, F, h) /\ h \in Held /\ sg \in BOOLEAN
  BY DEF Paired, SpSet, Held, Is
<1>2. t \in I!Things /\ f \in I!Flags /\ 1 \in Int /\ t \notin {"slot", "credit"}
  BY ThingsAre, FlagsAre
<1>3. Is(I!Gain(sp, t, 1), sg, F, g)
  BY <1>1, <1>2, IsGain
<1>4. Is(q, sg, F \cup {f}, g)
  BY <1>2, <1>3, IsFlag
<1>5. /\ h["data"] = IF sg THEN One("DMA_VALID" \in F) ELSE 0
      /\ h["prot"] = One("CRC_PROT_DMA_VALID" \in F)
      /\ h["crc_ctx"] = One("CRC_CTX_DMA_VALID" \in F)
      /\ "CRC_CTX_DSD_VALID" \notin F => h["dl"] = 0
      /\ h["ct6_ctx"] = One("FCP_CMND_DMA_VALID" \in F)
      /\ h["fcp_cmnd"] = One("FCP_CMND_DMA_VALID" \in F)
      /\ "FCP_CMND_DMA_VALID" \notin F => h["gbl"] = 0
  BY Zenon DEF Paired, Flagged
<1>6. f \notin F
  OBVIOUS
<1>7. Outside(sp) => h["slot"] = 0 /\ h["credit"] = 0
  BY DEF Outside
<1> HIDE DEF sg, F, h, q
<1>8. \A u \in I!Things : g[u] = IF u = t THEN h[t] + 1 ELSE h[u]
  BY <1>1, <1>2, PlusIs
<1> HIDE DEF g
<1>9. /\ g["data"] = h["data"] /\ g["dl"] = h["dl"] /\ g["ct6_ctx"] = h["ct6_ctx"]
      /\ g["fcp_cmnd"] = h["fcp_cmnd"] /\ g["gbl"] = h["gbl"]
      /\ g["slot"] = h["slot"] /\ g["credit"] = h["credit"]
      /\ g["prot"] = (IF t = "prot" THEN h["prot"] + 1 ELSE h["prot"])
      /\ g["crc_ctx"] = (IF t = "crc_ctx" THEN h["crc_ctx"] + 1 ELSE h["crc_ctx"])
  BY <1>8, ThingsAre
<1>10. Paired(q)
  <2>1. \/ t = "prot" /\ f = "CRC_PROT_DMA_VALID"
        \/ t = "crc_ctx" /\ f = "CRC_CTX_DMA_VALID"
    OBVIOUS
  <2> DEFINE G == F \cup {f}
  <2>2. \A e : e # f => ((e \in G) <=> (e \in F))
    OBVIOUS
  <2>3. f \in G /\ f \notin F
    BY <1>6
  <2>4. Is(q, sg, G, g)
    BY <1>4
  <2> HIDE DEF G
  <2>5. One(FALSE) + 1 = One(TRUE)
    BY DEF One
  <2>6. \A e : One(e \in G) = IF e \in G THEN 1 ELSE 0
    BY DEF One
  <2>7. \A e : One(e \in F) = IF e \in F THEN 1 ELSE 0
    BY DEF One
  <2>8. CASE t = "prot" /\ f = "CRC_PROT_DMA_VALID"
    <3>1. /\ "DMA_VALID" \in G <=> "DMA_VALID" \in F
          /\ "CRC_CTX_DMA_VALID" \in G <=> "CRC_CTX_DMA_VALID" \in F
          /\ "CRC_CTX_DSD_VALID" \in G <=> "CRC_CTX_DSD_VALID" \in F
          /\ "FCP_CMND_DMA_VALID" \in G <=> "FCP_CMND_DMA_VALID" \in F
          /\ "CRC_PROT_DMA_VALID" \in G /\ "CRC_PROT_DMA_VALID" \notin F
      BY <2>2, <2>3, <2>8
    <3>2. g["prot"] = One("CRC_PROT_DMA_VALID" \in G)
      BY <1>5, <1>9, <2>6, <2>7, <2>8, <3>1
    <3>3. /\ g["data"] = IF sg THEN One("DMA_VALID" \in G) ELSE 0
          /\ g["crc_ctx"] = One("CRC_CTX_DMA_VALID" \in G)
          /\ g["ct6_ctx"] = One("FCP_CMND_DMA_VALID" \in G)
          /\ g["fcp_cmnd"] = One("FCP_CMND_DMA_VALID" \in G)
      BY <1>5, <1>9, <2>6, <2>7, <2>8, <3>1
    <3>4. /\ "CRC_CTX_DSD_VALID" \notin G => g["dl"] = 0
          /\ "FCP_CMND_DMA_VALID" \notin G => g["gbl"] = 0
      BY <1>5, <1>9, <3>1
    <3> QED BY <2>4, <3>2, <3>3, <3>4, IsPaired
  <2>9. CASE t = "crc_ctx" /\ f = "CRC_CTX_DMA_VALID"
    <3>1. /\ "DMA_VALID" \in G <=> "DMA_VALID" \in F
          /\ "CRC_PROT_DMA_VALID" \in G <=> "CRC_PROT_DMA_VALID" \in F
          /\ "CRC_CTX_DSD_VALID" \in G <=> "CRC_CTX_DSD_VALID" \in F
          /\ "FCP_CMND_DMA_VALID" \in G <=> "FCP_CMND_DMA_VALID" \in F
          /\ "CRC_CTX_DMA_VALID" \in G /\ "CRC_CTX_DMA_VALID" \notin F
      BY <2>2, <2>3, <2>9
    <3>2. g["crc_ctx"] = One("CRC_CTX_DMA_VALID" \in G)
      BY <1>5, <1>9, <2>6, <2>7, <2>9, <3>1
    <3>3. /\ g["data"] = IF sg THEN One("DMA_VALID" \in G) ELSE 0
          /\ g["prot"] = One("CRC_PROT_DMA_VALID" \in G)
          /\ g["ct6_ctx"] = One("FCP_CMND_DMA_VALID" \in G)
          /\ g["fcp_cmnd"] = One("FCP_CMND_DMA_VALID" \in G)
      BY <1>5, <1>9, <2>6, <2>7, <2>9, <3>1
    <3>4. /\ "CRC_CTX_DSD_VALID" \notin G => g["dl"] = 0
          /\ "FCP_CMND_DMA_VALID" \notin G => g["gbl"] = 0
      BY <1>5, <1>9, <3>1
    <3> QED BY <2>4, <3>2, <3>3, <3>4, IsPaired
  <2> QED BY <2>1, <2>8, <2>9
<1>11. Outside(sp) => Outside(q)
  <2>1. q.has = g
    BY <1>4 DEF Is
  <2> QED BY <1>7, <1>9, <2>1 DEF Outside
<1>12. q.flags = F \cup {f}
  BY <1>4 DEF Is
<1> QED BY <1>10, <1>11, <1>12 DEF q, F

\* The DSD lists of a command with protection.
LEMMA PairedLists ==
  ASSUME NEW sp, Paired(sp), NEW k \in Int
  PROVE  Paired(I!Flag(I!Gain(sp, "dl", k), "CRC_CTX_DSD_VALID"))
<1> DEFINE sg == sp.sg
           F == sp.flags
           G == F \cup {"CRC_CTX_DSD_VALID"}
           h == sp.has
           g == Plus(h, "dl", k)
           q == I!Flag(I!Gain(sp, "dl", k), "CRC_CTX_DSD_VALID")
<1>1. Is(sp, sg, F, h) /\ h \in Held /\ sg \in BOOLEAN
  BY DEF Paired, SpSet, Held, Is
<1>2. "dl" \in I!Things /\ "CRC_CTX_DSD_VALID" \in I!Flags
  BY ThingsAre, FlagsAre
<1>3. Is(I!Gain(sp, "dl", k), sg, F, g)
  BY <1>1, <1>2, IsGain
<1>4. Is(q, sg, G, g)
  BY <1>2, <1>3, IsFlag
<1>5. /\ h["data"] = IF sg THEN One("DMA_VALID" \in F) ELSE 0
      /\ h["prot"] = One("CRC_PROT_DMA_VALID" \in F)
      /\ h["crc_ctx"] = One("CRC_CTX_DMA_VALID" \in F)
      /\ h["ct6_ctx"] = One("FCP_CMND_DMA_VALID" \in F)
      /\ h["fcp_cmnd"] = One("FCP_CMND_DMA_VALID" \in F)
      /\ "FCP_CMND_DMA_VALID" \notin F => h["gbl"] = 0
  BY Zenon DEF Paired, Flagged
<1> HIDE DEF sg, F, h, q
<1>6. /\ "DMA_VALID" \in G <=> "DMA_VALID" \in F
      /\ "CRC_PROT_DMA_VALID" \in G <=> "CRC_PROT_DMA_VALID" \in F
      /\ "CRC_CTX_DMA_VALID" \in G <=> "CRC_CTX_DMA_VALID" \in F
      /\ "FCP_CMND_DMA_VALID" \in G <=> "FCP_CMND_DMA_VALID" \in F
      /\ "CRC_CTX_DSD_VALID" \in G
  OBVIOUS
<1> HIDE DEF G
<1>7. \A u \in I!Things : u # "dl" => g[u] = h[u]
  BY <1>1, <1>2, PlusIs
<1> HIDE DEF g
<1>8. /\ g["data"] = h["data"] /\ g["prot"] = h["prot"] /\ g["crc_ctx"] = h["crc_ctx"]
      /\ g["ct6_ctx"] = h["ct6_ctx"] /\ g["fcp_cmnd"] = h["fcp_cmnd"] /\ g["gbl"] = h["gbl"]
  BY <1>7, ThingsAre
<1>9. \A e : /\ One(e \in G) = IF e \in G THEN 1 ELSE 0
             /\ One(e \in F) = IF e \in F THEN 1 ELSE 0
  BY DEF One
<1>10. /\ g["data"] = IF sg THEN One("DMA_VALID" \in G) ELSE 0
       /\ g["prot"] = One("CRC_PROT_DMA_VALID" \in G)
       /\ g["crc_ctx"] = One("CRC_CTX_DMA_VALID" \in G)
       /\ g["ct6_ctx"] = One("FCP_CMND_DMA_VALID" \in G)
       /\ g["fcp_cmnd"] = One("FCP_CMND_DMA_VALID" \in G)
       /\ "FCP_CMND_DMA_VALID" \notin G => g["gbl"] = 0
  BY <1>5, <1>6, <1>8, <1>9
<1>11. Paired(q)
  BY <1>4, <1>6, <1>10, IsPaired
<1> QED BY <1>11 DEF q

\* The slot and the entries concern no flag.
LEMMA PairedEnter ==
  ASSUME NEW sp, Paired(sp), NEW n \in Int
  PROVE  Paired(I!Enter(sp, n)) /\ I!Enter(sp, n).flags = sp.flags
<1> DEFINE sg == sp.sg
           F == sp.flags
           h == sp.has
           h1 == Plus(h, "slot", 1)
           h2 == Plus(h1, "credit", n)
<1>1. Is(sp, sg, F, h) /\ h \in Held
  BY DEF Paired, SpSet, Held, Is
<1>2. Is(I!Enter(sp, n), sg, F, h2)
  BY <1>1, IsEnter
<1>3. /\ h["data"] = IF sg THEN One("DMA_VALID" \in F) ELSE 0
      /\ h["prot"] = One("CRC_PROT_DMA_VALID" \in F)
      /\ h["crc_ctx"] = One("CRC_CTX_DMA_VALID" \in F)
      /\ "CRC_CTX_DSD_VALID" \notin F => h["dl"] = 0
      /\ h["ct6_ctx"] = One("FCP_CMND_DMA_VALID" \in F)
      /\ h["fcp_cmnd"] = One("FCP_CMND_DMA_VALID" \in F)
      /\ "FCP_CMND_DMA_VALID" \notin F => h["gbl"] = 0
  BY Zenon DEF Paired, Flagged
<1>4. I!Enter(sp, n).flags = F
  BY <1>2 DEF Is
<1> HIDE DEF sg, F, h
<1>5. "slot" \in I!Things /\ "credit" \in I!Things /\ 1 \in Int
  BY ThingsAre
<1>6. h1 \in Held /\ \A u \in I!Things : u # "slot" => h1[u] = h[u]
  BY <1>1, <1>5, PlusIs
<1> HIDE DEF h1
<1>7. \A u \in I!Things : u # "credit" => h2[u] = h1[u]
  BY <1>5, <1>6, PlusIs
<1> HIDE DEF h2
<1>8. /\ h2["data"] = h["data"] /\ h2["prot"] = h["prot"] /\ h2["crc_ctx"] = h["crc_ctx"]
      /\ h2["dl"] = h["dl"] /\ h2["ct6_ctx"] = h["ct6_ctx"]
      /\ h2["fcp_cmnd"] = h["fcp_cmnd"] /\ h2["gbl"] = h["gbl"]
  BY <1>6, <1>7, ThingsAre
<1>9. Paired(I!Enter(sp, n))
  <2>1. /\ h2["data"] = IF sg THEN One("DMA_VALID" \in F) ELSE 0
        /\ h2["prot"] = One("CRC_PROT_DMA_VALID" \in F)
        /\ h2["crc_ctx"] = One("CRC_CTX_DMA_VALID" \in F)
        /\ "CRC_CTX_DSD_VALID" \notin F => h2["dl"] = 0
        /\ h2["ct6_ctx"] = One("FCP_CMND_DMA_VALID" \in F)
        /\ h2["fcp_cmnd"] = One("FCP_CMND_DMA_VALID" \in F)
        /\ "FCP_CMND_DMA_VALID" \notin F => h2["gbl"] = 0
    BY <1>3, <1>8, Zenon
  <2> QED BY <1>2, <2>1, IsPaired
<1> QED BY <1>4, <1>9 DEF F

\* A command whose data is mapped, and flagged as such.
LEMMA PairedMapped ==
  ASSUME NEW n \in Nat
  PROVE  LET sp == IF I!Sp(n).sg THEN I!Flag(I!Map(I!Sp(n)), "DMA_VALID") ELSE I!Sp(n)
         IN Paired(sp) /\ Outside(sp) /\ sp.flags \subseteq {"DMA_VALID"}
<1> DEFINE new == I!Sp(n)
           sg == n > 0
           in == I!Flag(I!Map(new), "DMA_VALID")
           h == Plus(I!Nothing, "data", One(sg))
<1>1. Is(new, sg, {}, I!Nothing) /\ Paired(new) /\ Outside(new)
  BY IsNew, NewPaired
<1>2. sg \in BOOLEAN /\ One(sg) \in Int
  <2>1. sg \in BOOLEAN
    OBVIOUS
  <2> HIDE DEF sg
  <2> QED BY <2>1, OneIsNumber
<1> HIDE DEF sg
<1>3. "data" \in I!Things /\ "DMA_VALID" \in I!Flags
  BY ThingsAre, FlagsAre
<1>4. Is(I!Map(new), sg, {}, h)
  BY <1>1, IsMap
<1>5. Is(in, sg, {} \cup {"DMA_VALID"}, h)
  BY <1>3, <1>4, IsFlag
<1>6. h["data"] = 0 + One(sg) /\ \A u \in I!Things : u # "data" => h[u] = 0
  BY <1>2, <1>3, PlusIs, NothingIs
<1> HIDE DEF new, in, h
<1>7. Paired(in) /\ Outside(in) /\ in.flags = {"DMA_VALID"}
  <2>1. h["data"] = IF sg THEN One("DMA_VALID" \in ({} \cup {"DMA_VALID"})) ELSE 0
    BY <1>2, <1>6 DEF One
  <2>2. Paired(in)
    BY <1>5, <1>6, <2>1, ThingsAre, IsPaired DEF One
  <2>3. in.has = h /\ in.flags = {"DMA_VALID"}
    BY <1>5 DEF Is
  <2> QED BY <1>6, <2>2, <2>3, ThingsAre DEF Outside
<1>8. new.flags = {}
  BY <1>1 DEF Is
<1> QED BY <1>1, <1>7, <1>8 DEF new, in

\* What is built for a command with protection leaves it paired at every step.
LEMMA CrcGivesBack ==
  ASSUME NEW sp, Paired(sp), "CRC_CTX_DMA_VALID" \notin sp.flags, NEW c \in Commands,
         NEW p \in PoolSet, NEW w \in I!build_scsi_crc_2_iocbs(sp, c, p)
  PROVE  Paired(w.sp)
<1> DEFINE ctx == I!Flag(I!Gain(sp, "crc_ctx", 1), "CRC_CTX_DMA_VALID")
           More(k) == IF k = 0 THEN ctx ELSE I!Flag(I!Gain(ctx, "dl", k), "CRC_CTX_DSD_VALID")
           n == I!Lists(I!Walks(c))
<1>1. n \in Nat
  BY ListsIs
<1>2. Paired(ctx)
  BY PairedTake
<1>3. \A k \in Int : Paired(More(k))
  <2> HIDE DEF ctx
  <2> SUFFICES ASSUME NEW k \in Int PROVE Paired(More(k))
    OBVIOUS
  <2>1. Paired(I!Flag(I!Gain(ctx, "dl", k), "CRC_CTX_DSD_VALID"))
    BY <1>2, PairedLists
  <2> QED BY <1>2, <2>1
<1> HIDE DEF More, n, ctx
<1>4. \/ w = [I!Started(I!Way(sp, p)) EXCEPT !.cdb = FALSE]
      \/ w = I!Way(sp, p)
      \/ w = I!Way(ctx, p)
      \/ w = [I!Way(ctx, p) EXCEPT !.bug = TRUE]
      \/ \E k \in 0..n - 1 : w = I!Way(More(k), p)
      \/ w = I!Started(I!Way(More(n), p))
  BY Zenon DEF I!build_scsi_crc_2_iocbs, More, n, ctx
<1>5. CASE w = [I!Started(I!Way(sp, p)) EXCEPT !.cdb = FALSE]
  <2> DEFINE v == I!Started(I!Way(sp, p))
  <2>1. Paired(v.sp) /\ v \in WaySet
    BY PairedWay DEF BackWay
  <2> HIDE DEF v
  <2>2. w.sp = v.sp
    BY <1>5, <2>1 DEF v, WaySet
  <2> QED BY <2>1, <2>2
<1>6. CASE w = [I!Way(ctx, p) EXCEPT !.bug = TRUE]
  <2> DEFINE v == I!Way(ctx, p)
  <2>1. Paired(v.sp) /\ v \in WaySet
    BY <1>2, PairedWay
  <2> HIDE DEF v
  <2>2. w.sp = v.sp
    BY <1>6, <2>1 DEF v, WaySet
  <2> QED BY <2>1, <2>2
<1>7. ASSUME NEW k \in 0..n - 1, w = I!Way(More(k), p)
      PROVE  Paired(w.sp)
  <2>1. k \in Int
    BY <1>1
  <2> QED BY <1>3, <1>7, <2>1, PairedWay
<1>8. CASE w = I!Started(I!Way(More(n), p))
  BY <1>1, <1>3, <1>8, PairedWay DEF BackWay
<1>9. CASE w = I!Way(sp, p) \/ w = I!Way(ctx, p)
  BY <1>2, <1>9, PairedWay
<1> QED BY <1>4, <1>5, <1>6, <1>7, <1>8, <1>9

\* Setting the slot and the entries to nothing concerns no flag.
LEMMA PairedSet ==
  ASSUME NEW sp, Paired(sp), NEW t \in {"slot", "credit"}
  PROVE  /\ Paired([sp EXCEPT !.has[t] = 0])
         /\ [sp EXCEPT !.has[t] = 0].has = [sp.has EXCEPT ![t] = 0]
<1> DEFINE h == sp.has
           g == [h EXCEPT ![t] = 0]
           q == [sp EXCEPT !.has = g]
<1>1. sp \in SpSet /\ h \in Held
  BY DEF Paired, SpSet, Held
<1>2. [sp EXCEPT !.has[t] = 0] = q
  BY <1>1 DEF SpSet
<1>3. g \in Held /\ t \in I!Things /\ \A u \in I!Things : u # t => g[u] = h[u]
  BY <1>1, ThingsAre DEF Held
<1> HIDE DEF g
<1>4. q \in SpSet /\ q.has = g /\ q.flags = sp.flags /\ q.sg = sp.sg
  BY <1>1, <1>3 DEF SpSet, Held
<1> HIDE DEF q, h
<1>5. /\ g["data"] = h["data"] /\ g["prot"] = h["prot"] /\ g["crc_ctx"] = h["crc_ctx"]
      /\ g["dl"] = h["dl"] /\ g["ct6_ctx"] = h["ct6_ctx"]
      /\ g["fcp_cmnd"] = h["fcp_cmnd"] /\ g["gbl"] = h["gbl"]
  BY <1>3, ThingsAre
<1>6. Paired(q)
  BY <1>4, <1>5, Zenon DEF Paired, Flagged, h
<1> QED BY <1>2, <1>4, <1>6 DEF g, h

LEMMA ErrorGivesBack ==
  ASSUME NEW w \in WaySet, Paired(w.sp)
  PROVE  BackWay(I!dif_queuing_error(w))
<1> DEFINE one == [w.sp EXCEPT !.has["slot"] = 0]
           two == [one EXCEPT !.has["credit"] = 0]
           v == [w EXCEPT !.sp = one]
<1>1. Paired(one) /\ one.has = [w.sp.has EXCEPT !["slot"] = 0]
  BY PairedSet
<1>2. Paired(two) /\ two.has = [one.has EXCEPT !["credit"] = 0]
  <2> HIDE DEF one
  <2> QED BY <1>1, PairedSet
<1>3. w.sp.has \in Held /\ one \in SpSet
  BY <1>1 DEF Paired, SpSet, Held
<1>4. I!dif_queuing_error(w) = [v EXCEPT !.sp = [v.sp EXCEPT !.has["credit"] = 0]]
  BY DEF I!dif_queuing_error
<1> HIDE DEF one
<1>5. v \in WaySet /\ v.sp = one
  BY <1>3 DEF WaySet
<1> HIDE DEF v
<1>6. I!dif_queuing_error(w) = [v EXCEPT !.sp = two]
  BY <1>4, <1>5
<1> HIDE DEF two
<1>7. two \in SpSet
  BY <1>2 DEF Paired
<1>8. I!dif_queuing_error(w).sp = two
  BY <1>5, <1>6, <1>7 DEF WaySet
<1>9. Outside(two)
  BY <1>1, <1>2, <1>3, ThingsAre DEF Outside, Held
<1> QED BY <1>2, <1>8, <1>9 DEF BackWay

LEMMA DifGivesBack ==
  ASSUME NEW c \in Commands, NEW p \in PoolSet, NEW w \in I!dif_start_scsi(c, p)
  PROVE  BackWay(w)
<1>0. Len(c.segs) \in Nat /\ c.prot \in Nat
  BY CommandIs
<1>1. CASE c.op = "normal" /\ c.cdb <= 16
  <2>1. w \in I!start_scsi(Len(c.segs), I!calc_iocbs(Len(c.segs)), p)
    BY <1>1 DEF I!dif_start_scsi
  <2> QED BY <1>0, <2>1, CountIsInt, PlainGivesBack
<1>2. CASE ~(c.op = "normal" /\ c.cdb <= 16)
  <2> DEFINE new == I!Sp(Len(c.segs))
             mapped == IF new.sg THEN I!Flag(I!Map(new), "DMA_VALID") ELSE new
             prot == IF c.prot = 0 THEN mapped
                     ELSE I!Flag(I!Gain(mapped, "prot", 1), "CRC_PROT_DMA_VALID")
             ends == I!build_scsi_crc_2_iocbs(I!Enter(prot, 1), c, p)
  <2>1. Paired(new) /\ Outside(new)
    BY <1>0, NewPaired
  <2>2. Paired(mapped) /\ Outside(mapped) /\ mapped.flags \subseteq {"DMA_VALID"}
    BY <1>0, PairedMapped
  <2>3. /\ Paired(prot) /\ Outside(prot)
        /\ prot.flags \subseteq {"DMA_VALID", "CRC_PROT_DMA_VALID"}
    <3> HIDE DEF mapped
    <3>1. "CRC_PROT_DMA_VALID" \notin mapped.flags
      BY <2>2
    <3> DEFINE q == I!Flag(I!Gain(mapped, "prot", 1), "CRC_PROT_DMA_VALID")
    <3>2. Paired(q) /\ Outside(q) /\ q.flags = mapped.flags \cup {"CRC_PROT_DMA_VALID"}
      BY <2>2, <3>1, PairedTake
    <3> HIDE DEF q
    <3>3. prot = mapped \/ prot = q
      BY DEF q
    <3> HIDE DEF prot
    <3> QED BY <2>2, <3>2, <3>3
  <2> HIDE DEF new, mapped, prot
  <2>4. Paired(I!Enter(prot, 1)) /\ I!Enter(prot, 1).flags = prot.flags
    BY <2>3, PairedEnter
  <2>5. ASSUME NEW x \in ends PROVE Paired(x.sp)
    <3>1. "CRC_CTX_DMA_VALID" \notin I!Enter(prot, 1).flags
      BY <2>3, <2>4
    <3> QED BY <2>4, <2>5, <3>1, CrcGivesBack
  <2>6. ASSUME NEW x \in ends PROVE x \in WaySet
    <3>1. NoLists(I!Enter(prot, 1))
      <4>1. "FCP_CMND_DMA_VALID" \notin I!Enter(prot, 1).flags
        BY <2>3, <2>4
      <4> QED BY <2>4, <4>1 DEF Paired, NoLists
    <3> QED BY <2>6, <3>1, CrcBuild DEF Listless
  <2> HIDE DEF ends
  <2>7. w \in {I!Way(new, p), I!Way(mapped, p), I!Way(prot, p)}
        \cup {x \in ends : x.ok \/ x.bug}
        \cup {I!dif_queuing_error(x) : x \in {y \in ends : ~y.ok /\ ~y.bug}}
    BY <1>2, Zenon DEF I!dif_start_scsi, new, mapped, prot, ends
  <2>8. \/ w \in {I!Way(new, p), I!Way(mapped, p), I!Way(prot, p)}
        \/ w \in ends /\ (w.ok \/ w.bug)
        \/ \E x \in ends : w = I!dif_queuing_error(x)
    BY <2>7, Zenon
  <2>9. CASE w \in {I!Way(new, p), I!Way(mapped, p), I!Way(prot, p)}
    BY <2>1, <2>2, <2>3, <2>9, PairedWay
  <2>10. CASE w \in ends /\ (w.ok \/ w.bug)
    BY <2>5, <2>10 DEF BackWay
  <2>11. ASSUME NEW x \in ends, w = I!dif_queuing_error(x) PROVE BackWay(w)
    BY <2>5, <2>6, <2>11, ErrorGivesBack
  <2> QED BY <2>8, <2>9, <2>10, <2>11
<1> QED BY <1>1, <1>2

\* The error path of the 82xx before its context has been filled in.
LEMMA P3pErrorIs ==
  ASSUME NEW sp, NEW sg, NEW h, Is(sp, sg, {}, h)
  PROVE  Is(I!p3p_queuing_error(sp), sg, {}, [Plus(h, "data", MinusOne(sg)) EXCEPT !["ct6_ctx"] = 0])
<1> DEFINE u == I!Unmap(sp)
           g == Plus(h, "data", MinusOne(sg))
<1>1. Is(u, sg, {}, g)
  BY IsMap
<1>2. I!p3p_queuing_error(sp) = [u EXCEPT !.has["ct6_ctx"] = 0]
  BY DEF I!p3p_queuing_error
<1> HIDE DEF u, g
<1>3. u \in SpSet /\ u.has = g /\ g \in Held
  BY <1>1 DEF Is
<1>4. I!p3p_queuing_error(sp) = [u EXCEPT !.has = [g EXCEPT !["ct6_ctx"] = 0]]
  BY <1>2, <1>3 DEF SpSet
<1>5. [g EXCEPT !["ct6_ctx"] = 0] \in Held
  BY <1>3, ThingsAre DEF Held
<1>6. Is([u EXCEPT !.has = [g EXCEPT !["ct6_ctx"] = 0]], sg, {}, [g EXCEPT !["ct6_ctx"] = 0])
  BY <1>1, <1>5 DEF Is, SpSet, Held
<1> QED BY <1>4, <1>6 DEF g

\* Nothing held, and nothing flagged.
LEMMA EmptyPaired ==
  ASSUME NEW sp, NEW sg, NEW h, Is(sp, sg, {}, h), \A u \in I!Things : h[u] = 0
  PROVE  Paired(sp) /\ Outside(sp)
<1>1. Paired(sp)
  BY ThingsAre, IsPaired DEF One
<1> QED BY <1>1, ThingsAre DEF Is, Outside

LEMMA TypeSixGivesBack ==
  ASSUME NEW n \in Nat, NEW p, PoolOk(p), NEW w \in I!start_type_6(n, p)
  PROVE  BackWay(w)
<1> DEFINE new == I!Sp(n)
           sg == n > 0
           mapped == I!Map(new)
           m == I!calc_dsd_lists(n)
           more == I!more_dsd_lists(n, p)
           Grown(k) == [p EXCEPT !.list = @ + k, !.avail = @ + k]
           ctx == I!Gain(mapped, "ct6_ctx", 1)
           lists == I!Gain(I!Gain(ctx, "fcp_cmnd", 1), "gbl", m)
           whole == I!Flag(I!Flag(lists, "FCP_CMND_DMA_VALID"), "DMA_VALID")
           void == I!Nothing
           h1 == Plus(void, "data", One(sg))
           h2 == Plus(h1, "ct6_ctx", 1)
           h3 == Plus(h2, "fcp_cmnd", 1)
           h4 == Plus(h3, "gbl", m)
           e1 == Plus(h1, "data", MinusOne(sg))
           e2 == Plus(h2, "data", MinusOne(sg))
           f1 == [e1 EXCEPT !["ct6_ctx"] = 0]
           f2 == [e2 EXCEPT !["ct6_ctx"] = 0]
           F == {} \cup {"FCP_CMND_DMA_VALID"} \cup {"DMA_VALID"}
<1>1. /\ {"data", "ct6_ctx", "fcp_cmnd", "gbl"} \subseteq I!Things
      /\ {"FCP_CMND_DMA_VALID", "DMA_VALID"} \subseteq I!Flags /\ 1 \in Int
  BY ThingsAre, FlagsAre
<1>2. sg \in BOOLEAN /\ One(sg) \in Int /\ MinusOne(sg) \in Int /\ One(sg) + MinusOne(sg) = 0
  <2>1. sg \in BOOLEAN
    OBVIOUS
  <2> HIDE DEF sg
  <2> QED BY <2>1, OneIsNumber
<1>3. m \in Nat /\ p \in PoolSet /\ more \in Int
  <2>1. m \in Nat
    BY RingSizes, UpIs DEF I!calc_dsd_lists
  <2>2. p \in PoolSet /\ p.avail \in Int
    BY DEF PoolOk, PoolSet
  <2> HIDE DEF m
  <2>3. more \in Int
    BY <2>1, <2>2 DEF I!more_dsd_lists, m
  <2> QED BY <2>1, <2>2, <2>3
<1>4. Is(new, sg, {}, void) /\ Paired(new) /\ Outside(new)
  BY IsNew, NewPaired
<1> HIDE DEF sg, void, new
<1>5. Is(mapped, sg, {}, h1)
  BY <1>4, IsMap
<1> HIDE DEF mapped
<1>6. Is(ctx, sg, {}, h2)
  BY <1>1, <1>5, IsGain
<1> HIDE DEF ctx, m
<1>7. Is(lists, sg, {}, h4)
  <2>1. Is(I!Gain(ctx, "fcp_cmnd", 1), sg, {}, h3)
    BY <1>1, <1>6, IsGain
  <2> HIDE DEF h3
  <2> QED BY <1>1, <1>3, <2>1, IsGain
<1> HIDE DEF lists
<1>8. Is(whole, sg, F, h4)
  <2>1. Is(I!Flag(lists, "FCP_CMND_DMA_VALID"), sg, {} \cup {"FCP_CMND_DMA_VALID"}, h4)
    BY <1>1, <1>7, IsFlag
  <2> HIDE DEF h4
  <2> QED BY <1>1, <2>1, IsFlag
<1>9. Is(I!p3p_queuing_error(mapped), sg, {}, f1) /\ Is(I!p3p_queuing_error(ctx), sg, {}, f2)
  BY <1>5, <1>6, P3pErrorIs
<1> HIDE DEF whole, f1, f2, e1, e2
<1>10. void \in Held /\ \A t \in I!Things : void[t] = 0
  BY NothingIs DEF void
<1>11. h1 \in Held /\ \A u \in I!Things : h1[u] = IF u = "data" THEN void["data"] + One(sg) ELSE void[u]
  BY <1>1, <1>2, <1>10, PlusIs
<1> HIDE DEF h1
<1>12. h2 \in Held /\ \A u \in I!Things : h2[u] = IF u = "ct6_ctx" THEN h1["ct6_ctx"] + 1 ELSE h1[u]
  BY <1>1, <1>11, PlusIs
<1> HIDE DEF h2
<1>13. h3 \in Held /\ \A u \in I!Things : h3[u] = IF u = "fcp_cmnd" THEN h2["fcp_cmnd"] + 1 ELSE h2[u]
  BY <1>1, <1>12, PlusIs
<1> HIDE DEF h3
<1>14. h4 \in Held /\ \A u \in I!Things : h4[u] = IF u = "gbl" THEN h3["gbl"] + m ELSE h3[u]
  <2>1. m \in Int
    BY <1>3
  <2> QED BY <1>1, <1>13, <2>1, PlusIs
<1> HIDE DEF h4
<1>15. e1 \in Held /\ \A u \in I!Things : e1[u] = IF u = "data" THEN h1["data"] + MinusOne(sg) ELSE h1[u]
  BY <1>1, <1>2, <1>11, PlusIs DEF e1
<1>16. e2 \in Held /\ \A u \in I!Things : e2[u] = IF u = "data" THEN h2["data"] + MinusOne(sg) ELSE h2[u]
  BY <1>1, <1>2, <1>12, PlusIs DEF e2
<1>17. h1["data"] = 0 + One(sg) /\ h2["data"] = 0 + One(sg)
  BY <1>1, <1>10, <1>11, <1>12
<1>18. ASSUME NEW u \in I!Things PROVE f1[u] = 0 /\ f2[u] = 0
  <2>1. /\ f1[u] = IF u = "ct6_ctx" THEN 0 ELSE e1[u]
        /\ f2[u] = IF u = "ct6_ctx" THEN 0 ELSE e2[u]
    BY <1>15, <1>16 DEF f1, f2, Held
  <2>2. CASE u = "ct6_ctx"
    BY <2>1, <2>2
  <2>3. CASE u = "data"
    <3>1. e1["data"] = h1["data"] + MinusOne(sg) /\ e2["data"] = h2["data"] + MinusOne(sg)
      BY <1>1, <1>15, <1>16
    <3>2. e1["data"] = 0 /\ e2["data"] = 0
      BY <1>2, <1>17, <3>1
    <3> QED BY <2>1, <2>3, <3>2
  <2>4. CASE u \notin {"ct6_ctx", "data"}
    BY <1>10, <1>11, <1>12, <1>15, <1>16, <2>1, <2>4
  <2> QED BY <2>2, <2>3, <2>4
<1>19. /\ Paired(I!p3p_queuing_error(mapped)) /\ Outside(I!p3p_queuing_error(mapped))
       /\ Paired(I!p3p_queuing_error(ctx)) /\ Outside(I!p3p_queuing_error(ctx))
  BY <1>9, <1>18, EmptyPaired
<1>20. Paired(whole)
  <2>1. /\ h4["data"] = One(sg) /\ h4["ct6_ctx"] = 1 /\ h4["fcp_cmnd"] = 1
        /\ h4["prot"] = 0 /\ h4["crc_ctx"] = 0 /\ h4["dl"] = 0
    BY <1>2, <1>10, <1>11, <1>12, <1>13, <1>14, <1>17, ThingsAre
  <2>2. /\ "DMA_VALID" \in F /\ "FCP_CMND_DMA_VALID" \in F
        /\ "CRC_PROT_DMA_VALID" \notin F /\ "CRC_CTX_DMA_VALID" \notin F
    OBVIOUS
  <2> HIDE DEF F
  <2>3. h4["data"] = IF sg THEN One("DMA_VALID" \in F) ELSE 0
    BY <1>2, <2>1, <2>2 DEF One
  <2>4. /\ h4["prot"] = One("CRC_PROT_DMA_VALID" \in F)
        /\ h4["crc_ctx"] = One("CRC_CTX_DMA_VALID" \in F)
        /\ h4["ct6_ctx"] = One("FCP_CMND_DMA_VALID" \in F)
        /\ h4["fcp_cmnd"] = One("FCP_CMND_DMA_VALID" \in F)
    BY <2>1, <2>2 DEF One
  <2> QED BY <1>8, <2>1, <2>2, <2>3, <2>4, IsPaired
<1>21. Paired(I!Enter(whole, 1))
  BY <1>20, PairedEnter
<1>22. ASSUME NEW k \in Int PROVE Grown(k) \in PoolSet
  <2>1. p.list + k \in Int /\ p.avail + k \in Int
    BY <1>3 DEF PoolSet
  <2> QED BY <1>3, <2>1 DEF PoolSet
<1> DEFINE q == I!build_scsi_type_6_iocbs(n, Grown(more))
<1>23. q \in PoolSet
  <2> DEFINE r == Grown(more)
  <2>1. r \in PoolSet
    BY <1>3, <1>22
  <2> HIDE DEF r
  <2>2. r.list - m \in Int /\ r.avail - m \in Int /\ r.inuse + m \in Int
    BY <1>3, <2>1 DEF PoolSet
  <2>3. I!build_scsi_type_6_iocbs(n, r) = [list |-> r.list - m, avail |-> r.avail - m, inuse |-> r.inuse + m]
    BY DEF I!build_scsi_type_6_iocbs, m
  <2>4. I!build_scsi_type_6_iocbs(n, r) \in PoolSet
    BY <2>2, <2>3 DEF PoolSet
  <2> QED BY <2>4 DEF r
<1>24. \/ w = I!Way(new, p)
       \/ w = I!Way(I!p3p_queuing_error(mapped), p)
       \/ \E k \in 0..more : w = I!Way(I!p3p_queuing_error(mapped), Grown(k))
       \/ w = I!Way(I!p3p_queuing_error(ctx), Grown(more))
       \/ w = I!Started(I!Way(I!Enter(whole, 1), q))
  <2> HIDE DEF Grown, q, more
  <2> QED BY Zenon DEF I!start_type_6, new, mapped, m, more, Grown, ctx, lists, whole, q
<1>25. ASSUME NEW k \in 0..more, w = I!Way(I!p3p_queuing_error(mapped), Grown(k))
       PROVE  BackWay(w)
  <2>1. k \in Int
    BY <1>3
  <2>2. Grown(k) \in PoolSet
    BY <1>22, <2>1
  <2> HIDE DEF Grown
  <2> QED BY <1>19, <1>25, <2>2, PairedWay
<1>26. Grown(more) \in PoolSet
  BY <1>3, <1>22
<1> HIDE DEF Grown, q, more
<1> QED BY <1>3, <1>4, <1>19, <1>21, <1>23, <1>24, <1>25, <1>26, PairedWay

LEMMA WaysGiveBack ==
  ASSUME NEW c \in Commands, ring_chip \in I!Chips, PoolOk(gbl_dsd), NEW w \in I!Ways(c)
  PROVE  BackWay(w)
<1> DEFINE n == Len(c.segs)
<1>1. n \in Nat /\ gbl_dsd \in PoolSet
  BY CommandIs DEF PoolOk
<1>2. ASSUME NEW k \in Int, w \in I!start_scsi(n, k, gbl_dsd) PROVE BackWay(w)
  BY <1>1, <1>2, PlainGivesBack
<1>3. CASE ring_chip = "2x32"
  <2>1. w \in I!start_scsi(n, I!calc_iocbs_32(n), gbl_dsd)
    BY <1>3, Zenon DEF I!Ways
  <2> QED BY <1>1, <1>2, <2>1, CountIsInt
<1>4. CASE ring_chip = "2x64"
  <2>1. w \in I!start_scsi(n, I!calc_iocbs_64(n), gbl_dsd)
    BY <1>4, Zenon DEF I!Ways
  <2> QED BY <1>1, <1>2, <2>1, CountIsInt
<1>5. CASE ring_chip \in {"24xx", "fx00"}
  <2>1. w \in I!start_scsi(n, I!calc_iocbs(n), gbl_dsd)
    BY <1>5, Zenon DEF I!Ways
  <2> QED BY <1>1, <1>2, <2>1, CountIsInt
<1>6. CASE ring_chip = "25xx"
  <2>1. w \in I!dif_start_scsi(c, gbl_dsd)
    BY <1>6, Zenon DEF I!Ways
  <2> QED BY <1>1, <2>1, DifGivesBack
<1>7. CASE ring_chip = "82xx"
  <2>1. w \in I!start_scsi_82xx(c, gbl_dsd)
    BY <1>7, Zenon DEF I!Ways
  <2>2. \/ w \in I!start_type_6(n, gbl_dsd)
        \/ w \in I!start_scsi(n, I!calc_iocbs(n), gbl_dsd)
    BY <2>1 DEF I!start_scsi_82xx
  <2> QED BY <1>1, <1>2, <2>2, CountIsInt, TypeSixGivesBack
<1> QED BY <1>3, <1>4, <1>5, <1>6, <1>7 DEF I!Chips

--------------------------------------------------------------------------
(* The inductive invariant for what a command gives back.                  *)

InFlightPaired == \A s \in SrbSlots : sps[s].live => Paired(sps[s])

BackInv == CommandInv /\ InFlightPaired /\ left = I!Nothing

LEMMA BackInit == RoutinesInit => BackInv
<1> SUFFICES ASSUME RoutinesInit PROVE BackInv
  OBVIOUS
<1>1. CommandInv
  BY CommandInit
<1>2. sps = [s \in SrbSlots |-> I!NoSp] /\ left = I!Nothing
  BY DEF RoutinesInit, I!Init
<1>3. InFlightPaired
  BY <1>2, NoSpIs DEF InFlightPaired
<1> QED BY <1>1, <1>2, <1>3 DEF BackInv

LEMMA QueueCommandGivesBack ==
  ASSUME BackInv, NEW s \in SrbSlots, NEW c \in Commands, I!QueueCommand(s, c)
  PROVE  InFlightPaired' /\ left' = I!Nothing
<1>1. PICK w \in I!Ways(c) : sps' = [sps EXCEPT ![s] = w.sp]
  BY DEF I!QueueCommand
<1>2. ring_chip \in I!Chips /\ PoolOk(gbl_dsd) /\ sps \in [SrbSlots -> SpSet]
  BY DEF BackInv, CommandInv, HeldIsCounted
<1>3. Paired(w.sp)
  BY <1>2, WaysGiveBack DEF BackWay
<1>4. \A k \in SrbSlots : sps'[k] = IF k = s THEN w.sp ELSE sps[k]
  BY <1>1, <1>2
<1>5. InFlightPaired'
  BY <1>3, <1>4 DEF BackInv, InFlightPaired
<1> QED BY <1>5 DEF I!QueueCommand

LEMMA QueueBusyGivesBack ==
  ASSUME BackInv, NEW c \in Commands, I!QueueBusy(c)
  PROVE  InFlightPaired' /\ left' = I!Nothing
<1>1. PICK w \in I!Ways(c) : ~w.ok /\ ~w.bug /\ left' = I!sp_free_dma(w.sp, w.pool).sp.has
  BY DEF I!QueueBusy
<1>2. ring_chip \in I!Chips /\ PoolOk(gbl_dsd)
  BY DEF BackInv, CommandInv, HeldIsCounted
<1>3. Paired(w.sp) /\ Outside(w.sp)
  BY <1>1, <1>2, WaysGiveBack DEF BackWay
<1> DEFINE h == I!sp_free_dma(w.sp, w.pool).sp.has
<1>4. /\ h \in Held /\ h["slot"] = 0 /\ h["credit"] = 0
      /\ \A t \in I!Things \ {"slot", "credit"} : h[t] = 0
  BY <1>3, FreeLeaves DEF Outside
<1>5. left' = h
  BY <1>1
<1> HIDE DEF h
<1>6. left' = I!Nothing
  BY <1>4, <1>5, AllGivenBack
<1>7. InFlightPaired'
  BY DEF BackInv, InFlightPaired, I!QueueBusy
<1> QED BY <1>6, <1>7

LEMMA CompleteGivesBack ==
  ASSUME BackInv, NEW s \in SrbSlots, I!Complete(s)
  PROVE  InFlightPaired' /\ left' = I!Nothing
<1> DEFINE h == I!sp_free_dma(sps[s], gbl_dsd).sp.has
           g == [h EXCEPT !["slot"] = 0, !["credit"] = 0]
<1>1. sps[s].live /\ left' = g /\ sps' = [sps EXCEPT ![s] = I!NoSp]
  BY DEF I!Complete
<1>2. Paired(sps[s])
  BY <1>1 DEF BackInv, InFlightPaired
<1>3. h \in Held /\ \A t \in I!Things \ {"slot", "credit"} : h[t] = 0
  BY <1>2, FreeLeaves
<1> HIDE DEF h
<1>4. /\ g \in Held /\ g["slot"] = 0 /\ g["credit"] = 0
      /\ \A t \in I!Things \ {"slot", "credit"} : g[t] = 0
  BY <1>3, ThingsAre DEF Held
<1> HIDE DEF g
<1>5. left' = I!Nothing
  BY <1>1, <1>4, AllGivenBack
<1>6. sps \in [SrbSlots -> SpSet] /\ I!NoSp.live = FALSE
  BY NoSpIs DEF BackInv, CommandInv, HeldIsCounted
<1>7. \A k \in SrbSlots : sps'[k] = IF k = s THEN I!NoSp ELSE sps[k]
  BY <1>1, <1>6
<1>8. InFlightPaired'
  BY <1>6, <1>7 DEF BackInv, InFlightPaired
<1> QED BY <1>5, <1>8

LEMMA BackStep == BackInv /\ [RoutinesNext]_routineVars => BackInv'
<1> SUFFICES ASSUME BackInv, [RoutinesNext]_routineVars PROVE BackInv'
  OBVIOUS
<1>1. CommandInv'
  BY CommandStep DEF BackInv
<1>2. CASE RingNext
  <2>1. ASSUME NEW c \in Commands, I!QueueBusy(c) PROVE InFlightPaired' /\ left' = I!Nothing
    BY <2>1, QueueBusyGivesBack
  <2>2. ASSUME NEW c \in Commands, NEW s \in SrbSlots, I!QueueCommand(s, c)
        PROVE  InFlightPaired' /\ left' = I!Nothing
    BY <2>2, QueueCommandGivesBack
  <2>3. ASSUME NEW j \in Jobs, I!BuildJob(j) PROVE InFlightPaired' /\ left' = I!Nothing
    BY <2>3 DEF I!BuildJob, BackInv, InFlightPaired
  <2>4. ASSUME NEW s \in SrbSlots, I!Complete(s) PROVE InFlightPaired' /\ left' = I!Nothing
    BY <2>4, CompleteGivesBack
  <2>5. CASE I!QueueDelayed \/ I!Tick
    <3>1. InFlightPaired' /\ left' = I!Nothing
      BY <2>5 DEF I!QueueDelayed, I!Tick, BackInv, InFlightPaired
    <3> QED BY <1>1, <3>1 DEF BackInv
  <2> QED BY <1>1, <1>2, <2>1, <2>2, <2>3, <2>4, <2>5 DEF RingNext, I!Next, BackInv
<1>3. CASE ~RingNext
  <2>1. UNCHANGED ringVars
    BY <1>3 DEF RoutinesNext, MbxNext, VportNext, UnwindNext, routineVars
  <2>2. sps' = sps /\ left' = left
    BY <2>1 DEF ringVars
  <2> QED BY <1>1, <2>2 DEF BackInv, InFlightPaired
<1> QED BY <1>2, <1>3

--------------------------------------------------------------------------
\* Whatever commands are queued, at whichever step a start fails, and in
\* whatever order commands end: the start routine and qla2x00_sp_free_dma give
\* back between them each mapping, context, list, ring entry and slot that the
\* command has taken, once, and so does its completion.
THEOREM CommandsGiveBack == RoutinesSpec => []I!NothingLeft
<1>1. BackInv => I!NothingLeft
  BY DEF BackInv, I!NothingLeft
<1> QED BY <1>1, BackInit, BackStep, PTL DEF RoutinesSpec
============================================================================
