--------------------------- MODULE ScsiIo_proof ---------------------------
(***************************************************************************)
(* Every srb has as many references as paths that will drop one, every     *)
(* completion finds its command, and eh_abort says SUCCESS only for a      *)
(* command that is back: for any number of commands, handles, entries,     *)
(* sense continuations, resets and lost commands.  The commands for which  *)
(* the answer "no such command" crosses another end of theirs, and those   *)
(* such an abort reaches, are in crossed, and nothing is said of them but  *)
(* what keeps the others apart from them.                                  *)
(*                                                                         *)
(* The properties are not inductive.  What the slots, the firmware and the *)
(* response queue say of a handle must agree while the firmware runs       *)
(* (Agree), and a command is there once (Once); sense continuations follow *)
(* their status with nothing between (SenseFollows), or an error status    *)
(* would be dropped while they are awaited; and a command that eh_abort    *)
(* was told is missing stays in its slot with no completion on the way     *)
(* until eh_abort has used the answer, or is crossed (MissStays).          *)
(***************************************************************************)
EXTENDS ScsiIo, FiniteSetTheorems, TLAPS

\* The firmware may hold commands and the response queue is its own.
Live == chip \in {"up", "restarting"}

Shape ==
  /\ phase \in [Cmds -> {"idle", "submitting", "owned", "returned"}]
  /\ ref_count \in [Cmds -> Int]
  /\ handle \in [Cmds -> Handles \cup {NoHandle}]
  /\ outstanding \in [Handles -> Cmds \cup {NoCmd}]
  /\ current \in Handles
  /\ fw \subseteq FwCmds
  /\ status_srb \in Cmds \cup {NoCmd}
  /\ in_isr \in BOOLEAN
  /\ isp_abort_needed \in BOOLEAN
  /\ failed \subseteq Cmds
  /\ crossed \subseteq Cmds
  /\ chip \in {"up", "stopped", "flushed", "restarting"}
  /\ faults \in 0..MaxFaults

Queue ==
  /\ rspq \in Seq(RspEntries) /\ Len(rspq) <= MaxQueued
  /\ fw_conts \in 0..MaxConts
  /\ sense_left \in 0..MaxConts

\* A status continuation names no command, any other entry does.
Entries ==
  \A i \in 1..Len(rspq) :
    IF rspq[i].t = "cont" THEN rspq[i].c = NoCmd
    ELSE rspq[i].h \in Handles /\ rspq[i].c \in Cmds

\* The entry at i, there or still to be posted, is a continuation.
Cont(i) ==
  /\ 1 <= i /\ i <= Len(rspq) + fw_conts
  /\ i <= Len(rspq) => rspq[i].t = "cont"

SenseFollows ==
  Live =>
    /\ status_srb # NoCmd =>
         sense_left > 0 /\ \A j \in 1..sense_left : Cont(j)
    /\ \A i \in 1..Len(rspq) : rspq[i].t = "check" =>
         rspq[i].conts > 0 /\ \A j \in i + 1..i + rspq[i].conts : Cont(j)

\* The firmware has a command once, or there is one completion of it on the
\* way, and only after the command was submitted.
Once ==
  /\ \A e \in fw :
       /\ phase[e.c] \in {"owned", "returned"}
       /\ \A f \in fw : f.c = e.c => f = e
  /\ \A i \in 1..Len(rspq) : rspq[i].t # "cont" =>
       /\ phase[rspq[i].c] \in {"owned", "returned"}
       /\ \A e \in fw : e.c # rspq[i].c
       /\ \A j \in 1..Len(rspq) :
            rspq[j].t # "cont" /\ rspq[j].c = rspq[i].c => j = i

\* What the firmware has, or has completed, is in the slot of its handle,
\* unless an abort has crossed it.
Agree ==
  Live =>
    /\ \A e \in fw : e.c \notin crossed => outstanding[e.h] = e.c
    /\ \A i \in 1..Len(rspq) :
         rspq[i].t # "cont" /\ rspq[i].c \notin crossed
           => outstanding[rspq[i].h] = rspq[i].c

\* Only a fault, or a completion that an abort has crossed, stops the chip,
\* and it does not hold anything then.
Stopped ==
  /\ ~Live => fw = {} /\ fw_conts = 0
  /\ chip # "up" => ~in_isr
  /\ chip # "up" /\ faults = 0 => crossed # {}
  /\ isp_abort_needed => crossed # {}

\* What is in a slot or waits for sense data is the driver's, once.
Slots ==
  /\ \A h \in Handles : outstanding[h] # NoCmd =>
       /\ handle[outstanding[h]] = h
       /\ phase[outstanding[h]] = "owned"
       /\ outstanding[h] # status_srb
  /\ status_srb # NoCmd =>
       /\ phase[status_srb] \in {"owned", "returned"}
       /\ phase[status_srb] = "returned" => status_srb \in crossed

EhShape ==
  /\ eh \in [pc : EhSteps, c : Cmds \cup {NoCmd}, rval : Answers]
  /\ eh.pc = "idle" <=> eh.c = NoCmd
  /\ eh.pc # "idle" => phase[eh.c] \in {"owned", "returned"}
  /\ eh.pc \in {"idle", "search", "issued"} => eh.rval = "none"
  /\ eh.pc = "answered" => eh.rval = "miss"
  /\ eh.pc \in {"check", "wait"} => eh.rval # "miss"

\* The command has the driver's own path to its end; eh_abort holds a
\* reference to it.
MainPath(c) == (\E h \in Handles : outstanding[h] = c) \/ status_srb = c
               \/ phase[c] = "submitting"
EhPath(c) == /\ eh.c = c /\ eh.pc \in {"search", "issued", "answered", "finish"}
             /\ ~(eh.pc = "finish" /\ eh.rval = "miss")

Refs ==
  \A c \in Cmds :
    /\ ref_count[c] \in 0..2
    /\ phase[c] \in {"idle", "returned"} => ref_count[c] = 0
    /\ EhPath(c) => ref_count[c] > 0
    /\ MainPath(c) /\ phase[c] # "returned" => ref_count[c] > 0
    /\ ref_count[c] = 2 => EhPath(c)
    /\ MainPath(c) /\ EhPath(c) => ref_count[c] = 2

\* A command that no abort has crossed is freed when its last path ends.
Freed ==
  \A c \in Cmds \ crossed : ref_count[c] = 0 => phase[c] \in {"idle", "returned"}

\* Until something is crossed or fails, every reference has its path.
Used ==
  faults = 0 /\ crossed = {} =>
    \A c \in Cmds :
      /\ ref_count[c] = 2 => MainPath(c)
      /\ ref_count[c] = 1 => MainPath(c) \/ EhPath(c)

MissStays ==
  eh.rval = "miss" /\ eh.c \notin crossed =>
    /\ chip = "up"
    /\ handle[eh.c] \in Handles /\ outstanding[handle[eh.c]] = eh.c
    /\ \A e \in fw : e.c # eh.c
    /\ ~InRspq(eh.c)

IInv == /\ Shape /\ Queue /\ Entries /\ SenseFollows /\ Agree /\ Stopped
        /\ Slots /\ EhShape /\ Refs /\ MissStays /\ Once /\ Freed /\ Used
--------------------------------------------------------------------------
(* The queue: what it looks like after an entry is posted or taken.        *)

Posted(x) ==
  /\ rspq' \in Seq(RspEntries)
  /\ Len(rspq') = Len(rspq) + 1
  /\ \A i \in 1..Len(rspq) : rspq'[i] = rspq[i]
  /\ rspq'[Len(rspq) + 1] = x

Popped ==
  /\ rspq' \in Seq(RspEntries)
  /\ Len(rspq') = Len(rspq) - 1
  /\ \A i \in 1..Len(rspq') : rspq'[i] = rspq[i + 1]
  /\ Len(rspq) \in Nat /\ Len(rspq) > 0 /\ Head(rspq) = rspq[1]
  /\ rspq[1] \in RspEntries

LEMMA AppendFacts ==
  ASSUME rspq \in Seq(RspEntries), NEW x \in RspEntries, rspq' = Append(rspq, x)
  PROVE  Posted(x)
BY DEF Posted

LEMMA TailFacts ==
  ASSUME rspq \in Seq(RspEntries), rspq # << >>, rspq' = Tail(rspq)
  PROVE  Popped
BY DEF Popped

\* What start_scsi does once it has found handle h.
Enters(c, h) ==
  /\ current' = h
  /\ outstanding' = [outstanding EXCEPT ![h] = c]
  /\ handle' = [handle EXCEPT ![c] = h]
  /\ fw' = IF chip \in {"stopped", "flushed"}
           THEN fw ELSE fw \cup {[h |-> h, c |-> c]}

\* The slot start_scsi takes is empty.
LEMMA EntersEmpty ==
  ASSUME IInv, NEW c \in Cmds, StartScsi(c)
  PROVE  \E h \in Handles : outstanding[h] = NoCmd /\ Enters(c, h)
<1>1. PICK h \in NextHandle : Enters(c, h)
  BY DEF StartScsi, Enters
<1>2. h \in Handles /\ outstanding[h] = NoCmd
  BY DEF NextHandle, FreeHandles
<1> QED BY <1>1, <1>2

\* No handle is NoHandle, which is 0.
LEMMA HandlesPositive == NoHandle \notin Handles /\ Handles \subseteq Nat
BY ScsiIoAssumption DEF NoHandle, Handles

LEMMA InitInv == Init => IInv
<1> SUFFICES ASSUME Init PROVE IInv
  OBVIOUS
<1> USE ScsiIoAssumption, HandlesPositive DEF Init
<1>1. Shape
  <2>1. 1 \in Handles /\ 0 \in 0..MaxFaults
    BY DEF Handles
  <2>2. /\ phase \in [Cmds -> {"idle", "submitting", "owned", "returned"}]
        /\ ref_count \in [Cmds -> Int]
        /\ handle \in [Cmds -> Handles \cup {NoHandle}]
    OBVIOUS
  <2>3. outstanding \in [Handles -> Cmds \cup {NoCmd}]
    OBVIOUS
  <2> QED BY <2>1, <2>2, <2>3 DEF Shape
<1>2. Queue
  BY DEF Queue
<1>3. Entries /\ SenseFollows /\ Agree
  BY DEF Entries, SenseFollows, Agree
<1>4. Stopped
  BY DEF Stopped, Live
<1>5. Slots
  BY DEF Slots
<1>6. EhShape
  BY DEF EhShape, EhIdle, EhSteps, Answers
<1>7. Refs
  BY DEF Refs, MainPath, EhPath, EhIdle
<1>8. MissStays
  BY DEF MissStays, EhIdle
<1>9. Once /\ Freed /\ Used
  BY DEF Once, Freed, Used
<1> QED BY <1>1, <1>2, <1>3, <1>4, <1>5, <1>6, <1>7, <1>8, <1>9 DEF IInv

\* The answers eh_abort can get.
EhAborted(e) ==
  /\ eh.pc = "issued"
  /\ e.c = eh.c /\ fw_conts = 0 /\ Len(rspq) < MaxQueued
  /\ fw' = fw \ {e}
  /\ rspq' = Append(rspq, Entry("error", e, 0))
  /\ eh' = [eh EXCEPT !.pc = "finish", !.rval = "ok"]
  /\ UNCHANGED <<ioVars, slotVars, fw_conts, isrVars, failed, crossed, chipVars>>

EhMissed ==
  /\ eh.pc = "issued"
  /\ chip = "up" /\ \A e \in fw : e.c # eh.c
  /\ eh' = [eh EXCEPT !.pc = "answered", !.rval = "miss"]
  /\ crossed' = IF LostByFw(eh.c) THEN crossed ELSE crossed \cup {eh.c}
  /\ UNCHANGED <<ioVars, slotVars, fw, rspVars, isrVars, failed, chipVars>>

EhUnanswered ==
  /\ eh.pc = "issued"
  /\ eh' = [eh EXCEPT !.pc = "finish", !.rval = "fail"]
  /\ UNCHANGED <<ioVars, slotVars, fw, rspVars, isrVars, failed, crossed, chipVars>>

\* The firmware's answer to an abort is one of three.
LEMMA EhAnswers ==
  ASSUME EhAnswer
  PROVE  (\E e \in fw : EhAborted(e)) \/ EhMissed \/ EhUnanswered
BY DEF EhAnswer, EhAborted, EhMissed, EhUnanswered, rspVars

\* What the interrupt handler does with a status entry: the command in the slot
\* ends, which is the entry's own unless an abort has crossed that, and no
\* sense data is awaited.
StatusTaken(e, d) ==
  /\ e.h \in Handles /\ e.c \in Cmds /\ d \in Cmds
  /\ outstanding[e.h] = d /\ handle[d] = e.h /\ phase[d] = "owned"
  /\ d # e.c => e.c \in crossed
  /\ status_srb = NoCmd
  /\ chip = "up"
  /\ outstanding' = [outstanding EXCEPT ![e.h] = NoCmd]
  /\ IF e.t = "check"
     THEN status_srb' = d /\ sense_left' = e.conts /\ UNCHANGED ioVars
     ELSE SpDone({d}) /\ UNCHANGED <<status_srb, sense_left>>
  /\ in_isr' = (rspq' # << >>)
  /\ crossed' = IF d # e.c THEN crossed \cup {d} ELSE crossed
  /\ UNCHANGED <<handle, current, fw, fw_conts, eh, failed, chipVars>>

\* The slot of a completion that an abort has crossed may be empty.
StatusBad(e) ==
  /\ e.c \in crossed
  /\ chip = "up" /\ status_srb = NoCmd
  /\ isp_abort_needed' = TRUE
  /\ in_isr' = (rspq' # << >>)
  /\ UNCHANGED <<ioVars, slotVars, status_srb, sense_left, fw, fw_conts,
                 ehVars, chip, faults>>

\* A status entry does one or the other.
LEMMA StatusFinds ==
  ASSUME IInv, Isr, Head(rspq).t # "cont"
  PROVE  (\E d \in Cmds : StatusTaken(Head(rspq), d)) \/ StatusBad(Head(rspq))
<1> DEFINE e == Head(rspq)
<1>1. rspq # << >> /\ rspq' = Tail(rspq)
  BY DEF Isr
<1>2. Popped
  BY <1>1, TailFacts DEF IInv, Queue
<1>3. e = rspq[1] /\ 1 \in 1..Len(rspq)
  BY <1>2 DEF Popped
<1>4. chip = "up" /\ Live
  BY DEF Isr, IInv, Stopped, Shape, Live
<1>5. e.h \in Handles /\ e.c \in Cmds
  BY <1>3 DEF IInv, Entries
<1>6. outstanding[e.h] = e.c \/ e.c \in crossed
  BY <1>3, <1>4 DEF IInv, Agree
<1>7. status_srb = NoCmd
  <2> SUFFICES ASSUME status_srb # NoCmd PROVE FALSE
    OBVIOUS
  <2>1. sense_left > 0 /\ \A j \in 1..sense_left : Cont(j)
    BY <1>4 DEF IInv, SenseFollows
  <2>2. Cont(1)
    BY <2>1 DEF IInv, Queue
  <2> QED BY <2>2, <1>3 DEF Cont
<1>8. /\ in_isr' = (rspq' # << >>)
      /\ UNCHANGED <<handle, current, fw, fw_conts, eh, failed, chip, faults>>
      /\ BadHandle(e) \/ CommandStatus(e)
      /\ crossed' = IF outstanding[e.h] \notin {e.c, NoCmd}
                    THEN crossed \cup {outstanding[e.h]} ELSE crossed
  BY <1>1 DEF Isr
<1> HIDE DEF e
<1>9. CASE outstanding[e.h] = NoCmd
  <2>1. e.c \in crossed
    BY <1>5, <1>6, <1>9, ScsiIoAssumption
  <2>2. BadHandle(e) /\ crossed' = crossed
    BY <1>8, <1>9 DEF CommandStatus
  <2> QED BY <1>4, <1>7, <1>8, <2>1, <2>2 DEF StatusBad, BadHandle, slotVars, ehVars, e
<1>10. CASE outstanding[e.h] # NoCmd
  <2>1. PICK d \in Cmds : d = outstanding[e.h]
    BY <1>5, <1>10 DEF IInv, Shape
  <2>2. handle[d] = e.h /\ phase[d] = "owned"
    BY <1>5, <1>10, <2>1 DEF IInv, Slots
  <2>3. CommandStatus(e)
    BY <1>8, <1>10 DEF BadHandle
  <2>4. /\ outstanding' = [outstanding EXCEPT ![e.h] = NoCmd]
        /\ UNCHANGED isp_abort_needed
        /\ IF e.t = "check"
           THEN status_srb' = d /\ sense_left' = e.conts /\ UNCHANGED ioVars
           ELSE SpDone({d}) /\ UNCHANGED <<status_srb, sense_left>>
    BY <1>7, <2>1, <2>3 DEF CommandStatus, LongSense, PlainStatus
  <2>5. crossed' = IF d # e.c THEN crossed \cup {d} ELSE crossed
    BY <1>8, <1>10, <2>1
  <2>6. d # e.c => e.c \in crossed
    BY <1>6, <2>1
  <2> QED BY <1>4, <1>5, <1>7, <1>8, <2>1, <2>2, <2>4, <2>5, <2>6
          DEF StatusTaken, chipVars, e
<1> QED BY <1>9, <1>10

--------------------------------------------------------------------------
(* References.                                                             *)

\* No path begins or ends.
LEMMA SamePaths ==
  ASSUME IInv, UNCHANGED <<ref_count, eh, faults>>, crossed \subseteq crossed',
         \A c \in Cmds : MainPath(c)' <=> MainPath(c),
         \A c \in Cmds : (phase'[c] \in {"idle", "returned"})
                          <=> (phase[c] \in {"idle", "returned"}),
         \A c \in Cmds : phase'[c] = "returned" <=> phase[c] = "returned"
  PROVE  Refs' /\ Freed' /\ Used'
<1>1. Refs'
  BY DEF IInv, Refs, EhPath
<1>2. Freed'
  BY DEF IInv, Freed
<1>3. Used'
  BY DEF IInv, Used, EhPath
<1> QED BY <1>1, <1>2, <1>3

\* The driver's own path to a command ends with its reference, if the command
\* is not freed already.
LEMMA PathDone ==
  ASSUME IInv, NEW c \in Cmds, SpDone({c}), UNCHANGED <<eh, faults>>,
         crossed \subseteq crossed', MainPath(c), phase[c] \in {"owned", "returned"},
         phase[c] = "returned" => c \in crossed,
         ~MainPath(c)', \A d \in Cmds \ {c} : MainPath(d)' <=> MainPath(d)
  PROVE  Refs' /\ Freed' /\ Used'
<1>1. \A d \in Cmds \ {c} : ref_count'[d] = ref_count[d] /\ phase'[d] = phase[d]
  BY DEF SpDone
<1>2. \A d \in Cmds : EhPath(d)' <=> EhPath(d)
  BY DEF EhPath
<1>3. CASE phase[c] = "owned"
  <2>1. ref_count[c] \in {1, 2}
    BY <1>3 DEF IInv, Refs
  <2>2. /\ ref_count'[c] = ref_count[c] - 1
        /\ phase'[c] = IF ref_count[c] = 1 THEN "returned" ELSE "owned"
    BY <1>3, <2>1 DEF SpDone
  <2>3. Refs'
    BY <1>1, <1>2, <2>1, <2>2 DEF IInv, Refs
  <2>4. Freed'
    BY <1>1, <2>1, <2>2 DEF IInv, Freed
  <2>5. Used'
    BY <1>1, <1>2, <2>1, <2>2 DEF IInv, Refs, Used
  <2> QED BY <2>3, <2>4, <2>5
<1>4. CASE phase[c] = "returned"
  <2>1. ref_count[c] = 0 /\ ~EhPath(c) /\ c \in crossed
    BY <1>4 DEF IInv, Refs
  <2>2. ref_count'[c] = 0 /\ phase'[c] = "returned"
    BY <1>4, <2>1 DEF SpDone
  <2>3. Refs'
    BY <1>1, <1>2, <2>1, <2>2 DEF IInv, Refs
  <2>4. Freed' /\ Used'
    BY <1>1, <2>1, <2>2 DEF IInv, Freed, Used
  <2> QED BY <2>3, <2>4
<1> QED BY <1>3, <1>4

--------------------------------------------------------------------------
(* Completions and continuations.                                          *)

\* The completion of a command the firmware had is posted.
LEMMA CompletionPosted ==
  ASSUME IInv, NEW e \in fw, fw' = fw \ {e},
         UNCHANGED <<outstanding, chip, phase, crossed>>,
         NEW x, Posted(x), x.h = e.h, x.c = e.c
  PROVE  Agree' /\ Once'
<1>1. Len(rspq) \in Nat
  BY DEF IInv, Queue
<1>2. \A i \in 1..Len(rspq') :
        \/ i = Len(rspq) + 1 /\ rspq'[i].h = e.h /\ rspq'[i].c = e.c
        \/ i \in 1..Len(rspq) /\ rspq'[i] = rspq[i]
  BY <1>1 DEF Posted
<1>3. Agree'
  <2> SUFFICES ASSUME Live PROVE Agree'
    BY DEF Agree, Live
  <2>1. \A f \in fw' : f.c \notin crossed' => outstanding'[f.h] = f.c
    BY DEF IInv, Agree
  <2>2. ASSUME NEW i \in 1..Len(rspq'), rspq'[i].t # "cont", rspq'[i].c \notin crossed'
        PROVE  outstanding'[rspq'[i].h] = rspq'[i].c
    BY <1>2, <2>2 DEF IInv, Agree
  <2> QED BY <2>1, <2>2 DEF Agree
<1>4. Once'
  <2>1. \A f \in fw' : /\ phase'[f.c] \in {"owned", "returned"}
                       /\ \A g \in fw' : g.c = f.c => g = f
    BY DEF IInv, Once
  <2>2. \A f \in fw' : f.c # e.c
    BY DEF IInv, Once
  <2>3. phase[e.c] \in {"owned", "returned"}
    BY DEF IInv, Once
  <2>4. \A i \in 1..Len(rspq) : rspq[i].t # "cont" => rspq[i].c # e.c
    BY DEF IInv, Once
  <2>5. ASSUME NEW i \in 1..Len(rspq'), rspq'[i].t # "cont"
        PROVE  /\ phase'[rspq'[i].c] \in {"owned", "returned"}
               /\ \A f \in fw' : f.c # rspq'[i].c
    BY <1>2, <2>2, <2>3, <2>5 DEF IInv, Once
  <2>6. ASSUME NEW i \in 1..Len(rspq'), rspq'[i].t # "cont",
               NEW j \in 1..Len(rspq'), rspq'[j].t # "cont", rspq'[j].c = rspq'[i].c
        PROVE  j = i
    <3>1. CASE i \in 1..Len(rspq) /\ j \in 1..Len(rspq) /\ rspq'[i] = rspq[i] /\ rspq'[j] = rspq[j]
      BY <2>6, <3>1 DEF IInv, Once
    <3> QED BY <1>1, <1>2, <2>4, <2>6, <3>1
  <2> QED BY <2>1, <2>5, <2>6 DEF Once
<1> QED BY <1>3, <1>4

\* Taking an entry moves the continuations one place ahead.
LEMMA ContMoves ==
  ASSUME IInv, Popped, UNCHANGED fw_conts, NEW i \in Nat, i > 0, Cont(i + 1)
  PROVE  Cont(i)'
BY DEF IInv, Queue, Popped, Cont

\* After an entry is taken, a status that waits for sense data is still
\* followed by it.
LEMMA ChecksMove ==
  ASSUME IInv, Popped, UNCHANGED fw_conts, Live,
         NEW i \in 1..Len(rspq'), rspq'[i].t = "check"
  PROVE  rspq'[i].conts > 0 /\ \A j \in i + 1..i + rspq'[i].conts : Cont(j)'
<1>1. i + 1 \in 1..Len(rspq) /\ rspq'[i] = rspq[i + 1]
  BY DEF Popped
<1>2. rspq[i + 1] \in RspEntries
  BY <1>1 DEF IInv, Queue
<1> DEFINE k == rspq[i + 1].conts
<1>3. k \in Nat
  BY <1>2 DEF RspEntries
<1>4. k > 0 /\ \A j \in i + 2..i + 1 + k : Cont(j)
  BY <1>1 DEF IInv, SenseFollows
<1> HIDE DEF k
<1>5. ASSUME NEW j \in i + 1..i + k PROVE Cont(j)'
  <2>1. j \in Nat /\ j > 0 /\ j + 1 \in i + 2..i + 1 + k
    BY <1>3
  <2> QED BY <2>1, <1>4, ContMoves
<1> QED BY <1>1, <1>4, <1>5 DEF k

\* Taking an entry leaves the others where they were, one place ahead.
LEMMA OnceMoves ==
  ASSUME IInv, Popped, UNCHANGED fw,
         \A c \in Cmds : phase[c] \in {"owned", "returned"}
                          => phase'[c] \in {"owned", "returned"}
  PROVE  Once'
<1>1. \A i \in 1..Len(rspq') : i + 1 \in 1..Len(rspq) /\ rspq'[i] = rspq[i + 1]
  BY DEF Popped
<1>2. \A f \in fw' : /\ phase'[f.c] \in {"owned", "returned"}
                     /\ \A g \in fw' : g.c = f.c => g = f
  BY DEF IInv, Once, Shape, FwCmds
<1>3. ASSUME NEW i \in 1..Len(rspq'), rspq'[i].t # "cont"
      PROVE  /\ phase'[rspq'[i].c] \in {"owned", "returned"}
             /\ \A f \in fw' : f.c # rspq'[i].c
  <2>1. i + 1 \in 1..Len(rspq) /\ rspq'[i] = rspq[i + 1]
    BY <1>1
  <2>2. /\ rspq[i + 1].c \in Cmds
        /\ phase[rspq[i + 1].c] \in {"owned", "returned"}
        /\ \A f \in fw : f.c # rspq[i + 1].c
    BY <1>3, <2>1 DEF IInv, Once, Entries
  <2> QED BY <2>1, <2>2
<1>4. ASSUME NEW i \in 1..Len(rspq'), rspq'[i].t # "cont",
             NEW j \in 1..Len(rspq'), rspq'[j].t # "cont", rspq'[j].c = rspq'[i].c
      PROVE  j = i
  <2>1. /\ i + 1 \in 1..Len(rspq) /\ rspq'[i] = rspq[i + 1]
        /\ j + 1 \in 1..Len(rspq) /\ rspq'[j] = rspq[j + 1]
    BY <1>1
  <2>2. j + 1 = i + 1
    BY <1>4, <2>1 DEF IInv, Once
  <2> QED BY <2>2
<1> QED BY <1>2, <1>3, <1>4 DEF Once

\* A status entry is taken: the others still agree with their slots, but for
\* the command that was ended in place of the entry's.
LEMMA AgreeAfterStatus ==
  ASSUME IInv, NEW e, e = rspq[1], Popped, NEW d, StatusTaken(e, d), e.t # "cont"
  PROVE  Agree'
<1>1. /\ Live /\ UNCHANGED fw /\ e.h \in Handles /\ d \in Cmds /\ outstanding[e.h] = d
      /\ crossed' = IF d # e.c THEN crossed \cup {d} ELSE crossed
      /\ \A g \in Handles \ {e.h} : outstanding'[g] = outstanding[g]
  BY DEF StatusTaken, Live, IInv, Shape
<1>2. 1 \in 1..Len(rspq)
  BY DEF Popped
<1>3. ASSUME NEW f \in fw', f.c \notin crossed' PROVE outstanding'[f.h] = f.c
  <2>1. f.h \in Handles /\ outstanding[f.h] = f.c /\ f.c # e.c
    BY <1>1, <1>2, <1>3 DEF IInv, Agree, Once, Shape, FwCmds
  <2> QED BY <1>1, <1>3, <2>1
<1>4. ASSUME NEW i \in 1..Len(rspq'), rspq'[i].t # "cont", rspq'[i].c \notin crossed'
      PROVE  outstanding'[rspq'[i].h] = rspq'[i].c
  <2>1. i + 1 \in 1..Len(rspq) /\ i + 1 # 1 /\ rspq'[i] = rspq[i + 1]
    BY DEF Popped
  <2>2. rspq[i + 1].c \notin crossed
    BY <1>1, <1>4, <2>1
  <2>3. rspq[i + 1].h \in Handles /\ outstanding[rspq[i + 1].h] = rspq[i + 1].c
    BY <1>1, <1>4, <2>1, <2>2 DEF IInv, Agree, Entries
  <2>4. rspq[i + 1].c # e.c
    BY <1>2, <1>4, <2>1 DEF IInv, Once
  <2>5. rspq[i + 1].h # e.h
    BY <1>1, <1>4, <2>1, <2>3, <2>4
  <2> QED BY <1>1, <2>1, <2>3, <2>5
<1> QED BY <1>3, <1>4 DEF Agree

\* ... and the command eh_abort was told is missing was not that of the entry.
LEMMA MissAfterStatus ==
  ASSUME IInv, NEW e, e = rspq[1], Popped, NEW d, StatusTaken(e, d), e.t # "cont"
  PROVE  MissStays'
<1> SUFFICES ASSUME eh.rval = "miss", eh.c \notin crossed' PROVE MissStays'
  BY DEF StatusTaken, MissStays
<1>1. /\ chip = "up" /\ UNCHANGED <<eh, chip, fw, handle>>
      /\ outstanding' = [outstanding EXCEPT ![e.h] = NoCmd]
  BY DEF StatusTaken, chipVars
<1>a. eh.c \notin crossed /\ (d # e.c => eh.c # d)
  BY DEF StatusTaken
<1>2. 1 \in 1..Len(rspq)
  BY DEF Popped
<1>3. e.c # eh.c
  BY <1>2, <1>a DEF IInv, MissStays, InRspq
<1>4. handle[eh.c] \in Handles /\ outstanding[handle[eh.c]] = eh.c
  BY <1>a DEF IInv, MissStays
<1>5. outstanding[e.h] = d
  BY DEF StatusTaken
<1>6. outstanding'[handle[eh.c]] = eh.c
  BY <1>1, <1>a, <1>3, <1>4, <1>5 DEF IInv, Shape
<1>7. \A i \in 1..Len(rspq') : rspq'[i].c # eh.c
  <2> SUFFICES ASSUME NEW i \in 1..Len(rspq') PROVE rspq'[i].c # eh.c
    OBVIOUS
  <2>1. i + 1 \in 1..Len(rspq) /\ rspq'[i] = rspq[i + 1]
    BY DEF Popped
  <2> QED BY <2>1, <1>a DEF IInv, MissStays, InRspq
<1>8. ~InRspq(eh.c)'
  BY <1>1, <1>7 DEF InRspq
<1> QED BY <1>1, <1>4, <1>6, <1>8, <1>a DEF IInv, MissStays

--------------------------------------------------------------------------
(* Each action keeps the invariant.                                        *)
USE ScsiIoAssumption, HandlesPositive

\* The srb is new: one reference, and it waits to be submitted.
LEMMA QueueCommandStep ==
  ASSUME IInv, NEW c \in Cmds, QueueCommand(c)
  PROVE  IInv'
<1> USE DEF IInv, QueueCommand
<1>1. Shape'
  BY DEF
    Shape, slotVars, isrVars, ehVars, chipVars, ioVars
<1>2. Queue'
  BY DEF Queue, rspVars, isrVars
<1>3. Entries'
  BY DEF Entries, rspVars
<1>4. SenseFollows'
  BY DEF SenseFollows, Live, Cont, rspVars, isrVars, chipVars
<1>5. Agree'
  BY DEF
    Agree, Live, slotVars, rspVars, chipVars, ehVars
<1>6. Stopped'
  BY DEF
    Stopped, Live, rspVars, isrVars, chipVars, ehVars, Shape
<1>7. Slots'
  BY DEF
    Slots, slotVars, isrVars, ioVars, ehVars, Shape
<1>8. EhShape'
  BY DEF EhShape, ehVars
<1>9. Refs'
  BY DEF
    Refs, MainPath, EhPath, slotVars, isrVars, ehVars, chipVars, Shape,
    ioVars
<1>10. MissStays'
  BY DEF
    MissStays, InRspq, slotVars, rspVars, ehVars, chipVars
<1>11. Once'
  BY DEF
    Once, Shape, ioVars, slotVars, rspVars, isrVars, ehVars, chipVars
<1>12. Freed'
  BY DEF
    Freed, Refs, Shape, ioVars, slotVars, rspVars, isrVars, ehVars,
    chipVars
<1>13. Used'
  BY DEF
    Used, Refs, MainPath, EhPath, Stopped, Slots, Shape, ioVars, slotVars,
    rspVars, isrVars, ehVars, chipVars
<1> QED BY <1>1, <1>2, <1>3, <1>4, <1>5, <1>6, <1>7, <1>8, <1>9, <1>10,
         <1>11, <1>12, <1>13

\* The command takes a free slot, which no completion on the way names.
LEMMA StartScsiStep ==
  ASSUME IInv, NEW c \in Cmds, StartScsi(c)
  PROVE  IInv'
<1> USE DEF IInv, StartScsi
<1> PICK h \in Handles : outstanding[h] = NoCmd /\ Enters(c, h)
  BY EntersEmpty
<1>1. Shape'
  BY DEF
    Shape, FwCmds, Enters, isrVars, ehVars, chipVars, rspVars, ioVars,
    slotVars
<1>2. Queue'
  BY DEF Queue, rspVars, isrVars, Enters
<1>3. Entries'
  BY DEF Entries, rspVars, Enters
<1>4. SenseFollows'
  BY DEF SenseFollows, Live, Cont, rspVars, isrVars, chipVars, Enters
<1>5. Agree'
  <2>1. SUFFICES ASSUME Live PROVE Agree'
    BY DEF Agree, Live, chipVars
  <2>2. /\ fw' = fw \cup {[h |-> h, c |-> c]}
        /\ outstanding' = [outstanding EXCEPT ![h] = c]
        /\ UNCHANGED <<rspq, crossed>>
    BY <2>1 DEF Enters, Live, rspVars, ehVars
  <2>3. ASSUME NEW e \in fw', e.c \notin crossed' PROVE outstanding'[e.h] = e.c
    <3>1. CASE e \in fw
      <4>1. e.h \in Handles /\ e.c # NoCmd /\ outstanding[e.h] = e.c
        BY <2>1, <2>2, <2>3, <3>1 DEF Agree, Shape, FwCmds
      <4> QED BY <2>2, <4>1 DEF Shape
    <3>2. CASE e = [h |-> h, c |-> c]
      BY <2>2, <3>2 DEF Shape
    <3> QED BY <2>2, <3>1, <3>2
  <2>4. ASSUME NEW i \in 1..Len(rspq), rspq[i].t # "cont", rspq[i].c \notin crossed
        PROVE  outstanding'[rspq[i].h] = rspq[i].c
    <3>1. /\ rspq[i].h \in Handles /\ rspq[i].c # NoCmd
          /\ outstanding[rspq[i].h] = rspq[i].c
      BY <2>1, <2>4 DEF Agree, Entries
    <3> QED BY <2>2, <3>1 DEF Shape
  <2> QED BY <2>2, <2>3, <2>4 DEF Agree
<1>6. Stopped'
  BY DEF
    Stopped, Live, rspVars, isrVars, chipVars, Enters, Shape, ehVars
<1>7. Slots'
  BY DEF
    Slots, isrVars, Enters, Shape, ioVars, slotVars, ehVars
<1>8. EhShape'
  BY DEF EhShape, ehVars, Enters
<1>9. Refs' /\ Freed' /\ Used'
  <2>1. phase[c] = "submitting" /\ phase' = [phase EXCEPT ![c] = "owned"]
    OBVIOUS
  <2>2. outstanding' = [outstanding EXCEPT ![h] = c] /\ UNCHANGED status_srb
    BY DEF Enters, isrVars
  <2>3. \A d \in Cmds : MainPath(d)' <=> MainPath(d)
    BY <2>1, <2>2 DEF MainPath, Shape
  <2> QED BY <2>1, <2>3, SamePaths DEF Shape, Enters, ehVars, chipVars
<1>10. MissStays'
  <2> SUFFICES ASSUME eh.rval = "miss", eh.c \notin crossed PROVE MissStays'
    BY DEF MissStays, ehVars
  <2>1. eh.c \in Cmds /\ eh.c # c
    BY DEF MissStays, EhShape, Slots, Shape
  <2>2. handle'[eh.c] = handle[eh.c] /\ handle[eh.c] # h
    BY <2>1 DEF Enters, MissStays, Shape
  <2>3. \A e \in fw' : e.c # eh.c
    BY <2>1 DEF Enters, MissStays
  <2> QED BY <2>1, <2>2, <2>3
          DEF Enters, MissStays, InRspq, Shape, rspVars, ehVars, chipVars
<1>11. Once'
  <2>1. \A e \in fw : e.c \in Cmds /\ e.c # c
    BY DEF Once, Shape, FwCmds
  <2>2. \A i \in 1..Len(rspq) : rspq[i].t # "cont" => rspq[i].c \in Cmds /\ rspq[i].c # c
    BY DEF Once, Entries
  <2>3. UNCHANGED rspq /\ \A e \in fw' : e \in fw \/ e = [h |-> h, c |-> c]
    BY DEF Enters, rspVars
  <2>4. phase' = [phase EXCEPT ![c] = "owned"]
    OBVIOUS
  <2>5. \A d \in Cmds : phase[d] \in {"owned", "returned"}
                         => phase'[d] \in {"owned", "returned"}
    BY <2>4 DEF Shape
  <2>6. phase'[c] = "owned"
    BY <2>4 DEF Shape
  <2>7. \A e \in fw' : /\ phase'[e.c] \in {"owned", "returned"}
                       /\ \A f \in fw' : f.c = e.c => f = e
    BY <2>1, <2>3, <2>5, <2>6 DEF Once
  <2>8. ASSUME NEW i \in 1..Len(rspq), rspq[i].t # "cont"
        PROVE  /\ phase'[rspq[i].c] \in {"owned", "returned"}
               /\ \A e \in fw' : e.c # rspq[i].c
    BY <2>2, <2>3, <2>5, <2>8 DEF Once
  <2> QED BY <2>3, <2>7, <2>8 DEF Once
<1> QED BY <1>1, <1>2, <1>3, <1>4, <1>5, <1>6, <1>7, <1>8, <1>9, <1>10,
         <1>11

\* The srb is freed before anybody else knew it.
LEMMA HostBusyStep ==
  ASSUME IInv, NEW c \in Cmds, HostBusy(c)
  PROVE  IInv'
<1> USE DEF IInv, HostBusy
<1>1. Shape'
  BY DEF
    Shape, slotVars, isrVars, ehVars, chipVars, ioVars
<1>2. Queue'
  BY DEF Queue, rspVars, isrVars
<1>3. Entries'
  BY DEF Entries, rspVars
<1>4. SenseFollows'
  BY DEF SenseFollows, Live, Cont, rspVars, isrVars, chipVars
<1>5. Agree'
  BY DEF
    Agree, Live, slotVars, rspVars, chipVars, ehVars
<1>6. Stopped'
  BY DEF
    Stopped, Live, rspVars, isrVars, chipVars, ehVars, Shape
<1>7. Slots'
  BY DEF
    Slots, slotVars, isrVars, ioVars, ehVars, Shape
<1>8. EhShape'
  BY DEF EhShape, ehVars
<1>9. Refs'
  BY DEF
    Refs, MainPath, EhPath, slotVars, isrVars, ehVars, chipVars, Shape,
    Queue, EhShape, Slots, ioVars
<1>10. MissStays'
  BY DEF
    MissStays, InRspq, slotVars, rspVars, ehVars, chipVars
<1>11. Once'
  BY DEF
    Once, Shape, ioVars, slotVars, rspVars, isrVars, ehVars, chipVars
<1>12. Freed'
  BY DEF
    Freed, Refs, Shape, ioVars, slotVars, rspVars, isrVars, ehVars,
    chipVars
<1>13. Used'
  BY DEF
    Used, Refs, MainPath, EhPath, Stopped, Slots, Shape, ioVars, slotVars,
    rspVars, isrVars, ehVars, chipVars
<1> QED BY <1>1, <1>2, <1>3, <1>4, <1>5, <1>6, <1>7, <1>8, <1>9, <1>10,
         <1>11, <1>12, <1>13

\* The command leaves the firmware for the queue; its sense data follows.
LEMMA FwCompleteStep ==
  ASSUME IInv, NEW e \in fw, NEW t \in {"ok", "error", "fault", "check"},
         NEW k \in 0..MaxConts, FwComplete(e, t, k)
  PROVE  IInv'
<1> USE DEF IInv, FwComplete
<1>a. Entry(t, e, k) \in RspEntries
  BY DEF Shape, FwCmds, RspEntries, Entry, Handles
<1>b. Posted(Entry(t, e, k))
  BY <1>a, AppendFacts DEF Queue
<1>1. Shape'
  BY <1>a, <1>b DEF
    Shape, ioVars, slotVars, isrVars, ehVars, chipVars, Entry
<1>2. Queue'
  BY <1>a, <1>b DEF Queue, isrVars, Entry, Posted
<1>3. Entries'
  <2>1. /\ Entry(t, e, k).t # "cont"
        /\ Entry(t, e, k).h \in Handles /\ Entry(t, e, k).c \in Cmds
    BY DEF Entry, Shape, FwCmds
  <2>2. Len(rspq) \in Nat
    BY DEF Queue
  <2> HIDE DEF FwComplete
  <2>3. ASSUME NEW i \in 1..Len(rspq')
        PROVE  \/ rspq'[i] = Entry(t, e, k)
               \/ i \in 1..Len(rspq) /\ rspq'[i] = rspq[i]
    BY <1>b, <2>2 DEF Posted
  <2> QED BY <2>1, <2>3 DEF Entries
<1>4. SenseFollows'
  BY <1>a, <1>b DEF
    SenseFollows, Live, Cont, isrVars, chipVars, Entry, Posted, Shape
<1>5. Agree' /\ Once'
  <2>1. Entry(t, e, k).h = e.h /\ Entry(t, e, k).c = e.c
    BY DEF Entry
  <2>2. UNCHANGED <<outstanding, chip, phase, crossed>>
    BY DEF ioVars, slotVars, ehVars, chipVars
  <2> QED BY <1>b, <2>1, <2>2, CompletionPosted
<1>6. Stopped'
  BY <1>a, <1>b DEF
    Stopped, Live, isrVars, chipVars, Entry, rspVars, ehVars, Shape
<1>7. Slots'
  BY <1>a, <1>b DEF
    Slots, ioVars, slotVars, isrVars, Entry, ehVars, Shape
<1>8. EhShape'
  BY <1>a, <1>b DEF EhShape, ioVars, ehVars, Entry
<1>9. Refs'
  BY <1>a, <1>b DEF
    Refs, MainPath, EhPath, ioVars, slotVars, isrVars, ehVars, chipVars,
    Entry, Shape
<1>10. MissStays'
  BY <1>a, <1>b DEF
    MissStays, InRspq, slotVars, ehVars, chipVars, Entry, Posted, rspVars
<1>12. Freed'
  BY <1>a, <1>b DEF
    Freed, Refs, Shape, ioVars, slotVars, rspVars, isrVars, ehVars,
    chipVars
<1>13. Used'
  BY <1>a, <1>b DEF
    Used, Refs, MainPath, EhPath, Stopped, Slots, Shape, ioVars, slotVars,
    rspVars, isrVars, ehVars, chipVars
<1> QED BY <1>1, <1>2, <1>3, <1>4, <1>5, <1>6, <1>7, <1>8, <1>9, <1>10,
         <1>12, <1>13

\* A continuation that was to come is there.
LEMMA FwSenseStep ==
  ASSUME IInv, FwSense
  PROVE  IInv'
<1> USE DEF IInv, FwSense
<1> DEFINE x == Entry("cont", [h |-> NoHandle, c |-> NoCmd], 0)
<1>a. x \in RspEntries /\ x.t = "cont" /\ x.c = NoCmd
  BY ScsiIoAssumption DEF RspEntries, Entry, NoHandle
<1>b. Posted(x)
  BY <1>a, AppendFacts DEF Queue
<1> HIDE DEF x
<1>1. Shape'
  BY <1>a, <1>b DEF
    Shape, ioVars, slotVars, isrVars, ehVars, chipVars
<1>2. Queue'
  BY <1>a, <1>b DEF Queue, isrVars, Posted
<1>3. Entries'
  BY <1>a, <1>b DEF Entries, Posted
<1>4. SenseFollows'
  <2>1. Live' <=> Live
    BY DEF Live, chipVars
  <2>2. ASSUME NEW i \in Int, Cont(i) PROVE Cont(i)'
    BY <1>a, <1>b, <2>2 DEF Cont, Posted, Queue
  <2>3. \A i \in 1..Len(rspq') : rspq'[i].t = "check" =>
          i \in 1..Len(rspq) /\ rspq'[i] = rspq[i]
    BY <1>a, <1>b DEF Posted, Queue
  <2>4. Len(rspq) \in Nat /\ rspq \in Seq(RspEntries)
    BY DEF Queue
  <2>5. ASSUME NEW i \in 1..Len(rspq) PROVE i \in Int /\ rspq[i].conts \in Int
    <3>1. rspq[i] \in RspEntries
      BY <2>4
    <3> QED BY <2>4, <3>1 DEF RspEntries
  <2>6. ASSUME NEW i \in 1..Len(rspq'), rspq'[i].t = "check", Live
        PROVE  rspq'[i].conts > 0 /\ \A j \in i + 1..i + rspq'[i].conts : Cont(j)'
    <3>1. i \in 1..Len(rspq) /\ rspq'[i] = rspq[i] /\ rspq[i].t = "check"
      BY <2>3, <2>6
    <3>2. rspq[i].conts > 0 /\ \A j \in i + 1..i + rspq[i].conts : Cont(j)
      BY <2>6, <3>1 DEF SenseFollows
    <3>3. \A j \in i + 1..i + rspq[i].conts : j \in Int
      BY <2>5, <3>1
    <3> QED BY <2>2, <3>1, <3>2, <3>3
  <2>7. ASSUME status_srb' # NoCmd, Live
        PROVE  sense_left' > 0 /\ \A j \in 1..sense_left' : Cont(j)'
    <3>1. sense_left > 0 /\ sense_left' = sense_left /\ \A j \in 1..sense_left : Cont(j)
      BY <2>7 DEF SenseFollows, isrVars
    <3> QED BY <2>2, <3>1
  <2> QED BY <2>1, <2>6, <2>7 DEF SenseFollows
<1>5. Agree'
  BY <1>a, <1>b DEF
    Agree, Live, slotVars, chipVars, Posted, rspVars, ehVars
<1>6. Stopped'
  BY <1>a, <1>b DEF
    Stopped, Live, isrVars, chipVars, rspVars, ehVars, Shape
<1>7. Slots'
  BY <1>a, <1>b DEF
    Slots, ioVars, slotVars, isrVars, ehVars, Shape
<1>8. EhShape'
  BY <1>a, <1>b DEF EhShape, ioVars, ehVars
<1>9. Refs'
  BY <1>a, <1>b DEF
    Refs, MainPath, EhPath, ioVars, slotVars, isrVars, ehVars, chipVars,
    Shape
<1>10. MissStays'
  BY <1>a, <1>b DEF
    MissStays, InRspq, slotVars, ehVars, chipVars, Posted, Shape, Queue,
    EhShape, Slots, Refs, rspVars
<1>11. Once'
  <2>1. UNCHANGED <<fw, phase>>
    BY DEF ioVars
  <2>2. \A i \in 1..Len(rspq') : rspq'[i].t # "cont" =>
          i \in 1..Len(rspq) /\ rspq'[i] = rspq[i]
    BY <1>a, <1>b DEF Posted, Queue
  <2> QED BY <2>1, <2>2 DEF Once
<1>12. Freed'
  BY <1>a, <1>b DEF
    Freed, Refs, Shape, ioVars, slotVars, rspVars, isrVars, ehVars,
    chipVars
<1>13. Used'
  BY <1>a, <1>b DEF
    Used, Refs, MainPath, EhPath, Stopped, Slots, Shape, ioVars, slotVars,
    rspVars, isrVars, ehVars, chipVars
<1> QED BY <1>1, <1>2, <1>3, <1>4, <1>5, <1>6, <1>7, <1>8, <1>9, <1>10,
         <1>11, <1>12, <1>13

\* A lost command stays in its slot.
LEMMA FwLoseStep ==
  ASSUME IInv, NEW e \in fw, FwLose(e)
  PROVE  IInv'
<1> USE DEF IInv, FwLose
<1>1. Shape'
  BY DEF
    Shape, ioVars, slotVars, isrVars, ehVars, chipVars
<1>2. Queue'
  BY DEF Queue, rspVars, isrVars
<1>3. Entries'
  BY DEF Entries, rspVars
<1>4. SenseFollows'
  BY DEF SenseFollows, Live, Cont, rspVars, isrVars
<1>5. Agree'
  BY DEF
    Agree, Live, slotVars, rspVars, ehVars, chipVars
<1>6. Stopped'
  BY DEF
    Stopped, Live, rspVars, isrVars, Shape, ehVars, chipVars
<1>7. Slots'
  BY DEF
    Slots, ioVars, slotVars, isrVars, ehVars, Shape
<1>8. EhShape'
  BY DEF EhShape, ioVars, ehVars
<1>9. Refs'
  BY DEF
    Refs, MainPath, EhPath, ioVars, slotVars, isrVars, ehVars, Shape
<1>10. MissStays'
  BY DEF
    MissStays, InRspq, slotVars, rspVars, ehVars, chipVars
<1>11. Once'
  BY DEF
    Once, Shape, ioVars, slotVars, rspVars, isrVars, ehVars, chipVars
<1>12. Freed'
  BY DEF
    Freed, Refs, Shape, ioVars, slotVars, rspVars, isrVars, ehVars,
    chipVars
<1>13. Used'
  BY DEF
    Used, Refs, MainPath, EhPath, Stopped, Slots, Shape, ioVars, slotVars,
    rspVars, isrVars, ehVars, chipVars
<1> QED BY <1>1, <1>2, <1>3, <1>4, <1>5, <1>6, <1>7, <1>8, <1>9, <1>10,
         <1>11, <1>12, <1>13

\* A continuation ends the command that waits for it, or is one less to await.
LEMMA IsrContStep ==
  ASSUME IInv, Isr, Head(rspq).t = "cont"
  PROVE  IInv'
<1> USE DEF IInv, Isr
<1>a. rspq # << >> /\ rspq' = Tail(rspq)
  BY DEF Isr
<1>b. Popped
  BY <1>a, TailFacts DEF Queue
<1>1. Shape'
  BY <1>a, <1>b DEF
    Shape, ioVars, ehVars, StatusCont, SpDone, slotVars, isrVars, chipVars
<1>2. Queue'
  BY <1>a, <1>b DEF
    Queue, SenseFollows, Stopped, Slots, EhShape, Refs, MissStays, Live,
    Cont, MainPath, EhPath, InRspq, FwCmds, RspEntries, Entry, EhSteps,
    Answers, ioVars, slotVars, rspVars, isrVars, ehVars, chipVars,
    StatusCont, SpDone
<1>3. Entries'
  BY <1>a, <1>b DEF Entries, StatusCont, SpDone, Popped
<1>4. SenseFollows'
  <2>1. Live /\ UNCHANGED fw_conts
    BY DEF Stopped, Shape, Live
  <2>2. status_srb' # NoCmd => /\ status_srb # NoCmd
                               /\ sense_left' \in Nat /\ sense_left' > 0
                               /\ sense_left = sense_left' + 1
    BY <2>1 DEF StatusCont, SenseFollows, Queue
  <2>3. ASSUME status_srb' # NoCmd, NEW j \in 1..sense_left' PROVE Cont(j)'
    <3>1. j \in Nat /\ j > 0 /\ j + 1 \in 1..sense_left
      BY <2>2, <2>3 DEF Queue
    <3> QED BY <1>b, <2>1, <2>2, <2>3, <3>1, ContMoves DEF SenseFollows
  <2> QED BY <1>b, <2>1, <2>2, <2>3, ChecksMove DEF SenseFollows
<1>5. Agree'
  BY <1>a, <1>b DEF
    Agree, Live, StatusCont, SpDone, Popped, slotVars, rspVars, ehVars,
    chipVars
<1>6. Stopped'
  BY <1>a, <1>b DEF
    Stopped, Live, StatusCont, SpDone, rspVars, isrVars, ehVars, chipVars,
    Shape
<1>7. Slots'
  BY <1>a, <1>b DEF
    Slots, ioVars, StatusCont, SpDone, Shape, slotVars, isrVars, ehVars
<1>8. EhShape'
  BY <1>a, <1>b DEF EhShape, ioVars, ehVars, StatusCont, SpDone
<1>9. Refs' /\ Freed' /\ Used'
  <2>1. StatusCont /\ UNCHANGED <<outstanding, eh, faults, crossed>>
    BY DEF StatusCont
  <2>2. CASE status_srb # NoCmd /\ sense_left = 1
    <3>1. PICK c \in Cmds : c = status_srb
      BY <2>2 DEF Shape
    <3>2. /\ phase[c] \in {"owned", "returned"} /\ MainPath(c)
          /\ phase[c] = "returned" => c \in crossed
      BY <2>2, <3>1 DEF Slots, MainPath
    <3>3. SpDone({c}) /\ status_srb' = NoCmd
      BY <2>1, <2>2, <3>1 DEF StatusCont
    <3>4. \A d \in Cmds : phase'[d] = "submitting" <=> phase[d] = "submitting"
      BY <3>2, <3>3 DEF SpDone, Shape
    <3>5. ~MainPath(c)'
      BY <2>1, <3>1, <3>2, <3>3, <3>4 DEF MainPath, Slots
    <3>6. \A d \in Cmds \ {c} : MainPath(d)' <=> MainPath(d)
      BY <2>1, <3>1, <3>3, <3>4 DEF MainPath
    <3> QED BY <2>1, <3>2, <3>3, <3>5, <3>6, PathDone
  <2>3. CASE status_srb = NoCmd \/ sense_left # 1
    <3>1. UNCHANGED <<ioVars, status_srb>>
      BY <2>1, <2>3 DEF StatusCont
    <3>2. \A c \in Cmds : MainPath(c)' <=> MainPath(c)
      BY <2>1, <3>1 DEF MainPath, ioVars
    <3> QED BY <2>1, <3>1, <3>2, SamePaths DEF ioVars
  <2> QED BY <2>2, <2>3
<1>10. MissStays'
  BY <1>a, <1>b DEF
    MissStays, InRspq, ehVars, StatusCont, SpDone, Popped, slotVars,
    rspVars, chipVars
<1>11. Once'
  BY <1>b, OnceMoves DEF StatusCont, SpDone, Shape, ioVars
<1> QED BY <1>1, <1>2, <1>3, <1>4, <1>5, <1>6, <1>7, <1>8, <1>9, <1>10,
         <1>11

\* The command leaves its slot and waits for the sense data that follows.
LEMMA IsrLongStep ==
  ASSUME IInv, Isr, Head(rspq).t = "check",
         NEW d \in Cmds, StatusTaken(Head(rspq), d)
  PROVE  IInv'
<1> USE DEF IInv
<1>a. rspq # << >> /\ rspq' = Tail(rspq)
  BY DEF Isr
<1>b. Popped
  BY <1>a, TailFacts DEF Queue
<1>c. StatusTaken(Head(rspq), d)
  OBVIOUS
<1>1. Shape'
  BY <1>a, <1>b, <1>c DEF
    Shape, ioVars, ehVars, chipVars, StatusTaken, slotVars, isrVars
<1>2. Queue'
  BY <1>a, <1>b, <1>c DEF
    Queue, Popped, RspEntries, StatusTaken, ioVars, ehVars, chipVars
<1>3. Entries'
  BY <1>a, <1>b, <1>c DEF Entries, StatusTaken, Popped
<1>4. SenseFollows'
  <2> DEFINE k == rspq[1].conts
  <2>1. Live /\ rspq[1].t = "check" /\ UNCHANGED fw_conts /\ sense_left' = k
    BY <1>b, <1>c DEF Popped, StatusTaken, Live
  <2>2. k > 0 /\ k \in Nat /\ \A j \in 2..1 + k : Cont(j)
    BY <1>b, <2>1 DEF Popped, SenseFollows, RspEntries
  <2> HIDE DEF k
  <2>3. ASSUME NEW j \in 1..k PROVE Cont(j)'
    <3>1. j \in Nat /\ j > 0 /\ j + 1 \in 2..1 + k
      BY <2>2
    <3> QED BY <1>b, <2>1, <2>2, <3>1, ContMoves
  <2> QED BY <1>b, <2>1, <2>2, <2>3, ChecksMove DEF SenseFollows
<1>5. Agree'
  BY <1>b, <1>c, AgreeAfterStatus DEF Popped
<1>6. Stopped'
  BY <1>a, <1>b, <1>c DEF
    Stopped, Live, chipVars, StatusTaken, rspVars, isrVars, ehVars, Shape
<1>7. Slots'
  BY <1>a, <1>b, <1>c DEF
    Slots, ioVars, StatusTaken, Shape, slotVars, isrVars, ehVars
<1>8. EhShape'
  BY <1>a, <1>b, <1>c DEF EhShape, ioVars, ehVars, StatusTaken
<1>9. Refs' /\ Freed' /\ Used'
  <2>1. PICK g \in Handles : g = Head(rspq).h
    BY <1>c DEF StatusTaken
  <2>2. /\ outstanding[g] = d /\ status_srb = NoCmd
        /\ outstanding' = [outstanding EXCEPT ![g] = NoCmd]
        /\ status_srb' = d /\ UNCHANGED phase
    BY <1>c, <2>1 DEF StatusTaken, ioVars
  <2>3. \A h \in Handles : outstanding'[h] = IF h = g THEN NoCmd ELSE outstanding[h]
    BY <2>2 DEF Shape
  <2>4. \A h \in Handles : outstanding[h] = d => h = g
    <3>1. d # NoCmd /\ \A h \in Handles : outstanding[h] # NoCmd => handle[outstanding[h]] = h
      BY ScsiIoAssumption DEF Slots
    <3> QED BY <2>2, <3>1
  <2>5. \A c \in Cmds : MainPath(c)' <=> MainPath(c)
    BY <2>2, <2>3, <2>4, ScsiIoAssumption DEF MainPath
  <2> QED BY <1>c, <2>5, SamePaths DEF StatusTaken, ioVars, chipVars
<1>10. MissStays'
  BY <1>b, <1>c, MissAfterStatus DEF Popped
<1>11. Once'
  BY <1>b, <1>c, OnceMoves DEF StatusTaken, ioVars
<1> QED BY <1>1, <1>2, <1>3, <1>4, <1>5, <1>6, <1>7, <1>8, <1>9, <1>10,
         <1>11

\* The command leaves its slot, with that path's reference.
LEMMA IsrPlainStep ==
  ASSUME IInv, Isr, Head(rspq).t \notin {"cont", "check"},
         NEW d \in Cmds, StatusTaken(Head(rspq), d)
  PROVE  IInv'
<1> USE DEF IInv
<1>a. rspq # << >> /\ rspq' = Tail(rspq)
  BY DEF Isr
<1>b. Popped
  BY <1>a, TailFacts DEF Queue
<1>c. StatusTaken(Head(rspq), d)
  OBVIOUS
<1>1. Shape'
  BY <1>a, <1>b, <1>c DEF
    Shape, ioVars, ehVars, chipVars, SpDone, StatusTaken, slotVars, isrVars
<1>2. Queue'
  BY <1>a, <1>b, <1>c DEF Queue, SpDone, StatusTaken, Popped
<1>3. Entries'
  BY <1>a, <1>b, <1>c DEF Entries, SpDone, StatusTaken, Popped
<1>4. SenseFollows'
  BY <1>b, <1>c, ChecksMove DEF SenseFollows, StatusTaken, Live, chipVars
<1>5. Agree'
  BY <1>b, <1>c, AgreeAfterStatus DEF Popped
<1>6. Stopped'
  BY <1>a, <1>b, <1>c DEF
    Stopped, Live, chipVars, SpDone, StatusTaken, rspVars, isrVars, ehVars,
    Shape
<1>7. Slots'
  BY <1>a, <1>b, <1>c DEF
    Slots, ioVars, SpDone, StatusTaken, Shape, slotVars, isrVars, ehVars
<1>8. EhShape'
  BY <1>a, <1>b, <1>c DEF EhShape, ioVars, ehVars, SpDone, StatusTaken
<1>9. Refs' /\ Freed' /\ Used'
  <2> DEFINE e == Head(rspq)
  <2>1. PICK g \in Handles : g = e.h
    BY <1>c DEF StatusTaken
  <2>2. e.t # "check" /\ StatusTaken(e, d)
    BY <1>c
  <2> HIDE DEF e
  <2>3. /\ phase[d] = "owned" /\ SpDone({d}) /\ UNCHANGED <<eh, faults>>
        /\ crossed \subseteq crossed'
    BY <2>2 DEF StatusTaken, chipVars
  <2>4. outstanding[g] = d /\ MainPath(d)
    BY <2>1, <2>2 DEF StatusTaken, MainPath
  <2>5. \A c \in Cmds : phase'[c] = "submitting" <=> phase[c] = "submitting"
    BY <2>3 DEF SpDone, Shape
  <2>6. \A h \in Handles :
          /\ outstanding[h] = d => h = g
          /\ outstanding'[h] = IF h = g THEN NoCmd ELSE outstanding[h]
    BY <2>1, <2>2 DEF StatusTaken, Slots, Shape
  <2>7. status_srb = NoCmd /\ status_srb' = NoCmd
    BY <2>2 DEF StatusTaken
  <2>8. ~MainPath(d)'
    BY <2>3, <2>5, <2>6, <2>7 DEF MainPath
  <2>9. \A c \in Cmds \ {d} : MainPath(c)' <=> MainPath(c)
    BY <2>4, <2>5, <2>6, <2>7 DEF MainPath
  <2> QED BY <2>3, <2>4, <2>8, <2>9, PathDone
<1>10. MissStays'
  BY <1>b, <1>c, MissAfterStatus DEF Popped
<1>11. Once'
  BY <1>b, <1>c, OnceMoves DEF StatusTaken, SpDone, Shape
<1> QED BY <1>1, <1>2, <1>3, <1>4, <1>5, <1>6, <1>7, <1>8, <1>9, <1>10,
         <1>11

\* A completion whose slot is empty asks for a reset of the chip.
LEMMA IsrBadStep ==
  ASSUME IInv, Isr, Head(rspq).t # "cont", StatusBad(Head(rspq))
  PROVE  IInv'
<1> USE DEF IInv
<1>a. rspq # << >> /\ rspq' = Tail(rspq)
  BY DEF Isr
<1>b. Popped
  BY <1>a, TailFacts DEF Queue
<1>c. StatusBad(Head(rspq))
  OBVIOUS
<1>1. Shape'
  BY <1>c DEF Shape, StatusBad, ioVars, slotVars, ehVars
<1>2. Queue'
  BY <1>b, <1>c DEF Queue, StatusBad, Popped
<1>3. Entries'
  BY <1>b DEF Entries, Popped
<1>4. SenseFollows'
  BY <1>b, <1>c, ChecksMove DEF SenseFollows, StatusBad, Live
<1>5. Agree'
  BY <1>b, <1>c DEF Agree, StatusBad, Live, Popped, slotVars, ehVars
<1>6. Stopped'
  BY <1>c DEF Stopped, StatusBad, Live, ehVars
<1>7. Slots'
  BY <1>c DEF Slots, StatusBad, ioVars, slotVars, ehVars
<1>8. EhShape'
  BY <1>c DEF EhShape, StatusBad, ioVars, ehVars
<1>9. Refs' /\ Freed' /\ Used'
  <2>1. UNCHANGED <<phase, ref_count, outstanding, status_srb, eh, faults, crossed>>
    BY <1>c DEF StatusBad, ioVars, slotVars, ehVars
  <2>2. \A c \in Cmds : MainPath(c)' <=> MainPath(c)
    BY <2>1 DEF MainPath
  <2> QED BY <2>1, <2>2, SamePaths
<1>10. MissStays'
  BY <1>b, <1>c DEF MissStays, StatusBad, InRspq, Popped, slotVars, ehVars
<1>11. Once'
  BY <1>b, <1>c, OnceMoves DEF StatusBad, ioVars
<1> QED BY <1>1, <1>2, <1>3, <1>4, <1>5, <1>6, <1>7, <1>8, <1>9, <1>10, <1>11

\* What the firmware held is gone; an answer of eh_abort that is in use is
\* crossed by that.
LEMMA ResetChipStep ==
  ASSUME IInv, ResetChip
  PROVE  IInv'
<1> USE DEF IInv, ResetChip
<1>1. Shape'
  <2>1. crossed' \subseteq Cmds
    BY DEF EhShape, Shape
  <2>2. faults' \in 0..MaxFaults
    BY DEF Shape
  <2>3. in_isr' \in BOOLEAN /\ isp_abort_needed' \in BOOLEAN
    BY Zenon DEF isrVars, Shape
  <2>4. /\ UNCHANGED <<phase, ref_count, handle, outstanding, current, status_srb, failed>>
        /\ fw' = {} /\ chip' = "stopped"
    BY DEF ioVars, slotVars, isrVars
  <2> HIDE DEF ResetChip
  <2> QED BY <2>1, <2>2, <2>3, <2>4 DEF Shape
<1>2. Queue'
  BY DEF Queue, isrVars
<1>3. Entries'
  BY DEF Entries
<1>4. SenseFollows'
  BY DEF SenseFollows, Live, Cont, isrVars
<1>5. Agree'
  BY DEF
    Agree, Live, slotVars, rspVars, ehVars, chipVars
<1>6. Stopped'
  BY DEF
    Stopped, Live, isrVars, Shape, rspVars, ehVars, chipVars
<1>7. Slots'
  BY DEF
    Slots, ioVars, slotVars, isrVars, ehVars, Shape
<1>8. EhShape'
  BY DEF EhShape, ioVars, ehVars
<1>9. Refs'
  BY DEF
    Refs, MainPath, EhPath, ioVars, slotVars, isrVars, ehVars, Shape
<1>10. MissStays'
  BY DEF
    MissStays, InRspq, slotVars, ehVars, rspVars, chipVars
<1>11. Once'
  BY DEF
    Once, Shape, ioVars, slotVars, rspVars, isrVars, ehVars, chipVars
<1>12. Freed'
  BY DEF
    Freed, Refs, Shape, ioVars, slotVars, rspVars, isrVars, ehVars,
    chipVars
<1>13. Used'
  BY DEF
    Used, Refs, MainPath, EhPath, Stopped, Slots, Shape, ioVars, slotVars,
    rspVars, isrVars, ehVars, chipVars
<1> QED BY <1>1, <1>2, <1>3, <1>4, <1>5, <1>6, <1>7, <1>8, <1>9, <1>10,
         <1>11, <1>12, <1>13

\* What is in the slots loses that path and its reference.
LEMMA AbortAllCmdsStep ==
  ASSUME IInv, AbortAllCmds
  PROVE  IInv'
<1> USE DEF IInv, AbortAllCmds
<1>1. Shape'
  BY DEF
    Shape, isrVars, ehVars, SpDone, ioVars, slotVars, chipVars
<1>2. Queue'
  BY DEF Queue, rspVars, isrVars, SpDone
<1>3. Entries'
  BY DEF Entries, rspVars, SpDone
<1>4. SenseFollows'
  BY DEF SenseFollows, Live, Cont, rspVars, isrVars, SpDone
<1>5. Agree'
  BY DEF
    Agree, Live, rspVars, SpDone, slotVars, ehVars, chipVars
<1>6. Stopped'
  BY DEF
    Stopped, Live, rspVars, isrVars, SpDone, ehVars, chipVars, Shape
<1>7. Slots'
  BY DEF
    Slots, isrVars, SpDone, Shape, ioVars, slotVars, ehVars
<1>8. EhShape'
  BY DEF EhShape, ehVars, SpDone
<1>9. Refs'
  BY DEF
    Refs, MainPath, EhPath, isrVars, ehVars, SpDone, Shape, Queue, EhShape,
    Slots, ioVars, slotVars
<1>10. MissStays'
  BY DEF
    MissStays, InRspq, rspVars, ehVars, SpDone, slotVars, chipVars
<1>11. Once'
  <2>1. \A c \in Cmds : phase[c] \in {"owned", "returned"}
                         => phase'[c] \in {"owned", "returned"}
    BY DEF SpDone, Shape
  <2>2. \A e \in fw : e.c \in Cmds
    BY DEF Shape, FwCmds
  <2> QED BY <2>1, <2>2 DEF Once, Entries, rspVars
<1>12. Freed'
  BY DEF
    Freed, Refs, SpDone, Shape, ioVars, slotVars, rspVars, isrVars, ehVars,
    chipVars
<1>13. Used'
  BY DEF
    Used, Refs, MainPath, EhPath, Stopped, Slots, SpDone, Shape, ioVars,
    slotVars, rspVars, isrVars, ehVars, chipVars
<1> QED BY <1>1, <1>2, <1>3, <1>4, <1>5, <1>6, <1>7, <1>8, <1>9, <1>10,
         <1>11, <1>12, <1>13

\* The slots, the queue and the sense data are forgotten.
LEMMA InitRingsStep ==
  ASSUME IInv, InitRings
  PROVE  IInv'
<1> USE DEF IInv, InitRings
<1>1. Shape'
  BY DEF
    Shape, Handles, ioVars, ehVars, slotVars, isrVars, chipVars
<1>2. Queue'
  BY DEF Queue
<1>3. Entries'
  BY DEF Entries
<1>4. SenseFollows'
  BY DEF SenseFollows, Live, Cont
<1>5. Agree'
  BY DEF
    Agree, Stopped, Slots, EhShape, Refs, MissStays, Live, Cont, MainPath,
    EhPath, InRspq, FwCmds, RspEntries, Entry, EhSteps, Answers, ioVars,
    slotVars, rspVars, isrVars, ehVars, chipVars
<1>6. Stopped'
  BY DEF
    Stopped, Live, rspVars, isrVars, ehVars, chipVars, Shape
<1>7. Slots'
  BY DEF
    Slots, ioVars, slotVars, isrVars, ehVars, Shape
<1>8. EhShape'
  BY DEF EhShape, ioVars, ehVars
<1>9. Refs'
  BY DEF
    Stopped, Slots, EhShape, Refs, MissStays, Live, Cont, MainPath, EhPath,
    InRspq, FwCmds, RspEntries, Entry, EhSteps, Answers, ioVars, slotVars,
    rspVars, isrVars, ehVars, chipVars, Shape
<1>10. MissStays'
  BY DEF
    MissStays, InRspq, ehVars, slotVars, rspVars, chipVars
<1>11. Once'
  BY DEF
    Once, Shape, ioVars, slotVars, rspVars, isrVars, ehVars, chipVars
<1>12. Freed'
  BY DEF
    Freed, Refs, Shape, ioVars, slotVars, rspVars, isrVars, ehVars,
    chipVars
<1>13. Used'
  BY DEF
    Used, Refs, MainPath, EhPath, Stopped, Slots, Shape, ioVars, slotVars,
    rspVars, isrVars, ehVars, chipVars
<1> QED BY <1>1, <1>2, <1>3, <1>4, <1>5, <1>6, <1>7, <1>8, <1>9, <1>10,
         <1>11, <1>12, <1>13

\* Nothing but the state of the adapter changes.
LEMMA IspOnlineStep ==
  ASSUME IInv, IspOnline
  PROVE  IInv'
<1> USE DEF IInv, IspOnline
<1>1. Shape'
  BY DEF
    Shape, ioVars, slotVars, isrVars, ehVars, chipVars
<1>2. Queue'
  BY DEF Queue, rspVars, isrVars
<1>3. Entries'
  BY DEF Entries, rspVars
<1>4. SenseFollows'
  BY DEF SenseFollows, Live, Cont, rspVars, isrVars
<1>5. Agree'
  BY DEF
    Agree, Live, slotVars, rspVars, ehVars, chipVars
<1>6. Stopped'
  BY DEF
    Stopped, Live, rspVars, isrVars, ehVars, chipVars, Shape
<1>7. Slots'
  BY DEF
    Slots, ioVars, slotVars, isrVars, ehVars, Shape
<1>8. EhShape'
  BY DEF EhShape, ioVars, ehVars
<1>9. Refs'
  BY DEF
    Refs, MainPath, EhPath, ioVars, slotVars, isrVars, ehVars, Shape
<1>10. MissStays'
  BY DEF
    MissStays, InRspq, slotVars, rspVars, ehVars, chipVars
<1>11. Once'
  BY DEF
    Once, Shape, ioVars, slotVars, rspVars, isrVars, ehVars, chipVars
<1>12. Freed'
  BY DEF
    Freed, Refs, Shape, ioVars, slotVars, rspVars, isrVars, ehVars,
    chipVars
<1>13. Used'
  BY DEF
    Used, Refs, MainPath, EhPath, Stopped, Slots, Shape, ioVars, slotVars,
    rspVars, isrVars, ehVars, chipVars
<1> QED BY <1>1, <1>2, <1>3, <1>4, <1>5, <1>6, <1>7, <1>8, <1>9, <1>10,
         <1>11, <1>12, <1>13

\* A second reference.
LEMMA EhAbortStep ==
  ASSUME IInv, NEW c \in Cmds, EhAbort(c)
  PROVE  IInv'
<1> USE DEF IInv, EhAbort
<1>1. Shape'
  BY DEF
    Shape, slotVars, isrVars, chipVars, EhIdle, ioVars, ehVars
<1>2. Queue'
  BY DEF Queue, rspVars, isrVars, EhIdle
<1>3. Entries'
  BY DEF Entries, rspVars, EhIdle
<1>4. SenseFollows'
  BY DEF SenseFollows, Live, Cont, rspVars, isrVars, chipVars, EhIdle
<1>5. Agree'
  BY DEF
    Agree, Live, slotVars, rspVars, chipVars, EhIdle, ehVars
<1>6. Stopped'
  BY DEF
    Stopped, Live, rspVars, isrVars, chipVars, EhIdle, ehVars, Shape
<1>7. Slots'
  BY DEF
    Slots, slotVars, isrVars, EhIdle, ioVars, ehVars, Shape
<1>8. EhShape'
  BY DEF
    Stopped, Slots, EhShape, Refs, MissStays, Live, Cont, MainPath, EhPath,
    InRspq, FwCmds, RspEntries, Entry, EhSteps, Answers, ioVars, slotVars,
    rspVars, isrVars, ehVars, chipVars, EhIdle
<1>9. Refs'
  BY DEF
    Refs, MainPath, EhPath, slotVars, isrVars, chipVars, EhIdle, Shape,
    ioVars, ehVars
<1>10. MissStays'
  BY DEF
    MissStays, InRspq, slotVars, rspVars, chipVars, EhIdle, ehVars
<1>11. Once'
  BY DEF
    Once, EhIdle, Shape, ioVars, slotVars, rspVars, isrVars, ehVars,
    chipVars
<1>12. Freed'
  BY DEF
    Freed, Refs, EhIdle, Shape, ioVars, slotVars, rspVars, isrVars, ehVars,
    chipVars
<1>13. Used'
  BY DEF
    Used, Refs, MainPath, EhPath, Stopped, Slots, EhIdle, Shape, ioVars,
    slotVars, rspVars, isrVars, ehVars, chipVars
<1> QED BY <1>1, <1>2, <1>3, <1>4, <1>5, <1>6, <1>7, <1>8, <1>9, <1>10,
         <1>11, <1>12, <1>13

\* Only eh_abort moves on.
LEMMA EhSearchStep ==
  ASSUME IInv, EhSearch
  PROVE  IInv'
<1> USE DEF IInv, EhSearch
<1>1. Shape'
  BY DEF
    Shape, ioVars, slotVars, isrVars, chipVars, ehVars
<1>2. Queue'
  BY DEF Queue, rspVars, isrVars
<1>3. Entries'
  BY DEF Entries, rspVars
<1>4. SenseFollows'
  BY DEF SenseFollows, Live, Cont, rspVars, isrVars, chipVars
<1>5. Agree'
  BY DEF
    Agree, Live, slotVars, rspVars, chipVars, ehVars
<1>6. Stopped'
  BY DEF
    Stopped, Live, rspVars, isrVars, chipVars, ehVars, Shape
<1>7. Slots'
  BY DEF
    Slots, ioVars, slotVars, isrVars, ehVars, Shape
<1>8. EhShape'
  BY DEF
    Stopped, Slots, EhShape, Refs, MissStays, Live, Cont, MainPath, EhPath,
    InRspq, FwCmds, RspEntries, Entry, EhSteps, Answers, ioVars, slotVars,
    rspVars, isrVars, ehVars, chipVars
<1>9. Refs'
  BY DEF
    Refs, MainPath, EhPath, ioVars, slotVars, isrVars, chipVars, ehVars,
    Shape
<1>10. MissStays'
  BY DEF
    MissStays, InRspq, slotVars, rspVars, chipVars, ehVars
<1>11. Once'
  BY DEF
    Once, Shape, ioVars, slotVars, rspVars, isrVars, ehVars, chipVars
<1>12. Freed'
  BY DEF
    Freed, Refs, Shape, ioVars, slotVars, rspVars, isrVars, ehVars,
    chipVars
<1>13. Used'
  BY DEF
    Used, Refs, MainPath, EhPath, Stopped, Slots, Shape, ioVars, slotVars,
    rspVars, isrVars, ehVars, chipVars
<1> QED BY <1>1, <1>2, <1>3, <1>4, <1>5, <1>6, <1>7, <1>8, <1>9, <1>10,
         <1>11, <1>12, <1>13

\* The firmware returns the command.
LEMMA EhAbortedStep ==
  ASSUME IInv, NEW e \in fw, EhAborted(e)
  PROVE  IInv'
<1> USE DEF IInv, EhAborted
<1>a. Entry("error", e, 0) \in RspEntries /\ Entry("error", e, 0).t = "error"
  BY ScsiIoAssumption DEF Shape, FwCmds, RspEntries, Entry, Handles
<1>b. Posted(Entry("error", e, 0))
  BY <1>a, AppendFacts DEF Queue
<1>1. Shape'
  BY <1>a, <1>b DEF
    Shape, ioVars, slotVars, isrVars, chipVars, Entry, ehVars
<1>2. Queue'
  BY <1>a, <1>b DEF Queue, isrVars, Entry, Posted
<1>3. Entries'
  BY <1>a, <1>b DEF
    Shape, Entries, Stopped, Slots, EhShape, Refs, MissStays, Live, Cont,
    MainPath, EhPath, InRspq, FwCmds, RspEntries, Entry, EhSteps, Answers,
    ioVars, slotVars, rspVars, isrVars, ehVars, chipVars
<1>4. SenseFollows'
  BY <1>a, <1>b DEF
    SenseFollows, Live, Cont, isrVars, chipVars, Entry, Posted
<1>5. Agree' /\ Once'
  BY <1>b, CompletionPosted DEF Entry, ioVars, slotVars, ehVars, chipVars
<1>6. Stopped'
  BY <1>a, <1>b DEF
    Stopped, Live, isrVars, chipVars, Entry, rspVars, ehVars, Shape
<1>7. Slots'
  BY <1>a, <1>b DEF
    Slots, ioVars, slotVars, isrVars, Entry, ehVars, Shape
<1>8. EhShape'
  BY <1>a, <1>b DEF
    Stopped, Slots, EhShape, Refs, MissStays, Live, Cont, MainPath, EhPath,
    InRspq, FwCmds, RspEntries, Entry, EhSteps, Answers, ioVars, slotVars,
    rspVars, isrVars, ehVars, chipVars
<1>9. Refs'
  BY <1>a, <1>b DEF
    Refs, MainPath, EhPath, ioVars, slotVars, isrVars, chipVars, Entry,
    ehVars, Shape
<1>10. MissStays'
  BY <1>a, <1>b DEF
    MissStays, InRspq, slotVars, chipVars, Entry, Posted, rspVars, ehVars
<1>12. Freed'
  BY <1>a, <1>b DEF
    Freed, Refs, Shape, ioVars, slotVars, rspVars, isrVars, ehVars,
    chipVars
<1>13. Used'
  BY <1>a, <1>b DEF
    Used, Refs, MainPath, EhPath, Stopped, Slots, Shape, ioVars, slotVars,
    rspVars, isrVars, ehVars, chipVars
<1> QED BY <1>1, <1>2, <1>3, <1>4, <1>5, <1>6, <1>7, <1>8, <1>9, <1>10,
         <1>12, <1>13

\* The firmware does not know the command, which is in its slot.
LEMMA EhMissedStep ==
  ASSUME IInv, EhMissed
  PROVE  IInv'
<1> USE DEF IInv, EhMissed
<1>1. Shape'
  <2>1. eh.c \in Cmds
    BY DEF EhShape
  <2> QED BY <2>1 DEF Shape, ioVars, slotVars, isrVars, chipVars
<1>2. Queue'
  BY DEF Queue, rspVars, isrVars, LostByFw
<1>3. Entries'
  BY DEF Entries, rspVars, LostByFw
<1>4. SenseFollows'
  BY DEF SenseFollows, Live, Cont, rspVars, isrVars, chipVars, LostByFw
<1>5. Agree'
  BY DEF
    Agree, Live, slotVars, rspVars, chipVars, LostByFw, ehVars
<1>6. Stopped'
  BY DEF
    Stopped, Live, rspVars, isrVars, chipVars, LostByFw, ehVars, Shape
<1>7. Slots'
  BY DEF
    Slots, ioVars, slotVars, isrVars, LostByFw, ehVars, Shape
<1>8. EhShape'
  BY DEF
    Stopped, Slots, EhShape, Refs, MissStays, Live, Cont, MainPath, EhPath,
    InRspq, FwCmds, RspEntries, Entry, EhSteps, Answers, ioVars, slotVars,
    rspVars, isrVars, ehVars, chipVars, LostByFw
<1>9. Refs'
  BY DEF
    Refs, MainPath, EhPath, ioVars, slotVars, isrVars, chipVars, LostByFw,
    ehVars, Shape
<1>10. MissStays'
  BY DEF
    MissStays, InRspq, slotVars, rspVars, chipVars, LostByFw, Shape, Queue,
    EhShape, Slots, Refs, ehVars
<1>11. Once'
  BY DEF
    Once, LostByFw, Shape, ioVars, slotVars, rspVars, isrVars, ehVars,
    chipVars
<1>12. Freed'
  BY DEF
    Freed, Refs, LostByFw, Shape, ioVars, slotVars, rspVars, isrVars,
    ehVars, chipVars
<1>13. Used'
  BY DEF
    Used, Refs, MainPath, EhPath, Stopped, Slots, LostByFw, Shape, ioVars,
    slotVars, rspVars, isrVars, ehVars, chipVars
<1> QED BY <1>1, <1>2, <1>3, <1>4, <1>5, <1>6, <1>7, <1>8, <1>9, <1>10,
         <1>11, <1>12, <1>13

\* Only eh_abort moves on.
LEMMA EhUnansweredStep ==
  ASSUME IInv, EhUnanswered
  PROVE  IInv'
<1> USE DEF IInv, EhUnanswered
<1>1. Shape'
  BY DEF
    Shape, ioVars, slotVars, isrVars, chipVars, ehVars
<1>2. Queue'
  BY DEF Queue, rspVars, isrVars
<1>3. Entries'
  BY DEF Entries, rspVars
<1>4. SenseFollows'
  BY DEF SenseFollows, Live, Cont, rspVars, isrVars, chipVars
<1>5. Agree'
  BY DEF
    Agree, Live, slotVars, rspVars, chipVars, ehVars
<1>6. Stopped'
  BY DEF
    Stopped, Live, rspVars, isrVars, chipVars, ehVars, Shape
<1>7. Slots'
  BY DEF
    Slots, ioVars, slotVars, isrVars, ehVars, Shape
<1>8. EhShape'
  BY DEF
    Stopped, Slots, EhShape, Refs, MissStays, Live, Cont, MainPath, EhPath,
    InRspq, FwCmds, RspEntries, Entry, EhSteps, Answers, ioVars, slotVars,
    rspVars, isrVars, ehVars, chipVars
<1>9. Refs'
  BY DEF
    Refs, MainPath, EhPath, ioVars, slotVars, isrVars, chipVars, ehVars,
    Shape
<1>10. MissStays'
  BY DEF
    MissStays, InRspq, slotVars, rspVars, chipVars, ehVars
<1>11. Once'
  BY DEF
    Once, Shape, ioVars, slotVars, rspVars, isrVars, ehVars, chipVars
<1>12. Freed'
  BY DEF
    Freed, Refs, Shape, ioVars, slotVars, rspVars, isrVars, ehVars,
    chipVars
<1>13. Used'
  BY DEF
    Used, Refs, MainPath, EhPath, Stopped, Slots, Shape, ioVars, slotVars,
    rspVars, isrVars, ehVars, chipVars
<1> QED BY <1>1, <1>2, <1>3, <1>4, <1>5, <1>6, <1>7, <1>8, <1>9, <1>10,
         <1>11, <1>12, <1>13

\* The reference that stands for the firmware: that of the slot is left.
LEMMA EhDropStep ==
  ASSUME IInv, EhDrop
  PROVE  IInv'
<1> USE DEF IInv, EhDrop
<1>1. Shape'
  BY DEF
    Shape, slotVars, isrVars, chipVars, EhShape, Slots, Refs, ioVars,
    ehVars
<1>2. Queue'
  BY DEF Queue, rspVars, isrVars
<1>3. Entries'
  BY DEF Entries, rspVars
<1>4. SenseFollows'
  BY DEF SenseFollows, Live, Cont, rspVars, isrVars, chipVars
<1>5. Agree'
  BY DEF
    Agree, Live, slotVars, rspVars, chipVars, ehVars
<1>6. Stopped'
  BY DEF
    Stopped, Live, rspVars, isrVars, chipVars, ehVars, Shape
<1>7. Slots'
  BY DEF
    Slots, slotVars, isrVars, ioVars, ehVars, Shape
<1>8. EhShape'
  BY DEF
    Stopped, Slots, EhShape, Refs, MissStays, Live, Cont, MainPath, EhPath,
    InRspq, FwCmds, RspEntries, Entry, EhSteps, Answers, ioVars, slotVars,
    rspVars, isrVars, ehVars, chipVars
<1>9. Refs'
  BY DEF
    Shape, Stopped, Slots, EhShape, Refs, MissStays, Live, Cont, MainPath,
    EhPath, InRspq, FwCmds, RspEntries, Entry, EhSteps, Answers, ioVars,
    slotVars, rspVars, isrVars, ehVars, chipVars
<1>10. MissStays'
  BY DEF
    MissStays, InRspq, slotVars, rspVars, chipVars, ehVars
<1>11. Once'
  BY DEF
    Once, Shape, ioVars, slotVars, rspVars, isrVars, ehVars, chipVars
<1>12. Freed'
  <2>1. eh.c \in Cmds /\ EhPath(eh.c)
    BY DEF EhShape, EhPath
  <2>2. eh.c \notin crossed => ref_count[eh.c] = 2
    BY <2>1 DEF MissStays, EhShape, MainPath, Refs
  <2> QED BY <2>1, <2>2 DEF Freed, Shape
<1>13. Used'
  BY DEF
    Used, Refs, MainPath, EhPath, Stopped, Slots, Shape, ioVars, slotVars,
    rspVars, isrVars, ehVars, chipVars
<1> QED BY <1>1, <1>2, <1>3, <1>4, <1>5, <1>6, <1>7, <1>8, <1>9, <1>10,
         <1>11, <1>12, <1>13

\* eh_abort's reference is dropped, or that of the slot it empties.
LEMMA EhFinishStep ==
  ASSUME IInv, EhFinish
  PROVE  IInv'
<1> USE DEF IInv, EhFinish
<1>a. eh.c \in Cmds /\ Reached \subseteq Cmds /\ crossed' = crossed \cup Reached
  BY DEF EhShape, Reached, Shape
<1>1. Shape'
  <2>1. \A c \in Cmds : /\ ref_count'[c] \in Int
                        /\ phase'[c] \in {"idle", "submitting", "owned", "returned"}
    BY DEF Shape, SpDone
  <2>2. /\ phase' \in [Cmds -> {"idle", "submitting", "owned", "returned"}]
        /\ ref_count' \in [Cmds -> Int]
    BY <2>1 DEF SpDone
  <2>3. outstanding' \in [Handles -> Cmds \cup {NoCmd}]
    BY DEF Shape
  <2>4. failed' \subseteq Cmds /\ crossed' \subseteq Cmds
    BY <1>a DEF Shape, ReturnSuccess
  <2> QED BY <2>2, <2>3, <2>4 DEF Shape, rspVars, isrVars, chipVars
<1>2. Queue'
  BY DEF Queue, rspVars, isrVars, EhIdle, SpDone, ReturnSuccess
<1>3. Entries'
  BY DEF Entries, rspVars, EhIdle, SpDone, ReturnSuccess
<1>4. SenseFollows'
  BY DEF
    SenseFollows, Live, Cont, rspVars, isrVars, chipVars, EhIdle, SpDone,
    ReturnSuccess
<1>5. Agree'
  <2> SUFFICES ASSUME Live PROVE Agree'
    BY DEF Agree, Live, chipVars
  <2>1. ASSUME NEW h \in Handles, NEW c \in Cmds \ crossed', outstanding[h] = c,
               eh.rval = "miss" => c # eh.c
        PROVE  outstanding'[h] = c
    <3>1. CASE eh.rval # "miss"
      BY <2>1, <3>1
    <3>2. CASE eh.rval = "miss" /\ ~HasSrb(eh.c)
      BY <1>a, <2>1, <3>2 DEF Reached
    <3>3. CASE eh.rval = "miss" /\ HasSrb(eh.c)
      <4>1. h # handle[eh.c]
        BY <1>a, <2>1, <3>3, ScsiIoAssumption DEF Reached
      <4> QED BY <2>1, <4>1 DEF Shape
    <3> QED BY <3>1, <3>2, <3>3
  <2>2. ASSUME NEW e \in fw, e.c \notin crossed' PROVE outstanding[e.h] = e.c /\ outstanding'[e.h] = e.c
    <3>1. e.h \in Handles /\ e.c \in Cmds \ crossed' /\ outstanding[e.h] = e.c
      BY <1>a, <2>2 DEF Agree, Shape, FwCmds
    <3>2. eh.rval = "miss" => e.c # eh.c
      BY <1>a, <2>2 DEF MissStays
    <3> QED BY <2>1, <3>1, <3>2
  <2>3. ASSUME NEW i \in 1..Len(rspq), rspq[i].t # "cont", rspq[i].c \notin crossed'
        PROVE  outstanding'[rspq[i].h] = rspq[i].c
    <3>1. /\ rspq[i].h \in Handles /\ rspq[i].c \in Cmds \ crossed'
          /\ outstanding[rspq[i].h] = rspq[i].c
      BY <1>a, <2>3 DEF Agree, Entries
    <3>2. eh.rval = "miss" => rspq[i].c # eh.c
      BY <1>a, <2>3 DEF MissStays, InRspq
    <3> QED BY <2>1, <3>1, <3>2
  <2> QED BY <2>2, <2>3 DEF Agree, rspVars
<1>6. Stopped'
  BY DEF
    Stopped, Live, rspVars, isrVars, chipVars, EhIdle, SpDone,
    ReturnSuccess, ehVars, Shape
<1>7. Slots'
  BY DEF
    Shape, Stopped, Slots, EhShape, Refs, MissStays, Live, Cont, MainPath,
    EhPath, InRspq, FwCmds, RspEntries, Entry, EhSteps, Answers, ioVars,
    slotVars, rspVars, isrVars, ehVars, chipVars, EhIdle, SpDone,
    ReturnSuccess
<1>8. EhShape'
  BY DEF
    EhShape, EhIdle, EhSteps, Answers, SpDone, ReturnSuccess, Shape, Refs,
    EhPath, MissStays, Slots, chipVars
<1>9. Refs'
  BY DEF
    Shape, Stopped, Slots, EhShape, Refs, MissStays, Live, Cont, MainPath,
    EhPath, InRspq, FwCmds, RspEntries, Entry, EhSteps, Answers, ioVars,
    slotVars, rspVars, isrVars, ehVars, chipVars, EhIdle, SpDone,
    ReturnSuccess
<1>10. MissStays'
  BY DEF
    MissStays, EhIdle, SpDone, ReturnSuccess, Shape, Queue, EhShape, Slots,
    Refs, slotVars, rspVars, ehVars, chipVars
<1>11. Once'
  <2>1. \A c \in Cmds : phase[c] \in {"owned", "returned"}
                         => phase'[c] \in {"owned", "returned"}
    BY DEF SpDone, Shape
  <2>2. \A e \in fw : e.c \in Cmds
    BY DEF Shape, FwCmds
  <2> QED BY <2>1, <2>2 DEF Once, Entries, rspVars
<1>12. Freed'
  BY DEF
    Freed, Refs, EhIdle, ReturnSuccess, SpDone, Shape, ioVars, slotVars,
    rspVars, isrVars, ehVars, chipVars
<1>13. Used'
  <2> SUFFICES ASSUME faults = 0, crossed = {}, NEW c \in Cmds
               PROVE  /\ ref_count'[c] = 2 => MainPath(c)'
                      /\ ref_count'[c] = 1 => MainPath(c)' \/ EhPath(c)'
    BY <1>a DEF Used, chipVars
  <2>1. /\ ref_count[c] \in 0..2
        /\ ref_count[c] = 2 => MainPath(c)
        /\ ref_count[c] = 1 => MainPath(c) \/ EhPath(c)
    BY DEF Used, Refs
  <2>2. CASE c # eh.c
    <3>1. ref_count'[c] = ref_count[c] /\ phase'[c] = phase[c]
      BY <2>1, <2>2 DEF SpDone
    <3>2. ~EhPath(c)
      BY <2>2 DEF EhPath
    <3>3. eh.rval = "miss" => outstanding[handle[eh.c]] = eh.c
      BY DEF MissStays
    <3>4. MainPath(c) => MainPath(c)'
      BY <1>a, <2>2, <3>1, <3>3 DEF MainPath, Shape, isrVars
    <3> QED BY <2>1, <3>1, <3>2, <3>4
  <2>3. CASE c = eh.c /\ eh.rval = "miss"
    <3>1. ~EhPath(c)
      BY <2>3 DEF EhPath
    <3>2. ref_count[c] # 2
      BY <2>3, <3>1 DEF Refs
    <3> QED BY <2>1, <2>3, <3>2 DEF SpDone
  <2>4. CASE c = eh.c /\ eh.rval # "miss"
    <3>1. ref_count'[c] \in 0..1
      BY <2>1, <2>4 DEF SpDone
    <3>2. ASSUME ref_count'[c] = 1 PROVE MainPath(c)'
      <4>1. ref_count[c] = 2 /\ UNCHANGED <<outstanding, status_srb>>
        BY <2>1, <2>4, <3>2 DEF SpDone, isrVars
      <4>2. phase'[c] = phase[c]
        BY <2>4, <4>1 DEF SpDone
      <4> QED BY <2>1, <4>1, <4>2 DEF MainPath
    <3> QED BY <3>1, <3>2
  <2> QED BY <2>2, <2>3, <2>4
<1> QED BY <1>1, <1>2, <1>3, <1>4, <1>5, <1>6, <1>7, <1>8, <1>9, <1>10,
         <1>11, <1>12, <1>13

\* eh_abort returns.
LEMMA EhCheckStep ==
  ASSUME IInv, EhCheck
  PROVE  IInv'
<1> USE DEF IInv, EhCheck
<1>1. Shape'
  BY DEF
    Shape, ioVars, slotVars, isrVars, chipVars, EhIdle, ReturnSuccess,
    ReturnFailed, Queue, EhShape, Slots, Refs, ehVars
<1>2. Queue'
  BY DEF Queue, rspVars, isrVars, EhIdle, ReturnSuccess, ReturnFailed
<1>3. Entries'
  BY DEF Entries, rspVars, EhIdle, ReturnSuccess, ReturnFailed
<1>4. SenseFollows'
  BY DEF
    SenseFollows, Live, Cont, rspVars, isrVars, chipVars, EhIdle,
    ReturnSuccess, ReturnFailed
<1>5. Agree'
  BY DEF
    Agree, Live, slotVars, rspVars, chipVars, EhIdle, ReturnSuccess,
    ReturnFailed, ehVars
<1>6. Stopped'
  BY DEF
    Stopped, Live, rspVars, isrVars, chipVars, EhIdle, ReturnSuccess,
    ReturnFailed, ehVars, Shape
<1>7. Slots'
  BY DEF
    Slots, ioVars, slotVars, isrVars, ReturnSuccess, ReturnFailed, ehVars,
    Shape
<1>8. EhShape'
  BY DEF
    Stopped, Slots, EhShape, Refs, MissStays, Live, Cont, MainPath, EhPath,
    InRspq, FwCmds, RspEntries, Entry, EhSteps, Answers, ioVars, slotVars,
    rspVars, isrVars, ehVars, chipVars, EhIdle, ReturnSuccess, ReturnFailed
<1>9. Refs'
  BY DEF
    Refs, MainPath, EhPath, ioVars, slotVars, isrVars, chipVars, EhIdle,
    ReturnSuccess, ReturnFailed, ehVars, Shape
<1>10. MissStays'
  BY DEF
    MissStays, EhIdle, ReturnSuccess, ReturnFailed, slotVars, rspVars,
    ehVars, chipVars
<1>11. Once'
  BY DEF
    Once, EhIdle, ReturnSuccess, ReturnFailed, Shape, ioVars, slotVars,
    rspVars, isrVars, ehVars, chipVars
<1>12. Freed'
  BY DEF
    Freed, Refs, EhIdle, ReturnSuccess, ReturnFailed, Shape, ioVars,
    slotVars, rspVars, isrVars, ehVars, chipVars
<1>13. Used'
  BY DEF
    Used, Refs, MainPath, EhPath, Stopped, Slots, EhIdle, ReturnSuccess,
    ReturnFailed, Shape, ioVars, slotVars, rspVars, isrVars, ehVars,
    chipVars
<1> QED BY <1>1, <1>2, <1>3, <1>4, <1>5, <1>6, <1>7, <1>8, <1>9, <1>10,
         <1>11, <1>12, <1>13

\* eh_abort returns.
LEMMA EhWaitStep ==
  ASSUME IInv, EhWait
  PROVE  IInv'
<1> USE DEF IInv, EhWait
<1>1. Shape'
  BY DEF
    Shape, ioVars, slotVars, isrVars, chipVars, EhIdle, ReturnSuccess,
    ReturnFailed, Queue, EhShape, Slots, Refs, ehVars
<1>2. Queue'
  BY DEF Queue, rspVars, isrVars, EhIdle, ReturnSuccess, ReturnFailed
<1>3. Entries'
  BY DEF Entries, rspVars, EhIdle, ReturnSuccess, ReturnFailed
<1>4. SenseFollows'
  BY DEF
    SenseFollows, Live, Cont, rspVars, isrVars, chipVars, EhIdle,
    ReturnSuccess, ReturnFailed
<1>5. Agree'
  BY DEF
    Agree, Live, slotVars, rspVars, chipVars, EhIdle, ReturnSuccess,
    ReturnFailed, ehVars
<1>6. Stopped'
  BY DEF
    Stopped, Live, rspVars, isrVars, chipVars, EhIdle, ReturnSuccess,
    ReturnFailed, ehVars, Shape
<1>7. Slots'
  BY DEF
    Slots, ioVars, slotVars, isrVars, ReturnSuccess, ReturnFailed, ehVars,
    Shape
<1>8. EhShape'
  BY DEF
    Stopped, Slots, EhShape, Refs, MissStays, Live, Cont, MainPath, EhPath,
    InRspq, FwCmds, RspEntries, Entry, EhSteps, Answers, ioVars, slotVars,
    rspVars, isrVars, ehVars, chipVars, EhIdle, ReturnSuccess, ReturnFailed
<1>9. Refs'
  BY DEF
    Refs, MainPath, EhPath, ioVars, slotVars, isrVars, chipVars, EhIdle,
    ReturnSuccess, ReturnFailed, ehVars, Shape
<1>10. MissStays'
  <2>1. eh' = EhIdle
    BY DEF ReturnSuccess, ReturnFailed
  <2>2. eh'.rval # "miss"
    BY <2>1 DEF EhIdle
  <2> QED BY <2>2 DEF MissStays
<1>11. Once'
  BY DEF
    Once, EhIdle, ReturnSuccess, ReturnFailed, Shape, ioVars, slotVars,
    rspVars, isrVars, ehVars, chipVars
<1>12. Freed'
  BY DEF
    Freed, Refs, EhIdle, ReturnSuccess, ReturnFailed, Shape, ioVars,
    slotVars, rspVars, isrVars, ehVars, chipVars
<1>13. Used'
  BY DEF
    Used, Refs, MainPath, EhPath, Stopped, Slots, EhIdle, ReturnSuccess,
    ReturnFailed, Shape, ioVars, slotVars, rspVars, isrVars, ehVars,
    chipVars
<1> QED BY <1>1, <1>2, <1>3, <1>4, <1>5, <1>6, <1>7, <1>8, <1>9, <1>10,
         <1>11, <1>12, <1>13

--------------------------------------------------------------------------
\* Every action keeps the invariant.
LEMMA InvStep ==
  ASSUME IInv, [Next]_vars
  PROVE  IInv'
<1>1. CASE UNCHANGED vars
  <2> USE <1>1 DEF vars, ioVars, slotVars, rspVars, isrVars, ehVars, chipVars, IInv
  <2>1. Shape' /\ Queue' /\ Entries'
    BY DEF Shape, Queue, Entries
  <2>2. SenseFollows'
    BY DEF SenseFollows, Live, Cont
  <2>3. Agree' /\ Stopped' /\ Slots'
    BY DEF Agree, Stopped, Slots, Live
  <2>4. EhShape' /\ Refs' /\ Freed' /\ Used'
    BY DEF EhShape, Refs, Freed, Used, MainPath, EhPath
  <2>5. MissStays' /\ Once'
    BY DEF MissStays, Once, InRspq
  <2> QED BY <2>1, <2>2, <2>3, <2>4, <2>5
<1>2. CASE \E c \in Cmds : QueueCommand(c) \/ StartScsi(c) \/ HostBusy(c) \/ EhAbort(c)
  BY <1>2, QueueCommandStep, StartScsiStep, HostBusyStep, EhAbortStep
<1>3. CASE FwEnds \/ FwSense \/ \E e \in fw : FwLose(e)
  BY <1>3, FwCompleteStep, FwSenseStep, FwLoseStep DEF FwEnds
<1>4. CASE Isr
  BY <1>4, StatusFinds, IsrContStep, IsrLongStep, IsrPlainStep, IsrBadStep
<1>5. CASE ResetChip \/ AbortIspStep
  BY <1>5, ResetChipStep, AbortAllCmdsStep, InitRingsStep, IspOnlineStep DEF AbortIspStep
<1>6. CASE EhStep
  BY <1>6, EhSearchStep, EhAnswers, EhAbortedStep, EhMissedStep, EhUnansweredStep,
     EhDropStep, EhFinishStep, EhCheckStep, EhWaitStep DEF EhStep
<1> QED BY <1>1, <1>2, <1>3, <1>4, <1>5, <1>6 DEF Next

\* A command is in one slot at most.
LEMMA PathsCounted ==
  ASSUME IInv, NEW c \in Cmds
  PROVE  Paths(c) = (IF MainPath(c) THEN 1 ELSE 0) + (IF EhPath(c) THEN 1 ELSE 0)
<1> DEFINE S == { h \in Handles : outstanding[h] = c }
<1>1. Cardinality(S) = IF \E h \in Handles : outstanding[h] = c THEN 1 ELSE 0
  <2>1. CASE \E h \in Handles : outstanding[h] = c
    <3>1. PICK h \in Handles : outstanding[h] = c
      BY <2>1
    <3>2. S = {h}
      BY <3>1, ScsiIoAssumption DEF IInv, Slots
    <3> QED BY <2>1, <3>2, FS_Singleton
  <2>2. CASE ~ \E h \in Handles : outstanding[h] = c
    <3>1. S = {}
      BY <2>2
    <3> QED BY <2>2, <3>1, FS_EmptySet
  <2> QED BY <2>1, <2>2
<1>2. \A h \in Handles : outstanding[h] = c => phase[c] = "owned" /\ status_srb # c
  BY DEF IInv, Slots
<1>3. status_srb = c => phase[c] # "submitting"
  BY DEF IInv, Slots
<1> HIDE DEF S
<1> QED BY <1>1, <1>2, <1>3 DEF Paths, MainPath, EhPath, S

\* Whoever still has to end a command that no abort has crossed finds a
\* reference.
LEMMA DoneFindsReference ==
  ASSUME IInv, NEW c \in Cmds \ crossed
  PROVE  /\ MainPath(c) => ref_count[c] > 0
         /\ DoneIsDue(c) => ref_count[c] > 0
<1>1. MainPath(c) => ref_count[c] > 0
  BY DEF IInv, Refs, MainPath, Slots
<1>2. DoneIsDue(c) => MainPath(c) \/ EhPath(c)
  BY DEF DoneIsDue, MainPath, EhPath, IInv, MissStays
<1> QED BY <1>1, <1>2 DEF IInv, Refs

\* What the invariant says of references, in the words of ScsiIo.
LEMMA InvSound == IInv => SrbsAreSound
<1> SUFFICES ASSUME IInv PROVE SrbsAreSound
  OBVIOUS
<1>1. TypeOK
  <2>1. ref_count \in [Cmds -> 0..2]
    BY DEF IInv, Shape, Refs
  <2> QED BY <2>1 DEF TypeOK, IInv, Shape, Queue, EhShape
<1>2. RefsMatchPaths
  <2> SUFFICES ASSUME NEW c \in Cmds
               PROVE  /\ c \notin crossed => ref_count[c] >= Paths(c)
                      /\ faults = 0 /\ crossed = {} => ref_count[c] = Paths(c)
                      /\ \A h \in Handles : outstanding[h] = c => handle[c] = h
    BY DEF RefsMatchPaths
  <2>1. /\ ref_count[c] \in 0..2
        /\ EhPath(c) => ref_count[c] > 0
        /\ c \notin crossed /\ MainPath(c) => ref_count[c] > 0
        /\ ref_count[c] = 2 => EhPath(c)
        /\ MainPath(c) /\ EhPath(c) => ref_count[c] = 2
    BY DoneFindsReference DEF IInv, Refs
  <2>2. faults = 0 /\ crossed = {} =>
          /\ ref_count[c] = 2 => MainPath(c)
          /\ ref_count[c] = 1 => MainPath(c) \/ EhPath(c)
    BY DEF IInv, Used
  <2>3. c \notin crossed => ref_count[c] >= Paths(c)
    BY <2>1, PathsCounted
  <2>4. faults = 0 /\ crossed = {} => ref_count[c] = Paths(c)
    BY <2>1, <2>2, PathsCounted
  <2>5. \A h \in Handles : outstanding[h] = c => handle[c] = h
    BY ScsiIoAssumption DEF IInv, Slots
  <2> QED BY <2>3, <2>4, <2>5
<1>3. NoCommandForgotten
  <2> SUFFICES ASSUME faults = 0, crossed = {}, NEW c \in Cmds, phase[c] = "owned"
               PROVE  DoneIsDue(c) \/ eh.c = c
    BY DEF NoCommandForgotten
  <2>1. ref_count[c] \in {1, 2}
    BY DEF IInv, Refs, Freed
  <2>2. MainPath(c) \/ EhPath(c)
    BY <2>1 DEF IInv, Used
  <2> QED BY <2>2 DEF MainPath, EhPath, DoneIsDue
<1>4. \A c \in Cmds \ crossed : DoneIsDue(c) => ref_count[c] > 0
  BY DoneFindsReference
<1> QED BY <1>1, <1>2, <1>3, <1>4 DEF SrbsAreSound

\* Whoever calls sp->done on a command finds a reference to drop, unless an
\* abort has crossed another end of it, and until there is a fault no srb has
\* one too many (qla2x00_sp_compl, qla2xxx_eh_abort, the interrupt handler).
THEOREM ReferencesAlwaysMatch == Spec => []SrbsAreSound
<1>1. IInv /\ [Next]_vars => IInv'
  BY InvStep
<1> QED BY InitInv, <1>1, InvSound, PTL DEF Spec

\* However handles are reused, a completion finds its own command, unless an
\* abort has crossed it (qla2x00_status_entry).
THEOREM CompletionsAlwaysMatch == Spec => []CompletionsFindTheirCommand
<1>1. IInv /\ [Next]_vars => IInv'
  BY InvStep
<1>2. IInv => CompletionsFindTheirCommand
  BY DEF IInv, Agree, Live, CompletionsFindTheirCommand
<1> QED BY InitInv, <1>1, <1>2, PTL DEF Spec

\* eh_abort returns SUCCESS in three places, and the command is back in each.
LEMMA SuccessStep ==
  ASSUME IInv, Next, eh.pc # "idle", eh'.pc = "idle", eh.c \notin failed' \cup crossed
  PROVE  phase'[eh.c] = "returned"
<1>1. eh.c \in Cmds /\ phase[eh.c] \in {"owned", "returned"}
  BY DEF IInv, EhShape
<1>2. CASE EhCheck \/ EhWait
  BY <1>1, <1>2 DEF EhCheck, EhWait, HasSrb, ReturnFailed, ReturnSuccess, ioVars
<1>3. CASE EhFinish
  <2>1. eh.rval = "miss" /\ eh.pc = "finish"
    BY <1>3 DEF EhFinish, IInv, EhShape
  <2>2. ref_count[eh.c] = 1
    <3>1. ~EhPath(eh.c) /\ MainPath(eh.c)
      BY <1>1, <2>1 DEF EhPath, MainPath, IInv, MissStays
    <3>2. ref_count[eh.c] > 0
      BY <1>1, <3>1, DoneFindsReference
    <3> QED BY <1>1, <3>1, <3>2 DEF IInv, Refs
  <2> QED BY <1>1, <1>3, <2>2 DEF EhFinish, SpDone
<1>4. CASE EhSearch \/ EhAnswer \/ EhDrop
  BY <1>4 DEF EhSearch, EhAnswer, EhDrop, IInv, EhShape
<1>5. CASE \E c \in Cmds : QueueCommand(c) \/ StartScsi(c) \/ HostBusy(c) \/ EhAbort(c)
  BY <1>5 DEF QueueCommand, StartScsi, HostBusy, EhAbort, ehVars
<1>6. CASE FwEnds \/ FwSense \/ \E e \in fw : FwLose(e)
  BY <1>6 DEF FwEnds, FwComplete, FwSense, FwLose, ehVars
<1>7. CASE Isr
  BY <1>7 DEF Isr, ehVars
<1>8. CASE ResetChip \/ AbortIspStep
  BY <1>8 DEF ResetChip, AbortIspStep, AbortAllCmds, InitRings, IspOnline, ehVars
<1> QED BY <1>2, <1>3, <1>4, <1>5, <1>6, <1>7, <1>8 DEF Next, EhStep

\* eh_abort tells the midlayer SUCCESS while the driver keeps the command
\* (which the midlayer then reuses) only if its answer has crossed another end
\* of the command (qla2xxx_eh_abort).
THEOREM SuccessAlwaysMeansReturned == Spec => AbortSuccessMeansReturned
<1>1. IInv /\ [Next]_vars => IInv'
  BY InvStep
<1>2. IInv /\ [Next]_vars =>
        [eh.pc # "idle" /\ eh'.pc = "idle" /\ eh.c \notin failed' \cup crossed
           => phase'[eh.c] = "returned"]_vars
  BY SuccessStep
<1> QED BY InitInv, <1>1, <1>2, PTL DEF Spec, AbortSuccessMeansReturned
==========================================================================
