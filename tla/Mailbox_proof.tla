-------------------------- MODULE Mailbox_proof --------------------------
(***************************************************************************)
(* Proofs about Mailbox for any number of threads, calls, faults, setup    *)
(* commands and retries, and for any environment: timers may race answers, *)
(* samples of ABORT_ISP_ACTIVE may be stale, and any thread may reset the  *)
(* adapter.                                                                *)
(***************************************************************************)
EXTENDS Mailbox, FiniteSetTheorems, TLAPS

Holders == { t \in Threads : pc[t] \in HoldsTurn }

PcOK == pc \in [Threads -> HoldsTurn \cup {"idle", "turn"}]

\* OneTurn without the arithmetic.
TurnInv ==
  /\ PcOK
  /\ \/ mbx_cmd_comp = 1 /\ Holders = {}
     \/ mbx_cmd_comp = 0 /\ \E t \in Threads : Holders = {t}

--------------------------------------------------------------------------
(* OneTurn.                                                                *)

\* A thread that holds the turn before and after, or neither, changes
\* nothing.
LEMMA TurnKept ==
  ASSUME TurnInv, NEW t \in Threads, NEW step \in HoldsTurn \cup {"idle", "turn"},
         pc' = [pc EXCEPT ![t] = step], UNCHANGED mbx_cmd_comp,
         pc[t] \in HoldsTurn <=> step \in HoldsTurn
  PROVE  TurnInv'
<1>1. PcOK'
  BY DEF TurnInv, PcOK
<1>2. \A u \in Threads : pc'[u] \in HoldsTurn <=> pc[u] \in HoldsTurn
  BY DEF TurnInv, PcOK
<1>3. Holders' = Holders
  BY <1>2 DEF Holders
<1> QED BY <1>1, <1>3 DEF TurnInv

LEMMA TurnPassed ==
  ASSUME TurnInv, NEW t \in Threads, pc[t] \in HoldsTurn, PassTurn(t)
  PROVE  TurnInv'
<1>1. PcOK' /\ pc'[t] = "idle"
  BY DEF TurnInv, PcOK, PassTurn, Return
<1>2. t \in Holders
  BY DEF Holders
<1>3. mbx_cmd_comp = 0 /\ Holders = {t}
  BY <1>2 DEF TurnInv
<1>4. \A u \in Threads \ {t} : pc'[u] = pc[u]
  BY DEF TurnInv, PcOK, PassTurn, Return
<1>5. Holders' = {}
  BY <1>1, <1>3, <1>4 DEF Holders, HoldsTurn
<1>6. mbx_cmd_comp' = 1
  BY <1>3 DEF PassTurn
<1> QED BY <1>1, <1>5, <1>6 DEF TurnInv

LEMMA TurnTaken ==
  ASSUME TurnInv, NEW t \in Threads, TakeTurn(t)
  PROVE  TurnInv'
<1>1. mbx_cmd_comp = 1 /\ Holders = {} /\ mbx_cmd_comp' = 0
  BY DEF TurnInv, TakeTurn
<1>2. PcOK' /\ pc'[t] \in HoldsTurn
  BY DEF TurnInv, PcOK, TakeTurn, HoldsTurn
<1>3. \A u \in Threads \ {t} : pc'[u] = pc[u]
  BY DEF TurnInv, PcOK, TakeTurn
<1>4. Holders' = {t}
  BY <1>1, <1>2, <1>3 DEF Holders
<1> QED BY <1>1, <1>2, <1>4 DEF TurnInv

\* Steps that touch neither the completion nor a thread's place.
LEMMA TurnUntouched ==
  ASSUME TurnInv, UNCHANGED <<mbx_cmd_comp, pc>>
  PROVE  TurnInv'
  BY DEF TurnInv, PcOK, Holders

LEMMA TurnStep == TurnInv /\ [Next]_vars => TurnInv'
<1> SUFFICES ASSUME TurnInv, [Next]_vars PROVE TurnInv'
  OBVIOUS
<1>1. CASE UNCHANGED vars
  BY <1>1, TurnUntouched DEF vars, mbxVars
<1>2. ASSUME NEW t \in Threads, NEW io \in BOOLEAN, Call(t, io)
      PROVE  TurnInv'
  BY <1>2, TurnKept DEF Call, Enter, mbxVars, HoldsTurn
<1>3. ASSUME NEW t \in Threads, MailboxStep(t)
      PROVE  TurnInv'
  <2>1. CASE TakeTurn(t)
    BY <2>1, TurnTaken
  <2>2. CASE TurnTimeout(t)
    BY <2>2, TurnKept DEF TurnTimeout, TurnLate, Return, mbxVars, HoldsTurn
  <2>3. CASE Woken(t)
    BY <2>3, TurnKept DEF Woken, mbxVars, HoldsTurn
  <2>4. CASE Expire(t)
    <3>1. /\ pc' = [pc EXCEPT ![t] = IF pc[t] = "intr" THEN "expired" ELSE "woken"]
          /\ UNCHANGED mbx_cmd_comp /\ pc[t] \in HoldsTurn
      BY <2>4 DEF Expire, HoldsTurn
    <3> QED BY <3>1, TurnKept DEF HoldsTurn
  <2>5. CASE ClearIntrWait(t)
    BY <2>5, TurnKept DEF ClearIntrWait, mbxVars, HoldsTurn
  <2>6. CASE Check(t)
    BY <2>6, TurnKept DEF Check, HoldsTurn
  <2>7. CASE TailDone(t)
    BY <2>7, TurnPassed DEF TailDone, HoldsTurn
  <2>8. CASE TailSchedule(t)
    BY <2>8, TurnPassed DEF TailSchedule, HoldsTurn
  <2>9. CASE TailTest(t)
    BY <2>9, TurnKept DEF TailTest, mbxVars, HoldsTurn
  <2>10. CASE TailAbort(t)
    BY <2>10, TurnPassed DEF TailAbort, HoldsTurn
  <2> QED BY <1>3, <2>1, <2>2, <2>3, <2>4, <2>5, <2>6, <2>7, <2>8, <2>9, <2>10
          DEF MailboxStep
<1>4. ASSUME NEW t \in Threads, IspStep(t)
      PROVE  TurnInv'
  <2>1. CASE SetupCall(t)
    BY <2>1, TurnKept DEF SetupCall, Enter, mbxVars, HoldsTurn
  <2>2. CASE IspSkip(t) \/ IspReset(t) \/ IspOk(t) \/ IspFailed(t) \/ IspEnd(t)
    BY <2>2, TurnUntouched DEF IspSkip, IspReset, IspOk, IspFailed, IspEnd, mbxVars
  <2> QED BY <1>4, <2>1, <2>2 DEF IspStep
<1>5. CASE DpcStep
  BY <1>5, TurnUntouched DEF DpcStep, DpcWake, DpcLook, DpcClaim, DpcSleep, mbxVars
<1>6. ASSUME NEW a \in fw, FwAnswer(a)
      PROVE  TurnInv'
  BY <1>6, TurnUntouched DEF FwAnswer, mbxVars
<1>7. ASSUME NEW noticed \in BOOLEAN, FwHang(noticed)
      PROVE  TurnInv'
  BY <1>7, TurnUntouched DEF FwHang, mbxVars
<1>8. CASE AskReset \/ Isr
  BY <1>8, TurnUntouched DEF AskReset, Isr, mbxVars
<1> QED BY <1>1, <1>2, <1>3, <1>4, <1>5, <1>6, <1>7, <1>8 DEF Next

\* Mailbox commands never overlap: mbx_cmd_comp, a completion used as a
\* semaphore, is posted once for every time it was taken, on every path
\* through qla2x00_mailbox_command.
THEOREM CommandsNeverOverlap == Spec => []OneTurn
<1>1. Init => TurnInv
  BY DEF Init, TurnInv, PcOK, Holders, HoldsTurn
<1>2. TurnInv => OneTurn
  <2> SUFFICES ASSUME TurnInv PROVE OneTurn
    OBVIOUS
  <2>1. CASE mbx_cmd_comp = 1 /\ Holders = {}
    BY <2>1, FS_EmptySet DEF OneTurn, Holders
  <2>2. ASSUME mbx_cmd_comp = 0, NEW t \in Threads, Holders = {t}
        PROVE  OneTurn
    <3>1. Cardinality(Holders) = 1
      BY <2>2, FS_Singleton
    <3> QED BY <2>2, <3>1 DEF OneTurn, Holders
  <2> QED BY <2>1, <2>2 DEF TurnInv
<1> QED BY <1>1, <1>2, TurnStep, PTL DEF Spec

--------------------------------------------------------------------------
(* Types.                                                                  *)

\* TypeOK, with mbx_intr_comp not bounded yet.
TypeInv ==
  /\ TurnInv /\ mbx_intr_comp \in Nat
  /\ mcp \in Threads \cup {NoThread}
  /\ mbox_int \in BOOLEAN /\ mbx_intr_wait \in BOOLEAN
  /\ mailbox_out \in Ages /\ irq \in Ages
  /\ abort_active \in [Threads -> BOOLEAN]
  /\ ioctl \in [Threads -> BOOLEAN]
  /\ rval \in [Threads -> {"none", "ok", "error", "timeout"}]
  /\ calls \in [Threads -> 0..MaxCalls] /\ faults \in 0..MaxFaults
  /\ fw \subseteq {"current", "late"}
  /\ {fw_hung, fw_dumped, intrs, needed, active, retry, online} \subseteq BOOLEAN
  /\ isp_abort_cnt \in 0..MaxRetries
  /\ dpc \in {"asleep", "look", "claimed", "abort", "work"}
  /\ isp \in [Threads -> {"off", "reset", "setup", "over"}]
  /\ setup \in [Threads -> 0..SetupCmds] /\ outer \in [Threads -> Nat]
  /\ {given_up, crossed, lost_retry} \subseteq BOOLEAN

USE MailboxAssumption

LEMMA DpcIsThread == Dpc \in Threads
BY DEF Threads

LEMMA TypeStep ==
  ASSUME TypeInv, [Next]_vars
  PROVE  TypeInv'
<1> USE DEF TypeInv
<1>a. TurnInv'
  BY TurnStep
<1>1. CASE UNCHANGED vars
  BY <1>a, <1>1 DEF vars, mbxVars, intrVars, cmdVars, fwVars, flagVars, ispVars, nestVars
<1>2. ASSUME NEW t \in Threads, NEW io \in BOOLEAN, Call(t, io)
      PROVE  TypeInv'
  <2>1. calls[t] \in 0..MaxCalls /\ calls' = [calls EXCEPT ![t] = calls[t] + 1]
    BY <1>2 DEF Call
  <2>2. calls' \in [Threads -> 0..MaxCalls]
    BY <1>2, <2>1 DEF Call
  <2> QED BY <1>a, <1>2, <2>2 DEF Call, Enter, mbxVars, intrVars, fwVars, flagVars, ispVars,
          nestVars
<1>3. ASSUME NEW t \in Threads, MailboxStep(t)
      PROVE  TypeInv'
  <2>1. CASE TakeTurn(t)
    BY <1>a, <2>1 DEF TakeTurn, Aged, Ages, cmdVars, flagVars, ispVars, nestVars
  <2>2. CASE TurnTimeout(t)
    BY <1>a, <2>2 DEF TurnTimeout, Return, mbxVars, intrVars, fwVars, flagVars, ispVars, nestVars
  <2>3. CASE Woken(t) \/ Expire(t) \/ ClearIntrWait(t)
    <3>1. mbx_intr_comp' = mbx_intr_comp \/
          (mbx_intr_comp > 0 /\ mbx_intr_comp' = mbx_intr_comp - 1)
      BY <2>3 DEF Woken, Expire, ClearIntrWait, intrVars
    <3>2. mbx_intr_comp' \in Nat
      BY <3>1
    <3>3. given_up' \in BOOLEAN
      BY <2>3 DEF Woken, Expire, ClearIntrWait, mbxVars
    <3> QED BY <1>a, <2>3, <3>2, <3>3 DEF Woken, Expire, ClearIntrWait, mbxVars, intrVars,
            cmdVars, fwVars, flagVars, ispVars, nestVars
  <2>4. CASE Check(t)
    <3>1. PICK r \in {"ok", "error", "timeout"} : rval' = [rval EXCEPT ![t] = r]
      BY <2>4 DEF Check
    <3> QED BY <1>a, <2>4, <3>1 DEF Check, Ages, fwVars, flagVars, ispVars, nestVars
  <2>5. CASE TailDone(t) \/ TailSchedule(t) \/ TailTest(t)
    BY <1>a, <2>5 DEF TailDone, TailSchedule, TailTest, PassTurn, Return, mbxVars,
       intrVars, cmdVars, fwVars, flagVars, ispVars, nestVars
  <2>6. CASE TailAbort(t)
    <3>1. /\ isp' \in [Threads -> {"off", "reset", "setup", "over"}]
          /\ outer' \in [Threads -> Nat] /\ crossed' \in BOOLEAN
      BY <2>6 DEF TailAbort
    <3> QED BY <1>a, <2>6, <3>1 DEF TailAbort, PassTurn, Return, intrVars, fwVars
  <2> QED BY <1>3, <2>1, <2>2, <2>3, <2>4, <2>5, <2>6 DEF MailboxStep
<1>4. ASSUME NEW t \in Threads, IspStep(t)
      PROVE  TypeInv'
  <2>1. CASE SetupCall(t)
    <3>1. setup' \in [Threads -> 0..SetupCmds]
      BY <2>1 DEF SetupCall
    <3> QED BY <1>a, <2>1, <3>1 DEF SetupCall, Enter, mbxVars, intrVars, fwVars, flagVars, nestVars
  <2>2. CASE IspSkip(t)
    BY <1>a, <2>2 DEF IspSkip, IspOver, mbxVars, intrVars, cmdVars, fwVars, nestVars
  <2>3. CASE IspReset(t)
    <3>1. setup' \in [Threads -> 0..SetupCmds]
      BY <2>3 DEF IspReset
    <3> QED BY <1>a, <2>3, <3>1 DEF IspReset, Ages, intrVars
  <2>4. CASE IspFailed(t)
    <3>1. setup' \in [Threads -> 0..SetupCmds]
      BY <2>4 DEF IspFailed
    <3>2. isp_abort_cnt' = MaxRetries \/ isp_abort_cnt' = isp_abort_cnt
          \/ (isp_abort_cnt > 0 /\ isp_abort_cnt' = isp_abort_cnt - 1)
      BY <2>4 DEF IspFailed
    <3>3. isp_abort_cnt' \in 0..MaxRetries
      BY <3>2
    <3>4. /\ {fw_hung', intrs', needed', retry', online'} \subseteq BOOLEAN
          /\ fw' \subseteq {"current", "late"}
      BY <2>4 DEF IspFailed, IspOver
    <3>5. isp' \in [Threads -> {"off", "reset", "setup", "over"}]
      BY <2>4 DEF IspFailed, IspOver
    <3>6. UNCHANGED <<active, dpc, nestVars, mbxVars, intrVars, cmdVars, irq, fw_dumped, faults>>
      BY <2>4 DEF IspFailed, IspOver
    <3> QED BY <1>a, <3>1, <3>3, <3>4, <3>5, <3>6 DEF mbxVars, intrVars, cmdVars, nestVars
  <2>5. CASE IspOk(t)
    <3>1. isp_abort_cnt' \in 0..MaxRetries /\ intrs' \in BOOLEAN
      BY <2>5 DEF IspOk
    <3> QED BY <1>a, <2>5, <3>1 DEF IspOk, IspOver, mbxVars, intrVars, cmdVars, nestVars
  <2>6. CASE IspEnd(t)
    <3>1. /\ isp' \in [Threads -> {"off", "reset", "setup", "over"}]
          /\ rval' \in [Threads -> {"none", "ok", "error", "timeout"}]
          /\ dpc' \in {"asleep", "look", "claimed", "abort", "work"}
      BY <2>6 DEF IspEnd, Resume
    <3>2. outer' \in [Threads -> Nat] /\ setup' \in [Threads -> 0..SetupCmds]
      <4>1. CASE outer[t] = 0
        BY <2>6, <4>1 DEF IspEnd, Resume
      <4>2. CASE outer[t] # 0
        <5>1. outer[t] - 1 \in Nat /\ outer' = [outer EXCEPT ![t] = outer[t] - 1]
              /\ setup' = [setup EXCEPT ![t] = 0]
          BY <2>6, <4>2 DEF IspEnd, Resume
        <5> QED BY <5>1
      <4> QED BY <4>1, <4>2
    <3> QED BY <1>a, <2>6, <3>1, <3>2 DEF IspEnd, mbxVars, intrVars, fwVars
  <2> QED BY <1>4, <2>1, <2>2, <2>3, <2>4, <2>5, <2>6 DEF IspStep
<1>5. CASE DpcStep
  BY <1>a, <1>5 DEF DpcStep, DpcWake, DpcLook, DpcClaim, DpcSleep, mbxVars, intrVars,
     cmdVars, fwVars, flagVars, nestVars
<1>6. ASSUME NEW a \in fw, FwAnswer(a)
      PROVE  TypeInv'
  BY <1>a, <1>6 DEF FwAnswer, Ages, mbxVars, intrVars, cmdVars, flagVars, ispVars, nestVars
<1>7. ASSUME NEW noticed \in BOOLEAN, FwHang(noticed)
      PROVE  TypeInv'
  BY <1>a, <1>7 DEF FwHang, Ages, mbxVars, intrVars, cmdVars, ispVars, nestVars
<1>8. CASE AskReset
  <2>1. faults' \in 0..MaxFaults
    BY <1>8 DEF AskReset
  <2> QED BY <1>a, <1>8, <2>1 DEF AskReset, mbxVars, intrVars, cmdVars, ispVars, nestVars
<1>9. CASE Isr
  <2>1. mbx_intr_comp' = mbx_intr_comp \/ mbx_intr_comp' = mbx_intr_comp + 1
    BY <1>9 DEF Isr
  <2>2. mbx_intr_comp' \in Nat
    BY <2>1
  <2> QED BY <1>a, <1>9, <2>2 DEF Isr, Ages, mbxVars, cmdVars, flagVars, ispVars, nestVars
<1> QED BY <1>1, <1>2, <1>3, <1>4, <1>5, <1>6, <1>7, <1>8, <1>9 DEF Next

LEMMA TypeInit == Init => TypeInv
<1> SUFFICES ASSUME Init PROVE TypeInv
  OBVIOUS
<1>1. TurnInv
  <2>1. PcOK /\ Holders = {}
    BY DEF Init, PcOK, Holders, HoldsTurn
  <2> QED BY <2>1 DEF TurnInv, Init
<1>2. /\ abort_active \in [Threads -> BOOLEAN] /\ ioctl \in [Threads -> BOOLEAN]
      /\ rval \in [Threads -> {"none", "ok", "error", "timeout"}]
      /\ isp \in [Threads -> {"off", "reset", "setup", "over"}]
  BY DEF Init
<1>3. /\ calls \in [Threads -> 0..MaxCalls] /\ faults \in 0..MaxFaults
      /\ setup \in [Threads -> 0..SetupCmds] /\ isp_abort_cnt \in 0..MaxRetries
      /\ outer \in [Threads -> Nat] /\ mbx_intr_comp \in Nat
  BY DEF Init
<1>4. /\ mcp \in Threads \cup {NoThread}
      /\ {mbox_int, mbx_intr_wait, given_up, crossed, lost_retry} \subseteq BOOLEAN
      /\ {fw_hung, fw_dumped, intrs, needed, active, retry, online} \subseteq BOOLEAN
      /\ {mailbox_out, irq} \subseteq Ages /\ fw = {} /\ dpc = "asleep"
  BY DEF Init, Ages
<1> QED BY <1>1, <1>2, <1>3, <1>4 DEF TypeInv

--------------------------------------------------------------------------
(* OneReset.                                                               *)

Running == { t \in Threads : isp[t] # "off" }

\* OneReset without the arithmetic.
ResetInv ==
  /\ active => Running # {}
  /\ \A t \in Threads : outer[t] > 0 => isp[t] # "off"
  /\ ~crossed => /\ \A t \in Threads : outer[t] = 0
                 /\ \/ active /\ \E t \in Threads : Running = {t}
                    \/ ~active /\ Running = {}

LEMMA ResetUntouched ==
  ASSUME ResetInv, UNCHANGED <<isp, active, outer, crossed>>
  PROVE  ResetInv'
BY DEF ResetInv, Running

\* A step within an abort_isp.
LEMMA ResetGoesOn ==
  ASSUME TypeInv, ResetInv, NEW t \in Threads, NEW s \in {"reset", "setup", "over"},
         isp[t] # "off", isp' = [isp EXCEPT ![t] = s],
         UNCHANGED <<active, outer, crossed>>
  PROVE  ResetInv'
<1>1. \A u \in Threads : isp'[u] = IF u = t THEN s ELSE isp[u]
  BY DEF TypeInv
<1>2. Running' = Running
  BY <1>1 DEF Running
<1> QED BY <1>1, <1>2 DEF ResetInv

\* A thread that has tested the flag in time or too late calls abort_isp.
LEMMA ResetCalled ==
  ASSUME TypeInv, ResetInv, NEW t \in Threads, TailAbort(t)
  PROVE  ResetInv'
<1>1. \A u \in Threads : isp'[u] = IF u = t THEN "reset" ELSE isp[u]
  BY DEF TypeInv, TailAbort
<1>2. active' /\ (crossed' <=> crossed \/ Running # {})
  BY DEF TailAbort, TypeInv, Running
<1>3. \A u \in Threads : u # t => outer'[u] = outer[u]
  BY DEF TypeInv, TailAbort
<1>4. t \in Running'
  BY <1>1 DEF Running
<1>5. \A u \in Threads : outer'[u] > 0 => isp'[u] # "off"
  BY <1>1, <1>3 DEF ResetInv
<1>6. ASSUME ~crossed' PROVE Running' = {t} /\ \A u \in Threads : outer'[u] = 0
  <2>1. ~crossed /\ Running = {} /\ \A u \in Threads : outer[u] = 0
    BY <1>2, <1>6 DEF ResetInv
  <2>2. isp[t] = "off"
    BY <2>1 DEF Running
  <2>3. outer' = [outer EXCEPT ![t] = outer[t] + 0]
    BY <2>2 DEF TailAbort
  <2> QED BY <1>1, <2>1, <2>3 DEF TypeInv, Running
<1> QED BY <1>2, <1>4, <1>5, <1>6 DEF ResetInv

\* An abort_isp ends, and the one it interrupted goes on.
LEMMA ResetEnds ==
  ASSUME TypeInv, ResetInv, NEW t \in Threads, IspEnd(t)
  PROVE  ResetInv'
<1>1. PICK s \in {"off", "setup"} :
        /\ isp' = [isp EXCEPT ![t] = s]
        /\ s = "off" <=> outer[t] = 0
  BY DEF IspEnd, Resume
<1>2. \A u \in Threads : isp'[u] = IF u = t THEN s ELSE isp[u]
  BY <1>1 DEF TypeInv
<1>3. ~active' /\ isp[t] = "over"
  BY DEF IspEnd
<1>4. \A u \in Threads : u # t => outer'[u] = outer[u]
  BY DEF TypeInv, IspEnd, Resume
<1>5. outer[t] = 0 => outer'[t] = 0
  BY DEF TypeInv, IspEnd, Resume
<1>6. \A u \in Threads : outer'[u] > 0 => isp'[u] # "off"
  BY <1>1, <1>2, <1>4, <1>5 DEF ResetInv
<1>7. ASSUME ~crossed' PROVE Running' = {} /\ \A u \in Threads : outer'[u] = 0
  <2>1. outer[t] = 0 /\ \A u \in Threads \ {t} : isp[u] = "off"
    <3>1. CASE ~crossed
      BY <1>3, <3>1 DEF ResetInv, Running
    <3>2. CASE crossed
      <4>1. ~(outer[t] > 0 \/ \E u \in Threads \ {t} : isp[u] # "off")
        BY <1>7, <3>2 DEF IspEnd
      <4>2. outer[t] \in Nat
        BY DEF TypeInv
      <4> QED BY <4>1, <4>2
    <3> QED BY <3>1, <3>2
  <2>2. \A u \in Threads : outer[u] = 0
    BY <2>1 DEF ResetInv, TypeInv
  <2> QED BY <1>1, <1>2, <1>4, <1>5, <2>1, <2>2 DEF Running
<1> QED BY <1>3, <1>6, <1>7 DEF ResetInv

LEMMA ResetStep ==
  ASSUME TypeInv, ResetInv, [Next]_vars
  PROVE  ResetInv'
<1>1. CASE UNCHANGED vars
  BY <1>1, ResetUntouched DEF vars, flagVars, ispVars, nestVars
<1>2. ASSUME NEW t \in Threads, NEW io \in BOOLEAN, Call(t, io)
      PROVE  ResetInv'
  BY <1>2, ResetUntouched DEF Call, flagVars, ispVars, nestVars
<1>3. ASSUME NEW t \in Threads, MailboxStep(t)
      PROVE  ResetInv'
  <2>1. CASE TailAbort(t)
    BY <2>1, ResetCalled
  <2>2. CASE ~TailAbort(t)
    <3>1. UNCHANGED <<isp, active, outer, crossed>>
      BY <1>3, <2>2 DEF MailboxStep, TakeTurn, TurnTimeout, Woken, Expire, ClearIntrWait,
         Check, TailDone, TailSchedule, TailTest, flagVars, ispVars, nestVars
    <3> QED BY <3>1, ResetUntouched
  <2> QED BY <2>1, <2>2
<1>4. ASSUME NEW t \in Threads, IspStep(t)
      PROVE  ResetInv'
  <2>1. CASE SetupCall(t)
    BY <2>1, ResetUntouched DEF SetupCall, flagVars, nestVars
  <2>2. CASE IspSkip(t) \/ IspReset(t) \/ IspOk(t) \/ IspFailed(t)
    <3>1. PICK s \in {"setup", "over"} : isp' = [isp EXCEPT ![t] = s]
      BY <2>2 DEF IspSkip, IspReset, IspOk, IspFailed, IspOver
    <3>2. isp[t] # "off" /\ UNCHANGED <<active, outer, crossed>>
      BY <2>2 DEF IspSkip, IspReset, IspOk, IspFailed, IspOver, nestVars
    <3> QED BY <3>1, <3>2, ResetGoesOn
  <2>3. CASE IspEnd(t)
    BY <2>3, ResetEnds
  <2> QED BY <1>4, <2>1, <2>2, <2>3 DEF IspStep
<1>5. CASE DpcStep
  <2>1. CASE UNCHANGED <<isp, active>>
    BY <1>5, <2>1, ResetUntouched DEF DpcStep, DpcWake, DpcLook, DpcClaim, DpcSleep, nestVars
  <2>2. CASE DpcClaim /\ ~active
    <3>1. /\ isp' = [isp EXCEPT ![Dpc] = "reset"]
          /\ active' /\ UNCHANGED <<outer, crossed>>
      BY <2>2 DEF DpcClaim
    <3>2. \A u \in Threads : isp'[u] = IF u = Dpc THEN "reset" ELSE isp[u]
      BY <3>1 DEF TypeInv
    <3>3. Running' = Running \cup {Dpc}
      BY <3>2, DpcIsThread DEF Running
    <3> QED BY <2>2, <3>1, <3>2, <3>3, DpcIsThread DEF ResetInv
  <2>3. CASE DpcClaim /\ active
    BY <2>3, ResetUntouched DEF DpcClaim, TypeInv
  <2> QED BY <1>5, <2>1, <2>2, <2>3 DEF DpcStep, DpcWake, DpcLook, DpcSleep, flagVars
<1>6. ASSUME NEW a \in fw, FwAnswer(a)
      PROVE  ResetInv'
  BY <1>6, ResetUntouched DEF FwAnswer, flagVars, ispVars, nestVars
<1>7. ASSUME NEW noticed \in BOOLEAN, FwHang(noticed)
      PROVE  ResetInv'
  BY <1>7, ResetUntouched DEF FwHang, ispVars, nestVars
<1>8. CASE AskReset \/ Isr
  BY <1>8, ResetUntouched DEF AskReset, Isr, flagVars, ispVars, nestVars
<1> QED BY <1>1, <1>2, <1>3, <1>4, <1>5, <1>6, <1>7, <1>8 DEF Next

\* Whoever resets the adapter, and however often abort_isp is called again
\* while it runs: ABORT_ISP_ACTIVE is never left set behind the last of them,
\* and the one place that lets a second abort_isp in is the setting of the flag
\* in mailbox_command.  The test_and_set_bit of the DPC thread never does.
THEOREM ResetsNeverOverlap == Spec => []OneReset
<1>1. Init => TypeInv /\ ResetInv
  BY TypeInit DEF Init, ResetInv, Running
<1>2. ResetInv => OneReset
  <2> SUFFICES ASSUME ResetInv PROVE OneReset
    OBVIOUS
  <2>1. ASSUME ~crossed PROVE Cardinality(Running) = IF active THEN 1 ELSE 0
    BY <2>1, FS_EmptySet, FS_Singleton DEF ResetInv
  <2> QED BY <2>1 DEF OneReset, ResetInv, Running
<1>3. TypeInv /\ ResetInv /\ [Next]_vars => TypeInv' /\ ResetInv'
  BY TypeStep, ResetStep
<1> QED BY <1>1, <1>2, <1>3, PTL DEF Spec

--------------------------------------------------------------------------
(* RetriesArePending.                                                      *)

\* The DPC thread neither looks for work nor sleeps while it has a command or
\* a reset under way.
DpcBusy == pc[Dpc] # "idle" \/ isp[Dpc] # "off" => dpc \in {"work", "abort"}

\* An adapter that is to be tried again is online, but while an abort_isp has
\* still to say how its attempt went.
RetryOnline ==
  retry /\ ~online => \E t \in Threads : isp[t] = "setup" \/ outer[t] > 0

RetryInv == DpcBusy /\ RetryOnline /\ RetriesArePending

\* Steps that clear no flag and leave resets and the DPC thread where they are.
LEMMA RetryKept ==
  ASSUME RetryInv, UNCHANGED <<isp, outer, retry, online, dpc, lost_retry>>,
         needed => needed', pc'[Dpc] # "idle" => dpc \in {"work", "abort"}
  PROVE  RetryInv'
BY DEF RetryInv, DpcBusy, RetryOnline, RetriesArePending, Resetting

LEMMA RetryStep ==
  ASSUME TypeInv, RetryInv, [Next]_vars
  PROVE  RetryInv'
<1>0. TypeInv' /\ PcOK
  BY TypeStep DEF TypeInv, TurnInv
<1>1. CASE UNCHANGED vars
  BY <1>1, RetryKept DEF vars, flagVars, ispVars, nestVars, RetryInv, DpcBusy
<1>2. ASSUME NEW t \in Threads, NEW io \in BOOLEAN, Call(t, io)
      PROVE  RetryInv'
  <2>1. pc'[Dpc] = pc[Dpc] \/ dpc = "work"
    BY <1>0, <1>2 DEF Call, Enter, PcOK
  <2> QED BY <1>2, <2>1, RetryKept DEF Call, flagVars, ispVars, nestVars, RetryInv, DpcBusy
<1>3. ASSUME NEW t \in Threads, MailboxStep(t)
      PROVE  RetryInv'
  <2>1. pc[t] # "idle"
    BY <1>3 DEF MailboxStep, TakeTurn, TurnTimeout, TurnLate, Woken, Expire, ClearIntrWait, Check,
       TailDone, TailSchedule, TailTest, TailAbort
  <2>2. \A u \in Threads : u # t => pc'[u] = pc[u]
    BY <1>0, <1>3 DEF MailboxStep, TakeTurn, TurnTimeout, Woken, Expire, ClearIntrWait, Check,
       TailDone, TailSchedule, TailTest, TailAbort, PassTurn, Return, PcOK
  <2>3. pc'[Dpc] # "idle" => dpc \in {"work", "abort"}
    BY <2>1, <2>2, DpcIsThread DEF RetryInv, DpcBusy
  <2>4. CASE ~TailAbort(t)
    <3>1. UNCHANGED <<isp, outer, retry, online, dpc, lost_retry>> /\ (needed => needed')
      BY <1>3, <2>4 DEF MailboxStep, TakeTurn, TurnTimeout, Woken, Expire, ClearIntrWait,
         Check, TailDone, TailSchedule, TailTest, flagVars, ispVars, nestVars
    <3> QED BY <2>3, <3>1, RetryKept
  <2>5. CASE TailAbort(t)
    <3>1. \A u \in Threads : isp'[u] = IF u = t THEN "reset" ELSE isp[u]
      BY <2>5 DEF TypeInv, TailAbort
    <3>2. UNCHANGED <<retry, online, dpc, lost_retry>>
      BY <2>5 DEF TailAbort
    <3>3. DpcBusy'
      BY <2>1, <2>3, <3>1, <3>2, DpcIsThread DEF RetryInv, DpcBusy
    <3>4. \A u \in Threads : outer'[u] = IF u = t /\ isp[t] # "off" THEN outer[u] + 1 ELSE outer[u]
      BY <2>5 DEF TypeInv, TailAbort
    <3>5. RetryOnline'
      BY <3>1, <3>2, <3>4 DEF RetryInv, RetryOnline, TypeInv
    <3>6. Resetting'
      BY <3>1 DEF Resetting
    <3> QED BY <3>3, <3>5, <3>6 DEF RetryInv, RetriesArePending
  <2> QED BY <2>4, <2>5
<1>4. ASSUME NEW t \in Threads, IspStep(t)
      PROVE  RetryInv'
  <2>1. isp[t] # "off"
    BY <1>4 DEF IspStep, SetupCall, IspSkip, IspReset, IspOk, IspFailed, IspEnd
  <2>2. t = Dpc => dpc \in {"work", "abort"}
    BY <2>1 DEF RetryInv, DpcBusy
  <2>3. CASE SetupCall(t)
    <3>1. pc'[Dpc] = pc[Dpc] \/ t = Dpc
      BY <1>0, <2>3 DEF SetupCall, Enter, PcOK
    <3> QED BY <2>2, <2>3, <3>1, RetryKept DEF SetupCall, flagVars, nestVars, RetryInv, DpcBusy
  <2>4. ASSUME NEW s \in {"setup", "over"}, isp' = [isp EXCEPT ![t] = s],
               UNCHANGED <<pc, dpc, outer>>
        PROVE  /\ DpcBusy'
               /\ \A u \in Threads : isp'[u] = IF u = t THEN s ELSE isp[u]
    <3>1. \A u \in Threads : isp'[u] = IF u = t THEN s ELSE isp[u]
      BY <2>4 DEF TypeInv
    <3> QED BY <2>2, <2>4, <3>1, DpcIsThread DEF RetryInv, DpcBusy
  <2>5. CASE IspSkip(t)
    <3>1. /\ isp' = [isp EXCEPT ![t] = "over"] /\ isp[t] = "reset" /\ ~online
          /\ UNCHANGED <<pc, dpc, outer, retry, online, lost_retry>>
      BY <2>5 DEF IspSkip, IspOver, nestVars
    <3>2. DpcBusy' /\ \A u \in Threads : isp'[u] = IF u = t THEN "over" ELSE isp[u]
      BY <2>4, <3>1
    <3>3. RetryOnline'
      BY <3>1, <3>2 DEF RetryInv, RetryOnline
    <3>4. retry => Resetting'
      BY <3>1, <3>3 DEF RetryOnline, Resetting
    <3> QED BY <3>1, <3>2, <3>3, <3>4 DEF RetryInv, RetriesArePending
  <2>6. CASE IspReset(t)
    <3>1. /\ isp' = [isp EXCEPT ![t] = "setup"] /\ UNCHANGED <<pc, dpc, outer>>
      BY <2>6 DEF IspReset
    <3>2. DpcBusy' /\ \A u \in Threads : isp'[u] = IF u = t THEN "setup" ELSE isp[u]
      BY <2>4, <3>1
    <3> QED BY <3>2 DEF RetryInv, RetryOnline, RetriesArePending, Resetting
  <2>7. CASE IspOk(t) \/ IspFailed(t)
    <3>1. /\ isp' = [isp EXCEPT ![t] = "over"] /\ UNCHANGED <<pc, dpc, outer>>
          /\ retry' => needed' /\ online'
      BY <2>7 DEF IspOk, IspFailed, IspOver, nestVars
    <3>2. DpcBusy'
      BY <2>4, <3>1
    <3> QED BY <3>1, <3>2 DEF RetryInv, RetryOnline, RetriesArePending
  <2>8. CASE IspEnd(t)
    <3>1. PICK s \in {"off", "setup"} :
            isp' = [isp EXCEPT ![t] = s] /\ (s = "off" => outer[t] = 0)
      BY <2>8 DEF IspEnd, Resume
    <3>2. \A u \in Threads : isp'[u] = IF u = t THEN s ELSE isp[u]
      BY <3>1 DEF TypeInv
    <3>3. /\ \A u \in Threads : u # t => outer'[u] = outer[u]
          /\ UNCHANGED <<pc, needed, retry, online, lost_retry>>
          /\ isp[t] = "over" /\ (dpc' = dpc \/ (dpc = "abort" /\ dpc' = "work"))
      BY <2>8 DEF TypeInv, IspEnd, Resume
    <3>4. DpcBusy'
      BY <2>2, <3>2, <3>3, DpcIsThread DEF RetryInv, DpcBusy
    <3>5. outer[t] > 0 => s = "setup"
      BY <3>1
    <3>6. RetryOnline'
      BY <3>2, <3>3, <3>5 DEF RetryInv, RetryOnline
    <3>7. Resetting => Resetting'
      BY <3>2, <3>3, <3>5 DEF Resetting
    <3> QED BY <3>3, <3>4, <3>6, <3>7 DEF RetryInv, RetriesArePending
  <2> QED BY <1>4, <2>3, <2>5, <2>6, <2>7, <2>8 DEF IspStep
<1>5. CASE DpcStep
  <2>1. CASE DpcWake
    BY <2>1 DEF DpcWake, flagVars, nestVars, RetryInv, DpcBusy, RetryOnline, RetriesArePending,
       Resetting
  <2>2. CASE DpcLook
    BY <2>2 DEF DpcLook, nestVars, RetryInv, DpcBusy, RetryOnline, RetriesArePending, Resetting
  <2>3. CASE DpcClaim
    <3>1. pc[Dpc] = "idle" /\ isp[Dpc] = "off" /\ UNCHANGED <<pc, needed, retry, online, outer>>
      BY <2>3 DEF DpcClaim, RetryInv, DpcBusy
    <3>2. dpc' \in {"work", "abort"}
      BY <2>3 DEF DpcClaim
    <3>3. CASE active
      <4>1. isp' = isp /\ (retry => Resetting \/ lost_retry')
        BY <2>3, <3>3 DEF DpcClaim, TypeInv
      <4> QED BY <3>1, <3>2, <4>1 DEF RetryInv, DpcBusy, RetryOnline, RetriesArePending, Resetting
    <3>4. CASE ~active
      <4>1. \A u \in Threads : isp'[u] = IF u = Dpc THEN "reset" ELSE isp[u]
        BY <2>3, <3>4 DEF DpcClaim, TypeInv
      <4> QED BY <3>1, <3>2, <4>1, DpcIsThread
              DEF RetryInv, DpcBusy, RetryOnline, RetriesArePending, Resetting
    <3> QED BY <3>3, <3>4
  <2>4. CASE DpcSleep
    BY <2>4 DEF DpcSleep, flagVars, nestVars, RetryInv, DpcBusy, RetryOnline, RetriesArePending,
       Resetting
  <2> QED BY <1>5, <2>1, <2>2, <2>3, <2>4 DEF DpcStep
<1>6. ASSUME NEW a \in fw, FwAnswer(a)
      PROVE  RetryInv'
  BY <1>6, RetryKept DEF FwAnswer, flagVars, ispVars, nestVars, RetryInv, DpcBusy
<1>7. ASSUME NEW noticed \in BOOLEAN, FwHang(noticed)
      PROVE  RetryInv'
  BY <1>7, RetryKept DEF FwHang, ispVars, nestVars, RetryInv, DpcBusy
<1>8. CASE AskReset \/ Isr
  BY <1>8, RetryKept DEF AskReset, Isr, flagVars, ispVars, nestVars, RetryInv, DpcBusy
<1> QED BY <1>1, <1>2, <1>3, <1>4, <1>5, <1>6, <1>7, <1>8 DEF Next

\* The request for another attempt survives everything but one thing: the DPC
\* thread takes it while ABORT_ISP_ACTIVE is still set by the attempt that has
\* failed.  No abort_isp_cleanup, no timed-out command and no crossing of
\* abort_isps, which all clear ISP_ABORT_NEEDED too, loses it.
THEOREM RetriesAlwaysPending == Spec => []RetriesArePending
<1>1. Init => TypeInv /\ RetryInv
  BY TypeInit, DpcIsThread DEF Init, RetryInv, DpcBusy, RetryOnline, RetriesArePending
<1>2. RetryInv => RetriesArePending
  BY DEF RetryInv
<1>3. TypeInv /\ RetryInv /\ [Next]_vars => TypeInv' /\ RetryInv'
  BY TypeStep, RetryStep
<1> QED BY <1>1, <1>2, <1>3, PTL DEF Spec

--------------------------------------------------------------------------
(* AnswersAreOwn.                                                          *)

\* Nobody else is near the mailbox while a thread holds the turn ...
LEMMA OthersWait ==
  ASSUME TurnInv, NEW t \in Threads, pc[t] \in HoldsTurn
  PROVE  mbx_cmd_comp = 0 /\ \A u \in Threads \ {t} : pc[u] \notin HoldsTurn
<1>1. t \in Holders
  BY DEF Holders
<1>2. mbx_cmd_comp = 0 /\ Holders = {t}
  BY <1>1 DEF TurnInv
<1> QED BY <1>2 DEF Holders

\* ... and nobody at all while the turn is to be had.
LEMMA NobodyWaits ==
  ASSUME TurnInv, mbx_cmd_comp > 0
  PROVE  \A u \in Threads : pc[u] \notin HoldsTurn
BY DEF TurnInv, Holders

LEMMA PcMoves ==
  ASSUME TurnInv, NEW t \in Threads, NEW s, pc' = [pc EXCEPT ![t] = s]
  PROVE  \A u \in Threads : pc'[u] = IF u = t THEN s ELSE pc[u]
BY DEF TurnInv, PcOK

Sleeping == \E t \in Threads : pc[t] = "intr"
Waiting == \E t \in Threads : pc[t] \in {"intr", "poll"}

\* Completions posted and those an interrupt may still post.
WakeUps == mbx_intr_comp + IF mbx_intr_wait THEN 1 ELSE 0

\* mbx_intr_comp may be left over from a command, but not more than once: the
\* next sleeper uses it up before another can be left.
BoundInv == WakeUps <= IF Sleeping THEN 2 ELSE 1

\* The answers on the way: of the firmware, and in the registers.
Answers == fw \cup ({irq} \ {"none"})

\* There is one answer at most, for the command that waits; none before or
\* after.  MBX_INTR_WAIT is set while a sleeper has not been woken, and
\* mbx_intr_comp has the one completion that will wake it.
MsgInv ==
  /\ Answers \subseteq {"current"} /\ (irq = "none" \/ fw = {})
  /\ Answers # {} => Waiting /\ ~mbox_int
  /\ \A t \in Threads : pc[t] \in HoldsTurn /\ mbox_int => mailbox_out = "current"
  /\ mbx_intr_comp > 0 => Sleeping /\ mbox_int
  /\ mbx_intr_wait => \E t \in Threads : pc[t] \in {"intr", "expired"}
  /\ WakeUps <= 1

AnswerInv == TypeInv /\ BoundInv /\ (~given_up => MsgInv)

\* Steps that neither bring nor take an answer, nor a thread to or from its
\* wait for one.
LEMMA MsgUntouched ==
  ASSUME AnswerInv, UNCHANGED <<intrVars, fw, irq, given_up>>,
         \A t \in Threads : pc'[t] = pc[t] \/ {pc[t], pc'[t]} \cap HoldsTurn = {}
                           \/ /\ pc[t] \in {"tail", "tested"}
                              /\ pc'[t] \in {"idle", "tested"}
  PROVE  BoundInv' /\ (~given_up' => MsgInv')
<1>1. \A t \in Threads, s \in {"intr", "poll", "expired"} : pc'[t] = s <=> pc[t] = s
  BY DEF HoldsTurn
<1>2. Sleeping' = Sleeping /\ Waiting' = Waiting /\ WakeUps' = WakeUps /\ Answers' = Answers
  BY <1>1 DEF Sleeping, Waiting, WakeUps, Answers, intrVars
<1>3. \A t \in Threads : pc'[t] \in HoldsTurn => pc[t] \in HoldsTurn
  BY DEF HoldsTurn
<1>4. BoundInv'
  BY <1>2 DEF AnswerInv, BoundInv
<1>5. ASSUME ~given_up', MsgInv PROVE MsgInv'
  BY <1>1, <1>2, <1>3, <1>5 DEF MsgInv, intrVars
<1> QED BY <1>4, <1>5 DEF AnswerInv

\* The turn is taken: no answer is on the way but the one to come.
LEMMA MsgTaken ==
  ASSUME AnswerInv, NEW t \in Threads, TakeTurn(t)
  PROVE  BoundInv' /\ (~given_up' => MsgInv')
<1>1. \A u \in Threads : pc[u] \notin HoldsTurn
  BY NobodyWaits DEF AnswerInv, TypeInv, TakeTurn
<1>2. PICK s \in {"intr", "poll"} :
        /\ pc' = [pc EXCEPT ![t] = s]
        /\ mbx_intr_wait' = (s = "intr" \/ mbx_intr_wait)
  BY DEF TakeTurn, AnswerInv, TypeInv
<1>3. \A u \in Threads : pc'[u] = IF u = t THEN s ELSE pc[u]
  BY <1>2, PcMoves DEF AnswerInv, TypeInv
<1>4. UNCHANGED <<mbx_intr_comp, given_up>> /\ mbox_int' = FALSE
  BY DEF TakeTurn
<1>5. ~Sleeping /\ ~Waiting /\ (Sleeping' <=> s = "intr") /\ Waiting'
  BY <1>1, <1>3 DEF Sleeping, Waiting, HoldsTurn
<1>6. WakeUps <= 1 /\ mbx_intr_comp \in Nat
  BY <1>5 DEF AnswerInv, BoundInv, TypeInv
<1>7. BoundInv'
  BY <1>2, <1>4, <1>5, <1>6 DEF BoundInv, WakeUps, AnswerInv, TypeInv
<1>8. ASSUME MsgInv PROVE MsgInv'
  <2>1. fw = {} /\ irq = "none" /\ mbx_intr_comp = 0 /\ ~mbx_intr_wait
    BY <1>1, <1>5, <1>6, <1>8 DEF MsgInv, Answers, HoldsTurn
  <2>2. irq' = "none" /\ fw' \subseteq {"current"}
    BY <2>1 DEF TakeTurn, Aged
  <2>3. Answers' \subseteq {"current"}
    BY <2>2 DEF Answers
  <2>4. WakeUps' <= 1
    BY <1>2, <1>4, <2>1 DEF WakeUps
  <2>5. ~mbox_int' /\ ~(mbx_intr_comp' > 0)
    BY <1>4, <2>1
  <2>6. mbx_intr_wait' => \E u \in Threads : pc'[u] \in {"intr", "expired"}
    <3>1. CASE s = "intr"
      BY <1>3, <3>1
    <3>2. CASE s # "intr"
      BY <1>2, <2>1, <3>2
    <3> QED BY <3>1, <3>2
  <2> QED BY <1>5, <2>2, <2>3, <2>4, <2>5, <2>6 DEF MsgInv
<1> QED BY <1>4, <1>7, <1>8 DEF AnswerInv

\* The wait ends, with the answer or without.
LEMMA MsgWaited ==
  ASSUME AnswerInv, NEW t \in Threads, Woken(t) \/ Expire(t)
  PROVE  BoundInv' /\ (~given_up' => MsgInv')
<1>1. \A u \in Threads \ {t} : pc[u] \notin HoldsTurn
  BY OthersWait DEF AnswerInv, TypeInv, Woken, Expire, HoldsTurn
<1>2. pc[t] \in {"intr", "poll"} /\ UNCHANGED <<mbox_int, mbx_intr_wait, mailbox_out, fw, irq>>
  BY DEF Woken, Expire, intrVars, fwVars
<1>3. PICK s \in {"expired", "woken"} :
        pc' = [pc EXCEPT ![t] = s] /\ (s = "expired" <=> Expire(t) /\ pc[t] = "intr")
  BY DEF Woken, Expire
<1>4. \A u \in Threads : pc'[u] = IF u = t THEN s ELSE pc[u]
  BY <1>3, PcMoves DEF AnswerInv, TypeInv
<1>5. ~Sleeping' /\ ~Waiting' /\ (Sleeping <=> pc[t] = "intr")
  BY <1>1, <1>2, <1>4 DEF Sleeping, Waiting, HoldsTurn
<1>6. /\ mbx_intr_comp \in Nat /\ mbx_intr_wait \in BOOLEAN /\ Answers' = Answers
      /\ \/ pc[t] = "intr" /\ mbx_intr_comp = 0 /\ mbx_intr_comp' = 0
         \/ pc[t] = "intr" /\ mbx_intr_comp > 0 /\ mbx_intr_comp' = mbx_intr_comp - 1
         \/ pc[t] = "poll" /\ mbx_intr_comp' = mbx_intr_comp
  BY <1>2 DEF Woken, Expire, AnswerInv, TypeInv, intrVars, Answers
<1>7. WakeUps' <= 1
  BY <1>2, <1>5, <1>6 DEF AnswerInv, BoundInv, WakeUps
<1>8. BoundInv'
  BY <1>5, <1>7 DEF BoundInv
<1>9. ASSUME ~given_up' PROVE MsgInv'
  <2>1. MsgInv
    BY <1>9 DEF AnswerInv, Woken, Expire, mbxVars
  <2>2. Answers = {}
    <3>1. CASE Woken(t)
      BY <1>6, <2>1, <3>1 DEF Woken, MsgInv
    <3>2. CASE Expire(t)
      BY <1>9, <2>1, <3>2 DEF Expire, Answering, MsgInv, Answers
    <3> QED BY <3>1, <3>2
  <2>3. mbx_intr_comp' = 0
    BY <1>5, <1>6, <2>1 DEF MsgInv, WakeUps
  <2>4. mbx_intr_wait' => s = "expired"
    <3>1. ASSUME mbx_intr_wait PROVE pc[t] = "intr" /\ mbx_intr_comp = 0
      BY <1>1, <1>2, <1>6, <2>1, <3>1 DEF MsgInv, WakeUps, HoldsTurn
    <3>2. ASSUME mbx_intr_wait PROVE Expire(t)
      <4>1. pc[t] = "intr" /\ ~(mbx_intr_comp > 0)
        BY <3>1, <3>2
      <4> QED BY <4>1 DEF Woken
    <3> QED BY <1>2, <1>3, <3>1, <3>2
  <2> QED BY <1>2, <1>4, <1>6, <1>7, <2>1, <2>2, <2>3, <2>4 DEF MsgInv, Answers, HoldsTurn
<1> QED BY <1>8, <1>9

LEMMA MsgStep ==
  ASSUME AnswerInv, [Next]_vars
  PROVE  BoundInv' /\ (~given_up' => MsgInv')
<1>0. TurnInv /\ TypeInv /\ BoundInv
  BY DEF AnswerInv, TypeInv
<1>1. CASE UNCHANGED vars
  BY <1>1, MsgUntouched DEF vars, fwVars, mbxVars
<1>2. ASSUME NEW t \in Threads, Call(t, TRUE) \/ Call(t, FALSE) \/ SetupCall(t) \/ TurnTimeout(t)
      PROVE  BoundInv' /\ (~given_up' => MsgInv')
  <2>1. PICK s \in {"idle", "turn"} : pc' = [pc EXCEPT ![t] = s]
    BY <1>2 DEF Call, SetupCall, Enter, TurnTimeout, Return
  <2>2. pc[t] \in {"idle", "turn"} /\ UNCHANGED <<intrVars, fw, irq, given_up>>
    BY <1>2 DEF Call, SetupCall, TurnTimeout, TurnLate, mbxVars, fwVars
  <2>3. \A u \in Threads : pc'[u] = IF u = t THEN s ELSE pc[u]
    BY <1>0, <2>1, PcMoves
  <2> QED BY <2>2, <2>3, MsgUntouched DEF HoldsTurn
<1>3. ASSUME NEW t \in Threads, MailboxStep(t)
      PROVE  BoundInv' /\ (~given_up' => MsgInv')
  <2>1. CASE TakeTurn(t)
    BY <2>1, MsgTaken
  <2>2. CASE Woken(t) \/ Expire(t)
    BY <2>2, MsgWaited
  <2>3. CASE ClearIntrWait(t)
    <3>1. \A u \in Threads \ {t} : pc[u] \notin HoldsTurn
      BY <1>0, <2>3, OthersWait DEF ClearIntrWait, HoldsTurn
    <3>2. \A u \in Threads : pc'[u] = IF u = t THEN "woken" ELSE pc[u]
      BY <1>0, <2>3, PcMoves DEF ClearIntrWait
    <3>3. /\ UNCHANGED <<mbx_intr_comp, mbox_int, mailbox_out, fw, irq, given_up>>
          /\ mbx_intr_wait' = FALSE /\ Answers' = Answers /\ pc[t] = "expired"
      BY <2>3 DEF ClearIntrWait, fwVars, mbxVars, Answers
    <3>4. ~Sleeping /\ ~Sleeping' /\ ~Waiting
      BY <3>1, <3>2, <3>3 DEF Sleeping, Waiting, HoldsTurn
    <3>5. WakeUps' <= 1
      BY <1>0, <3>3, <3>4 DEF BoundInv, WakeUps, TypeInv
    <3>6. ASSUME MsgInv PROVE MsgInv'
      BY <3>1, <3>2, <3>3, <3>4, <3>5, <3>6 DEF MsgInv, HoldsTurn, Answers
    <3> QED BY <3>3, <3>4, <3>5, <3>6 DEF AnswerInv, BoundInv
  <2>4. CASE Check(t)
    <3>1. \A u \in Threads \ {t} : pc[u] \notin HoldsTurn
      BY <1>0, <2>4, OthersWait DEF Check, HoldsTurn
    <3>2. \A u \in Threads : pc'[u] = IF u = t THEN "tail" ELSE pc[u]
      BY <1>0, <2>4, PcMoves DEF Check
    <3>3. /\ UNCHANGED <<mbx_intr_comp, mbx_intr_wait, given_up>> /\ mbox_int' = FALSE
          /\ pc[t] = "woken"
      BY <2>4 DEF Check
    <3>4. ~Sleeping /\ ~Sleeping' /\ ~Waiting
      BY <3>1, <3>2, <3>3 DEF Sleeping, Waiting, HoldsTurn
    <3>5. WakeUps' <= 1
      BY <1>0, <3>3, <3>4 DEF BoundInv, WakeUps
    <3>6. ASSUME MsgInv PROVE MsgInv'
      <4>1. fw = {} /\ irq = "none" /\ ~mbx_intr_wait /\ mbx_intr_comp = 0
        BY <1>0, <3>1, <3>3, <3>4, <3>6 DEF MsgInv, TypeInv, Answers, HoldsTurn
      <4>2. fw' = {} /\ irq' = "none"
        BY <2>4, <4>1 DEF Check, fwVars
      <4> QED BY <3>3, <3>5, <4>1, <4>2 DEF MsgInv, Answers
    <3> QED BY <3>3, <3>4, <3>5, <3>6 DEF AnswerInv, BoundInv
  <2>5. CASE TailDone(t) \/ TailSchedule(t) \/ TailTest(t) \/ TailAbort(t)
    <3>1. PICK s \in {"idle", "tested"} : pc' = [pc EXCEPT ![t] = s]
      BY <2>5 DEF TailDone, TailSchedule, TailTest, TailAbort, PassTurn, Return
    <3>2. pc[t] \in {"tail", "tested"} /\ UNCHANGED <<intrVars, fw, irq, given_up>>
      BY <2>5 DEF TailDone, TailSchedule, TailTest, TailAbort, PassTurn, fwVars, mbxVars
    <3>3. \A u \in Threads : pc'[u] = IF u = t THEN s ELSE pc[u]
      BY <1>0, <3>1, PcMoves
    <3> QED BY <3>2, <3>3, MsgUntouched
  <2>6. CASE TurnTimeout(t)
    BY <1>2, <2>6
  <2> QED BY <1>3, <2>1, <2>2, <2>3, <2>4, <2>5, <2>6 DEF MailboxStep
<1>a. ASSUME fw' \subseteq fw, irq' \in {irq, "none"}, UNCHANGED <<pc, intrVars>>,
             given_up' = given_up
      PROVE  BoundInv' /\ (~given_up' => MsgInv')
  <2>1. Answers' \subseteq Answers
    BY <1>a DEF Answers
  <2>2. Sleeping' = Sleeping /\ Waiting' = Waiting /\ WakeUps' = WakeUps
    BY <1>a DEF Sleeping, Waiting, WakeUps, intrVars
  <2> QED BY <1>a, <2>1, <2>2 DEF AnswerInv, BoundInv, MsgInv, intrVars
<1>4. ASSUME NEW t \in Threads, IspStep(t)
      PROVE  BoundInv' /\ (~given_up' => MsgInv')
  <2>1. CASE SetupCall(t)
    BY <1>2, <2>1
  <2>2. CASE IspSkip(t) \/ IspOk(t) \/ IspFailed(t) \/ IspEnd(t)
    BY <1>a, <2>2 DEF IspSkip, IspOk, IspFailed, IspEnd, fwVars, mbxVars
  <2>3. CASE IspReset(t)
    <3>1. /\ fw' = {} /\ irq' = "none" /\ UNCHANGED <<intrVars, pc>>
          /\ given_up' = (given_up /\ ~Quiet)
      BY <2>3 DEF IspReset
    <3>2. CASE given_up' = given_up
      BY <1>a, <3>1, <3>2
    <3>3. CASE ~given_up' /\ given_up
      <4>1. Quiet /\ \A u \in Threads : pc[u] \notin HoldsTurn
        BY <1>0, <3>1, <3>3, NobodyWaits DEF Quiet
      <4>2. Sleeping' = Sleeping /\ Waiting' = Waiting /\ WakeUps' = WakeUps /\ Answers' = {}
        BY <3>1 DEF Sleeping, Waiting, WakeUps, intrVars, Answers
      <4>3. WakeUps = 0
        BY <4>1 DEF Quiet, WakeUps
      <4> QED BY <1>0, <3>1, <4>1, <4>2, <4>3 DEF BoundInv, MsgInv, Quiet, intrVars
    <3> QED BY <1>0, <3>1, <3>2, <3>3 DEF TypeInv
  <2> QED BY <1>4, <2>1, <2>2, <2>3 DEF IspStep
<1>5. CASE DpcStep
  BY <1>5, MsgUntouched DEF DpcStep, DpcWake, DpcLook, DpcClaim, DpcSleep, fwVars, mbxVars
<1>6. ASSUME NEW a \in fw, FwAnswer(a)
      PROVE  BoundInv' /\ (~given_up' => MsgInv')
  <2>1. UNCHANGED <<pc, intrVars, given_up>> /\ irq = "none" /\ irq' = a /\ fw' = fw \ {a}
    BY <1>6 DEF FwAnswer, mbxVars
  <2>2. Sleeping' = Sleeping /\ Waiting' = Waiting /\ WakeUps' = WakeUps
    BY <2>1 DEF Sleeping, Waiting, WakeUps, intrVars
  <2>3. a # "none" /\ Answers' = Answers
    BY <1>0, <1>6, <2>1 DEF TypeInv, Answers
  <2>4. ASSUME MsgInv PROVE fw' = {}
    BY <1>6, <2>1, <2>4 DEF MsgInv, Answers
  <2> QED BY <1>0, <2>1, <2>2, <2>3, <2>4 DEF AnswerInv, BoundInv, MsgInv, intrVars
<1>7. ASSUME NEW noticed \in BOOLEAN, FwHang(noticed)
      PROVE  BoundInv' /\ (~given_up' => MsgInv')
  BY <1>7, <1>a DEF FwHang, mbxVars
<1>8. CASE AskReset
  BY <1>8, MsgUntouched DEF AskReset, mbxVars
<1>9. CASE Isr
  <2>1. /\ mbox_int' /\ mbx_intr_wait' = FALSE /\ mailbox_out' = irq /\ irq' = "none"
        /\ UNCHANGED <<fw, pc, given_up>> /\ irq # "none"
        /\ mbx_intr_comp' = WakeUps
    BY <1>9 DEF Isr, WakeUps, mbxVars
  <2>2. Sleeping' = Sleeping /\ Waiting' = Waiting /\ WakeUps' = WakeUps
    BY <1>0, <2>1 DEF Sleeping, Waiting, WakeUps, TypeInv
  <2>3. ASSUME MsgInv PROVE MsgInv'
    <3>1. irq = "current" /\ fw = {} /\ Answers' = {} /\ Waiting /\ ~mbox_int
      BY <2>1, <2>3 DEF MsgInv, Answers
    <3>2. mbx_intr_wait => Sleeping
      <4>1. PICK t \in Threads : pc[t] \in {"intr", "poll"}
        BY <3>1 DEF Waiting
      <4>2. \A u \in Threads \ {t} : pc[u] \notin HoldsTurn
        BY <1>0, <4>1, OthersWait DEF HoldsTurn
      <4> QED BY <2>3, <4>1, <4>2 DEF MsgInv, HoldsTurn, Sleeping
    <3>3. ASSUME ~Sleeping PROVE ~(mbx_intr_comp' > 0)
      <4>1. ~mbx_intr_wait
        BY <3>2, <3>3
      <4>2. ~(mbx_intr_comp > 0)
        BY <2>3, <3>3 DEF MsgInv
      <4>3. WakeUps = mbx_intr_comp
        BY <1>0, <4>1 DEF WakeUps, TypeInv
      <4> QED BY <2>1, <4>2, <4>3
    <3> QED BY <2>1, <2>2, <2>3, <3>1, <3>3 DEF MsgInv
  <2> QED BY <2>1, <2>2, <2>3 DEF AnswerInv, BoundInv
<1> QED BY <1>1, <1>2, <1>3, <1>4, <1>5, <1>6, <1>7, <1>8, <1>9 DEF Next

\* A command is ended by its own answer and leaves no completion behind: the
\* interrupt handler completes mbx_intr_comp only for a sleeper, once, and the
\* answer of a command that a reset cut off went with the reset.  This holds
\* until an answer is on its way when the wait for it ends, and again from the
\* next reset that finds the mailbox free: no race of resets, stale sample or
\* failed reset does the same harm.
THEOREM AnswersAlwaysOwn == Spec => []AnswersAreOwn
<1>1. Init => AnswerInv
  <2> SUFFICES ASSUME Init PROVE AnswerInv
    OBVIOUS
  <2>1. WakeUps = 0 /\ Answers = {} /\ \A t \in Threads : pc[t] = "idle"
    BY DEF Init, WakeUps, Answers
  <2>2. BoundInv
    BY <2>1 DEF BoundInv
  <2>3. MsgInv
    BY <2>1 DEF MsgInv, Init
  <2> QED BY <2>2, <2>3, TypeInit DEF AnswerInv
<1>2. AnswerInv => AnswersAreOwn
  <2> SUFFICES ASSUME AnswerInv PROVE AnswersAreOwn
    OBVIOUS
  <2>1. mbx_cmd_comp \in 0..1 /\ mbx_intr_comp \in 0..2
    BY DEF AnswerInv, TypeInv, TurnInv, BoundInv, WakeUps
  <2>2. TypeOK
    BY <2>1 DEF TypeOK, AnswerInv, TypeInv, TurnInv, PcOK
  <2>3. ASSUME ~given_up PROVE OwnAnswer /\ NoLeftoverWakeup
    <3>1. MsgInv /\ TurnInv /\ mbx_intr_comp \in Nat
      BY <2>3 DEF AnswerInv, TypeInv
    <3>2. OwnAnswer
      BY <3>1 DEF OwnAnswer, MsgInv, HoldsTurn
    <3>3. mbx_cmd_comp > 0 => ~Sleeping
      BY <3>1, NobodyWaits DEF Sleeping, HoldsTurn
    <3> QED BY <3>1, <3>2, <3>3 DEF NoLeftoverWakeup, MsgInv
  <2> QED BY <2>2, <2>3 DEF AnswersAreOwn
<1>3. AnswerInv /\ [Next]_vars => AnswerInv'
  BY TypeStep, MsgStep DEF AnswerInv
<1> QED BY <1>1, <1>2, <1>3, PTL DEF Spec
==========================================================================
