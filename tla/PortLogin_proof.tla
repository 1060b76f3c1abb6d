-------------------------- MODULE PortLogin_proof --------------------------
(***************************************************************************)
(* Proofs about PortLogin for any set of ports, any count of retries and   *)
(* any disturbances: types, FCF_ASYNC_SENT never left behind, and never    *)
(* two exchanges with one port.                                            *)
(***************************************************************************)
EXTENDS PortLogin, FiniteSetTheorems, TLAPS

\* What the DPC thread has in hand where.
InHand ==
  /\ dpc.at \notin {"work", "database"} => todo = <<>>
  /\ dpc.at = "database" =>
       /\ todo # <<>>
       /\ Head(todo).kind = "login_done" /\ Head(todo).status = "ok"

\* While abort_isp flushes requests no port counts on their answers.
NoneAtFlush ==
  dpc.at = "flush" => \A p \in Ports : "ASYNC_SENT" \notin flags[p]

IInv == TypeOK /\ InHand /\ NoneAtFlush /\ NoStuckAsync

--------------------------------------------------------------------------
(* Items that clear the flag, in queues that grow at the end and shrink at *)
(* the head.                                                               *)

\* An item put at the end adds what it clears and nothing else.
LEMMA ClearsAppend ==
  ASSUME NEW s \in Seq(WorkItems), NEW e \in WorkItems, NEW p \in Ports
  PROVE  ClearsIn(Append(s, e), p) <=> ClearsIn(s, p) \/ (e.port = p /\ Clears(e))
<1>1. /\ Len(Append(s, e)) = Len(s) + 1
      /\ Append(s, e)[Len(s) + 1] = e
      /\ \A i \in 1..Len(s) : Append(s, e)[i] = s[i]
      /\ Len(s) \in Nat
  OBVIOUS
<1>2. 1..(Len(s) + 1) = 1..Len(s) \cup {Len(s) + 1}
  BY <1>1
<1> QED BY <1>1, <1>2 DEF ClearsIn

\* Taking the head loses what the head clears and nothing else.
LEMMA ClearsTail ==
  ASSUME NEW s \in Seq(WorkItems), s # <<>>, NEW p \in Ports
  PROVE  ClearsIn(s, p) <=> ClearsIn(Tail(s), p)
                            \/ (Head(s).port = p /\ Clears(Head(s)))
<1>1. /\ Len(s) \in Nat \ {0}
      /\ Len(Tail(s)) = Len(s) - 1
      /\ Head(s) = s[1]
      /\ \A i \in 1..(Len(s) - 1) : Tail(s)[i] = s[i + 1]
  OBVIOUS
<1>2. \A i \in 2..Len(s) : i - 1 \in 1..(Len(s) - 1) /\ Tail(s)[i - 1] = s[i]
  BY <1>1
<1>3. ASSUME ClearsIn(s, p)
      PROVE  ClearsIn(Tail(s), p) \/ (Head(s).port = p /\ Clears(Head(s)))
  <2>1. PICK i \in 1..Len(s) : s[i].port = p /\ Clears(s[i])
    BY <1>3 DEF ClearsIn
  <2>2. CASE i = 1
    BY <2>1, <2>2, <1>1
  <2>3. CASE i # 1
    <3>1. i - 1 \in 1..Len(Tail(s)) /\ Tail(s)[i - 1] = s[i]
      BY <2>3, <1>1, <1>2
    <3> QED BY <3>1, <2>1 DEF ClearsIn
  <2> QED BY <2>2, <2>3
<1>4. ASSUME ClearsIn(Tail(s), p)
      PROVE  ClearsIn(s, p)
  <2>1. PICK i \in 1..Len(Tail(s)) : Tail(s)[i].port = p /\ Clears(Tail(s)[i])
    BY <1>4 DEF ClearsIn
  <2>2. i + 1 \in 1..Len(s) /\ s[i + 1] = Tail(s)[i]
    BY <1>1
  <2> QED BY <2>1, <2>2 DEF ClearsIn
<1>5. ASSUME Head(s).port = p, Clears(Head(s))
      PROVE  ClearsIn(s, p)
  BY <1>1, <1>5 DEF ClearsIn
<1> QED BY <1>3, <1>4, <1>5

\* An empty list clears nothing.
LEMMA ClearsNone ==
  ASSUME NEW p PROVE ~ClearsIn(<<>>, p)
BY DEF ClearsIn

\* The same for the requests in the firmware.
LEMMA SentAppend ==
  ASSUME NEW s \in Seq(Requests), NEW r \in Requests
  PROVE  SentClears(Append(s, r)) <=> SentClears(s) \/ r.kind \in LoginKinds
<1>1. /\ Len(Append(s, r)) = Len(s) + 1
      /\ Append(s, r)[Len(s) + 1] = r
      /\ \A i \in 1..Len(s) : Append(s, r)[i] = s[i]
      /\ Len(s) \in Nat
  OBVIOUS
<1>2. 1..(Len(s) + 1) = 1..Len(s) \cup {Len(s) + 1}
  BY <1>1
<1> QED BY <1>1, <1>2 DEF SentClears

\* The same for an answered request.
LEMMA SentTail ==
  ASSUME NEW s \in Seq(Requests), s # <<>>, SentClears(s)
  PROVE  SentClears(Tail(s)) \/ Head(s).kind \in LoginKinds
<1>1. /\ Len(s) \in Nat \ {0}
      /\ Len(Tail(s)) = Len(s) - 1
      /\ Head(s) = s[1]
      /\ \A i \in 1..(Len(s) - 1) : Tail(s)[i] = s[i + 1]
  OBVIOUS
<1>2. \A i \in 2..Len(s) : i - 1 \in 1..(Len(s) - 1) /\ Tail(s)[i - 1] = s[i]
  BY <1>1
<1>3. PICK i \in 1..Len(s) : s[i].kind \in LoginKinds
  BY DEF SentClears
<1>4. CASE i = 1
  BY <1>3, <1>4, <1>1
<1>5. CASE i # 1
  <2>1. i - 1 \in 1..Len(Tail(s)) /\ Tail(s)[i - 1] = s[i]
    BY <1>5, <1>1, <1>2
  <2> QED BY <2>1, <1>3 DEF SentClears
<1> QED BY <1>4, <1>5

\* The two items of a logout before a login.
LEMMA PostTwo ==
  ASSUME NEW s \in Seq(WorkItems), NEW a \in WorkItems, NEW b \in WorkItems
  PROVE  /\ s \o <<a, b>> = Append(Append(s, a), b)
         /\ s \o <<a, b>> \in Seq(WorkItems)
<1>1. Append(Append(s, a), b) \in Seq(WorkItems) /\ s \o <<a, b>> \in Seq(WorkItems)
  OBVIOUS
<1>2. Len(s \o <<a, b>>) = Len(Append(Append(s, a), b))
  OBVIOUS
<1>3. \A i \in 1..(Len(s) + 2) : (s \o <<a, b>>)[i] = Append(Append(s, a), b)[i]
  OBVIOUS
<1> QED BY <1>1, <1>2, <1>3

\* What a logout and a login put at the end add.
LEMMA ClearsTwo ==
  ASSUME NEW s \in Seq(WorkItems), NEW a \in WorkItems, NEW b \in WorkItems,
         NEW p \in Ports
  PROVE  ClearsIn(s \o <<a, b>>, p) <=> ClearsIn(s, p) \/ (a.port = p /\ Clears(a))
                                       \/ (b.port = p /\ Clears(b))
<1>1. Append(s, a) \in Seq(WorkItems)
  OBVIOUS
<1>2. /\ ClearsIn(Append(s, a), p) <=> ClearsIn(s, p) \/ (a.port = p /\ Clears(a))
      /\ ClearsIn(Append(Append(s, a), b), p)
           <=> ClearsIn(Append(s, a), p) \/ (b.port = p /\ Clears(b))
  BY <1>1, ClearsAppend
<1> QED BY <1>2, PostTwo

--------------------------------------------------------------------------
\* The invariant holds at the start.
LEMMA InitInv == Init => IInv
<1> SUFFICES ASSUME Init PROVE IInv
  OBVIOUS
<1>1. PortsTyped /\ QueuesTyped
  BY PortLoginAssumption DEF Init, PortsTyped, QueuesTyped
<1>2. LoopTyped
  <2>1. dpc_flags \subseteq {"ABORT", "RELOGIN", "RESYNC", "LOCAL", "RSCN"}
    BY DEF Init
  <2>2. events \in 0..MaxEvents
    BY PortLoginAssumption DEF Init
  <2> QED BY <2>1, <2>2 DEF Init, LoopTyped
<1>3. dpc \in DpcStates
  BY DEF Init, DpcStates, DpcAt, DpcPlaces
<1>4. InHand /\ NoneAtFlush /\ NoStuckAsync
  BY DEF Init, InHand, NoneAtFlush, NoStuckAsync, DpcAt
<1> QED BY <1>1, <1>2, <1>3, <1>4 DEF IInv, TypeOK

\* What is taken from a queue, and the fields of an item.
LEMMA TakenTyped ==
  ASSUME NEW S, NEW s \in Seq(S), s # <<>>
  PROVE  Head(s) \in S /\ Tail(s) \in Seq(S)
OBVIOUS

\* What the fields of an item are.
LEMMA ItemFields ==
  ASSUME NEW e \in WorkItems
  PROVE  /\ e.port \in Ports /\ e.retried \in BOOLEAN
         /\ e.kind \in Kinds \cup DoneKinds
BY DEF WorkItems

\* An item is built as it should be.
LEMMA ItemTyped ==
  ASSUME NEW k \in Kinds \cup DoneKinds, NEW p \in Ports, NEW r \in BOOLEAN,
         NEW s \in Answers \cup {"none"}
  PROVE  /\ Item(k, p, r, s) \in WorkItems
         /\ Item(k, p, r, s).port = p /\ Item(k, p, r, s).kind = k
         /\ Item(k, p, r, s).status = s
BY DEF Item, WorkItems

\* So is an item without data.
LEMMA PostTyped ==
  ASSUME NEW k \in Kinds, NEW p \in Ports
  PROVE  /\ Post(k, p) \in WorkItems
         /\ Post(k, p).port = p /\ Post(k, p).kind = k
BY DEF Post, Item, WorkItems

\* The work list stays a list of items.
LEMMA AppendTyped ==
  ASSUME NEW s \in Seq(WorkItems), NEW e \in WorkItems
  PROVE  Append(s, e) \in Seq(WorkItems)
OBVIOUS

\* The firmware's list stays a list of requests.
LEMMA AppendRequest ==
  ASSUME NEW s \in Seq(Requests), NEW r \in Requests
  PROVE  Append(s, r) \in Seq(Requests)
OBVIOUS

\* The answer to a login or address check is one of these too.
LEMMA DoneKindTyped ==
  ASSUME NEW r \in Requests
  PROVE  /\ DoneKind[r.kind] \in DoneKinds /\ r.retried \in BOOLEAN
         /\ r.kind \in LoginKinds => DoneKind[r.kind] \in LoginKinds
         /\ DoneKind[r.kind] = "login_done" => r.kind = "login"
BY DEF Requests, Kinds, DoneKinds, DoneKind, LoginKinds

--------------------------------------------------------------------------
(* Types, one part at a time.                                              *)

\* qla2x00_mark_device_lost keeps the types of what it writes.
LEMMA MarkLostTyped ==
  ASSUME PortsTyped, NEW p \in Ports, MarkLost(p)
  PROVE  /\ state' \in [Ports -> {"absent", "lost", "online"}]
         /\ login_retry' \in [Ports -> 0..LoginRetries]
BY PortLoginAssumption DEF PortsTyped, MarkLost

\* So does qla2x00_mark_all_devices_lost.
LEMMA MarkAllLostTyped ==
  ASSUME PortsTyped, MarkAllLost
  PROVE  state' \in [Ports -> {"absent", "lost", "online"}]
BY DEF PortsTyped, MarkAllLost

\* So does qla2x00_update_fcport.
LEMMA OnlineTyped ==
  ASSUME PortsTyped, NEW p \in Ports, Online(p)
  PROVE  PortsTyped'
BY PortLoginAssumption DEF PortsTyped, Online

\* So does the end of an exchange.
LEMMA ClearAsyncTyped ==
  ASSUME PortsTyped, NEW p \in Ports, ClearAsync(p)
  PROVE  flags' \in [Ports -> SUBSET {"ASYNC_SENT", "LOGIN_NEEDED"}]
BY DEF PortsTyped, ClearAsync

\* So does a failed login or address check.
LEMMA LoginFailedTyped ==
  ASSUME PortsTyped, NEW e \in WorkItems, LoginFailed(e)
  PROVE  PortsTyped'
<1>1. e.port \in Ports
  BY ItemFields
<1>2. flags' \in [Ports -> SUBSET {"ASYNC_SENT", "LOGIN_NEEDED"}]
  BY <1>1, ClearAsyncTyped DEF LoginFailed
<1>3. CASE e.retried
  BY <1>2, <1>3 DEF LoginFailed, PortsTyped
<1>4. CASE ~e.retried
  BY <1>1, <1>2, <1>4, MarkLostTyped DEF LoginFailed, PortsTyped
<1> QED BY <1>3, <1>4

\* No step takes a port's state, retries or flags out of their ranges.
LEMMA PortsStep ==
  ASSUME PortsTyped, QueuesTyped, dpc \in DpcStates, InHand, [Next]_vars
  PROVE  PortsTyped'
<1>1. CASE \/ DpcWakes \/ ReadDatabase \/ Flush
          \/ FlushDone \/ Restart \/ TestRelogin
  BY <1>1
    DEF portVars, DpcWakes, ReadDatabase, Flush, FlushDone, Restart,
        TestRelogin, PortsTyped, Answer
<1>2. CASE \/ ReloginDone \/ TestResync \/ FwReady
          \/ Configure \/ ClearUpdates \/ Fabric
  BY <1>2
    DEF portVars, ReloginDone, TestResync, FwReady, Configure, ClearUpdates,
        Fabric, PortsTyped, Answer
<1>3. CASE Ready \/ SetReady \/ Again \/ FwAnswers \/ FwRefuses \/ Rscn
  BY <1>3
    DEF portVars, Ready, SetReady, Again, FwAnswers, FwRefuses, Rscn,
        PortsTyped, Answer
<1>4. CASE AskReset \/ LoopDownTimeout \/ PortChanges \/ RemoteLogout
  BY <1>4
    DEF portVars, AskReset, LoopDownTimeout, PortChanges, RemoteLogout,
        PortsTyped, Answer
<1>5. CASE LoginOk
  <2> DEFINE p == Head(todo).port
  <2>1. p \in Ports
    BY <1>5, TakenTyped, ItemFields DEF LoginOk, InHand, QueuesTyped
  <2>2. CASE dpc.db = "taken"
    BY <1>5, <2>1, <2>2 DEF LoginOk, PortsTyped, Online
  <2>3. CASE UNCHANGED portVars
    BY <2>3 DEF PortsTyped, portVars
  <2>4. CASE Online(p)
    BY <2>1, <2>4, OnlineTyped
  <2> QED BY <1>5, <2>2, <2>3, <2>4 DEF LoginOk
<1>6. CASE LoginDone
  <2>1. Head(todo) \in WorkItems
    BY <1>6, TakenTyped DEF LoginDone, Handles, QueuesTyped
  <2>2. CASE LoginFailed(Head(todo))
    BY <2>1, <2>2, LoginFailedTyped
  <2>3. CASE UNCHANGED portVars
    BY <2>3 DEF PortsTyped, portVars
  <2> QED BY <1>6, <2>2, <2>3 DEF LoginDone
<1>7. CASE LogoutDone
  <2>1. Head(todo).port \in Ports
    BY <1>7, TakenTyped, ItemFields DEF LogoutDone, Handles, QueuesTyped
  <2> QED BY <1>7, <2>1, MarkLostTyped DEF LogoutDone, PortsTyped
<1>8. CASE AdiscDone
  <2>1. Head(todo) \in WorkItems /\ Head(todo).port \in Ports
    BY <1>8, TakenTyped, ItemFields DEF AdiscDone, Handles, QueuesTyped
  <2> QED BY <1>8, <2>1, LoginFailedTyped, OnlineTyped DEF AdiscDone
<1>9. CASE WorkDone
  <2>1. CASE UNCHANGED portVars
    BY <2>1 DEF PortsTyped, portVars
  <2>2. ASSUME flags' = [p \in Ports |-> {}], UNCHANGED login_retry,
               MarkAllLost \/ UNCHANGED state
        PROVE  PortsTyped'
    BY <2>2, MarkAllLostTyped DEF PortsTyped
  <2> QED BY <1>9, <2>1, <2>2 DEF WorkDone
<1>10. CASE Relogin
  <2>1. PICK p \in dpc.ports :
          \/ MayRetry(p) /\ login_retry' = [login_retry EXCEPT ![p] = @ - 1]
             /\ flags' = [flags EXCEPT ![p] = @ \cup {"ASYNC_SENT"}]
          \/ UNCHANGED <<login_retry, flags>>
    BY <1>10 DEF Relogin
  <2>2. p \in Ports
    BY DEF DpcStates
  <2> QED BY <1>10, <2>1, <2>2, PortLoginAssumption DEF Relogin, MayRetry, PortsTyped
<1>11. CASE Scan
  BY <1>11 DEF Scan, PortsTyped
<1>12. CASE Gone
  <2>1. \/ UNCHANGED state
        \/ \E p \in dpc.ports : state' = [state EXCEPT ![p] = "lost"]
    BY <1>12 DEF Gone
  <2>2. dpc.ports \subseteq Ports
    BY DEF DpcStates
  <2> QED BY <1>12, <2>1, <2>2 DEF Gone, PortsTyped
<1>13. CASE FabricLogin
  <2>1. \/ UNCHANGED <<state, flags>>
        \/ \E p \in dpc.ports :
             /\ state' = [state EXCEPT ![p] = IF @ = "absent" THEN "lost" ELSE @]
             /\ flags' = [flags EXCEPT ![p] = {"ASYNC_SENT", "LOGIN_NEEDED"}]
    BY <1>13 DEF FabricLogin
  <2>2. dpc.ports \subseteq Ports
    BY DEF DpcStates
  <2> QED BY <1>13, <2>1, <2>2 DEF FabricLogin, PortsTyped
<1>14. CASE SrbTimeout
  BY <1>14, ClearAsyncTyped DEF SrbTimeout, PortsTyped
<1>15. CASE LoopDown
  BY <1>15, MarkAllLostTyped DEF LoopDown, PortsTyped
<1>16. CASE PointToPoint
  BY <1>16, MarkAllLostTyped DEF PointToPoint, PortsTyped
<1>17. CASE PortUpdate
  BY <1>17, MarkAllLostTyped DEF PortUpdate, PortsTyped
<1>18. CASE CommandFails
  BY <1>18, MarkLostTyped DEF CommandFails, PortsTyped
<1>19. ASSUME NEW k \in Kinds, Submit(k)
      PROVE  PortsTyped'
  BY <1>19 DEF Submit, portVars, PortsTyped
<1>20. CASE UNCHANGED vars
  BY <1>20 DEF vars, portVars, PortsTyped
<1> QED BY <1>1, <1>2, <1>3, <1>4, <1>5, <1>6, <1>7, <1>8, <1>9, <1>10, <1>11,
      <1>12, <1>13, <1>14, <1>15, <1>16, <1>17, <1>18, <1>19, <1>20
  DEF Next, DpcStep

\* An answer keeps the lists typed.
LEMMA AnswerTyped ==
  ASSUME QueuesTyped, NEW p \in Ports, sent[p] # <<>>, NEW s \in Answers,
         Answer(p, s)
  PROVE  QueuesTyped'
<1> DEFINE r == Head(sent[p])
<1>1. r \in Requests /\ Tail(sent[p]) \in Seq(Requests)
  BY TakenTyped DEF QueuesTyped
<1>2. Item(DoneKind[r.kind], p, r.retried, s) \in WorkItems
  BY <1>1, DoneKindTyped, ItemTyped
<1>3. work' \in Seq(WorkItems)
  BY <1>2, AppendTyped DEF Answer, QueuesTyped
<1> QED BY <1>1, <1>3 DEF Answer, QueuesTyped

\* No step puts anything else on the work list or sends anything else.
LEMMA QueuesStep ==
  ASSUME QueuesTyped, dpc \in DpcStates, InHand, [Next]_vars
  PROVE  QueuesTyped'
<1>1. CASE \/ ReadDatabase \/ WorkDone \/ FlushDone
          \/ Restart \/ TestRelogin \/ ReloginDone
  BY <1>1
    DEF pipeVars, ReadDatabase, WorkDone, FlushDone, Restart, TestRelogin,
        ReloginDone, QueuesTyped
<1>2. CASE \/ TestResync \/ FwReady \/ Configure
          \/ ClearUpdates \/ Fabric \/ Scan
  BY <1>2
    DEF pipeVars, TestResync, FwReady, Configure, ClearUpdates, Fabric, Scan,
        QueuesTyped
<1>3. CASE Gone \/ Ready \/ SetReady \/ Again \/ LoopDown \/ PointToPoint
  BY <1>3
    DEF pipeVars, Gone, Ready, SetReady, Again, LoopDown, PointToPoint,
        QueuesTyped
<1>4. CASE \/ PortUpdate \/ Rscn \/ CommandFails
          \/ AskReset \/ LoopDownTimeout \/ PortChanges
  BY <1>4
    DEF pipeVars, PortUpdate, Rscn, CommandFails, AskReset, LoopDownTimeout,
        PortChanges, QueuesTyped
<1>5. CASE RemoteLogout
  BY <1>5 DEF pipeVars, RemoteLogout, QueuesTyped
<1>6. CASE DpcWakes
  BY <1>6 DEF DpcWakes, QueuesTyped
<1>7. CASE LoginOk
  <2> DEFINE e == Head(todo)
  <2>1. /\ e.port \in Ports /\ e.retried \in BOOLEAN
        /\ Tail(todo) \in Seq(WorkItems)
    BY <1>7, TakenTyped, ItemFields DEF LoginOk, InHand, QueuesTyped
  <2>2. /\ Post("logout", e.port) \in WorkItems
        /\ Post("login", e.port) \in WorkItems
        /\ Item("adisc", e.port, e.retried, "none") \in WorkItems
    BY <2>1, PostTyped, ItemTyped DEF Kinds
  <2>3. \/ UNCHANGED work
        \/ work' = work \o <<Post("logout", e.port), Post("login", e.port)>>
        \/ work' = Append(work, Item("adisc", e.port, e.retried, "none"))
    BY <1>7 DEF LoginOk
  <2>4. work' \in Seq(WorkItems)
    BY <2>2, <2>3, PostTwo, AppendTyped DEF QueuesTyped
  <2> QED BY <1>7, <2>1, <2>4 DEF LoginOk, QueuesTyped
<1>8. CASE LoginDone
  <2> DEFINE e == Head(todo)
  <2>1. e.port \in Ports /\ Tail(todo) \in Seq(WorkItems)
    BY <1>8, TakenTyped, ItemFields DEF LoginDone, Handles, QueuesTyped
  <2>2. Post("logout", e.port) \in WorkItems /\ Post("login", e.port) \in WorkItems
    BY <2>1, PostTyped DEF Kinds
  <2>3. \/ UNCHANGED work
        \/ work' = work \o <<Post("logout", e.port), Post("login", e.port)>>
        \/ work' = Append(work, Post("login", e.port))
    BY <1>8 DEF LoginDone
  <2>4. work' \in Seq(WorkItems)
    BY <2>2, <2>3, PostTwo, AppendTyped DEF QueuesTyped
  <2> QED BY <1>8, <2>1, <2>4 DEF LoginDone, Handles, QueuesTyped
<1>9. CASE LogoutDone
  BY <1>9, TakenTyped DEF LogoutDone, Handles, QueuesTyped
<1>10. CASE AdiscDone
  BY <1>10, TakenTyped DEF AdiscDone, Handles, QueuesTyped
<1>11. CASE Flush
  <2>1. PICK p \in Ports :
          /\ sent[p] # <<>> /\ sent' = [sent EXCEPT ![p] = Tail(@)]
          /\ work' = Append(work, Item(DoneKind[Head(sent[p]).kind], p, FALSE,
                                       "flushed"))
    BY <1>11 DEF Flush
  <2>2. Head(sent[p]) \in Requests /\ Tail(sent[p]) \in Seq(Requests)
    BY <2>1, TakenTyped DEF QueuesTyped
  <2>3. Item(DoneKind[Head(sent[p]).kind], p, FALSE, "flushed") \in WorkItems
    BY <2>2, DoneKindTyped, ItemTyped DEF Answers
  <2>4. work' \in Seq(WorkItems)
    BY <2>1, <2>3, AppendTyped DEF QueuesTyped
  <2> QED BY <1>11, <2>1, <2>2, <2>4 DEF Flush, QueuesTyped
<1>12. CASE Relogin
  <2>1. PICK p \in dpc.ports :
          \/ work' = Append(work, Item("login", p, TRUE, "none"))
          \/ UNCHANGED work
    BY <1>12 DEF Relogin
  <2>2. Item("login", p, TRUE, "none") \in WorkItems
    BY ItemTyped DEF DpcStates, Kinds
  <2> QED BY <1>12, <2>1, <2>2, AppendTyped DEF Relogin, QueuesTyped
<1>13. CASE FabricLogin
  <2>1. \/ UNCHANGED work
        \/ \E p \in dpc.ports : work' = Append(work, Post("login", p))
    BY <1>13 DEF FabricLogin
  <2>2. \A p \in dpc.ports : Post("login", p) \in WorkItems
    BY PostTyped DEF DpcStates, Kinds
  <2> QED BY <1>13, <2>1, <2>2, AppendTyped DEF FabricLogin, QueuesTyped
<1>14. CASE FwAnswers
  <2>1. PICK p \in Ports : sent[p] # <<>> /\
          \E s \in Outcomes(p, Head(sent[p]).kind) : Answer(p, s)
    BY <1>14 DEF FwAnswers
  <2>2. Head(sent[p]).kind \in Kinds
    BY <2>1, TakenTyped DEF QueuesTyped, Requests
  <2>3. PICK s \in {"ok", "error"} : Answer(p, s)
    BY <2>1, <2>2 DEF Outcomes, Kinds
  <2> QED BY <2>1, <2>3, AnswerTyped DEF Answers
<1>15. CASE FwRefuses
  <2>1. PICK p \in Ports : sent[p] # <<>> /\
          \E s \in {"error", "port_used", "loop_used"} : Answer(p, s)
    BY <1>15 DEF FwRefuses
  <2> QED BY <2>1, AnswerTyped DEF Answers
<1>16. CASE SrbTimeout
  <2>1. PICK p \in Ports :
          /\ sent[p] # <<>> /\ sent' = [sent EXCEPT ![p] = Tail(@)]
          /\ \/ UNCHANGED work
             \/ work' = work \o <<Post("logout", p),
                  Item("login_done", p, Head(sent[p]).retried, "error")>>
    BY <1>16 DEF SrbTimeout
  <2>2. Head(sent[p]) \in Requests /\ Tail(sent[p]) \in Seq(Requests)
    BY <2>1, TakenTyped DEF QueuesTyped
  <2>3. /\ Post("logout", p) \in WorkItems
        /\ Item("login_done", p, Head(sent[p]).retried, "error") \in WorkItems
    BY <2>2, PostTyped, ItemTyped DEF Kinds, DoneKinds, Answers, Requests
  <2>4. work' \in Seq(WorkItems)
    BY <2>1, <2>3, PostTwo DEF QueuesTyped
  <2> QED BY <1>16, <2>1, <2>2, <2>4 DEF SrbTimeout, QueuesTyped
<1>17. ASSUME NEW k \in Kinds, Submit(k)
      PROVE  QueuesTyped'
  <2>1. /\ Head(todo).port \in Ports /\ Head(todo).retried \in BOOLEAN
        /\ Tail(todo) \in Seq(WorkItems)
    BY <1>17, TakenTyped, ItemFields DEF Submit, Handles, QueuesTyped
  <2>2. [kind |-> k, retried |-> Head(todo).retried] \in Requests
    BY <2>1 DEF Requests
  <2>3. \/ UNCHANGED sent
        \/ sent' = [sent EXCEPT ![Head(todo).port] =
                      Append(@, [kind |-> k, retried |-> Head(todo).retried])]
    BY <1>17 DEF Submit
  <2>4. sent' \in [Ports -> Seq(Requests)]
    <3> DEFINE r == [kind |-> k, retried |-> Head(todo).retried]
    <3>1. r \in Requests
      BY <2>2
    <3> HIDE DEF r
    <3>2. Append(sent[Head(todo).port], r) \in Seq(Requests)
      BY <2>1, <3>1, AppendRequest DEF QueuesTyped
    <3>3. \/ UNCHANGED sent
          \/ sent' = [sent EXCEPT ![Head(todo).port] = Append(@, r)]
      BY <2>3 DEF r
    <3> QED BY <2>1, <3>2, <3>3 DEF QueuesTyped
  <2> QED BY <1>17, <2>1, <2>4 DEF Submit, Handles, QueuesTyped
<1>18. CASE UNCHANGED vars
  BY <1>18 DEF vars, pipeVars, QueuesTyped
<1> QED BY <1>1, <1>2, <1>3, <1>4, <1>5, <1>6, <1>7, <1>8, <1>9, <1>10, <1>11,
      <1>12, <1>13, <1>14, <1>15, <1>16, <1>17, <1>18
  DEF Next, DpcStep

\* No step takes the DPC thread's record out of its type.
LEMMA DpcStatesStep ==
  ASSUME dpc \in DpcStates, LoopTyped, [Next]_vars
  PROVE  dpc' \in DpcStates
<1>1. CASE \/ LoginDone \/ LogoutDone \/ AdiscDone
          \/ Flush \/ FwAnswers \/ FwRefuses
  BY <1>1
    DEF LoginDone, LogoutDone, AdiscDone, Flush, FwAnswers, FwRefuses, Answer
<1>2. CASE \/ SrbTimeout \/ LoopDown \/ PointToPoint
          \/ PortUpdate \/ Rscn \/ CommandFails
  BY <1>2
    DEF SrbTimeout, LoopDown, PointToPoint, PortUpdate, Rscn, CommandFails,
        Answer
<1>3. CASE AskReset \/ LoopDownTimeout \/ PortChanges \/ RemoteLogout
  BY <1>3 DEF AskReset, LoopDownTimeout, PortChanges, RemoteLogout, Answer
<1>4. CASE DpcWakes
  BY <1>4 DEF DpcWakes, DpcStates, DpcAt, DpcPlaces
<1>5. CASE ReadDatabase
  BY <1>5 DEF ReadDatabase, DpcStates, DpcAt, DpcPlaces
<1>6. CASE LoginOk
  BY <1>6 DEF LoginOk, DpcStates, DpcAt, DpcPlaces
<1>7. CASE WorkDone
  BY <1>7 DEF WorkDone, DpcStates, DpcAt, DpcPlaces
<1>8. CASE FlushDone
  BY <1>8 DEF FlushDone, DpcStates, DpcAt, DpcPlaces
<1>9. CASE Restart
  BY <1>9 DEF Restart, DpcStates, DpcAt, DpcPlaces
<1>10. CASE TestRelogin
  BY <1>10 DEF TestRelogin, Listed, DpcStates, DpcAt, DpcPlaces
<1>11. CASE Relogin
  <2>1. \/ dpc' = DpcAt("resync")
        \/ \E p \in Ports : dpc' = [dpc EXCEPT !.ports = @ \ {p}]
    BY <1>11 DEF Relogin, DpcStates
  <2> QED BY <2>1 DEF DpcStates, DpcAt, DpcPlaces
<1>12. CASE ReloginDone
  BY <1>12 DEF ReloginDone, DpcStates, DpcAt, DpcPlaces
<1>13. CASE TestResync
  BY <1>13 DEF TestResync, DpcStates, DpcAt, DpcPlaces
<1>14. CASE FwReady
  BY <1>14 DEF FwReady, DpcStates, DpcAt, DpcPlaces
<1>15. CASE Configure
  BY <1>15 DEF Configure, DpcStates, DpcAt, DpcPlaces
<1>16. CASE ClearUpdates
  BY <1>16 DEF ClearUpdates, DpcStates, DpcPlaces
<1>17. CASE Fabric
  BY <1>17 DEF Fabric, DpcStates, DpcPlaces
<1>18. CASE Scan
  <2>1. \E found \in SUBSET Ports :
          dpc' = [dpc EXCEPT !.at = "gone", !.found = found,
                             !.ports = Listed \ found]
    BY <1>18 DEF Scan, LoopTyped
  <2> QED BY <2>1 DEF Listed, DpcStates, DpcPlaces
<1>19. CASE Gone
  <2>1. \/ \E S \in SUBSET Ports : dpc' = [dpc EXCEPT !.at = "login", !.ports = S]
        \/ \E p \in Ports : dpc' = [dpc EXCEPT !.ports = @ \ {p}]
    BY <1>19 DEF Gone, Listed, DpcStates
  <2> QED BY <2>1 DEF DpcStates, DpcPlaces
<1>20. CASE FabricLogin
  <2>1. \/ dpc' = [dpc EXCEPT !.at = "ready"]
        \/ \E p \in Ports : dpc' = [dpc EXCEPT !.ports = @ \ {p}]
    BY <1>20 DEF FabricLogin, DpcStates
  <2> QED BY <2>1 DEF DpcStates, DpcPlaces
<1>21. CASE Ready
  BY <1>21 DEF Ready, DpcStates, DpcPlaces
<1>22. CASE SetReady
  BY <1>22 DEF SetReady, DpcStates, DpcPlaces
<1>23. CASE Again
  BY <1>23 DEF Again, DpcStates, DpcAt, DpcPlaces
<1>24. ASSUME NEW k \in Kinds, Submit(k)
      PROVE  dpc' \in DpcStates
  BY <1>24 DEF Submit
<1>25. CASE UNCHANGED vars
  BY <1>25 DEF vars
<1> QED BY <1>1, <1>2, <1>3, <1>4, <1>5, <1>6, <1>7, <1>8, <1>9, <1>10, <1>11,
      <1>12, <1>13, <1>14, <1>15, <1>16, <1>17, <1>18, <1>19, <1>20, <1>21,
      <1>22, <1>23, <1>24, <1>25
  DEF Next, DpcStep

\* The count of disturbances keeps to its bound.
LEMMA EventTyped ==
  ASSUME LoopTyped, Event
  PROVE  events' \in 0..MaxEvents
BY PortLoginAssumption DEF LoopTyped, Event

\* Only named mishaps are remembered.
LEMMA MishapTyped ==
  ASSUME LoopTyped, NEW m \in Mishaps, Mishap(m)
  PROVE  mishaps' \subseteq Mishaps
BY DEF LoopTyped, Mishap

\* No step takes the loop's or the fabric's state out of their types.
LEMMA LoopStep ==
  ASSUME dpc \in DpcStates, LoopTyped, [Next]_vars
  PROVE  LoopTyped'
<1>1. CASE \/ DpcWakes \/ ReadDatabase \/ Flush
          \/ FlushDone \/ Restart \/ TestRelogin
  BY <1>1
    DEF loopVars, fabricVars, boundVars, DpcWakes, ReadDatabase, Flush,
        FlushDone, Restart, TestRelogin, LoopTyped
<1>2. CASE \/ ReloginDone \/ TestResync \/ FwReady
          \/ Configure \/ ClearUpdates \/ Fabric
  BY <1>2
    DEF loopVars, fabricVars, boundVars, ReloginDone, TestResync, FwReady,
        Configure, ClearUpdates, Fabric, LoopTyped
<1>3. CASE FabricLogin \/ Ready
  BY <1>3 DEF loopVars, fabricVars, boundVars, FabricLogin, Ready, LoopTyped
<1>4. CASE LoginOk
  BY <1>4 DEF LoginOk, loopVars, fabricVars, boundVars, LoopTyped
<1>5. CASE LoginDone
  BY <1>5
    DEF LoginDone, LoginFailed, AskRelogin, loopVars, fabricVars, boundVars,
        LoopTyped
<1>6. CASE LogoutDone
  BY <1>6
    DEF LogoutDone, AskRelogin, loopVars, fabricVars, boundVars, LoopTyped
<1>7. CASE AdiscDone
  BY <1>7
    DEF AdiscDone, LoginFailed, AskRelogin, loopVars, fabricVars, boundVars,
        LoopTyped
<1>8. CASE WorkDone
  BY <1>8, MishapTyped
    DEF WorkDone, Mishaps, loopVars, fabricVars, boundVars, LoopTyped
<1>9. CASE Relogin
  BY <1>9 DEF Relogin, loopVars, boundVars, LoopTyped
<1>10. CASE Scan
  BY <1>10, EventTyped, MishapTyped
    DEF Scan, Mishaps, loopVars, boundVars, LoopTyped
<1>11. CASE Gone
  BY <1>11 DEF Gone, loopVars, boundVars, LoopTyped
<1>12. CASE SetReady
  BY <1>12, MishapTyped DEF SetReady, Mishaps, fabricVars, LoopTyped
<1>13. CASE Again
  BY <1>13 DEF Again, DpcStates, loopVars, fabricVars, boundVars, LoopTyped
<1>14. CASE FwAnswers
  BY <1>14 DEF FwAnswers, Answer, loopVars, LoopTyped
<1>15. CASE FwRefuses
  BY <1>15, EventTyped DEF FwRefuses, Answer, loopVars, LoopTyped
<1>16. CASE SrbTimeout
  BY <1>16, EventTyped, MishapTyped
    DEF SrbTimeout, Mishaps, loopVars, fabricVars, LoopTyped
<1>17. CASE LoopDown
  BY <1>17, EventTyped DEF LoopDown, loopVars, LoopTyped
<1>18. CASE PointToPoint
  BY <1>18 DEF PointToPoint, loopVars, boundVars, LoopTyped
<1>19. CASE PortUpdate
  BY <1>19 DEF PortUpdate, boundVars, LoopTyped
<1>20. CASE Rscn
  BY <1>20 DEF Rscn, boundVars, LoopTyped
<1>21. CASE CommandFails
  BY <1>21
    DEF CommandFails, AskRelogin, loopVars, fabricVars, boundVars, LoopTyped
<1>22. CASE AskReset
  BY <1>22, EventTyped DEF AskReset, loopVars, fabricVars, LoopTyped
<1>23. CASE LoopDownTimeout
  BY <1>23, EventTyped DEF LoopDownTimeout, fabricVars, LoopTyped
<1>24. CASE PortChanges
  BY <1>24, EventTyped DEF PortChanges, loopVars, LoopTyped
<1>25. CASE RemoteLogout
  BY <1>25, EventTyped DEF RemoteLogout, loopVars, LoopTyped
<1>26. ASSUME NEW k \in Kinds, Submit(k)
      PROVE  LoopTyped'
  BY <1>26, EventTyped, MishapTyped
  DEF Submit, Mishaps, LoopTyped, loopVars, fabricVars, boundVars
<1>27. CASE UNCHANGED vars
  BY <1>27 DEF vars, loopVars, fabricVars, boundVars, LoopTyped
<1> QED BY <1>1, <1>2, <1>3, <1>4, <1>5, <1>6, <1>7, <1>8, <1>9, <1>10, <1>11,
      <1>12, <1>13, <1>14, <1>15, <1>16, <1>17, <1>18, <1>19, <1>20, <1>21,
      <1>22, <1>23, <1>24, <1>25, <1>26, <1>27
  DEF Next, DpcStep

\* Every part of the state keeps its type.
LEMMA TypeStep ==
  ASSUME TypeOK, InHand, [Next]_vars
  PROVE  TypeOK'
BY PortsStep, QueuesStep, DpcStatesStep, LoopStep DEF TypeOK

--------------------------------------------------------------------------
(* What the DPC thread has in hand, and that abort_isp has forgotten the   *)
(* logins under way before it flushes their requests.                      *)

\* No step leaves items in hand where the thread does not expect them.
LEMMA InHandStep ==
  ASSUME dpc \in DpcStates, InHand, [Next]_vars
  PROVE  InHand'
<1>1. CASE \/ Flush \/ FwAnswers \/ FwRefuses
          \/ SrbTimeout \/ LoopDown \/ PointToPoint
  BY <1>1
    DEF pipeVars, Flush, FwAnswers, FwRefuses, SrbTimeout, LoopDown,
        PointToPoint, InHand, Answer
<1>2. CASE \/ PortUpdate \/ Rscn \/ CommandFails
          \/ AskReset \/ LoopDownTimeout \/ PortChanges
  BY <1>2
    DEF pipeVars, PortUpdate, Rscn, CommandFails, AskReset, LoopDownTimeout,
        PortChanges, InHand, Answer
<1>3. CASE RemoteLogout
  BY <1>3 DEF pipeVars, RemoteLogout, InHand, Answer
<1>4. CASE ReadDatabase
  BY <1>4 DEF ReadDatabase, InHand, DpcAt, DpcStates, pipeVars
<1>5. CASE LoginOk
  BY <1>5 DEF LoginOk, InHand, DpcAt, DpcStates
<1>6. CASE WorkDone
  BY <1>6 DEF WorkDone, InHand, DpcAt, DpcStates, pipeVars
<1>7. CASE FlushDone
  BY <1>7 DEF FlushDone, InHand, DpcAt, DpcStates, pipeVars
<1>8. CASE Restart
  BY <1>8 DEF Restart, InHand, DpcAt, DpcStates, pipeVars
<1>9. CASE TestRelogin
  BY <1>9 DEF TestRelogin, InHand, DpcAt, DpcStates, pipeVars
<1>10. CASE Relogin
  BY <1>10 DEF Relogin, InHand, DpcAt, DpcStates
<1>11. CASE ReloginDone
  BY <1>11 DEF ReloginDone, InHand, DpcAt, DpcStates, pipeVars
<1>12. CASE TestResync
  BY <1>12 DEF TestResync, InHand, DpcAt, DpcStates, pipeVars
<1>13. CASE FwReady
  BY <1>13 DEF FwReady, InHand, DpcAt, DpcStates, pipeVars
<1>14. CASE Configure
  BY <1>14 DEF Configure, InHand, DpcAt, DpcStates, pipeVars
<1>15. CASE ClearUpdates
  BY <1>15 DEF ClearUpdates, InHand, DpcAt, DpcStates, pipeVars
<1>16. CASE Fabric
  BY <1>16 DEF Fabric, InHand, DpcAt, DpcStates, pipeVars
<1>17. CASE Scan
  BY <1>17 DEF Scan, InHand, DpcAt, DpcStates, pipeVars
<1>18. CASE Gone
  BY <1>18 DEF Gone, InHand, DpcAt, DpcStates, pipeVars
<1>19. CASE FabricLogin
  BY <1>19 DEF FabricLogin, InHand, DpcAt, DpcStates
<1>20. CASE Ready
  BY <1>20 DEF Ready, InHand, DpcAt, DpcStates, pipeVars
<1>21. CASE SetReady
  BY <1>21 DEF SetReady, InHand, DpcAt, DpcStates, pipeVars
<1>22. CASE Again
  BY <1>22 DEF Again, InHand, DpcAt, DpcStates, pipeVars
<1>23. CASE DpcWakes
  BY <1>23 DEF DpcWakes, InHand, DpcAt, DpcStates
<1>24. CASE LoginDone
  BY <1>24 DEF LoginDone, InHand, Handles
<1>25. CASE LogoutDone
  BY <1>25 DEF LogoutDone, InHand, Handles
<1>26. CASE AdiscDone
  BY <1>26 DEF AdiscDone, InHand, Handles
<1>27. ASSUME NEW k \in Kinds, Submit(k)
      PROVE  InHand'
  BY <1>27 DEF Submit, Handles, InHand
<1>28. CASE UNCHANGED vars
  BY <1>28 DEF vars, pipeVars, InHand
<1> QED BY <1>1, <1>2, <1>3, <1>4, <1>5, <1>6, <1>7, <1>8, <1>9, <1>10, <1>11,
      <1>12, <1>13, <1>14, <1>15, <1>16, <1>17, <1>18, <1>19, <1>20, <1>21,
      <1>22, <1>23, <1>24, <1>25, <1>26, <1>27, <1>28
  DEF Next, DpcStep

\* No step marks a port while its requests are being flushed.
LEMMA NoneAtFlushStep ==
  ASSUME dpc \in DpcStates, NoneAtFlush, [Next]_vars
  PROVE  NoneAtFlush'
<1>1. CASE \/ LogoutDone \/ Flush \/ FwAnswers
          \/ FwRefuses \/ LoopDown \/ PointToPoint
  BY <1>1
    DEF portVars, LogoutDone, Flush, FwAnswers, FwRefuses, LoopDown,
        PointToPoint, NoneAtFlush, Answer
<1>2. CASE \/ PortUpdate \/ Rscn \/ CommandFails
          \/ AskReset \/ LoopDownTimeout \/ PortChanges
  BY <1>2
    DEF portVars, PortUpdate, Rscn, CommandFails, AskReset, LoopDownTimeout,
        PortChanges, NoneAtFlush, Answer
<1>3. CASE RemoteLogout
  BY <1>3 DEF portVars, RemoteLogout, NoneAtFlush, Answer
<1>4. CASE ReadDatabase
  BY <1>4 DEF ReadDatabase, NoneAtFlush, DpcAt, DpcStates, portVars
<1>5. CASE LoginOk
  BY <1>5 DEF LoginOk, NoneAtFlush, DpcAt, DpcStates
<1>6. CASE WorkDone
  BY <1>6 DEF WorkDone, NoneAtFlush, DpcAt, DpcStates
<1>7. CASE FlushDone
  BY <1>7 DEF FlushDone, NoneAtFlush, DpcAt, DpcStates, portVars
<1>8. CASE Restart
  BY <1>8 DEF Restart, NoneAtFlush, DpcAt, DpcStates, portVars
<1>9. CASE TestRelogin
  BY <1>9 DEF TestRelogin, NoneAtFlush, DpcAt, DpcStates, portVars
<1>10. CASE Relogin
  BY <1>10 DEF Relogin, NoneAtFlush, DpcAt, DpcStates
<1>11. CASE ReloginDone
  BY <1>11 DEF ReloginDone, NoneAtFlush, DpcAt, DpcStates, portVars
<1>12. CASE TestResync
  BY <1>12 DEF TestResync, NoneAtFlush, DpcAt, DpcStates, portVars
<1>13. CASE FwReady
  BY <1>13 DEF FwReady, NoneAtFlush, DpcAt, DpcStates, portVars
<1>14. CASE Configure
  BY <1>14 DEF Configure, NoneAtFlush, DpcAt, DpcStates, portVars
<1>15. CASE ClearUpdates
  BY <1>15 DEF ClearUpdates, NoneAtFlush, DpcAt, DpcStates, portVars
<1>16. CASE Fabric
  BY <1>16 DEF Fabric, NoneAtFlush, DpcAt, DpcStates, portVars
<1>17. CASE Scan
  BY <1>17 DEF Scan, NoneAtFlush, DpcAt, DpcStates
<1>18. CASE Gone
  BY <1>18 DEF Gone, NoneAtFlush, DpcAt, DpcStates
<1>19. CASE FabricLogin
  BY <1>19 DEF FabricLogin, NoneAtFlush, DpcAt, DpcStates
<1>20. CASE Ready
  BY <1>20 DEF Ready, NoneAtFlush, DpcAt, DpcStates, portVars
<1>21. CASE SetReady
  BY <1>21 DEF SetReady, NoneAtFlush, DpcAt, DpcStates, portVars
<1>22. CASE Again
  BY <1>22 DEF Again, NoneAtFlush, DpcAt, DpcStates, portVars
<1>23. CASE DpcWakes
  BY <1>23 DEF DpcWakes, NoneAtFlush, DpcAt, DpcStates, portVars
<1>24. CASE LoginDone
  BY <1>24 DEF LoginDone, NoneAtFlush, Handles
<1>25. CASE AdiscDone
  BY <1>25 DEF AdiscDone, NoneAtFlush, Handles
<1>26. CASE SrbTimeout
  BY <1>26 DEF SrbTimeout, NoneAtFlush
<1>27. ASSUME NEW k \in Kinds, Submit(k)
      PROVE  NoneAtFlush'
  BY <1>27 DEF Submit, portVars, NoneAtFlush
<1>28. CASE UNCHANGED vars
  BY <1>28 DEF vars, portVars, NoneAtFlush
<1> QED BY <1>1, <1>2, <1>3, <1>4, <1>5, <1>6, <1>7, <1>8, <1>9, <1>10, <1>11,
      <1>12, <1>13, <1>14, <1>15, <1>16, <1>17, <1>18, <1>19, <1>20, <1>21,
      <1>22, <1>23, <1>24, <1>25, <1>26, <1>27, <1>28
  DEF Next, DpcStep

--------------------------------------------------------------------------
(* FCF_ASYNC_SENT is never left behind.                                    *)

\* What the properties remember is never forgotten.
LEMMA MishapsStay ==
  ASSUME [Next]_vars PROVE mishaps \subseteq mishaps'
<1>1. CASE \/ DpcWakes \/ ReadDatabase \/ LoginOk
          \/ LoginDone \/ LogoutDone \/ AdiscDone
  BY <1>1
    DEF boundVars, DpcWakes, ReadDatabase, LoginOk, LoginDone, LogoutDone,
        AdiscDone, Answer
<1>2. CASE \/ Flush \/ FlushDone \/ Restart
          \/ TestRelogin \/ Relogin \/ ReloginDone
  BY <1>2
    DEF boundVars, Flush, FlushDone, Restart, TestRelogin, Relogin,
        ReloginDone, Answer
<1>3. CASE \/ TestResync \/ FwReady \/ Configure
          \/ ClearUpdates \/ Fabric \/ Gone
  BY <1>3
    DEF boundVars, TestResync, FwReady, Configure, ClearUpdates, Fabric, Gone,
        Answer
<1>4. CASE FabricLogin \/ Ready \/ Again \/ FwAnswers \/ FwRefuses \/ LoopDown
  BY <1>4
    DEF boundVars, FabricLogin, Ready, Again, FwAnswers, FwRefuses, LoopDown,
        Answer
<1>5. CASE \/ PointToPoint \/ PortUpdate \/ Rscn
          \/ CommandFails \/ AskReset \/ LoopDownTimeout
  BY <1>5
    DEF boundVars, PointToPoint, PortUpdate, Rscn, CommandFails, AskReset,
        LoopDownTimeout, Answer
<1>6. CASE PortChanges \/ RemoteLogout
  BY <1>6 DEF boundVars, PortChanges, RemoteLogout, Answer
<1>7. CASE WorkDone
  BY <1>7 DEF WorkDone, Mishap, boundVars
<1>8. CASE Scan
  BY <1>8 DEF Scan, Mishap, boundVars
<1>9. CASE SetReady
  BY <1>9 DEF SetReady, Mishap, boundVars
<1>10. CASE SrbTimeout
  BY <1>10 DEF SrbTimeout, Mishap, boundVars
<1>11. ASSUME NEW k \in Kinds, Submit(k)
      PROVE  mishaps \subseteq mishaps'
  BY <1>11 DEF Submit, Mishap, boundVars
<1>12. CASE UNCHANGED vars
  BY <1>12 DEF vars, boundVars
<1> QED BY <1>1, <1>2, <1>3, <1>4, <1>5, <1>6, <1>7, <1>8, <1>9, <1>10, <1>11,
      <1>12
  DEF Next, DpcStep

\* An answer to a login or an address check is itself an item that clears.
LEMMA AnswerCovers ==
  ASSUME QueuesTyped, NEW p \in Ports, "ASYNC_SENT" \in flags[p] => Covered(p),
         "ASYNC_SENT" \in flags'[p], NEW q \in Ports, sent[q] # <<>>,
         NEW s \in Answers \ {"flushed"}, Answer(q, s)
  PROVE  Covered(p)'
<1> DEFINE r == Head(sent[q])
           a == Item(DoneKind[r.kind], q, r.retried, s)
<1>1. r \in Requests
  BY TakenTyped DEF QueuesTyped
<1>2. a \in WorkItems /\ a.port = q /\ (r.kind \in LoginKinds => Clears(a))
  BY <1>1, DoneKindTyped, ItemTyped DEF Clears
<1>3. /\ work' = Append(work, a) /\ sent' = [sent EXCEPT ![q] = Tail(@)]
      /\ UNCHANGED <<flags, todo>>
  BY DEF Answer, portVars
<1>4. SentClears(sent[q]) => SentClears(Tail(sent[q])) \/ r.kind \in LoginKinds
  BY SentTail DEF QueuesTyped
<1> HIDE DEF r, a
<1>5. ClearsIn(work', p) <=> ClearsIn(work, p) \/ (q = p /\ Clears(a))
  BY <1>2, <1>3, ClearsAppend DEF QueuesTyped
<1> QED BY <1>2, <1>3, <1>4, <1>5 DEF Covered, QueuesTyped

\* No step leaves a port marked without something that clears the mark.
LEMMA NoStuckStep ==
  ASSUME TypeOK, InHand, NoneAtFlush, NoStuckAsync, [Next]_vars
  PROVE  NoStuckAsync'
<1> SUFFICES ASSUME "submit" \notin mishaps', NEW p \in Ports,
                    "ASYNC_SENT" \in flags'[p]
             PROVE  Covered(p)'
  BY DEF NoStuckAsync
<1>0. /\ "ASYNC_SENT" \in flags[p] => Covered(p)
      /\ PortsTyped /\ QueuesTyped /\ dpc \in DpcStates
  BY MishapsStay DEF NoStuckAsync, TypeOK
<1>1. CASE \/ ReadDatabase \/ FlushDone \/ Restart
          \/ TestRelogin \/ ReloginDone \/ TestResync
  BY <1>1, <1>0
    DEF portVars, pipeVars, ReadDatabase, FlushDone, Restart, TestRelogin,
        ReloginDone, TestResync, Covered
<1>2. CASE FwReady \/ Configure \/ ClearUpdates \/ Fabric \/ Gone \/ Ready
  BY <1>2, <1>0
    DEF portVars, pipeVars, FwReady, Configure, ClearUpdates, Fabric, Gone,
        Ready, Covered
<1>3. CASE SetReady \/ Again \/ LoopDown \/ PointToPoint \/ PortUpdate \/ Rscn
  BY <1>3, <1>0
    DEF portVars, pipeVars, SetReady, Again, LoopDown, PointToPoint,
        PortUpdate, Rscn, Covered
<1>4. CASE \/ CommandFails \/ AskReset \/ LoopDownTimeout
          \/ PortChanges \/ RemoteLogout
  BY <1>4, <1>0
    DEF portVars, pipeVars, CommandFails, AskReset, LoopDownTimeout,
        PortChanges, RemoteLogout, Covered
<1>5. CASE DpcWakes
  BY <1>0, <1>5, ClearsNone DEF DpcWakes, InHand, Covered, portVars
<1>6. CASE LoginOk
  <2> DEFINE e == Head(todo)
  <2>1. /\ todo # <<>> /\ todo \in Seq(WorkItems) /\ work \in Seq(WorkItems)
        /\ e.port \in Ports /\ e.retried \in BOOLEAN
    BY <1>0, <1>6, TakenTyped, ItemFields DEF LoginOk, InHand, QueuesTyped
  <2>2. ClearsIn(todo, p) => ClearsIn(Tail(todo), p) \/ e.port = p
    BY <2>1, ClearsTail
  <2>3. /\ Post("logout", e.port) \in WorkItems
        /\ Post("login", e.port) \in WorkItems
        /\ Post("login", e.port).port = e.port /\ Clears(Post("login", e.port))
    BY <2>1, PostTyped DEF Kinds, Clears, LoginKinds
  <2>4. LET a == Item("adisc", e.port, e.retried, "none") IN
        a \in WorkItems /\ a.port = e.port /\ Clears(a)
    BY <2>1, ItemTyped DEF Kinds, Clears, LoginKinds
  <2>5. CASE \/ flags' = [flags EXCEPT ![e.port] =
                             (@ \ {"ASYNC_SENT"}) \cup {"LOGIN_NEEDED"}]
                /\ UNCHANGED work
             \/ Online(e.port) /\ UNCHANGED work
    <3>1. p # e.port /\ "ASYNC_SENT" \in flags[p]
      BY <1>0, <2>1, <2>5 DEF PortsTyped, Online
    <3> QED BY <1>0, <2>2, <2>5, <3>1, <1>6 DEF LoginOk, Covered
  <2>6. CASE work' = work \o <<Post("logout", e.port), Post("login", e.port)>>
             /\ UNCHANGED portVars
    <3>1. ClearsIn(work', p) <=> ClearsIn(work, p) \/ e.port = p
                                 \/ (Post("logout", e.port).port = p
                                     /\ Clears(Post("logout", e.port)))
      BY <2>1, <2>3, <2>6, ClearsTwo
    <3> QED BY <1>0, <2>2, <2>6, <3>1, <1>6 DEF LoginOk, Covered, portVars
  <2>7. CASE work' = Append(work, Item("adisc", e.port, e.retried, "none"))
             /\ UNCHANGED portVars
    <3>1. ClearsIn(work', p) <=> ClearsIn(work, p) \/ e.port = p
      BY <2>1, <2>4, <2>7, ClearsAppend
    <3> QED BY <1>0, <2>2, <2>7, <3>1, <1>6 DEF LoginOk, Covered, portVars
  <2> QED BY <2>5, <2>6, <2>7, <1>6 DEF LoginOk
<1>7. CASE LoginDone
  <2> DEFINE e == Head(todo)
  <2>1. /\ todo # <<>> /\ todo \in Seq(WorkItems) /\ work \in Seq(WorkItems)
        /\ e.port \in Ports /\ todo' = Tail(todo) /\ UNCHANGED sent
    BY <1>0, <1>7, TakenTyped, ItemFields DEF LoginDone, Handles, QueuesTyped
  <2>2. ClearsIn(todo, p) => ClearsIn(Tail(todo), p) \/ (e.port = p /\ Clears(e))
    BY <2>1, ClearsTail
  <2>3. /\ Post("logout", e.port) \in WorkItems
        /\ Post("login", e.port) \in WorkItems
        /\ Post("login", e.port).port = e.port /\ Clears(Post("login", e.port))
    BY <2>1, PostTyped DEF Kinds, Clears, LoginKinds
  <2>4. CASE ClearAsync(e.port) /\ UNCHANGED work
    BY <1>0, <2>1, <2>2, <2>4 DEF ClearAsync, PortsTyped, Covered
  <2>5. CASE /\ work' = work \o <<Post("logout", e.port), Post("login", e.port)>>
             /\ UNCHANGED portVars
    <3>1. ClearsIn(work', p) <=> ClearsIn(work, p) \/ e.port = p
                                 \/ (Post("logout", e.port).port = p
                                     /\ Clears(Post("logout", e.port)))
      BY <2>1, <2>3, <2>5, ClearsTwo
    <3> QED BY <1>0, <2>1, <2>2, <2>5, <3>1 DEF Covered, portVars
  <2>6. CASE work' = Append(work, Post("login", e.port)) /\ UNCHANGED portVars
    <3>1. ClearsIn(work', p) <=> ClearsIn(work, p) \/ e.port = p
      BY <2>1, <2>3, <2>6, ClearsAppend
    <3> QED BY <1>0, <2>1, <2>2, <2>6, <3>1 DEF Covered, portVars
  <2>7. CASE e.status = "flushed" /\ UNCHANGED <<portVars, work>>
    <3>1. ~Clears(e)
      BY <2>7, <1>7 DEF LoginDone, Handles, Clears
    <3> QED BY <1>0, <2>1, <2>2, <2>7, <3>1 DEF Covered, portVars
  <2> QED BY <2>4, <2>5, <2>6, <2>7, <1>7 DEF LoginDone, LoginFailed
<1>8. CASE LogoutDone
  <2>1. /\ todo # <<>> /\ todo \in Seq(WorkItems) /\ ~Clears(Head(todo))
        /\ todo' = Tail(todo) /\ UNCHANGED <<flags, work, sent>>
    BY <1>0, <1>8 DEF LogoutDone, Handles, QueuesTyped, Clears, LoginKinds
  <2> QED BY <1>0, <2>1, ClearsTail DEF Covered
<1>9. CASE AdiscDone
  <2> DEFINE e == Head(todo)
  <2>1. /\ todo # <<>> /\ todo \in Seq(WorkItems) /\ e.port \in Ports
        /\ todo' = Tail(todo) /\ UNCHANGED <<work, sent>>
    BY <1>0, <1>9, TakenTyped, ItemFields DEF AdiscDone, Handles, QueuesTyped
  <2>2. ClearsIn(todo, p) => ClearsIn(Tail(todo), p) \/ e.port = p
    BY <2>1, ClearsTail
  <2>3. Online(e.port) \/ ClearAsync(e.port)
    BY <1>9 DEF AdiscDone, LoginFailed
  <2>4. p # e.port /\ "ASYNC_SENT" \in flags[p]
    BY <1>0, <2>1, <2>3 DEF Online, ClearAsync, PortsTyped
  <2> QED BY <1>0, <2>1, <2>2, <2>4 DEF Covered
<1>10. CASE WorkDone
  <2>1. UNCHANGED <<work, todo, sent>>
    BY <1>10 DEF WorkDone, pipeVars
  <2>2. UNCHANGED flags \/ flags' = [q \in Ports |-> {}]
    BY <1>10 DEF WorkDone, portVars
  <2> QED BY <1>0, <2>1, <2>2 DEF Covered
<1>11. CASE Flush
  BY <1>11 DEF Flush, portVars, NoneAtFlush
<1>12. CASE Relogin
  <2>1. PICK q \in dpc.ports :
          \/ UNCHANGED <<flags, work>>
          \/ /\ flags' = [flags EXCEPT ![q] = @ \cup {"ASYNC_SENT"}]
             /\ work' = Append(work, Item("login", q, TRUE, "none"))
    BY <1>12 DEF Relogin
  <2>2. UNCHANGED <<todo, sent>> /\ work \in Seq(WorkItems) /\ q \in Ports
    BY <1>0, <1>12 DEF Relogin, QueuesTyped, DpcStates
  <2>3. CASE UNCHANGED <<flags, work>>
    BY <1>0, <2>2, <2>3 DEF Covered
  <2>4. CASE /\ flags' = [flags EXCEPT ![q] = @ \cup {"ASYNC_SENT"}]
             /\ work' = Append(work, Item("login", q, TRUE, "none"))
    <3>1. LET a == Item("login", q, TRUE, "none") IN
          a \in WorkItems /\ a.port = q /\ Clears(a)
      <4>1. Item("login", q, TRUE, "none") \in WorkItems
        BY <2>2, ItemTyped DEF Kinds
      <4> QED BY <4>1 DEF Item, Clears, LoginKinds
    <3>2. ClearsIn(work', p) <=> ClearsIn(work, p) \/ q = p
      BY <2>2, <2>4, <3>1, ClearsAppend
    <3> QED BY <1>0, <2>2, <2>4, <3>2 DEF PortsTyped, Covered
  <2> QED BY <2>1, <2>3, <2>4
<1>13. CASE Scan
  <2>1. "ASYNC_SENT" \in flags[p] /\ UNCHANGED <<work, todo, sent>>
    BY <1>13 DEF Scan, pipeVars, PortsTyped
  <2> QED BY <1>0, <2>1 DEF Covered
<1>14. CASE FabricLogin
  <2>1. UNCHANGED <<todo, sent>> /\ work \in Seq(WorkItems) /\ dpc.ports \subseteq Ports
    BY <1>0, <1>14 DEF FabricLogin, QueuesTyped, DpcStates
  <2>2. CASE UNCHANGED <<flags, work>>
    BY <1>0, <2>1, <2>2 DEF Covered
  <2>3. ASSUME NEW q \in dpc.ports,
               flags' = [flags EXCEPT ![q] = {"ASYNC_SENT", "LOGIN_NEEDED"}],
               work' = IF "ASYNC_SENT" \in flags[q] THEN work
                       ELSE Append(work, Post("login", q))
        PROVE  Covered(p)'
    <3>1. /\ Post("login", q) \in WorkItems /\ Post("login", q).port = q
          /\ Clears(Post("login", q))
      BY <2>1, PostTyped DEF Kinds, Clears, LoginKinds
    <3>2. ClearsIn(Append(work, Post("login", q)), p) <=> ClearsIn(work, p) \/ q = p
      BY <2>1, <3>1, ClearsAppend
    <3> QED BY <1>0, <2>1, <2>3, <3>2 DEF PortsTyped, Covered
  <2> QED BY <2>2, <2>3, <1>14 DEF FabricLogin
<1>15. CASE FwAnswers
  <2>1. PICK q \in Ports : sent[q] # <<>> /\
          \E s \in Outcomes(q, Head(sent[q]).kind) : Answer(q, s)
    BY <1>15 DEF FwAnswers
  <2>2. Head(sent[q]).kind \in Kinds
    BY <1>0, <2>1, TakenTyped DEF QueuesTyped, Requests
  <2>3. PICK s \in {"ok", "error"} : Answer(q, s)
    BY <2>1, <2>2 DEF Outcomes, Kinds
  <2> QED BY <1>0, <2>1, <2>3, AnswerCovers DEF Answers
<1>16. CASE FwRefuses
  <2>1. PICK q \in Ports : sent[q] # <<>> /\
          \E s \in {"error", "port_used", "loop_used"} : Answer(q, s)
    BY <1>16 DEF FwRefuses
  <2> QED BY <1>0, <2>1, AnswerCovers DEF Answers
<1>17. CASE SrbTimeout
  <2>1. PICK q \in Ports :
          /\ sent[q] # <<>> /\ sent' = [sent EXCEPT ![q] = Tail(@)]
          /\ ClearAsync(q)
          /\ \/ UNCHANGED work
             \/ work' = work \o <<Post("logout", q),
                  Item("login_done", q, Head(sent[q]).retried, "error")>>
    BY <1>17 DEF SrbTimeout
  <2>2. p # q /\ "ASYNC_SENT" \in flags[p] /\ sent'[p] = sent[p] /\ UNCHANGED todo
    BY <1>0, <1>17, <2>1 DEF SrbTimeout, ClearAsync, PortsTyped, QueuesTyped
  <2>3. ClearsIn(work, p) => ClearsIn(work', p)
    <3> DEFINE a == Post("logout", q)
               b == Item("login_done", q, Head(sent[q]).retried, "error")
    <3>1. Head(sent[q]) \in Requests
      BY <1>0, <2>1, TakenTyped DEF QueuesTyped
    <3>2. a \in WorkItems /\ b \in WorkItems
      BY <3>1, PostTyped, ItemTyped DEF Kinds, DoneKinds, Answers, Requests
    <3> HIDE DEF a, b
    <3>3. UNCHANGED work \/ work' = work \o <<a, b>>
      BY <2>1 DEF a, b
    <3>4. ClearsIn(work, p) => ClearsIn(work \o <<a, b>>, p)
      BY <1>0, <3>2, ClearsTwo DEF QueuesTyped
    <3> QED BY <3>3, <3>4
  <2> QED BY <1>0, <2>2, <2>3 DEF Covered
<1>18. ASSUME NEW k \in Kinds, Submit(k)
      PROVE  Covered(p)'
  <2> DEFINE e == Head(todo)
             r == [kind |-> k, retried |-> e.retried]
  <2>1. /\ todo # <<>> /\ todo \in Seq(WorkItems) /\ e.kind = k
        /\ todo' = Tail(todo) /\ UNCHANGED <<flags, work>>
    BY <1>0, <1>18 DEF Submit, Handles, QueuesTyped, portVars
  <2>2. e.port \in Ports /\ e.retried \in BOOLEAN
    BY <2>1, TakenTyped, ItemFields
  <2>3. r \in Requests /\ r.kind = k
    BY <2>2 DEF Requests
  <2>4. sent' = [sent EXCEPT ![e.port] = Append(@, r)]
    BY <1>18 DEF Submit, Mishap
  <2>5. ClearsIn(todo, p) => ClearsIn(Tail(todo), p)
                             \/ (e.port = p /\ k \in LoginKinds)
    BY <2>1, ClearsTail DEF Clears
  <2> HIDE DEF r
  <2>6. SentClears(Append(sent[e.port], r)) <=>
          SentClears(sent[e.port]) \/ k \in LoginKinds
    BY <1>0, <2>2, <2>3, SentAppend DEF QueuesTyped
  <2> QED BY <1>0, <2>1, <2>2, <2>4, <2>5, <2>6 DEF Covered, QueuesTyped
<1>19. CASE UNCHANGED vars
  BY <1>19, <1>0 DEF vars, portVars, pipeVars, Covered
<1> QED BY <1>1, <1>2, <1>3, <1>4, <1>5, <1>6, <1>7, <1>8, <1>9, <1>10, <1>11,
      <1>12, <1>13, <1>14, <1>15, <1>16, <1>17, <1>18, <1>19
  DEF Next, DpcStep

--------------------------------------------------------------------------
\* The invariant is inductive.
LEMMA InvStep ==
  ASSUME IInv, [Next]_vars
  PROVE  IInv'
<1>1. TypeOK'
  BY TypeStep DEF IInv
<1>2. InHand' /\ NoneAtFlush'
  BY InHandStep, NoneAtFlushStep DEF IInv, TypeOK
<1> QED BY <1>1, <1>2, NoStuckStep DEF IInv

\* It holds in every reachable state.
LEMMA Invariance == Spec => []IInv
<1>1. Init => IInv
  BY InitInv
<1>2. IInv /\ [Next]_vars => IInv'
  BY InvStep
<1> QED BY <1>1, <1>2, PTL DEF Spec

\* The ports, the queues between interrupts and the DPC thread, and the state
\* of the loop are what the code takes them for; above all, no count of retries
\* (an int that relogin decrements) falls below zero.
THEOREM TypeCorrect == Spec => []TypeOK
<1>1. IInv => TypeOK
  BY DEF IInv
<1> QED BY Invariance, <1>1, PTL

\* FCF_ASYNC_SENT never outlives the exchange it stands for, so no port is
\* skipped for ever by relogin and fabric_dev_login: whatever the number of
\* ports and retries and the order of link events, state changes, resets,
\* expired timers and late answers, as long as start_sp does not fail.
THEOREM FlagComesBack == Spec => []NoStuckAsync
<1>1. IInv => NoStuckAsync
  BY DEF IInv
<1> QED BY Invariance, <1>1, PTL

\* The two as the run checks them.
THEOREM MarksAlwaysComeBack == Spec => []MarksComeBack
<1>1. TypeOK /\ NoStuckAsync => MarksComeBack
  BY DEF MarksComeBack
<1> QED BY <1>1, TypeCorrect, FlagComesBack, PTL

--------------------------------------------------------------------------
(* How many elements of a queue are of a kind.                             *)

\* The places in s that hold an element of T, and their number.
Places(s, T) == {i \in 1..Len(s) : s[i] \in T}
Count(s, T)  == Cardinality(Places(s, T))

\* Items of a port, and requests, that belong to a login or address check.
LoginItems(p) == {e \in WorkItems : e.port = p /\ e.kind \in LoginKinds}
LoginRequests == {r \in Requests : r.kind \in LoginKinds}

\* A queue has finitely many places.
LEMMA PlacesFinite ==
  ASSUME NEW S, NEW T, NEW s \in Seq(S)
  PROVE  IsFiniteSet(Places(s, T)) /\ Count(s, T) \in Nat
<1>1. Len(s) \in Nat
  OBVIOUS
<1>2. IsFiniteSet(1..Len(s))
  BY <1>1, FS_Interval
<1>3. Places(s, T) \in SUBSET (1..Len(s))
  BY DEF Places
<1>4. IsFiniteSet(Places(s, T))
  BY <1>2, <1>3, FS_Subset
<1> QED BY <1>4, FS_CardinalityType DEF Count

\* An element put at the end counts for itself.
LEMMA CountAppend ==
  ASSUME NEW S, NEW T, NEW s \in Seq(S), NEW e \in S
  PROVE  Count(Append(s, e), T) = Count(s, T) + IF e \in T THEN 1 ELSE 0
<1>1. /\ Len(Append(s, e)) = Len(s) + 1
      /\ Append(s, e)[Len(s) + 1] = e
      /\ \A i \in 1..Len(s) : Append(s, e)[i] = s[i]
      /\ Len(s) \in Nat
  OBVIOUS
<1>2. 1..(Len(s) + 1) = 1..Len(s) \cup {Len(s) + 1} /\ Len(s) + 1 \notin 1..Len(s)
  BY <1>1
<1>3. IsFiniteSet(Places(s, T)) /\ Count(s, T) \in Nat
  BY PlacesFinite
<1>4. Len(s) + 1 \notin Places(s, T)
  BY <1>2 DEF Places
<1>5. CASE e \in T
  <2>1. Places(Append(s, e), T) = Places(s, T) \cup {Len(s) + 1}
    BY <1>1, <1>2, <1>5 DEF Places
  <2>2. Cardinality(Places(s, T) \cup {Len(s) + 1}) = Cardinality(Places(s, T)) + 1
    BY <1>3, <1>4, FS_AddElement
  <2> QED BY <1>5, <2>1, <2>2 DEF Count
<1>6. CASE e \notin T
  <2>1. Places(Append(s, e), T) = Places(s, T)
    BY <1>1, <1>2, <1>6 DEF Places
  <2> QED BY <1>3, <1>6, <2>1 DEF Count
<1> QED BY <1>5, <1>6

\* The head of a queue counts for itself.
LEMMA CountTail ==
  ASSUME NEW S, NEW T, NEW s \in Seq(S), s # <<>>
  PROVE  Count(s, T) = Count(Tail(s), T) + IF Head(s) \in T THEN 1 ELSE 0
<1> DEFINE moved == Places(s, T) \ {1}
           back == [i \in Places(Tail(s), T) |-> i + 1]
<1>1. /\ Len(s) \in Nat \ {0}
      /\ Len(Tail(s)) = Len(s) - 1
      /\ Head(s) = s[1]
      /\ \A i \in 1..(Len(s) - 1) : Tail(s)[i] = s[i + 1]
      /\ Tail(s) \in Seq(S)
  OBVIOUS
<1>2. \A i \in 1..Len(s) : i # 1 =>
        i - 1 \in 1..(Len(s) - 1) /\ Tail(s)[i - 1] = s[i] /\ (i - 1) + 1 = i
  BY <1>1
<1>3. IsFiniteSet(Places(s, T)) /\ IsFiniteSet(Places(Tail(s), T))
      /\ Count(s, T) \in Nat /\ Count(Tail(s), T) \in Nat
  BY <1>1, PlacesFinite
<1>4. \A i \in Places(Tail(s), T) : i + 1 \in moved /\ i \in Int
  BY <1>1 DEF Places
<1>5. \A j \in moved : j - 1 \in Places(Tail(s), T) /\ (j - 1) + 1 = j
  BY <1>1, <1>2 DEF Places
<1>6. back \in Bijection(Places(Tail(s), T), moved)
  <2>1. back \in [Places(Tail(s), T) -> moved]
    BY <1>4
  <2>2. \A a, b \in Places(Tail(s), T) : back[a] = back[b] => a = b
    BY <1>4
  <2>3. \A j \in moved : \E i \in Places(Tail(s), T) : back[i] = j
    BY <1>5
  <2> QED BY <2>1, <2>2, <2>3, Zenon DEF Bijection, Injection, IsInjective, Surjection
<1>7. Cardinality(moved) = Cardinality(Places(Tail(s), T))
  BY <1>3, <1>6, FS_Bijection DEF ExistsBijection
<1>8. Cardinality(moved) = IF 1 \in Places(s, T) THEN Cardinality(Places(s, T)) - 1
                           ELSE Cardinality(Places(s, T))
  BY <1>3, FS_RemoveElement
<1>9. 1 \in Places(s, T) <=> Head(s) \in T
  BY <1>1 DEF Places
<1> HIDE DEF moved
<1> QED BY <1>3, <1>7, <1>8, <1>9 DEF Count

\* An empty queue counts for nothing.
LEMMA CountNone ==
  ASSUME NEW T
  PROVE  Count(<<>>, T) = 0
<1>1. Places(<<>>, T) = {}
  BY DEF Places
<1> QED BY <1>1, FS_EmptySet DEF Count

\* Two items put at the end count for themselves.
LEMMA CountTwo ==
  ASSUME NEW s \in Seq(WorkItems), NEW a \in WorkItems, NEW b \in WorkItems, NEW T
  PROVE  Count(s \o <<a, b>>, T) = Count(s, T) + (IF a \in T THEN 1 ELSE 0)
                                   + (IF b \in T THEN 1 ELSE 0)
<1> DEFINE u == Append(s, a)
<1>1. u \in Seq(WorkItems) /\ Count(s, T) \in Nat
  BY PlacesFinite
<1>2. Count(u, T) = Count(s, T) + IF a \in T THEN 1 ELSE 0
  BY CountAppend
<1>3. s \o <<a, b>> = Append(u, b)
  BY PostTwo
<1> HIDE DEF u
<1>4. Count(Append(u, b), T) = Count(u, T) + IF b \in T THEN 1 ELSE 0
  BY <1>1, CountAppend
<1> QED BY <1>1, <1>2, <1>3, <1>4

\* The places that OneLogin counts.
LEMMA PlacesOfItems ==
  ASSUME NEW s \in Seq(WorkItems), NEW p
  PROVE  {i \in 1..Len(s) : s[i].port = p /\ s[i].kind \in LoginKinds}
           = Places(s, LoginItems(p))
<1>1. \A i \in 1..Len(s) : s[i] \in WorkItems
  OBVIOUS
<1> QED BY <1>1 DEF Places, LoginItems

\* The same for the requests in the firmware.
LEMMA PlacesOfRequests ==
  ASSUME NEW s \in Seq(Requests)
  PROVE  {i \in 1..Len(s) : s[i].kind \in LoginKinds} = Places(s, LoginRequests)
<1>1. \A i \in 1..Len(s) : s[i] \in Requests
  OBVIOUS
<1> QED BY <1>1 DEF Places, LoginRequests

\* The exchanges of a port, counted queue by queue.
Queued(p) ==
  Count(work, LoginItems(p)) + Count(todo, LoginItems(p)) + Count(sent[p], LoginRequests)

\* Until a reset or a timeout no port has more than one exchange under way, and
\* has none while its flag is clear: this is what the code checks before it
\* starts another.
Marked(p) == IF "ASYNC_SENT" \in flags[p] THEN 1 ELSE 0

OneMarked ==
  mishaps \cap {"reset", "timeout"} = {} => \A p \in Ports : Queued(p) <= Marked(p)

\* The queues of a port have their types, and numbers of exchanges.
LEMMA QueuedTyped ==
  ASSUME QueuesTyped, NEW p \in Ports
  PROVE  /\ work \in Seq(WorkItems) /\ todo \in Seq(WorkItems)
         /\ sent[p] \in Seq(Requests)
         /\ Count(work, LoginItems(p)) \in Nat /\ Count(todo, LoginItems(p)) \in Nat
         /\ Count(sent[p], LoginRequests) \in Nat
<1>1. /\ work \in Seq(WorkItems) /\ todo \in Seq(WorkItems)
      /\ sent[p] \in Seq(Requests)
  BY DEF QueuesTyped
<1>2. Count(work, LoginItems(p)) \in Nat
  BY <1>1, PlacesFinite
<1>3. Count(todo, LoginItems(p)) \in Nat
  BY <1>1, PlacesFinite
<1>4. Count(sent[p], LoginRequests) \in Nat
  BY <1>1, PlacesFinite
<1> QED BY <1>1, <1>2, <1>3, <1>4

\* Exchanges are what Queued counts.
LEMMA OneMarkedSuffices ==
  ASSUME QueuesTyped, OneMarked
  PROVE  OneLogin
<1> SUFFICES ASSUME mishaps \cap {"reset", "timeout"} = {}, NEW p \in Ports
             PROVE  Exchanges(p) <= 1
  BY DEF OneLogin
<1>1. Exchanges(p) = Queued(p)
  BY PlacesOfItems, PlacesOfRequests DEF QueuesTyped, Exchanges, Queued, Count
<1>2. Queued(p) <= Marked(p)
  BY DEF OneMarked
<1>3. Queued(p) \in Nat
  BY QueuedTyped DEF Queued
<1> QED BY <1>1, <1>2, <1>3 DEF Marked

\* The answer to a request is counted where the request was.
LEMMA AnswerCounts ==
  ASSUME QueuesTyped, NEW p \in Ports, NEW q \in Ports, sent[q] # <<>>,
         NEW s \in Answers, Answer(q, s)
  PROVE  Queued(p)' = Queued(p) /\ UNCHANGED flags
<1> DEFINE r == Head(sent[q])
           a == Item(DoneKind[r.kind], q, r.retried, s)
<1>1. r \in Requests
  BY TakenTyped DEF QueuesTyped
<1>2. /\ a \in WorkItems /\ a.port = q
      /\ r.kind \in LoginKinds <=> a.kind \in LoginKinds
  <2>1. r.kind \in LoginKinds <=> DoneKind[r.kind] \in LoginKinds
    BY <1>1 DEF Requests, Kinds, DoneKind, LoginKinds
  <2> QED BY <2>1, <1>1, DoneKindTyped, ItemTyped
<1>3. /\ work' = Append(work, a) /\ sent' = [sent EXCEPT ![q] = Tail(@)]
      /\ UNCHANGED <<flags, todo>>
  BY DEF Answer, portVars
<1> HIDE DEF r, a
<1>4. Count(work', LoginItems(p))
        = Count(work, LoginItems(p)) + IF a \in LoginItems(p) THEN 1 ELSE 0
  BY <1>2, <1>3, CountAppend DEF QueuesTyped
<1>5. Count(sent[q], LoginRequests)
        = Count(Tail(sent[q]), LoginRequests) + IF r \in LoginRequests THEN 1 ELSE 0
  BY CountTail DEF QueuesTyped, r
<1>6. a \in LoginItems(p) <=> q = p /\ r \in LoginRequests
  BY <1>1, <1>2 DEF LoginItems, LoginRequests
<1>7. /\ Count(work, LoginItems(p)) \in Nat /\ Count(todo, LoginItems(p)) \in Nat
      /\ Count(sent[p], LoginRequests) \in Nat
      /\ Count(Tail(sent[q]), LoginRequests) \in Nat
  BY TakenTyped, PlacesFinite DEF QueuesTyped
<1>8. sent'[p] = IF p = q THEN Tail(sent[q]) ELSE sent[p]
  BY <1>3 DEF QueuesTyped
<1> QED BY <1>3, <1>4, <1>5, <1>6, <1>7, <1>8 DEF Queued

\* No step starts a second exchange, or leaves one without its flag.
LEMMA OneMarkedStep ==
  ASSUME TypeOK, InHand, OneMarked, [Next]_vars
  PROVE  OneMarked'
<1> SUFFICES ASSUME mishaps' \cap {"reset", "timeout"} = {}, NEW p \in Ports
             PROVE  Queued(p)' <= Marked(p)'
  BY DEF OneMarked
<1> DEFINE W == Count(work, LoginItems(p))
           T == Count(todo, LoginItems(p))
           S == Count(sent[p], LoginRequests)
<1>a. /\ PortsTyped /\ QueuesTyped /\ dpc \in DpcStates
      /\ Queued(p) <= Marked(p)
  BY MishapsStay DEF OneMarked, TypeOK
<1>b. /\ work \in Seq(WorkItems) /\ todo \in Seq(WorkItems)
      /\ sent \in [Ports -> Seq(Requests)]
      /\ W \in Nat /\ T \in Nat /\ S \in Nat
  BY <1>a, QueuedTyped DEF QueuesTyped
<1>c. /\ W + T + S <= Marked(p)
      /\ Queued(p)' = Count(work', LoginItems(p)) + Count(todo', LoginItems(p))
                      + Count(sent'[p], LoginRequests)
  BY <1>a DEF Queued
<1>d. /\ Marked(p) \in {0, 1} /\ ("ASYNC_SENT" \in flags[p] <=> Marked(p) = 1)
      /\ Marked(p)' \in {0, 1} /\ ("ASYNC_SENT" \in flags'[p] <=> Marked(p)' = 1)
  BY DEF Marked
<1> HIDE DEF W, T, S
<1>0. /\ PortsTyped /\ QueuesTyped /\ dpc \in DpcStates
      /\ W \in Nat /\ T \in Nat /\ S \in Nat
      /\ Queued(p) = W + T + S
      /\ W + T + S <= Marked(p)
      /\ Queued(p)' = Count(work', LoginItems(p)) + Count(todo', LoginItems(p))
                      + Count(sent'[p], LoginRequests)
      /\ Marked(p) \in {0, 1} /\ ("ASYNC_SENT" \in flags[p] <=> Marked(p) = 1)
      /\ Marked(p)' \in {0, 1} /\ ("ASYNC_SENT" \in flags'[p] <=> Marked(p)' = 1)
  BY <1>a, <1>b, <1>c, <1>d DEF Queued, W, T, S
<1>q. ASSUME UNCHANGED <<work, todo, sent>>,
             "ASYNC_SENT" \in flags[p] => "ASYNC_SENT" \in flags'[p]
      PROVE  Queued(p)' <= Marked(p)'
  BY <1>0, <1>q DEF W, T, S
<1>h. ASSUME todo # <<>>, todo' = Tail(todo)
      PROVE  /\ T = Count(todo', LoginItems(p))
                   + IF Head(todo) \in LoginItems(p) THEN 1 ELSE 0
             /\ Count(todo', LoginItems(p)) \in Nat
             /\ Head(todo) \in WorkItems /\ Head(todo).port \in Ports
             /\ Head(todo).retried \in BOOLEAN
  BY <1>b, <1>h, CountTail, TakenTyped, ItemFields, PlacesFinite DEF T
<1>1. CASE \/ ReadDatabase \/ FlushDone \/ Restart
          \/ TestRelogin \/ ReloginDone \/ TestResync
  BY <1>1, <1>q
    DEF portVars, pipeVars, ReadDatabase, FlushDone, Restart, TestRelogin,
        ReloginDone, TestResync
<1>2. CASE FwReady \/ Configure \/ ClearUpdates \/ Fabric \/ Gone \/ Ready
  BY <1>2, <1>q
    DEF portVars, pipeVars, FwReady, Configure, ClearUpdates, Fabric, Gone,
        Ready
<1>3. CASE SetReady \/ Again \/ LoopDown \/ PointToPoint \/ PortUpdate \/ Rscn
  BY <1>3, <1>q
    DEF portVars, pipeVars, SetReady, Again, LoopDown, PointToPoint,
        PortUpdate, Rscn
<1>4. CASE \/ CommandFails \/ AskReset \/ LoopDownTimeout
          \/ PortChanges \/ RemoteLogout
  BY <1>4, <1>q
    DEF portVars, pipeVars, CommandFails, AskReset, LoopDownTimeout,
        PortChanges, RemoteLogout
<1>5. CASE DpcWakes
  <2>1. todo' = work /\ work' = <<>> /\ UNCHANGED <<flags, sent>>
    BY <1>5 DEF DpcWakes, portVars
  <2> QED BY <1>0, <2>1, CountNone DEF W, T, S, Marked
<1>6. CASE LoginOk
  <2> DEFINE e == Head(todo)
  <2>1. /\ todo # <<>> /\ todo' = Tail(todo) /\ e.kind = "login_done"
        /\ UNCHANGED sent
    BY <1>6 DEF LoginOk, InHand
  <2>2. e \in LoginItems(p) <=> e.port = p
    BY <1>h, <2>1 DEF LoginItems, LoginKinds
  <2>3. /\ Post("logout", e.port) \in WorkItems \ LoginItems(p)
        /\ Post("login", e.port) \in WorkItems
        /\ Post("login", e.port) \in LoginItems(p) <=> e.port = p
    BY <1>h, <2>1, PostTyped DEF Kinds, LoginItems, LoginKinds
  <2>4. LET a == Item("adisc", e.port, e.retried, "none") IN
        a \in WorkItems /\ (a \in LoginItems(p) <=> e.port = p)
    BY <1>h, <2>1, ItemTyped DEF Kinds, LoginItems, LoginKinds
  <2>5. CASE \/ flags' = [flags EXCEPT ![e.port] =
                             (@ \ {"ASYNC_SENT"}) \cup {"LOGIN_NEEDED"}]
                /\ UNCHANGED work
             \/ Online(e.port) /\ UNCHANGED work
    <3>1. e.port # p => flags'[p] = flags[p]
      BY <1>0, <1>h, <2>1, <2>5 DEF PortsTyped, Online
    <3> QED BY <1>0, <1>h, <2>1, <2>2, <2>5, <3>1 DEF W, T, S, Marked
  <2>6. CASE work' = work \o <<Post("logout", e.port), Post("login", e.port)>>
             /\ UNCHANGED portVars
    <3>1. Count(work', LoginItems(p)) = W + IF e.port = p THEN 1 ELSE 0
      BY <1>0, <2>3, <2>6, CountTwo DEF W, QueuesTyped
    <3> QED BY <1>0, <1>h, <2>1, <2>2, <2>6, <3>1 DEF S, Marked, portVars
  <2>7. CASE work' = Append(work, Item("adisc", e.port, e.retried, "none"))
             /\ UNCHANGED portVars
    <3>1. Count(work', LoginItems(p)) = W + IF e.port = p THEN 1 ELSE 0
      BY <1>0, <2>4, <2>7, CountAppend DEF W, QueuesTyped
    <3> QED BY <1>0, <1>h, <2>1, <2>2, <2>7, <3>1 DEF S, Marked, portVars
  <2> QED BY <2>5, <2>6, <2>7, <1>6 DEF LoginOk
<1>7. CASE LoginDone
  <2> DEFINE e == Head(todo)
  <2>1. /\ todo # <<>> /\ todo' = Tail(todo) /\ e.kind = "login_done"
        /\ UNCHANGED sent
    BY <1>7 DEF LoginDone, Handles
  <2>2. e \in LoginItems(p) <=> e.port = p
    BY <1>h, <2>1 DEF LoginItems, LoginKinds
  <2>3. /\ Post("logout", e.port) \in WorkItems \ LoginItems(p)
        /\ Post("login", e.port) \in WorkItems
        /\ Post("login", e.port) \in LoginItems(p) <=> e.port = p
    BY <1>h, <2>1, PostTyped DEF Kinds, LoginItems, LoginKinds
  <2>4. CASE ClearAsync(e.port) /\ UNCHANGED work
    <3>1. e.port # p => flags'[p] = flags[p]
      BY <1>0, <1>h, <2>1, <2>4 DEF PortsTyped, ClearAsync
    <3> QED BY <1>0, <1>h, <2>1, <2>2, <2>4, <3>1 DEF W, T, S, Marked
  <2>5. CASE /\ work' = work \o <<Post("logout", e.port), Post("login", e.port)>>
             /\ UNCHANGED portVars
    <3>1. Count(work', LoginItems(p)) = W + IF e.port = p THEN 1 ELSE 0
      BY <1>0, <2>3, <2>5, CountTwo DEF W, QueuesTyped
    <3> QED BY <1>0, <1>h, <2>1, <2>2, <2>5, <3>1 DEF S, Marked, portVars
  <2>6. CASE work' = Append(work, Post("login", e.port)) /\ UNCHANGED portVars
    <3>1. Count(work', LoginItems(p)) = W + IF e.port = p THEN 1 ELSE 0
      BY <1>0, <2>3, <2>6, CountAppend DEF W, QueuesTyped
    <3> QED BY <1>0, <1>h, <2>1, <2>2, <2>6, <3>1 DEF S, Marked, portVars
  <2>7. CASE UNCHANGED <<portVars, work>>
    BY <1>0, <1>h, <2>1, <2>7 DEF W, T, S, Marked, portVars
  <2> QED BY <2>4, <2>5, <2>6, <2>7, <1>7 DEF LoginDone, LoginFailed
<1>8. CASE LogoutDone
  <2>1. /\ todo # <<>> /\ todo' = Tail(todo)
        /\ UNCHANGED <<flags, work, sent>>
    BY <1>8 DEF LogoutDone, Handles
  <2> QED BY <1>0, <1>h, <2>1 DEF W, T, S, Marked
<1>9. CASE AdiscDone
  <2> DEFINE e == Head(todo)
  <2>1. /\ todo # <<>> /\ todo' = Tail(todo) /\ e.kind = "adisc_done"
        /\ UNCHANGED <<work, sent>>
    BY <1>9 DEF AdiscDone, Handles
  <2>2. e \in LoginItems(p) <=> e.port = p
    BY <1>h, <2>1 DEF LoginItems, LoginKinds
  <2>3. Online(e.port) \/ ClearAsync(e.port)
    BY <1>9 DEF AdiscDone, LoginFailed
  <2>4. e.port # p => flags'[p] = flags[p]
    BY <1>0, <1>h, <2>1, <2>3 DEF PortsTyped, Online, ClearAsync
  <2> QED BY <1>0, <1>h, <2>1, <2>2, <2>4 DEF W, T, S, Marked
<1>10. CASE WorkDone
  <2>1. UNCHANGED <<work, todo, sent>>
    BY <1>10 DEF WorkDone, pipeVars
  <2>2. UNCHANGED flags
    BY <1>10 DEF WorkDone, portVars, Mishap
  <2> QED BY <1>q, <2>1, <2>2
<1>11. CASE Flush
  <2>1. PICK q \in Ports :
          /\ sent[q] # <<>> /\ sent' = [sent EXCEPT ![q] = Tail(@)]
          /\ work' = Append(work, Item(DoneKind[Head(sent[q]).kind], q, FALSE, "flushed"))
    BY <1>11 DEF Flush
  <2> DEFINE r == Head(sent[q])
             a == Item(DoneKind[r.kind], q, FALSE, "flushed")
  <2>2. r \in Requests
    BY <1>0, <2>1, TakenTyped DEF QueuesTyped
  <2>3. /\ a \in WorkItems /\ a.port = q
        /\ r.kind \in LoginKinds <=> a.kind \in LoginKinds
    <3>1. r.kind \in LoginKinds <=> DoneKind[r.kind] \in LoginKinds
      BY <2>2 DEF Requests, Kinds, DoneKind, LoginKinds
    <3>2. DoneKind[r.kind] \in DoneKinds
      BY <2>2, DoneKindTyped
    <3> QED BY <3>1, <3>2 DEF Item, WorkItems, Answers
  <2>4. UNCHANGED <<flags, todo>>
    BY <1>11 DEF Flush, portVars
  <2>5. work' = Append(work, a)
    BY <2>1
  <2>6. Count(sent[q], LoginRequests)
          = Count(Tail(sent[q]), LoginRequests) + IF r \in LoginRequests THEN 1 ELSE 0
    BY <1>0, <2>1, CountTail DEF QueuesTyped
  <2> HIDE DEF r, a
  <2>7. Count(work', LoginItems(p)) = W + IF a \in LoginItems(p) THEN 1 ELSE 0
    BY <1>0, <2>3, <2>5, CountAppend DEF QueuesTyped, W
  <2>8. a \in LoginItems(p) <=> q = p /\ r \in LoginRequests
    BY <2>2, <2>3 DEF LoginItems, LoginRequests
  <2>9. sent'[p] = IF p = q THEN Tail(sent[q]) ELSE sent[p]
    BY <1>0, <2>1 DEF QueuesTyped
  <2>10. Count(Tail(sent[q]), LoginRequests) \in Nat
    BY <1>0, <2>1, TakenTyped, PlacesFinite DEF QueuesTyped
  <2> QED BY <1>0, <2>4, <2>6, <2>7, <2>8, <2>9, <2>10 DEF S, T, Marked
<1>12. CASE Relogin
  <2>1. PICK q \in dpc.ports :
          \/ UNCHANGED <<flags, work>>
          \/ /\ "ASYNC_SENT" \notin flags[q]
             /\ flags' = [flags EXCEPT ![q] = @ \cup {"ASYNC_SENT"}]
             /\ work' = Append(work, Item("login", q, TRUE, "none"))
    BY <1>12 DEF Relogin, MayRetry
  <2>2. UNCHANGED <<todo, sent>> /\ q \in Ports
    BY <1>0, <1>12 DEF Relogin, DpcStates
  <2>3. CASE UNCHANGED <<flags, work>>
    BY <1>q, <2>2, <2>3
  <2>4. CASE /\ "ASYNC_SENT" \notin flags[q]
             /\ flags' = [flags EXCEPT ![q] = @ \cup {"ASYNC_SENT"}]
             /\ work' = Append(work, Item("login", q, TRUE, "none"))
    <3> DEFINE a == Item("login", q, TRUE, "none")
    <3>1. a \in WorkItems /\ (a \in LoginItems(p) => q = p) /\ work' = Append(work, a)
      BY <2>2, <2>4 DEF Item, WorkItems, Kinds, LoginItems, Answers
    <3> HIDE DEF a
    <3>2. Count(work', LoginItems(p)) = W + IF a \in LoginItems(p) THEN 1 ELSE 0
      BY <1>b, <3>1, CountAppend DEF W
    <3>3. flags'[p] = IF p = q THEN flags[p] \cup {"ASYNC_SENT"} ELSE flags[p]
      BY <1>0, <2>2, <2>4 DEF PortsTyped
    <3>4. Count(todo', LoginItems(p)) = T /\ Count(sent'[p], LoginRequests) = S
      BY <2>2 DEF T, S
    <3>5. CASE p = q
      <4>1. Marked(p) = 0 /\ Marked(p)' = 1
        BY <1>d, <2>4, <3>3, <3>5
      <4>2. W = 0 /\ T = 0 /\ S = 0
        BY <1>b, <1>c, <4>1
      <4> QED BY <1>c, <4>1, <4>2, <3>2, <3>4
    <3>6. CASE p # q
      BY <1>b, <1>c, <1>d, <3>1, <3>2, <3>3, <3>4, <3>6
    <3> QED BY <3>5, <3>6
  <2> QED BY <2>1, <2>3, <2>4
<1>13. CASE Scan
  <2>1. "ASYNC_SENT" \in flags[p] => "ASYNC_SENT" \in flags'[p]
    BY <1>13, <1>0 DEF Scan, PortsTyped
  <2>2. UNCHANGED <<work, todo, sent>>
    BY <1>13 DEF Scan, pipeVars
  <2> QED BY <1>q, <2>1, <2>2
<1>14. CASE FabricLogin
  <2>1. UNCHANGED <<todo, sent>> /\ dpc.ports \subseteq Ports
    BY <1>0, <1>14 DEF FabricLogin, DpcStates
  <2>2. CASE UNCHANGED <<flags, work>>
    BY <1>q, <2>1, <2>2
  <2>3. ASSUME NEW q \in dpc.ports,
               flags' = [flags EXCEPT ![q] = {"ASYNC_SENT", "LOGIN_NEEDED"}],
               work' = IF "ASYNC_SENT" \in flags[q] THEN work
                       ELSE Append(work, Post("login", q))
        PROVE  Queued(p)' <= Marked(p)'
    <3>1. /\ Post("login", q) \in WorkItems
          /\ Post("login", q) \in LoginItems(p) => q = p
      BY <2>1, PostTyped DEF Kinds, LoginItems
    <3>2. \/ Count(work', LoginItems(p)) = W
          \/ /\ q = p /\ "ASYNC_SENT" \notin flags[q]
             /\ Count(work', LoginItems(p)) = W + 1
      BY <1>0, <2>3, <3>1, CountAppend DEF W, QueuesTyped
    <3>3. flags'[p] = IF p = q THEN {"ASYNC_SENT", "LOGIN_NEEDED"} ELSE flags[p]
      BY <1>0, <2>1, <2>3 DEF PortsTyped
    <3> QED BY <1>0, <2>1, <2>3, <3>2, <3>3 DEF T, S, Marked
  <2> QED BY <2>2, <2>3, <1>14 DEF FabricLogin
<1>15. CASE FwAnswers
  <2>1. PICK q \in Ports : sent[q] # <<>> /\
          \E s \in Outcomes(q, Head(sent[q]).kind) : Answer(q, s)
    BY <1>15 DEF FwAnswers
  <2>2. Head(sent[q]).kind \in Kinds
    <3>1. Head(sent[q]) \in Requests
      BY <1>b, <2>1, TakenTyped
    <3> QED BY <3>1 DEF Requests
  <2>3. PICK s \in {"ok", "error"} : Answer(q, s)
    BY <2>1, <2>2 DEF Outcomes, Kinds
  <2>4. Queued(p)' = Queued(p) /\ UNCHANGED flags
    BY <1>0, <2>1, <2>3, AnswerCounts DEF Answers
  <2> QED BY <1>0, <2>4 DEF Marked
<1>16. CASE FwRefuses
  <2>1. PICK q \in Ports : sent[q] # <<>> /\
          \E s \in {"error", "port_used", "loop_used"} : Answer(q, s)
    BY <1>16 DEF FwRefuses
  <2>2. Queued(p)' = Queued(p) /\ UNCHANGED flags
    BY <1>0, <2>1, AnswerCounts DEF Answers
  <2> QED BY <1>0, <2>2 DEF Marked
<1>17. CASE SrbTimeout
  BY <1>17 DEF SrbTimeout, Mishap
<1>18. ASSUME NEW k \in Kinds, Submit(k)
      PROVE  Queued(p)' <= Marked(p)'
  <2> DEFINE e == Head(todo)
             r == [kind |-> k, retried |-> e.retried]
  <2>1. /\ todo # <<>> /\ e.kind = k
        /\ todo' = Tail(todo) /\ UNCHANGED <<flags, work>>
    BY <1>18 DEF Submit, Handles, portVars
  <2>2. r \in Requests /\ r.kind = k /\ e.port \in Ports
    BY <1>h, <2>1 DEF Requests
  <2>3. sent' = [sent EXCEPT ![e.port] = Append(@, r)] \/ UNCHANGED sent
    BY <1>18 DEF Submit
  <2>4. e \in LoginItems(p) <=> e.port = p /\ k \in LoginKinds
    BY <1>h, <2>1 DEF LoginItems
  <2> HIDE DEF r
  <2>5. Count(Append(sent[e.port], r), LoginRequests) =
          Count(sent[e.port], LoginRequests) + IF k \in LoginKinds THEN 1 ELSE 0
    BY <1>0, <2>2, CountAppend DEF QueuesTyped, LoginRequests
  <2>6. CASE UNCHANGED sent
    BY <1>0, <1>h, <2>1, <2>6 DEF W, S, Marked
  <2>7. CASE sent' = [sent EXCEPT ![e.port] = Append(@, r)]
    <3>1. sent'[p] = IF e.port = p THEN Append(sent[p], r) ELSE sent[p]
      BY <1>0, <2>2, <2>7 DEF QueuesTyped
    <3> QED BY <1>0, <1>h, <2>1, <2>4, <2>5, <3>1 DEF W, S, Marked
  <2> QED BY <2>3, <2>6, <2>7
<1>19. CASE UNCHANGED vars
  BY <1>19, <1>q DEF vars, portVars, pipeVars
<1> QED BY <1>1, <1>2, <1>3, <1>4, <1>5, <1>6, <1>7, <1>8, <1>9, <1>10, <1>11,
      <1>12, <1>13, <1>14, <1>15, <1>16, <1>17, <1>18, <1>19
  DEF Next, DpcStep

\* It holds in every reachable state.
LEMMA OneMarkedHolds == Spec => []OneMarked
<1>1. Init => OneMarked
  <2> SUFFICES ASSUME Init, NEW p \in Ports
               PROVE  Queued(p) <= Marked(p)
    BY DEF OneMarked
  <2>1. Queued(p) = 0
    BY CountNone DEF Init, Queued
  <2> QED BY <2>1 DEF Marked
<1>2. IInv /\ OneMarked /\ [Next]_vars => OneMarked'
  BY OneMarkedStep DEF IInv
<1> QED BY <1>1, <1>2, Invariance, PTL DEF Spec

\* No port has two logins, or a login and an address check, under way: for any
\* number of ports and retries and every order of retries of single ports,
\* resyncs of the fabric, refusals, late answers and failed submissions, until
\* a chip reset or an expired SRB timer clears a flag whose exchange goes on.
THEOREM OneLoginAtATime == Spec => []OneLogin
<1>1. IInv /\ OneMarked => OneLogin
  BY OneMarkedSuffices DEF IInv, TypeOK
<1> QED BY <1>1, Invariance, OneMarkedHolds, PTL
============================================================================
