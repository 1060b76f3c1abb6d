---------------------------- MODULE PortLogin ----------------------------
(***************************************************************************)
(* How the driver gets and keeps sessions with the target ports of a       *)
(* fabric.  Logins, logouts and address checks (ADISC) are asynchronous:   *)
(*                                                                         *)
(*   post     a work item "login" is put on vha->work_list;                *)
(*   submit   the DPC thread takes the item and sends an IOCB;             *)
(*   answer   the interrupt (or the SRB's timer) posts "login_done";       *)
(*   act      the DPC thread takes that item and changes the port.         *)
(*                                                                         *)
(* FCF_ASYNC_SENT marks a port for the length of that chain.  The same DPC *)
(* thread runs, in this order on every wake-up: the work list, abort_isp,  *)
(* relogin (retries of single ports) and loop_resync (a new scan of the    *)
(* fabric).  Interrupts change ports, loop state and dpc_flags meanwhile.  *)
(*                                                                         *)
(* Modelled: the physical port on a switched fabric (ISP_CFG_F), chips     *)
(* that log in asynchronously (ql2xasynclogin, IS_ALOGIO_CAPABLE), loop    *)
(* ids never run out, ql2xplogiabsentdevice = 0.                           *)
(***************************************************************************)
EXTENDS Integers, Sequences, FiniteSets

CONSTANTS
  Ports,         \* the target ports of the fabric
  LoginRetries,  \* ha->login_retry_count
  MaxEvents      \* bound: changes of the environment

ASSUME PortLoginAssumption ==
  /\ IsFiniteSet(Ports)
  /\ LoginRetries \in Nat \ {0} /\ MaxEvents \in Nat

VARIABLES
  state,         \* fcport->state; "absent": no fcport exists yet; "lost" also
                 \* stands for a new port that is not yet FCS_ONLINE
  login_retry,   \* fcport->login_retry
  flags,         \* fcport->flags: ASYNC_SENT, LOGIN_NEEDED
  work,          \* vha->work_list
  todo,          \* the part of it do_work has spliced off
  sent,          \* each port's requests in the firmware, oldest first: it
                 \* works on the requests of one port in their order
  loop_state,    \* vha->loop_state
  loop_down_timer,  \* does vha->loop_down_timer run (is not zero)?
  dpc_flags,     \* vha->dpc_flags: ABORT, RELOGIN, RESYNC, LOCAL, RSCN
  dpc,           \* the DPC thread: place, ports left to visit, ports the
                 \* scan found, saved flags, answer of get_port_database
  link,          \* the physical link: down, training ("coming"), up
  reachable,     \* ports that are on the fabric and answer
  fw_login,      \* ports the firmware has a session with
  fcp2,          \* the ports that are FCP2 devices (FCF_FCP2_DEVICE); fixed
  rscn_due,      \* the fabric has a state change to report
  events,        \* bound: changes of the environment so far
  mishaps        \* what has gone wrong inside the driver so far, see Mishaps

portVars   == <<state, login_retry, flags>>
pipeVars   == <<work, todo, sent>>
loopVars   == <<loop_state, loop_down_timer>>
fabricVars == <<link, reachable, fw_login, fcp2, rscn_due>>
boundVars  == <<events, mishaps>>
vars == <<portVars, pipeVars, loopVars, dpc_flags, dpc, fabricVars, boundVars>>

\* History for the properties.
Mishaps ==
  {"reset",         \* the chip was reset
   "timeout",       \* an SRB timer expired
   "submit",        \* start_sp failed: no srb, no handle or no ring space
   "scan",          \* the name server queries failed
   "ready_race"}    \* a link event came between test and set of LOOP_READY

Kinds == {"login", "logout", "adisc"}
DoneKinds == {"login_done", "logout_done", "adisc_done"}
Answers == {"ok", "error", "port_used", "loop_used", "flushed"}

\* QLA_EVT_ASYNC_*: retried is QLA_LOGIO_LOGIN_RETRIED in data[1], status
\* stands for data[0].
Requests == [kind : Kinds, retried : BOOLEAN]
WorkItems ==
  [kind : Kinds \cup DoneKinds, port : Ports, retried : BOOLEAN,
   status : Answers \cup {"none"}]

Item(k, p, r, s) == [kind |-> k, port |-> p, retried |-> r, status |-> s]
DoneKind == [login |-> "login_done", logout |-> "logout_done",
             adisc |-> "adisc_done"]
Post(k, p) == Item(k, p, FALSE, "none")      \* posted with data == NULL

DpcPlaces == {"asleep", "work", "database", "flush", "restart", "relogin",
              "ports", "resync", "fw_ready", "configure", "clear", "fabric", "scan",
              "gone", "login", "ready", "set_ready", "again"}

\* The thread is at `at' with nothing in hand.
DpcAt(at) == [at |-> at, ports |-> {}, found |-> {}, save |-> {},
              db |-> "none"]

\* The thread's record.
DpcStates ==
  [at : DpcPlaces, ports : SUBSET Ports, found : SUBSET Ports,
   save : SUBSET {"LOCAL", "RSCN"}, db : {"none", "ok", "failed", "taken"}]

PortsTyped ==
  /\ state \in [Ports -> {"absent", "lost", "online"}]
  /\ login_retry \in [Ports -> 0..LoginRetries]
  /\ flags \in [Ports -> SUBSET {"ASYNC_SENT", "LOGIN_NEEDED"}]

QueuesTyped ==
  /\ work \in Seq(WorkItems) /\ todo \in Seq(WorkItems)
  /\ sent \in [Ports -> Seq(Requests)]

LoopTyped ==
  /\ loop_state \in {"down", "up", "ready"}
  /\ loop_down_timer \in BOOLEAN
  /\ dpc_flags \subseteq {"ABORT", "RELOGIN", "RESYNC", "LOCAL", "RSCN"}
  /\ link \in {"down", "coming", "up"}
  /\ reachable \subseteq Ports /\ fcp2 \subseteq Ports /\ fw_login \subseteq Ports
  /\ rscn_due \in BOOLEAN
  /\ events \in 0..MaxEvents
  /\ mishaps \subseteq Mishaps

TypeOK == PortsTyped /\ QueuesTyped /\ dpc \in DpcStates /\ LoopTyped

Listed == {p \in Ports : state[p] # "absent"}        \* vha->vp_fcports

\* After the firmware is up for the first time: the first loop resync is due.
Init ==
  /\ state = [p \in Ports |-> "absent"]
  /\ login_retry = [p \in Ports |-> 0]
  /\ flags = [p \in Ports |-> {}]
  /\ work = <<>> /\ todo = <<>>
  /\ sent = [p \in Ports |-> <<>>]
  /\ loop_state = "up" /\ loop_down_timer = FALSE
  /\ dpc_flags = {"RESYNC", "LOCAL", "RSCN"}
  /\ dpc = DpcAt("asleep")
  /\ link = "up" /\ reachable \in SUBSET Ports /\ fcp2 \in SUBSET Ports
  /\ fw_login = {} /\ rscn_due = FALSE
  /\ events = 0 /\ mishaps = {}

Event == events < MaxEvents /\ events' = events + 1
Mishap(m) == mishaps' = mishaps \cup {m}

--------------------------------------------------------------------------
(* Port state.                                                             *)

\* qla2x00_mark_device_lost with do_login: a retry is asked for only when the
\* count of retries has run out.
MarkLost(p) ==
  /\ state' = [state EXCEPT ![p] = "lost"]
  /\ login_retry' = [login_retry EXCEPT ![p] = IF @ = 0 THEN LoginRetries ELSE @]

AskRelogin(p) == IF login_retry[p] = 0 THEN {"RELOGIN"} ELSE {}

\* qla2x00_mark_all_devices_lost
MarkAllLost ==
  state' = [p \in Ports |-> IF state[p] = "online" THEN "lost" ELSE state[p]]

\* qla2x00_update_fcport
Online(p) ==
  /\ state' = [state EXCEPT ![p] = "online"]
  /\ login_retry' = [login_retry EXCEPT ![p] = 0]
  /\ flags' = [flags EXCEPT ![p] = {}]

\* Slip: the flag is not cleared.
ClearAsyncForgotten(p) == UNCHANGED flags

ClearAsync(p) == flags' = [flags EXCEPT ![p] = @ \ {"ASYNC_SENT"}]

--------------------------------------------------------------------------
(* do_work: the items the DPC thread has spliced off the work list.        *)

\* The thread runs when something woke it; the one-second timer makes up for
\* flags that were set without a wake-up.
DpcWakes ==
  /\ dpc.at = "asleep"
  /\ work # <<>> \/ dpc_flags \cap {"ABORT", "RELOGIN", "RESYNC"} # {}
  /\ dpc' = DpcAt("work")
  /\ todo' = work /\ work' = <<>>
  /\ UNCHANGED <<portVars, sent, loopVars, dpc_flags, fabricVars, boundVars>>

Handles(k) ==
  dpc.at = "work" /\ todo # <<>> /\ Head(todo).kind = k /\ todo' = Tail(todo)

\* async_login, async_logout, async_adisc; do_work ignores their result.
Submit(k) ==
  /\ Handles(k)
  /\ LET e == Head(todo) IN
     \/ /\ sent' = [sent EXCEPT ![e.port] =
                      Append(@, [kind |-> k, retried |-> e.retried])]
        /\ UNCHANGED boundVars
     \/ Event /\ Mishap("submit") /\ UNCHANGED sent
  /\ UNCHANGED <<portVars, work, loopVars, dpc_flags, dpc, fabricVars>>

\* async_login_done asks the firmware whether the login is complete; the
\* mailbox command takes time, and the item stays in hand.
ReadDatabase ==
  /\ dpc.at = "work" /\ todo # <<>>
  /\ Head(todo).kind = "login_done" /\ Head(todo).status = "ok"
  /\ \E db \in IF link = "up" /\ Head(todo).port \in fw_login THEN {"ok"}
               ELSE {"failed", "taken"} :
       dpc' = [DpcAt("database") EXCEPT !.db = db]
  /\ UNCHANGED <<portVars, pipeVars, loopVars, dpc_flags, fabricVars, boundVars>>

LoginOk ==
  /\ dpc.at = "database"
  /\ dpc' = DpcAt("work") /\ todo' = Tail(todo)
  /\ LET e == Head(todo)
         p == e.port IN
     \/ /\ dpc.db = "taken"
        /\ flags' = [flags EXCEPT ![p] = (@ \ {"ASYNC_SENT"}) \cup {"LOGIN_NEEDED"}]
        /\ dpc_flags' = dpc_flags \cup {"RELOGIN"}
        /\ UNCHANGED <<state, login_retry, work>>
     \/ /\ dpc.db = "failed"
        /\ work' = work \o <<Post("logout", p), Post("login", p)>>
        /\ UNCHANGED <<portVars, dpc_flags>>
     \/ /\ dpc.db = "ok" /\ p \in fcp2
        /\ work' = Append(work, Item("adisc", p, e.retried, "none"))
        /\ UNCHANGED <<portVars, dpc_flags>>
     \/ /\ dpc.db = "ok" /\ p \notin fcp2
        /\ Online(p)
        /\ UNCHANGED <<work, dpc_flags>>
  /\ UNCHANGED <<sent, loopVars, fabricVars, boundVars>>

\* Common to a failed login and a failed address check.
LoginFailed(e) ==
  /\ ClearAsync(e.port)
  /\ IF e.retried
     THEN /\ dpc_flags' = dpc_flags \cup {"RELOGIN"}
          /\ UNCHANGED <<state, login_retry>>
     ELSE /\ dpc_flags' = dpc_flags \cup AskRelogin(e.port)
          /\ MarkLost(e.port)

LoginDone ==
  /\ Handles("login_done")
  /\ LET e == Head(todo)
         p == e.port IN
     \/ /\ e.status = "error"
        /\ LoginFailed(e)
        /\ UNCHANGED work
     \/ /\ e.status = "port_used"
        /\ work' = work \o <<Post("logout", p), Post("login", p)>>
        /\ UNCHANGED <<portVars, dpc_flags>>
     \/ /\ e.status = "loop_used"
        /\ work' = Append(work, Post("login", p))
        /\ UNCHANGED <<portVars, dpc_flags>>
     \/ /\ e.status = "flushed"            \* data[0] = 0: no case applies
        /\ UNCHANGED <<portVars, dpc_flags, work>>
  /\ UNCHANGED <<sent, loopVars, dpc, fabricVars, boundVars>>

LogoutDone ==
  /\ Handles("logout_done")
  /\ LET p == Head(todo).port IN
     /\ dpc_flags' = dpc_flags \cup AskRelogin(p)
     /\ MarkLost(p)
  /\ UNCHANGED <<flags, work, sent, loopVars, dpc, fabricVars, boundVars>>

AdiscDone ==
  /\ Handles("adisc_done")
  /\ LET e == Head(todo) IN
     IF e.status = "ok" THEN Online(e.port) /\ UNCHANGED dpc_flags
     ELSE LoginFailed(e)
  /\ UNCHANGED <<work, sent, loopVars, dpc, fabricVars, boundVars>>

--------------------------------------------------------------------------
(* abort_isp, as far as the ports see it.                                  *)

\* The list is empty: is there an abort to run?  abort_isp_cleanup stops the
\* chip, marks the ports lost if the loop was up, and forgets the logins under
\* way.
WorkDone ==
  /\ dpc.at = "work" /\ todo = <<>>
  /\ \/ /\ "ABORT" \notin dpc_flags
        /\ dpc' = DpcAt("relogin")
        /\ UNCHANGED <<portVars, loopVars, dpc_flags, fabricVars, mishaps>>
     \/ /\ "ABORT" \in dpc_flags
        /\ dpc_flags' = dpc_flags \ {"ABORT"}
        /\ loop_state' = "down" /\ loop_down_timer' = TRUE
        /\ IF loop_state # "down" THEN MarkAllLost ELSE UNCHANGED state
        /\ flags' = [p \in Ports |-> {}]
        /\ link' = "down" /\ fw_login' = {} /\ rscn_due' = FALSE
        /\ Mishap("reset")
        /\ dpc' = DpcAt("flush")
        /\ UNCHANGED <<login_retry, reachable, fcp2>>
  /\ UNCHANGED <<pipeVars, events>>

\* abort_all_cmds calls sp->done for every request the firmware had; their
\* data was never written.
Flush ==
  /\ dpc.at = "flush"
  /\ \E p \in Ports :
       /\ sent[p] # <<>>
       /\ sent' = [sent EXCEPT ![p] = Tail(@)]
       /\ work' = Append(work, Item(DoneKind[Head(sent[p]).kind], p, FALSE, "flushed"))
  /\ UNCHANGED <<portVars, todo, loopVars, dpc_flags, dpc, fabricVars, boundVars>>

FlushDone ==
  /\ dpc.at = "flush" /\ \A p \in Ports : sent[p] = <<>>
  /\ dpc' = DpcAt("restart")
  /\ UNCHANGED <<portVars, pipeVars, loopVars, dpc_flags, fabricVars, boundVars>>

\* restart_isp waits for the link and asks for a resync; without a cable it
\* succeeds without one.  Its other failures are part of Mailbox.
Restart ==
  /\ dpc.at = "restart"
  /\ dpc_flags' = IF link = "up" THEN dpc_flags \cup {"RESYNC"} ELSE dpc_flags
  /\ dpc' = DpcAt("relogin")
  /\ UNCHANGED <<portVars, pipeVars, loopVars, fabricVars, boundVars>>

--------------------------------------------------------------------------
(* relogin: the DPC thread retries single ports.                           *)

\* Slip: test_bit for test_and_clear_bit.
TestReloginKeepsFlag ==
  /\ dpc.at = "relogin"
  /\ dpc' = IF "RELOGIN" \in dpc_flags /\ "RESYNC" \notin dpc_flags
               /\ loop_state # "down"
            THEN [DpcAt("ports") EXCEPT !.ports = Listed]
            ELSE DpcAt("resync")
  /\ UNCHANGED <<portVars, pipeVars, loopVars, dpc_flags, fabricVars, boundVars>>

\* RELOGIN_NEEDED is consumed whether or not the retries run.
TestRelogin ==
  /\ dpc.at = "relogin"
  /\ dpc_flags' = dpc_flags \ {"RELOGIN"}
  /\ dpc' = IF "RELOGIN" \in dpc_flags /\ "RESYNC" \notin dpc_flags
               /\ loop_state # "down"
            THEN [DpcAt("ports") EXCEPT !.ports = Listed]
            ELSE DpcAt("resync")
  /\ UNCHANGED <<portVars, pipeVars, loopVars, fabricVars, boundVars>>

\* Slips: the count of retries is ignored; the request under way is ignored.
MayRetryPastZero(p) == state[p] # "online" /\ "ASYNC_SENT" \notin flags[p]
MayRetryUnderWay(p) == state[p] # "online" /\ login_retry[p] > 0

MayRetry(p) ==
  state[p] # "online" /\ login_retry[p] > 0 /\ "ASYNC_SENT" \notin flags[p]

\* One port of the list.  The fabric_logout of an FCP2 device ends the
\* session in the firmware.
Relogin ==
  /\ dpc.at = "ports" /\ dpc.ports # {}
  /\ \E p \in dpc.ports :
       /\ IF MayRetry(p)
          THEN /\ login_retry' = [login_retry EXCEPT ![p] = @ - 1]
               /\ fw_login' = IF p \in fcp2 THEN fw_login \ {p} ELSE fw_login
               /\ flags' = [flags EXCEPT ![p] = @ \cup {"ASYNC_SENT"}]
               /\ work' = Append(work, Item("login", p, TRUE, "none"))
          ELSE UNCHANGED <<login_retry, fw_login, flags, work>>
       /\ dpc' = IF "RESYNC" \in dpc_flags THEN DpcAt("resync")
                 ELSE [dpc EXCEPT !.ports = @ \ {p}]
  /\ UNCHANGED <<state, todo, sent, loopVars, dpc_flags, link, reachable, fcp2,
                 rscn_due, boundVars>>

ReloginDone ==
  /\ dpc.at = "ports" /\ dpc.ports = {}
  /\ dpc' = DpcAt("resync")
  /\ UNCHANGED <<portVars, pipeVars, loopVars, dpc_flags, fabricVars, boundVars>>

--------------------------------------------------------------------------
(* loop_resync: scan the fabric and log in to what was found.              *)

TestResync ==
  /\ dpc.at = "resync"
  /\ dpc_flags' = dpc_flags \ {"RESYNC"}
  /\ dpc' = DpcAt(IF "RESYNC" \in dpc_flags THEN "fw_ready" ELSE "asleep")
  /\ UNCHANGED <<portVars, pipeVars, loopVars, fabricVars, boundVars>>

\* fw_ready waits for the link and gives up after a while.
FwReady ==
  /\ dpc.at = "fw_ready"
  /\ IF link = "up"
     THEN dpc' = DpcAt("configure") /\ dpc_flags' = dpc_flags \ {"RESYNC"}
     ELSE dpc' = DpcAt("asleep") /\ UNCHANGED dpc_flags
  /\ UNCHANGED <<portVars, pipeVars, loopVars, fabricVars, boundVars>>

\* The head of configure_loop.  configure_hba fails without a link and leaves
\* the flags as they are.  On a switched fabric a LOCAL update is a scan.  What
\* is to be done is read first and cleared afterwards.
Configure ==
  /\ dpc.at = "configure"
  /\ dpc' = IF "LOCAL" \in dpc_flags /\ link # "up" THEN DpcAt("again")
            ELSE [DpcAt("clear") EXCEPT !.save = dpc_flags \cap {"LOCAL", "RSCN"}]
  /\ UNCHANGED <<portVars, pipeVars, loopVars, dpc_flags, fabricVars, boundVars>>

ClearUpdates ==
  /\ dpc.at = "clear"
  /\ dpc_flags' = dpc_flags \ {"LOCAL", "RSCN"}
  /\ dpc' = [dpc EXCEPT !.at = IF dpc.save # {} THEN "fabric" ELSE "ready"]
  /\ UNCHANGED <<portVars, pipeVars, loopVars, fabricVars, boundVars>>

LoopTransition ==
  dpc_flags \cap {"ABORT", "RESYNC"} # {} \/ loop_state = "down"

\* configure_fabric up to the login to the name server.
Fabric ==
  /\ dpc.at = "fabric"
  /\ \/ /\ LoopTransition
        /\ dpc' = [dpc EXCEPT !.at = "again"]
        /\ UNCHANGED dpc_flags
     \/ /\ ~LoopTransition /\ link = "up"
        /\ dpc' = [dpc EXCEPT !.at = "scan"]
        /\ UNCHANGED dpc_flags
     \/ /\ ~LoopTransition /\ link # "up"      \* no F_Port: no devices
        /\ dpc' = [dpc EXCEPT !.at = "ready"]
        /\ UNCHANGED dpc_flags
     \/ /\ ~LoopTransition /\ link # "up"      \* login command failed
        /\ dpc' = [dpc EXCEPT !.at = "again"]
        /\ dpc_flags' = dpc_flags \cup {"RESYNC"}
  /\ UNCHANGED <<portVars, pipeVars, loopVars, fabricVars, boundVars>>

\* Slip: a port that was lost is not marked.
ToLogInNone(found) == {}

\* Known ports that are on the fabric and not online.
ToLogIn(found) == {p \in found \cap Listed : state[p] # "online"}

\* find_all_fabric_devs: a failed query counts as a list without entries.
\* The ports to log in to are marked and, unless FCP2 or with a request under
\* way, logged out first.
Scan ==
  /\ dpc.at = "scan"
  /\ \E found \in {reachable, {}} :
     /\ \/ found = (IF link = "up" THEN reachable ELSE {}) /\ UNCHANGED boundVars
        \/ found = {} /\ Event /\ Mishap("scan")
     /\ flags' = [p \in Ports |-> IF p \in ToLogIn(found)
                                  THEN flags[p] \cup {"LOGIN_NEEDED"} ELSE flags[p]]
     /\ fw_login' = fw_login \ {p \in ToLogIn(found) \ fcp2 :
                                  "ASYNC_SENT" \notin flags[p]}
     /\ dpc' = [dpc EXCEPT !.at = "gone", !.found = found, !.ports = Listed \ found]
  /\ UNCHANGED <<state, login_retry, pipeVars, loopVars, dpc_flags, link,
                 reachable, fcp2, rscn_due>>

\* Online ports the scan did not find are marked lost, without retries, and
\* logged out unless they are FCP2 devices.
Gone ==
  /\ dpc.at = "gone"
  /\ IF dpc.ports = {} \/ "RESYNC" \in dpc_flags
     THEN /\ dpc' = [dpc EXCEPT !.at = "login",
                                !.ports = {p \in Listed : "LOGIN_NEEDED" \in flags[p]}
                                          \cup (dpc.found \ Listed)]
          /\ UNCHANGED <<state, fw_login>>
     ELSE \E p \in dpc.ports :
          /\ dpc' = [dpc EXCEPT !.ports = @ \ {p}]
          /\ IF state[p] = "online"
             THEN /\ state' = [state EXCEPT ![p] = "lost"]
                  /\ fw_login' = IF p \in fcp2 THEN fw_login ELSE fw_login \ {p}
             ELSE UNCHANGED <<state, fw_login>>
  /\ UNCHANGED <<login_retry, flags, pipeVars, loopVars, dpc_flags, link,
                 reachable, fcp2, rscn_due, boundVars>>

\* fabric_dev_login for the ports to log in and for the new ones, which join
\* the list with FCF_LOGIN_NEEDED.
FabricLogin ==
  /\ dpc.at = "login"
  /\ IF dpc.ports = {} \/ loop_down_timer \/ "RESYNC" \in dpc_flags
     THEN /\ dpc' = [dpc EXCEPT !.at = "ready"]
          /\ UNCHANGED <<state, flags, work>>
     ELSE \E p \in dpc.ports :
          /\ dpc' = [dpc EXCEPT !.ports = @ \ {p}]
          /\ state' = [state EXCEPT ![p] = IF @ = "absent" THEN "lost" ELSE @]
          /\ flags' = [flags EXCEPT ![p] = {"ASYNC_SENT", "LOGIN_NEEDED"}]
          /\ work' = IF "ASYNC_SENT" \in flags[p] THEN work
                     ELSE Append(work, Post("login", p))
  /\ UNCHANGED <<login_retry, todo, sent, loopVars, dpc_flags, fabricVars,
                 boundVars>>

\* The tail of configure_loop: LOOP_READY unless the loop went down or
\* another resync was asked for.  Interrupts come between test and set.
NotReady == loop_down_timer \/ "RESYNC" \in dpc_flags

Ready ==
  /\ dpc.at = "ready"
  /\ dpc' = [dpc EXCEPT !.at = IF NotReady THEN "again" ELSE "set_ready"]
  /\ UNCHANGED <<portVars, pipeVars, loopVars, dpc_flags, fabricVars, boundVars>>

SetReady ==
  /\ dpc.at = "set_ready"
  /\ dpc' = [dpc EXCEPT !.at = "again"] /\ loop_state' = "ready"
  /\ IF NotReady THEN Mishap("ready_race") ELSE UNCHANGED mishaps
  /\ UNCHANGED <<portVars, pipeVars, loop_down_timer, dpc_flags, fabricVars,
                 events>>

\* Restore what was to be done if a resync was asked for meanwhile, and run
\* configure_loop again while the loop is up (the bound of 256 rounds never
\* bites: the flag survives it).
Again ==
  /\ dpc.at = "again"
  /\ LET restored == IF "RESYNC" \in dpc_flags THEN dpc_flags \cup dpc.save
                     ELSE dpc_flags
         again == /\ "RESYNC" \in dpc_flags /\ "ABORT" \notin dpc_flags
                  /\ ~loop_down_timer IN
     /\ dpc_flags' = IF again THEN restored \ {"RESYNC"} ELSE restored
     /\ dpc' = DpcAt(IF again THEN "configure" ELSE "asleep")
  /\ UNCHANGED <<portVars, pipeVars, loopVars, fabricVars, boundVars>>

DpcStep ==
  \/ DpcWakes \/ \E k \in Kinds : Submit(k)
  \/ ReadDatabase \/ LoginOk \/ LoginDone \/ LogoutDone \/ AdiscDone
  \/ WorkDone \/ Flush \/ FlushDone \/ Restart
  \/ TestRelogin \/ Relogin \/ ReloginDone
  \/ TestResync \/ FwReady \/ Configure \/ ClearUpdates \/ Fabric \/ Scan \/ Gone
  \/ FabricLogin \/ Ready \/ SetReady \/ Again

--------------------------------------------------------------------------
(* Interrupts and timers.                                                  *)

\* The firmware's answers to a request of port p.
Outcomes(p, kind) ==
  CASE kind = "logout" -> {"ok"}
    [] kind = "adisc" ->
         IF link = "up" /\ p \in reachable \cap fw_login THEN {"ok"} ELSE {"error"}
    [] kind = "login" ->
         IF link = "up" /\ p \in reachable THEN {"ok"} ELSE {"error"}

\* qla24xx_logio_entry and the sp->done of the request.  A stopped chip does
\* not answer.
Answer(p, status) ==
  /\ dpc.at # "flush"
  /\ LET r == Head(sent[p]) IN
     /\ sent' = [sent EXCEPT ![p] = Tail(@)]
     /\ work' = Append(work, Item(DoneKind[r.kind], p, r.retried, status))
     /\ fw_login' = CASE r.kind = "login" /\ status = "ok" -> fw_login \cup {p}
                      [] r.kind = "logout" -> fw_login \ {p}
                      [] OTHER -> fw_login
  /\ UNCHANGED <<portVars, todo, loopVars, dpc_flags, dpc, link, reachable, fcp2,
                 rscn_due, mishaps>>

FwAnswers ==
  /\ \E p \in Ports : /\ sent[p] # <<>>
                       /\ \E s \in Outcomes(p, Head(sent[p]).kind) : Answer(p, s)
  /\ UNCHANGED events

FwRefuses ==
  /\ Event /\ link = "up"
  /\ \E p \in Ports : /\ sent[p] # <<>> /\ Head(sent[p]).kind = "login"
                       /\ \E s \in {"error", "port_used", "loop_used"} : Answer(p, s)

\* qla2x00_sp_timeout and qla2x00_async_iocb_timeout; the oldest timer expires
\* first.
SrbTimeout ==
  /\ Event /\ Mishap("timeout") /\ dpc.at # "flush"
  /\ \E p \in Ports :
       /\ sent[p] # <<>> 
       /\ sent' = [sent EXCEPT ![p] = Tail(@)]
       /\ ClearAsync(p)
       /\ work' = IF Head(sent[p]).kind # "login" THEN work
                  ELSE work \o <<Post("logout", p),
                                 Item("login_done", p, Head(sent[p]).retried, "error")>>
  /\ UNCHANGED <<state, login_retry, todo, loopVars, dpc_flags, dpc, fabricVars>>

\* MBA_LOOP_DOWN; the firmware has lost its sessions.
LoopDown ==
  /\ Event /\ link = "up" /\ link' = "down"
  /\ fw_login' = {} /\ rscn_due' = FALSE
  /\ IF loop_state # "down"
     THEN loop_state' = "down" /\ loop_down_timer' = TRUE /\ MarkAllLost
     ELSE UNCHANGED <<loopVars, state>>
  /\ UNCHANGED <<login_retry, flags, pipeVars, dpc_flags, dpc, reachable, fcp2, mishaps>>

\* MBA_POINT_TO_POINT, the first event of a link that comes up.
PointToPoint ==
  /\ link = "down" /\ dpc.at # "flush" /\ link' = "coming"
  /\ IF loop_state # "down"
     THEN loop_state' = "down" /\ loop_down_timer' = TRUE /\ MarkAllLost
     ELSE UNCHANGED <<loopVars, state>>
  /\ UNCHANGED <<login_retry, flags, pipeVars, dpc_flags, dpc, reachable, fcp2,
                 fw_login, rscn_due, boundVars>>

\* MBA_PORT_UPDATE, global: ignored unless the loop is known to be down.
PortUpdate ==
  /\ link = "coming" /\ link' = "up"
  /\ loop_down_timer' = FALSE
  /\ IF loop_state = "down"
     THEN /\ loop_state' = "up"
          /\ MarkAllLost
          /\ dpc_flags' = dpc_flags \cup {"RESYNC", "LOCAL"}
     ELSE UNCHANGED <<loop_state, state, dpc_flags>>
  /\ UNCHANGED <<login_retry, flags, pipeVars, dpc, reachable, fcp2, fw_login,
                 rscn_due, boundVars>>

\* MBA_RSCN_UPDATE
Rscn ==
  /\ rscn_due /\ link = "up" /\ rscn_due' = FALSE
  /\ loop_down_timer' = FALSE
  /\ dpc_flags' = dpc_flags \cup {"RESYNC", "RSCN"}
  /\ UNCHANGED <<portVars, pipeVars, loop_state, dpc, link, reachable, fcp2,
                 fw_login, boundVars>>

\* A command to an online port fails because there is no session: the status
\* entry makes the interrupt handler mark the port lost.
CommandFails ==
  /\ \E p \in Ports :
       /\ state[p] = "online" /\ p \notin reachable \cap fw_login
       /\ MarkLost(p)
       /\ dpc_flags' = dpc_flags \cup AskRelogin(p)
  /\ UNCHANGED <<flags, pipeVars, loopVars, dpc, fabricVars, boundVars>>

\* A mailbox timeout, a system error: somebody asks for a chip reset.
AskReset ==
  /\ Event /\ "ABORT" \notin dpc_flags
  /\ dpc_flags' = dpc_flags \cup {"ABORT"}
  /\ UNCHANGED <<portVars, pipeVars, loopVars, dpc, fabricVars, mishaps>>

\* The one-second timer counts loop_down_timer down to zero and, unless there
\* is no cable, asks for a chip reset.  LOOP_DOWN_TIME is four minutes: no
\* round of the DPC thread that found the loop up lasts that long.
LoopDownTimeout ==
  /\ Event /\ loop_down_timer /\ link # "up" /\ dpc.at = "asleep"
  /\ loop_down_timer' = FALSE
  /\ \/ dpc_flags' = dpc_flags \cup {"ABORT"}
     \/ UNCHANGED dpc_flags
  /\ UNCHANGED <<portVars, pipeVars, loop_state, dpc, fabricVars, mishaps>>

--------------------------------------------------------------------------
(* The fabric.                                                             *)

\* A port leaves the fabric, or comes back without its old session.
PortChanges ==
  /\ Event /\ link = "up" /\ rscn_due' = TRUE
  /\ \E p \in Ports :
       IF p \in reachable
       THEN reachable' = reachable \ {p} /\ UNCHANGED fw_login
       ELSE reachable' = reachable \cup {p} /\ fw_login' = fw_login \ {p}
  /\ UNCHANGED <<portVars, pipeVars, loopVars, dpc_flags, dpc, link, fcp2, mishaps>>

\* A port ends its session; nobody is told.
RemoteLogout ==
  /\ Event
  /\ \E p \in reachable \cap fw_login : fw_login' = fw_login \ {p}
  /\ UNCHANGED <<portVars, pipeVars, loopVars, dpc_flags, dpc, link, reachable, fcp2,
                 rscn_due, mishaps>>

Next ==
  \/ DpcStep
  \/ FwAnswers \/ FwRefuses \/ SrbTimeout
  \/ LoopDown \/ PointToPoint \/ PortUpdate \/ Rscn
  \/ CommandFails \/ AskReset \/ LoopDownTimeout
  \/ PortChanges \/ RemoteLogout

\* The DPC thread is woken at least every second by the timer; the firmware
\* answers every request; the fabric delivers its state changes.
Fairness == WF_vars(DpcStep) /\ WF_vars(FwAnswers) /\ WF_vars(Rscn)

Spec == Init /\ [][Next]_vars /\ Fairness

--------------------------------------------------------------------------
(* Properties.                                                             *)

\* The handling of a login, an address check or their answers clears
\* FCF_ASYNC_SENT or posts another of these; the answer to a login that a reset
\* has flushed does nothing.
LoginKinds == {"login", "login_done", "adisc", "adisc_done"}
Clears(e) == e.kind \in LoginKinds /\ ~(e.kind = "login_done" /\ e.status = "flushed")

ClearsIn(s, p) == \E i \in 1..Len(s) : s[i].port = p /\ Clears(s[i])
SentClears(s) == \E i \in 1..Len(s) : s[i].kind \in LoginKinds

Covered(p) == ClearsIn(work, p) \/ ClearsIn(todo, p) \/ SentClears(sent[p])

\* FCF_ASYNC_SENT never outlives the exchange it stands for: while it is set,
\* an item or a request of the port exists whose handling will clear it.  Both
\* relogin and fabric_dev_login skip a port for as long as the flag is set.
NoStuckAsync ==
  "submit" \notin mishaps =>
    \A p \in Ports : "ASYNC_SENT" \in flags[p] => Covered(p)

\* How many exchanges of the port are between post and act.
Exchanges(p) ==
  Cardinality({i \in 1..Len(work) : work[i].port = p /\ work[i].kind \in LoginKinds})
  + Cardinality({i \in 1..Len(todo) : todo[i].port = p /\ todo[i].kind \in LoginKinds})
  + Cardinality({i \in 1..Len(sent[p]) : sent[p][i].kind \in LoginKinds})

\* Until a chip reset or an SRB timer disturbs the exchange, no port has two
\* logins (or a login and an address check) under way: the flag keeps relogin
\* and a resync from starting one while the other's answer is still due.
OneLogin ==
  mishaps \cap {"reset", "timeout"} = {} => \A p \in Ports : Exchanges(p) <= 1

\* Something is going to happen that makes the driver look at the port.
Pending(p) ==
  \/ \E i \in 1..Len(work) : work[i].port = p
  \/ \E i \in 1..Len(todo) : todo[i].port = p
  \/ sent[p] # <<>>
  \/ dpc_flags \cap {"ABORT", "RELOGIN", "RESYNC"} # {}
  \/ dpc.at # "asleep"
  \/ rscn_due \/ link # "up"

\* A lost port that is on the fabric and has retries left is retried: "Retry
\* each device up to login retry count" (do_dpc), "try to login to it if we
\* haven't run out of retries" (relogin).
RetriesPending ==
  \A p \in reachable : state[p] = "lost" /\ login_retry[p] > 0 => Pending(p)

\* Two exchanges of one port, possible after a chip reset or an expired SRB
\* timer, can log each other out: for ever, or until the retries are used up.
Apart == \A p \in Ports : Exchanges(p) <= 1

\* A port that stays on the fabric over a link that stays up is online in the
\* end, or the driver's own record still says that it owes the port a login: no
\* order of link events, state changes, resets and late answers makes the
\* driver drop a port with a clean record.
PortsComeBack ==
  [](Apart /\ mishaps \subseteq {"reset", "timeout"}) => \A p \in Ports :
    <>[](p \in reachable /\ link = "up")
      => <>[](state[p] = "online" \/ login_retry[p] > 0
              \/ "LOGIN_NEEDED" \in flags[p])

\* Once the fabric leaves the driver alone it becomes quiet: retries, resyncs
\* that ask for a resync and logouts that lead to logins come to an end.
Settles ==
  <>[]Apart => <>[](/\ dpc.at = "asleep" /\ work = <<>>
                    /\ sent = [p \in Ports |-> <<>>]
                    /\ dpc_flags \cap {"ABORT", "RELOGIN", "RESYNC"} = {})

\* The retry counts and queues have their types, and a mark that keeps a port
\* from being retried has something under way that clears it.
MarksComeBack == TypeOK /\ NoStuckAsync
==========================================================================
