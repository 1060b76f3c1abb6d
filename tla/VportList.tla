------------------------------ MODULE VportList ------------------------------
(***************************************************************************)
(* The list of virtual ports (qla_mid.c, qla_attr.c): how the transport    *)
(* creates and deletes ports, how the interrupt handler and the DPC thread *)
(* walk the list with a reference on the port they are at, and how         *)
(* commands and posted work hold references of their own.                  *)
(*                                                                         *)
(* vport_slock is a spinlock: what runs under it is one step.  vport_lock  *)
(* is a mutex, and deleting a port sleeps with it; the other sections      *)
(* under it are one step that waits for it.                                *)
(***************************************************************************)
EXTENDS Integers, FiniteSets, SequencesExt

CONSTANTS
  Vports,             \* the virtual ports the transport may create, each once
  Limits,             \* the numbers of them a firmware may allow
  Users,              \* the threads that submit commands
  NoPort

VARIABLES
  max_npiv_vports,    \* as get_resource_cnts found it
  stage,              \* how far the transport is with a port
  add_failed,         \* the ports scsi_add_host failed for
  vp_idx,
  vp_idx_map,
  vp_list,            \* the list behind the port of the adapter itself
  num_vhosts,
  cur_vport_count,
  vport_lock,         \* the port whose deletion sleeps with the mutex
  vref_count,
  work_list,          \* work posted and not done, of each port
  at,                 \* the port a walker is at
  doing,              \* and what it does there
  using,              \* the port a thread submits a command to
  got,                \* and how far QLA_VHA_MARK_BUSY is
  robbed              \* the ids freed while a port had them

vars == <<max_npiv_vports, stage, add_failed, vp_idx, vp_idx_map, vp_list,
          num_vhosts, cur_vport_count, vport_lock, vref_count, work_list, at,
          doing, using, got, robbed>>
ids == <<max_npiv_vports, vp_idx, vp_idx_map, num_vhosts, cur_vport_count, robbed>>
walks == <<at, doing>>
uses == <<using, got>>

VportListAssumption ==
  /\ Limits \subseteq Nat \ {0}
  /\ IsFiniteSet(Vports) /\ IsFiniteSet(Users)
  /\ NoPort \notin Vports

\* The walks that work at a port while they hold it: of an interrupt, of the
\* DPC thread, and at the end of a reset.
Walkers == {"alert_all_vps", "do_dpc_all_vps", "abort_isp"}

Ids == 1..max_npiv_vports

\* The transport has registered the host of v, and not yet removed it.
Registered(v) == stage[v] \in {"added", "enabling", "live", "disabled", "progress"}
delete_progress(v) ==
  /\ stage[v] \in {"progress", "removed", "deleting", "unlisted", "cleared", "freed"}
  /\ v \notin add_failed
Listed(v) == v \in Range(vp_list)
Position(v) == CHOOSE i \in 1..Len(vp_list) : vp_list[i] = v

Init ==
  /\ max_npiv_vports \in Limits
  /\ stage = [v \in Vports |-> "absent"]
  /\ add_failed = {}
  /\ vp_idx = [v \in Vports |-> 0]
  /\ vp_idx_map = {0}
  /\ vp_list = <<>>
  /\ num_vhosts = 0 /\ cur_vport_count = 0
  /\ vport_lock = NoPort
  /\ vref_count = [v \in Vports |-> 0]
  /\ work_list = [v \in Vports |-> 0]
  /\ at = [w \in Walkers |-> NoPort]
  /\ doing = [w \in Walkers |-> "none"]
  /\ using = [u \in Users |-> NoPort]
  /\ got = [u \in Users |-> "none"]
  /\ robbed = {}

Stage(v, from, to) == stage[v] = from /\ stage' = [stage EXCEPT ![v] = to]
Mutex == vport_lock = NoPort
Rest == UNCHANGED <<work_list, walks, uses>>

--------------------------------------------------------------------------
(* Creating a port.                                                        *)

\* The checks of the transport's request; the count is read without a lock.
vport_create_req_sanity_check(v) ==
  /\ num_vhosts <= max_npiv_vports
  /\ Stage(v, "absent", "asked")
  /\ UNCHANGED <<add_failed, ids, vp_list, vport_lock, vref_count>> /\ Rest

\* find_first_zero_bit, over one more bit than there are ids: bit 0 is set.
clear_ids == (0..max_npiv_vports) \ vp_idx_map

\* Slip: the id is not taken before the port is counted.
allocate_vp_idSlip(v) ==
  /\ Mutex
  /\ \E vp_id \in clear_ids :
       /\ \A i \in clear_ids : vp_id <= i
       /\ Stage(v, "asked", "listed")
       /\ vp_idx' = [vp_idx EXCEPT ![v] = vp_id]
  /\ num_vhosts' = num_vhosts + 1
  /\ vp_list' = Append(vp_list, v)
  /\ UNCHANGED <<max_npiv_vports, vp_idx_map, cur_vport_count, robbed>>
  /\ UNCHANGED <<add_failed, vport_lock, vref_count>> /\ Rest

\* With no id left the new host is forgotten, not given back.
allocate_vp_id(v) ==
  /\ Mutex
  /\ \/ /\ clear_ids = {}
        /\ Stage(v, "asked", "leaked")
        /\ UNCHANGED <<ids, vp_list>>
     \/ \E vp_id \in clear_ids :
          /\ \A i \in clear_ids : vp_id <= i
          /\ Stage(v, "asked", "listed")
          /\ vp_idx' = [vp_idx EXCEPT ![v] = vp_id]
          /\ vp_idx_map' = vp_idx_map \cup {vp_id}
          /\ num_vhosts' = num_vhosts + 1
          /\ vp_list' = Append(vp_list, v)
          /\ UNCHANGED <<max_npiv_vports, cur_vport_count, robbed>>
  /\ UNCHANGED <<add_failed, vport_lock, vref_count>> /\ Rest

\* The end of create_vhost, which starts the port's timer and counts it.
create_vhost(v) ==
  /\ Mutex
  /\ Stage(v, "listed", "counted")
  /\ vp_idx_map' = vp_idx_map \cup {vp_idx[v]}
  /\ cur_vport_count' = cur_vport_count + 1
  /\ UNCHANGED <<max_npiv_vports, vp_idx, num_vhosts, robbed>>
  /\ UNCHANGED <<add_failed, vp_list, vport_lock, vref_count>> /\ Rest

\* scsi_add_host may fail; the port is then disabled and removed at once.
vport_create(v) ==
  /\ \/ Stage(v, "counted", "added") /\ UNCHANGED add_failed
     \/ Stage(v, "counted", "failing") /\ add_failed' = add_failed \cup {v}
  /\ UNCHANGED <<ids, vp_list, vport_lock, vref_count>> /\ Rest

\* enable_vp looks at the link of the adapter, and takes the mutex if it is up.
vport_disable(v) ==
  /\ \/ \E to \in {"enabling", "live"} : Stage(v, "added", to)
     \/ Mutex /\ Stage(v, "enabling", "live")
  /\ UNCHANGED <<add_failed, ids, vp_list, vport_lock, vref_count>> /\ Rest

--------------------------------------------------------------------------
(* Deleting a port.                                                        *)

\* control_vp takes the mutex, but for the last id, which it refuses.
control_vp_waits(v) == vp_idx[v] < max_npiv_vports /\ ~Mutex

loop_resync_active(v) == at["do_dpc_all_vps"] = v /\ doing["do_dpc_all_vps"] = "resync"

\* Waits for a resync of the port's loop, then disables the port.
disable_vp(v) ==
  /\ ~control_vp_waits(v)
  /\ \/ Stage(v, "live", "disabled") /\ ~loop_resync_active(v)
     \/ Stage(v, "failing", "removed")
  /\ UNCHANGED <<add_failed, ids, vp_list, vport_lock, vref_count>> /\ Rest

\* Sets delete_progress; then the transport and the mid-layer remove the host,
\* after which no new command comes for it.
vport_delete(v) ==
  /\ \/ Stage(v, "disabled", "progress")
     \/ Stage(v, "progress", "removed")
  /\ UNCHANGED <<add_failed, ids, vp_list, vport_lock, vref_count>> /\ Rest

\* Slip: the deletion does not wait.
deallocate_vp_idSlip(v) ==
  /\ Mutex
  /\ Stage(v, "removed", "unlisted")
  /\ vp_list' = RemoveAt(vp_list, Position(v))
  /\ num_vhosts' = num_vhosts - 1
  /\ vp_idx_map' = vp_idx_map \ {vp_idx[v]}
  /\ UNCHANGED <<max_npiv_vports, vp_idx, cur_vport_count, robbed>>
  /\ UNCHANGED <<add_failed, vport_lock, vref_count>> /\ Rest

\* Takes the mutex and sleeps with it until nobody holds the port; then the
\* port leaves the list and its id is free.
deallocate_vp_id(v) ==
  /\ \/ /\ Mutex
        /\ Stage(v, "removed", "deleting")
        /\ vport_lock' = v
        /\ UNCHANGED <<vp_list, num_vhosts, vp_idx_map>>
     \/ /\ vref_count[v] = 0
        /\ Stage(v, "deleting", "unlisted")
        /\ vp_list' = RemoveAt(vp_list, Position(v))
        /\ num_vhosts' = num_vhosts - 1
        /\ vp_idx_map' = vp_idx_map \ {vp_idx[v]}
        /\ vport_lock' = NoPort
  /\ UNCHANGED <<max_npiv_vports, vp_idx, cur_vport_count, robbed>>
  /\ UNCHANGED <<add_failed, vref_count>> /\ Rest

\* Stops the timer, finds no reference left, and clears the bit of the id once
\* more, whoever has it by now.
vport_deleted(v) ==
  /\ v \notin add_failed
  /\ Mutex
  /\ Stage(v, "unlisted", "cleared")
  /\ cur_vport_count' = cur_vport_count - 1
  /\ vp_idx_map' = vp_idx_map \ {vp_idx[v]}
  /\ robbed' =
       robbed \cup {i \in {vp_idx[v]} : \E x \in Vports : Listed(x) /\ vp_idx[x] = i}
  /\ UNCHANGED <<max_npiv_vports, vp_idx, num_vhosts>>
  /\ UNCHANGED <<add_failed, vp_list, vport_lock, vref_count>> /\ Rest

\* Gives the last reference on the host back, which frees it.
host_put(v) ==
  /\ Stage(v, IF v \in add_failed THEN "unlisted" ELSE "cleared", "freed")
  /\ UNCHANGED <<add_failed, ids, vp_list, vport_lock, vref_count>> /\ Rest

--------------------------------------------------------------------------
(* Walking the list: the reference is taken and given back under           *)
(* vport_slock, and the successor is read in the same section.             *)

Quiet == UNCHANGED <<stage, add_failed, ids, vp_list, vport_lock>>

Add(refs, v, n) == IF v = NoPort THEN refs ELSE [refs EXCEPT ![v] = @ + n]
Move(w, to, refs) ==
  /\ vref_count' = Add(refs, to, 1)
  /\ at' = [at EXCEPT ![w] = to]

After(v) ==
  IF Position(v) = Len(vp_list) THEN NoPort ELSE vp_list[Position(v) + 1]

\* A walk starts.
walk(w) ==
  /\ at[w] = NoPort /\ vp_list # <<>>
  /\ Move(w, Head(vp_list), vref_count)
  /\ doing' = [doing EXCEPT ![w] = "begin"]
  /\ Quiet /\ UNCHANGED <<work_list, uses>>

Do(w, from, to) == at[w] # NoPort /\ doing[w] = from /\ doing' = [doing EXCEPT ![w] = to]
There(refs) == vref_count' = refs /\ Quiet /\ UNCHANGED <<at, uses>>

\* An event of the port posts work, for which alloc_work marks it busy: a
\* deletion under way turns it down, and so does a failed kzalloc.  The walker
\* holds the port itself, so that counting and looking may be one step here.
async_event ==
  LET v == at["alert_all_vps"]
  IN /\ Do("alert_all_vps", "begin", "end")
     /\ \/ There(vref_count) /\ UNCHANGED work_list
        \/ /\ ~delete_progress(v) /\ work_list[v] = 0   \* one at a time
           /\ There(Add(vref_count, v, 1))
           /\ work_list' = [work_list EXCEPT ![v] = 1]

\* The DPC thread does the posted work, and may resync the loop.
do_dpc_vp ==
  LET v == at["do_dpc_all_vps"]
  IN \/ /\ \E to \in {"resync", "end"} : Do("do_dpc_all_vps", "begin", to)
        /\ There(Add(vref_count, v, -work_list[v]))
        /\ work_list' = [work_list EXCEPT ![v] = 0]
     \/ Do("do_dpc_all_vps", "resync", "end") /\ There(vref_count) /\ UNCHANGED work_list

\* After a reset the port is disabled and enabled again, which take the mutex
\* as above.
vp_abort_isp ==
  LET v == at["abort_isp"]
  IN /\ \/ /\ \E to \in {"enabling", "end"} : Do("abort_isp", "begin", to)
           /\ ~control_vp_waits(v)
        \/ Mutex /\ Do("abort_isp", "enabling", "end")
     /\ There(vref_count) /\ UNCHANGED work_list

\* The walker goes on to the next port.
list_next(w) ==
  LET v == at[w]
      to == After(v)
  IN /\ v # NoPort /\ doing[w] = "end"
     /\ Move(w, to, Add(vref_count, v, -1))
     /\ doing' = [doing EXCEPT ![w] = IF to = NoPort THEN "none" ELSE "begin"]
     /\ Quiet /\ UNCHANGED <<work_list, uses>>

--------------------------------------------------------------------------
(* Commands.                                                               *)

Submit(u, v, g, n) ==
  /\ using' = [using EXCEPT ![u] = IF g = "none" THEN NoPort ELSE v]
  /\ got' = [got EXCEPT ![u] = g]
  /\ vref_count' = Add(vref_count, v, n)
  /\ Quiet /\ UNCHANGED <<work_list, walks>>

\* QLA_VHA_MARK_BUSY counts first and looks for a deletion then.
mark_busy(u) ==
  \E v \in Vports : using[u] = NoPort /\ Registered(v) /\ Submit(u, v, "marked", 1)

\* Slip: turned down in a deletion, the command stays counted.
get_spSlip(u) ==
  /\ got[u] = "marked"
  /\ \/ Submit(u, using[u], "none", IF delete_progress(using[u]) THEN 0 ELSE -1)
     \/ ~delete_progress(using[u]) /\ Submit(u, using[u], "sp", 0)

\* It counts back in a deletion, and get_sp does when the pool is empty.
get_sp(u) ==
  /\ got[u] = "marked"
  /\ \/ Submit(u, using[u], "none", -1)
     \/ ~delete_progress(using[u]) /\ Submit(u, using[u], "sp", 0)

rel_sp(u) == got[u] = "sp" /\ Submit(u, using[u], "none", -1)

--------------------------------------------------------------------------

Next ==
  \/ \E v \in Vports :
       \/ vport_create_req_sanity_check(v) \/ allocate_vp_id(v) \/ create_vhost(v)
       \/ vport_create(v) \/ vport_disable(v) \/ disable_vp(v) \/ vport_delete(v)
       \/ deallocate_vp_id(v) \/ vport_deleted(v) \/ host_put(v)
  \/ \E w \in Walkers : walk(w) \/ list_next(w)
  \/ async_event \/ do_dpc_vp \/ vp_abort_isp
  \/ \E u \in Users : mark_busy(u) \/ get_sp(u) \/ rel_sp(u)

Spec == Init /\ [][Next]_vars

--------------------------------------------------------------------------
(* Properties.                                                             *)

Stages == {"absent", "asked", "leaked", "listed", "counted", "added", "failing",
           "enabling", "live", "disabled", "progress", "removed", "deleting",
           "unlisted", "cleared", "freed"}

TypeOK ==
  /\ stage \in [Vports -> Stages] /\ add_failed \subseteq Vports
  /\ vp_idx \in [Vports -> {0} \cup Ids] /\ vp_idx_map \subseteq {0} \cup Ids
  /\ Range(vp_list) \subseteq Vports
  /\ num_vhosts \in Nat /\ cur_vport_count \in Nat
  /\ vport_lock \in Vports \cup {NoPort}
  /\ vref_count \in [Vports -> Nat] /\ work_list \in [Vports -> 0..1]
  /\ at \in [Walkers -> Vports \cup {NoPort}]
  /\ using \in [Users -> Vports \cup {NoPort}]

\* The references counted on a port are those its walkers, the posted work and
\* the commands hold: a deletion that waits, waits for one of them, and none is
\* counted back twice.
RefsAreHeld ==
  \A v \in Vports :
    vref_count[v] =
      Cardinality({w \in Walkers : at[w] = v})
      + work_list[v] + Cardinality({u \in Users : using[u] = v})

\* A port that is walked over, has work or a command is in the list: no walk
\* leaves the list at a removed port, and none is freed under its users.
UsedIsListed == \A v \in Vports : vref_count[v] > 0 => Listed(v)

\* Two ports of the list have different ids, and no id of the list is free,
\* unless the second clearing of a deletion has freed it.
IdsDiffer ==
  \A v \in {x \in Vports : Listed(x)} :
    \/ vp_idx[v] \in robbed
    \/ /\ vp_idx[v] \in vp_idx_map \ {0}
       /\ \A x \in Vports \ {v} : Listed(x) => vp_idx[x] # vp_idx[v]

\* The count that the unloading driver goes by is of the ports whose creation
\* came to counting and whose deletion did not, and of those that failed.
PortsAreCounted ==
  cur_vport_count =
    Cardinality(add_failed \cup
      {v \in Vports : stage[v] \notin {"absent", "asked", "leaked", "listed",
                                       "cleared", "freed"}})
=============================================================================
