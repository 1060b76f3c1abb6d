---------------------------- MODULE BsgRoutines ----------------------------
(***************************************************************************)
(* The pass-through requests of qla_bsg.c, as routines in the sense of     *)
(* Steps.  The transport hands the driver a job; the driver either calls   *)
(* job_done exactly once and returns zero, now or from the completion of   *)
(* the request it sent to the firmware, or it returns an error and the     *)
(* transport ends the job.                                                 *)
(***************************************************************************)
EXTENDS Steps

Maps == {"request map", "reply map"}
\* qla2x00_get_sp counts the request in vref_count; qla2x00_rel_sp undoes it.
Sp == {"vha reference", "srb"}

get_sp(exit) ==
  <<Get("vha reference", exit), Get("srb", And(exit, All({"vha reference"})))>>

\* Every request is turned away while the adapter is being reset.
Job(name, A) == [Routine(name, <<Try(None)>> \o A, {}, {}) EXCEPT !.job = TRUE]

\* A request that the completion handler answers and frees.
Sent(name, A, later) == [Job(name, A) EXCEPT !.later = later]

--------------------------------------------------------------------------
(* Requests that the firmware completes.                                   *)

\* The fcport is a dummy when the job comes through the host, the remote
\* port's own otherwise.
process_els(host) ==
  LET port == All(If(host, {"fcport"}))
      unmap == And(port, All(Maps))
  IN Sent(IF host THEN "els_host" ELSE "els_rport",
       <<Try(None), Try(None)>>
       \o (IF host THEN <<Get("fcport", None)>> ELSE <<Try(None)>>)
       \o <<Try(None), Get("request map", port), Get("reply map", port), Try(unmap)>>
       \o get_sp(unmap) \o <<Submit(And(unmap, All(Sp)))>>,
       Maps \cup Sp \cup If(host, {"fcport"}))

process_ct ==
  LET unmap == All(Maps)
      port == All(Maps \cup {"fcport"})
  IN Sent("ct",
       <<Get("request map", None), Get("reply map", None),
         Try(unmap), Try(unmap), Try(unmap), Get("fcport", unmap)>>
       \o get_sp(port) \o <<Submit(And(port, All(Sp)))>>,
       Maps \cup Sp \cup {"fcport"})

\* Answers the job whatever happens: the result is in the vendor response.
process_bidir_cmd ==
  LET answer == [None EXCEPT !.done = TRUE, !.zero = TRUE]
      unmap == And(answer, All(Maps))
      locked == And(answer, All({"selflogin lock"}))
  IN Sent("bidir",
       <<Try(answer), Try(answer), Take({"selflogin lock"}), Try(locked),
         Put(All({"selflogin lock"})), Get("request map", answer),
         Get("reply map", And(answer, All({"request map"}))), Try(unmap)>>
       \o get_sp(unmap) \o <<Submit(And(unmap, All({"srb"})))>>,
       Maps \cup Sp)

\* req and rsp: the flags of the request tell which payloads are mapped.
fx_mgmt_cmd(req, rsp) ==
  LET unreq == All(If(req, {"request map"}))
      unmap == And(unreq, All(If(rsp, {"reply map"})))
      port == And(unmap, All({"fcport"}))
  IN Sent("fx_mgmt",
       <<Try(None)>> \o When(req, <<Get("request map", None)>>)
       \o When(rsp, <<Get("reply map", unreq)>>)
       \o <<Get("fcport", unmap)>> \o get_sp(port)
       \o <<Submit(And(port, All({"srb"})))>>,
       If(req, {"request map"}) \cup If(rsp, {"reply map"}) \cup Sp \cup {"fcport"})

--------------------------------------------------------------------------
(* Requests carried out at once.                                           *)

\* Slip: the label that unmaps the request is left out.
loopback_testSlip(unmap) ==
  LET freereq == And(All({"reply map"}), All({"request buffer"}))
      freersp == And(freereq, All({"response buffer"}))
  IN <<Get("request buffer", unmap), Get("response buffer", freereq),
       Try(freersp), Put(freersp), JobDone>>

\* A test that fails is an answer like another; a failure to prepare it or
\* a reset of the loopback that the firmware asks for is an error.
loopback_test(unmap) ==
  LET freereq == And(unmap, All({"request buffer"}))
      freersp == And(freereq, All({"response buffer"}))
  IN <<Get("request buffer", unmap), Get("response buffer", freereq),
       Try(freersp), Put(freersp), JobDone>>

process_loopback ==
  Job("loopback",
      <<Try(None), Get("request map", None), Get("reply map", All({"request map"})),
        Try(All(Maps))>> \o loopback_test(All(Maps)))

reset84 == Job("84xx_reset", <<Try(None), Try(None), JobDone>>)

updatefw84 ==
  LET unmap == All({"request map"})
      freebuf == And(unmap, All({"fw buffer"}))
      freemn == And(freebuf, All({"iocb"}))
  IN Job("84xx_updatefw",
       <<Try(None), Get("request map", None), Try(unmap), Get("fw buffer", unmap),
         Get("iocb", freebuf), Try(freemn), Put(freemn), JobDone>>)

\* Slip: the buffer is freed without looking.
mgmt_cmd84Slip(cmd) ==
  LET exit == All({"iocb"})
      map == CASE cmd = "read" -> {"reply map"} [] cmd = "write" -> {"request map"}
               [] OTHER -> {}
      unmap == And(exit, All(map \cup {"management buffer"}))
  IN Job("84xx_mgmt",
       <<Try(None), Get("iocb", None)>>
       \o (CASE cmd = "read" ->
                  <<Get("reply map", exit), Try(unmap), Get("management buffer", unmap)>>
             [] cmd = "write" ->
                  <<Get("request map", exit), Try(unmap), Get("management buffer", unmap)>>
             [] cmd = "config" -> <<>>
             [] OTHER -> <<Refuse(exit)>>)
       \o <<Try(unmap), Put(unmap), JobDone>>)

\* Reading maps the reply, writing the request, a change of the
\* configuration nothing; an unknown command fails.
mgmt_cmd84(cmd) ==
  LET exit == All({"iocb"})
      map == CASE cmd = "read" -> {"reply map"} [] cmd = "write" -> {"request map"}
               [] OTHER -> {}
      unmap == And(exit, And(All(map), Some({"management buffer"})))
  IN Job("84xx_mgmt",
       <<Try(None), Get("iocb", None)>>
       \o (CASE cmd = "read" ->
                  <<Get("reply map", exit), Try(unmap), Get("management buffer", unmap)>>
             [] cmd = "write" ->
                  <<Get("request map", exit), Try(unmap), Get("management buffer", unmap)>>
             [] cmd = "config" -> <<>>
             [] OTHER -> <<Refuse(exit)>>)
       \o <<Try(unmap), Put(unmap), JobDone>>)

iidma == Job("iidma", <<Try(None), Try(None), Try(None), JobDone>>)

\* The configuration is kept for good; an invalid one is thrown away.
proc_fcp_prio_cfg_cmd(oper, present) ==
  LET cfg == {"fcp prio cfg"}
  IN [Job("fcp_prio",
          <<Try(None)>>
          \o (IF oper = "set"
              THEN <<Try(None)>> \o When(~present, <<Get("fcp prio cfg", None)>>)
                   \o <<Use(cfg), Try(All(cfg)), JobDone>>
              ELSE IF present THEN <<Try(None), Use(cfg), JobDone>>
                              ELSE <<Refuse(None)>>))
        EXCEPT !.enters = If(present, cfg), !.keeps = cfg]

\* Under optrom_mutex; the flash may be in use through sysfs, which keeps
\* the state and the buffer without the mutex.
optrom_setup(update, exit) ==
  <<Try(exit)>> \o When(update, <<Try(exit)>>)
  \o <<Get("optrom state", exit), Get("optrom buffer", And(exit, All({"optrom state"})))>>

Optrom == {"optrom mutex", "optrom state", "optrom buffer"}

\* Slip: a flash that has been written is not reported.
optromSlip(update) ==
  Job(IF update THEN "update_optrom" ELSE "read_optrom",
      When(~update, <<Try(None)>>)
      \o <<Take({"optrom mutex"})>> \o optrom_setup(update, All({"optrom mutex"}))
      \o <<Use(Optrom), Put(All(Optrom))>> \o When(~update, <<JobDone>>))

\* Reading is refused while the NIC core is being reset, writing is not.
optrom(update) ==
  Job(IF update THEN "update_optrom" ELSE "read_optrom",
      When(~update, <<Try(None)>>)
      \o <<Take({"optrom mutex"})>> \o optrom_setup(update, All({"optrom mutex"}))
      \o <<Use(Optrom), Put(All(Optrom)), JobDone>>)

\* The accesses to the transceiver and to the serdes answer the job whatever
\* happens; what went wrong is in the vendor response.
sfp_job(name) ==
  LET answer == [None EXCEPT !.done = TRUE, !.zero = TRUE]
      dealloc == And(answer, All({"sfp buffer"}))
  IN Job(name, <<Get("sfp buffer", answer), Try(dealloc),
                 Put(All({"sfp buffer"})), JobDone>>)

update_fru_versions == sfp_job("update_fru_versions")
read_fru_status == sfp_job("read_fru_status")
write_fru_status == sfp_job("write_fru_status")
write_i2c == sfp_job("write_i2c")
read_i2c == sfp_job("read_i2c")

serdes_op == Job("serdes_op", <<JobDone>>)
serdes_op_ex == Job("serdes_op_ex", <<JobDone>>)

--------------------------------------------------------------------------
(* All of them, as qla24xx_bsg_request and its vendor commands tell apart. *)

unsupported == Job("unsupported", <<Refuse(None)>>)

bsg_request ==
  {process_els(host) : host \in BOOLEAN}
  \cup {process_ct, process_bidir_cmd, process_loopback, reset84, updatefw84, iidma,
        unsupported}
  \cup {fx_mgmt_cmd(req, rsp) : req \in BOOLEAN, rsp \in BOOLEAN}
  \cup {mgmt_cmd84(cmd) : cmd \in {"read", "write", "config", "unknown"}}
  \cup {proc_fcp_prio_cfg_cmd(oper, present) : oper \in {"set", "other"}, present \in BOOLEAN}
  \cup {optrom(update) : update \in BOOLEAN}
  \cup {update_fru_versions, read_fru_status, write_fru_status, write_i2c, read_i2c,
        serdes_op, serdes_op_ex}
=============================================================================
