--------------------------- MODULE SetupRoutines ---------------------------
(***************************************************************************)
(* How an adapter is set up and torn down, as routines in the sense of     *)
(* Steps: qla2x00_probe_one with everything it calls that acquires         *)
(* memory, mappings or interrupts, the life of the adapter and             *)
(* qla2x00_remove_one; the queues of the multi-queue mode; virtual ports;  *)
(* the buffers of the firmware dump; the discovery requests of the         *)
(* ISPFX00.                                                                *)
(***************************************************************************)
EXTENDS Steps
LOCAL INSTANCE SequencesExt

Chips == {"2100", "2300", "2432", "8432", "2532", "8001", "8021", "8044",
          "2031", "8031", "2071", "FX00"}
P3p(c) == c \in {"8021", "8044"}
Fwi2(c) == c \notin {"2100", "2300", "FX00"}
Cna(c) == P3p(c) \/ c \in {"8001", "8031"}
Is83xx(c) == c \in {"2031", "8031"}
MsixCapable(c) == c \notin {"2100", "2300"}
MsiCapable(c) == MsixCapable(c) /\ ~Is83xx(c)
MqCapable(c) == c \in {"2532", "8001", "2031", "8031", "2071"}

--------------------------------------------------------------------------
(* Memory.                                                                 *)

\* The labels of qla2x00_mem_alloc, named as in the code, from the last to the
\* first; dif is the parameter ql2xenabledif.
mem_alloc_labels(c, dif) ==
  LET lists == c = "8021" \/ dif
      rungs ==
        <<<<"free_init_cb", All({"init_cb"})>>, <<"free_gid_list", All({"gid_list"})>>,
          <<"free_srb_mempool", All({"srb_mempool"})>>,
          <<"free_ctx_mempool", All({"ctx_mempool"})>>, <<"free_nvram", All({"nvram"})>>,
          <<"s_dma_pool", All({"s_dma_pool"})>>,
          <<"dl_dma_pool", All(If(lists, {"dl_dma_pool"}))>>,
          <<"dma_pool", All(If(lists, {"fcp_cmnd_dma_pool"}))>>,
          <<"free_ms_iocb", All({"ms_iocb"})>>, <<"req", All({"ct_sns"})>>,
          <<"req_ring", All({"req"})>>, <<"rsp", All({"req ring"})>>,
          <<"rsp_ring", All({"rsp"})>>, <<"npiv_info", All({"rsp ring"})>>,
          <<"ex_init_cb", Some({"npiv_info"})>>, <<"async_pd", All({"ex_init_cb"})>>>>
      upto(label) == SelectInSeq(rungs, LAMBDA rung : rung[1] = label)
  IN [label \in {rungs[i][1] : i \in DOMAIN rungs} |->
        FoldLeft(And, None, [i \in 1..upto(label) |-> rungs[i][2]])]

mem_alloc(c, dif, npiv) ==
  LET fail == mem_alloc_labels(c, dif)
  IN <<Get("init_cb", None), Get("gid_list", fail.free_init_cb),
       Get("srb_mempool", fail.free_gid_list)>>
     \o When(P3p(c), <<Try(fail.free_gid_list), Get("ctx_mempool", fail.free_srb_mempool)>>)
     \o <<Get("nvram", fail.free_ctx_mempool), Get("s_dma_pool", fail.free_nvram)>>
     \o When(P3p(c) \/ dif, <<Get("dl_dma_pool", fail.s_dma_pool),
                              Get("fcp_cmnd_dma_pool", fail.dl_dma_pool)>>)
     \o (IF c = "2100" THEN <<Get("sns_cmd", fail.dma_pool)>>
         ELSE <<Get("ms_iocb", fail.dma_pool), Get("ct_sns", fail.free_ms_iocb)>>)
     \o <<Get("req", fail.req), Get("req ring", fail.req_ring),
          Get("rsp", fail.rsp), Get("rsp ring", fail.rsp_ring)>>
     \o When(npiv, <<Get("npiv_info", fail.npiv_info)>>)
     \o When(Cna(c) \/ c \in {"2031", "2071"}, <<Get("ex_init_cb", fail.ex_init_cb)>>)
     \o When(~Fwi2(c), <<Get("async_pd", fail.async_pd)>>)
     \o <<Get("loop_id_map", fail.async_pd)>>

\* On its own: the caller uses what it leaves in req and rsp.
memory(c, dif) ==
  LET A == mem_alloc(c, dif, TRUE)
  IN Routine("mem_alloc " \o c, A, {}, UNION {A[i].res : i \in 1..Len(A)})

FwDump == {"fce", "eft", "fw_dump", "fw_dump_template"}
MinidumpBuffers == {"minidump template", "minidump"}

mem_free(c) ==
  FwDump \cup {"mctp_dump", "srb_mempool", "dcbx_tlv", "xgmac_data", "sns_cmd",
     "ct_sns", "sfp_data", "ms_iocb", "ex_init_cb", "async_pd", "s_dma_pool",
     "gid_list", "dl_dma_pool", "fcp_cmnd_dma_pool", "ctx_mempool", "init_cb",
     "optrom_buffer", "nvram", "npiv_info", "swl", "loop_id_map"}
  \cup If(c = "8021", {"dsd lists"})

\* Allocated when a sysfs file is read or a command needs them.
Runtime(c) ==
  {"sfp_data"} \cup If(P3p(c), {"dsd lists"})
  \cup If(c \in {"2432", "8432", "2532", "8021", "8044"}, {"fcp prio cfg"})
  \cup If(Cna(c) /\ ~P3p(c), {"xgmac_data"}) \cup If(c = "8031", {"mctp_dump"})

alloc_queues == <<Get("req_q_map", None), Get("rsp_q_map", All({"req_q_map"}))>>

Maps0 == {"req_q_map", "rsp_q_map"}
free_req_que0 == {"req", "req ring", "outstanding cmds"}
free_rsp_que0 == {"rsp", "rsp ring"}

--------------------------------------------------------------------------
(* PCI resources.                                                          *)

regions == <<Get("regions", None), Try(None)>>

\* db: ql2xdbwr selects a doorbell in a mapping of its own.
iospace_82xx(db) ==
  regions \o <<Get("nx map", None)>> \o When(db, <<Get("doorbell map", None)>>)

iospace_fx00 == regions \o <<Get("cregbase", None), Try(None), Get("iobase", None)>>

iospace_83xx ==
  regions \o <<Get("iobase", None)>>
  \o Attempt(<<Get("mqiobase", None), Get("msixbase", None)>>)

iospace_2x00(mq) ==
  regions \o <<Get("iobase", None)>> \o When(mq, Attempt(<<Get("mqiobase", None)>>))

iospace_config(c, mq, db) ==
  CASE P3p(c) -> iospace_82xx(db)
    [] c = "FX00" -> iospace_fx00
    [] Is83xx(c) \/ c = "2071" -> iospace_83xx
    [] OTHER -> iospace_2x00(mq /\ MqCapable(c))

disable_msix ==
  Some({"msix", "msix entries", "default irq", "rsp irq", "queue irq 1"})

enable_msix ==
  LET msix_out == All({"entries"})
  IN <<Get("entries", None), Get("msix", msix_out), Get("msix entries", msix_out),
       Get("default irq", And(msix_out, disable_msix)),
       Get("rsp irq", And(msix_out, disable_msix)), Put(msix_out)>>

\* The 82xx does without the line interrupt: there it needs MSI.
request_irqs(c, exit) ==
  LET line == <<Get("line irq", exit)>>
      skip_msix ==
        IF c = "8021"
        THEN <<Get("msi", exit)>> \o line
        ELSE When(MsiCapable(c), Attempt(<<Get("msi", None)>>)) \o line
  IN IF MsixCapable(c) THEN OrElse(enable_msix, skip_msix) ELSE line

--------------------------------------------------------------------------
(* Further queues.                                                         *)

\* dma_free_coherent is called whether the ring is there or not; after a
\* failure of the firmware the bit of the queue is cleared twice, in two
\* critical sections.
create_req_que(q) ==
  LET ring == "req ring " \o q
      que_failed == And(All({"req " \o q, ring}), Some({"outstanding cmds " \o q}))
      bits == All({"req bit " \o q, "req bit given back before " \o q})
  IN <<Get("req " \o q, None), Get(ring, que_failed),
       Get("outstanding cmds " \o q, que_failed),
       Get("req bit " \o q, que_failed), Try(And(que_failed, bits))>>

create_rsp_que(q) ==
  LET que_failed == All({"rsp " \o q, "rsp ring " \o q})
      bit == All({"rsp bit " \o q})
      irq == Some({"queue irq " \o q})
      bits == And(bit, All({"rsp bit given back before " \o q}))
  IN <<Get("rsp " \o q, None), Get("rsp ring " \o q, que_failed),
       Get("rsp bit " \o q, que_failed),
       Get("queue irq " \o q, And(que_failed, bit)),
       Try(And(And(que_failed, bits), irq))>>

Queue1 == {"req 1", "req ring 1", "outstanding cmds 1", "req bit 1"}
RspQueue1 == {"rsp 1", "rsp ring 1", "rsp bit 1", "queue irq 1"}

\* Slip: the arrays are kept when the response queue fails.
setup_modeSlip ==
  LET fail == All(Maps0)
      fail2 == And(Hope(Queue1), All({"wq"}))
  IN <<Try(fail)>> \o Within(create_req_que("1"), fail)
     \o Attempt(<<Get("wq", None)>>) \o Within(create_rsp_que("1"), fail2)

\* One request queue and one response queue more.  Whether the firmware
\* gives back the queues of a mode that is left decides whether they are
\* freed before the arrays that lead to them.
setup_mode ==
  LET fail == All(Maps0)
      fail2 == And(fail, And(Hope(Queue1), All({"wq"})))
  IN <<Try(fail)>> \o Within(create_req_que("1"), fail)
     \o Attempt(<<Get("wq", None)>>) \o Within(create_rsp_que("1"), fail2)

--------------------------------------------------------------------------
(* qla2x00_probe_one and qla2x00_remove_one.                               *)

queues0 == Maps0 \cup free_req_que0 \cup free_rsp_que0

\* The rings of the ISPFX00 are found through pointers that are saved while
\* the adapter is initialised; saved tells the two cases apart.
free_device(c, saved) ==
  And(Irqs, Some(Queue1 \cup RspQueue1 \cup {"firmware rings"} \cup mem_free(c)
                 \cup MinidumpBuffers
                 \cup (queues0 \ If(c = "FX00" /\ ~saved, {"req ring", "rsp ring"}))))

iospace_config_failed(c, db) ==
  And(All({"pci device", "ha", "regions"}),
      Some(IF P3p(c) THEN If(db, {"doorbell map"}) ELSE {"iobase", "cregbase"}))

probe_hw_failed(c, db) ==
  And(iospace_config_failed(c, db), Some(If(P3p(c), {"drv active"})))

probe_failed(c, db, saved) ==
  And(And(probe_hw_failed(c, db), free_device(c, saved)),
      And(All({"host"}), Some({"timer", "dpc thread"})))

\* The arrays no longer lead to the queues, so that free_irqs does nothing.
probe_init_failed(c, db) ==
  [probe_failed(c, db, FALSE) EXCEPT !.irqs = FALSE]

\* isp_ops->initialize_adapter.  Of the 8031 only the result of the last step,
\* loading the firmware of the NIC core, is returned; qla84xx_init_chip
\* releases the shared state on failure, a failure before it does not.
initialize_adapter(c, unsaved, exit) ==
  IF c = "FX00"
  THEN <<Try(unsaved), Try(unsaved), Try(exit), Get("outstanding cmds", exit),
         Get("firmware rings", exit)>>
  ELSE LET init_rings == IF c = "8031" THEN Attempt(<<Get("firmware rings", None)>>)
                         ELSE <<Get("firmware rings", exit)>>
       IN <<Try(exit), Try(exit)>>
          \o When(P3p(c), <<Maybe({"drv active"}), Maybe(MinidumpBuffers)>>)
          \o <<Try(exit), Maybe({"outstanding cmds"}), Maybe({"fw_dump", "eft"}),
               Try(exit), Take({"outstanding cmds"})>>
          \o When(c = "8432", <<Get("cs84xx", exit)>>)
          \o init_rings
          \o When(c = "8432", <<Try(And(exit, All({"cs84xx"})))>>)
          \o When(c = "8031", <<Maybe({"drv presence"}), Try(exit)>>)
          \o When(c \in {"2432", "8432", "2532"}, <<Maybe({"fcp prio cfg"})>>)

\* The path that is taken again when the further queues cannot be set up.
que_init(c, db) ==
  Attempt(alloc_queues) \o request_irqs(c, probe_init_failed(c, db))
  \o <<Use(Maps0)>>
  \o initialize_adapter(c, probe_failed(c, db, FALSE), probe_failed(c, db, TRUE))

unmap_iobases(c, db) ==
  IF c = "8021" THEN {"nx map"} \cup If(db, {"doorbell map"})
  ELSE {"iobase", "cregbase", "mqiobase"} \cup If(Is83xx(c) \/ c = "2071", {"msixbase"})
       \cup If(c = "8044", {"nx map"})   \* iobase is nx_pcibase

remove_one(c, db) ==
  And(And(free_device(c, TRUE), All({"host", "regions", "ha", "pci device"})),
      Some({"cs84xx", "timer", "wq", "dpc_lp_wq", "dpc_hp_wq", "dpc thread", "scsi host"}
           \cup If(P3p(c), {"drv active"}) \cup If(c = "8031", {"drv presence"})
           \cup unmap_iobases(c, db)))

\* The whole life of an adapter.  mq: ql2xmultique_tag is set; db: ql2xdbwr
\* selects a doorbell of its own; npiv: the flash describes virtual ports.
probe_one(c, dif, npiv, mq, db) ==
  LET failed == probe_failed(c, db, TRUE)
      no_host == And(probe_hw_failed(c, db), Some(mem_free(c) \cup (queues0 \ Maps0)))
  IN Routine("probe_one " \o c,
       <<Get("pci device", All({"pci device"})), Get("ha", All({"pci device"}))>>
       \o Within(iospace_config(c, mq, db), iospace_config_failed(c, db))
       \o Attempt(mem_alloc(c, dif, npiv)) \o <<Use({"req", "rsp"})>>
       \o <<Get("host", no_host)>>
       \o que_init(c, db)
       \o When(mq /\ MqCapable(c),
               Given("mqiobase", Given("msix entries", OrElse(setup_mode, que_init(c, db)))))
       \o <<Get("dpc thread", And(failed, All({"dpc thread"})))>>
       \o When(c \in {"8031", "2031"}, Attempt(<<Get("dpc_lp_wq", None)>>)
                                       \o Attempt(<<Get("dpc_hp_wq", None)>>))
       \o <<Take({"timer"}), Get("scsi host", failed), Use({"firmware rings"}),
            Maybe(Runtime(c)), Put(remove_one(c, db))>>,
       {}, {})

--------------------------------------------------------------------------
(* Virtual ports.                                                          *)

create_vhost ==
  <<Get("host", None), Get("vp id", None), Take({"timer", "vport count"})>>

\* qos: the flash gives the port a request queue of its own, which it may do
\* without.
vport_create(qos) ==
  LET failed_2 == All({"vp id", "host"})
  IN Routine("vport_create",
       <<Try(None)>> \o create_vhost \o <<Get("scsi host", failed_2)>>
       \o When(qos, Attempt(create_req_que("1"))),
       {}, {"host", "vp id", "timer", "vport count", "scsi host"} \cup Queue1)

vport_delete(qos) ==
  LET port == {"host", "vp id", "timer", "vport count", "scsi host"}
  IN Routine("vport_delete",
       <<Put(And(All(port), Hope(If(qos, Queue1))))>>,
       port \cup If(qos, Queue1), {})

--------------------------------------------------------------------------
(* Buffers of the firmware dump.                                           *)

Traces(c) == {"eft"} \cup If(c \in {"2532", "8001", "2031", "8031", "2071"}, {"fce"})

\* Called again it frees the trace it had and forgets to clear the pointer.
alloc_traces(c, again) ==
  LET trace(t) == <<Put(All(If(again, {t})))>> \o Attempt(<<Get(t, None), Try(All({t}))>>)
  IN When("fce" \in Traces(c), trace("fce")) \o trace("eft")

\* qla2x00_alloc_fw_dump, and the free_fw_dump of the end.
alloc_fw_dump(c, again) ==
  LET fail == IF again THEN All(Traces(c)) ELSE Some(Traces(c))
  IN Routine(IF again THEN "alloc_fw_dump again" ELSE "alloc_fw_dump",
       alloc_traces(c, again) \o When(c = "2071", Past(<<Try(None)>>, 1))
       \o <<Get("fw_dump", fail), Put(And(Some({"fw_dump"}), fail))>>,
       If(again, Traces(c)), Traces(c))

md_prep ==
  Routine("md_prep",
    <<Try(None), Get("minidump template", None),
      Get("minidump", All({"minidump template"}))>>,
    {}, MinidumpBuffers)

--------------------------------------------------------------------------
(* qlafx00_fx_disc: sp->free is set by qla2x00_init_timer.                 *)

fx_disc(req, rsp) ==
  LET done_free_sp == All({"sp->free", "vha reference", "srb"})
      done_unmap_req == And(done_free_sp, Some({"request data"}))
      done_unmap_dma == And(done_unmap_req, Some({"response data"}))
  IN Routine("fx_disc",
       <<Get("vha reference", None), Get("srb", All({"vha reference"}))>>
       \o When(req, <<Get("request data", done_free_sp)>>)
       \o When(rsp, <<Get("response data", done_unmap_req)>>)
       \o <<Take({"sp->free"}), Try(done_unmap_dma), Try(done_unmap_dma), Put(done_unmap_dma)>>,
       {}, {})

--------------------------------------------------------------------------
\* Every chip, and the parameters where they make a difference.
Probed ==
  [c : Chips, dif : {FALSE}, mq : {FALSE}, db : {FALSE}]
  \cup [c : {"2532", "8031"}, dif : {FALSE}, mq : {TRUE}, db : {FALSE}]
  \cup [c : {"8021", "8044"}, dif : {FALSE}, mq : {FALSE}, db : {TRUE}]
  \cup [c : {"2300", "8044"}, dif : {TRUE}, mq : {FALSE}, db : {FALSE}]

setup_routines ==
  {memory(c, dif) : c \in Chips, dif \in BOOLEAN}
  \cup {probe_one(p.c, p.dif, ~p.dif, p.mq, p.db) : p \in Probed}
  \cup {vport_create(qos) : qos \in BOOLEAN} \cup {vport_delete(qos) : qos \in BOOLEAN}
  \cup {alloc_fw_dump(c, FALSE) : c \in {"2432", "2532", "2071"}}
  \cup {alloc_fw_dump("2071", TRUE), md_prep}
  \cup {fx_disc(req, rsp) : req \in BOOLEAN, rsp \in BOOLEAN}
=============================================================================
