-------------------------- MODULE MbxCommands --------------------------
(***************************************************************************)
(* The wrappers around the mailbox: what each command of qla_mbx.c writes  *)
(* into its mbx_cmd_t, which registers it tells qla2x00_mailbox_command to *)
(* load (out_mb) and to bring back (in_mb), and which it hands on to its   *)
(* caller.                                                                 *)
(*                                                                         *)
(* The mbx_cmd_t lies on the stack and is not cleared: a register that is  *)
(* loaded without having been written carries garbage to the firmware, and *)
(* one that is handed on without having been brought back carries garbage  *)
(* to the driver.  Which registers exist depends on the chip: the 2100 has *)
(* eight, the 2200 twenty-four, the others thirty-two.                     *)
(*                                                                         *)
(* Values are abstracted to where they come from.  Registers are numbers;  *)
(* p is the set of options of a call that its wrapper tells apart.         *)
(***************************************************************************)
EXTENDS Integers

CONSTANTS
  MbxChips       \* adapters the module is checked for

VARIABLES
  chip,     \* the adapter
  call,     \* the wrapper under way, as described below, or NoCall
  phase,    \* how far it is
  unset,    \* registers of its mcp->mb that hold what the stack held
  loaded,   \* mailbox registers of the chip written from mcp->mb
  rval,     \* result of qla2x00_mailbox_command, then of the wrapper
  iocb,     \* what the firmware wrote into the IOCB it was given
  buffer,   \* the wrapper holds a buffer of the DMA pool
  given     \* registers handed on to the caller

vars == <<chip, call, phase, unset, loaded, rval, iocb, buffer, given>>

Reg == 0..31
AllChips == {"2100", "2200", "2300", "2322", "2422", "8432", "2532", "8001",
             "8021", "2031", "8031", "8044", "2071"}

MbxCommandsAssumption == MbxChips \subseteq AllChips

\* Families, as the IS_... macros group them.
Fwi2(c) == c \notin {"2100", "2200", "2300", "2322"}
ExtendedIds(c) == c \notin {"2100", "2200"}
P3p(c) == c \in {"8021", "8044"}
Cna(c) == P3p(c) \/ c \in {"8001", "8031"}
Is24xxType(c) == c \in {"2422", "8432"}
Is83xx(c) == c \in {"2031", "8031"}
Is27xx(c) == c = "2071"
Iidma(c) == Fwi2(c) /\ ~P3p(c)
MbxCount(c) == CASE c = "2100" -> 8 [] c = "2200" -> 24 [] OTHER -> 32

\* Options of the calls.
Options == {"far address", "ex init cb", "response queue", "npiv", "range",
            "sector size", "mctp firmware"}

--------------------------------------------------------------------------
(* Description of a wrapper: does it issue the command on this chip at     *)
(* all, the registers it sets, out_mb, in_mb, the registers handed on      *)
(* after success and those handed on whatever the result; wild says that   *)
(* it adds its bits to an out_mb nobody has set, dma that it takes a       *)
(* buffer of the pool.  A wrapper that hands an IOCB to the firmware names *)
(* in bad the parts of the answer, of the entry status and the completion  *)
(* status, whose errors it turns into a failure.                           *)

If(b, S) == IF b THEN S ELSE {}

Mbx(n, runs, set, out, in, ok) ==
  [name |-> n, runs |-> runs, set |-> set, out |-> out, in |-> in,
   ok |-> ok, any |-> {}, wild |-> FALSE, dma |-> FALSE, bad |-> {},
   again |-> FALSE]

\* Most wrappers send just what they have set.
Sends(n, runs, out, in, ok) == Mbx(n, runs, out, out, in, ok)

load_ram(c, p) ==
  Sends("load_ram", TRUE,
        {0, 1, 2, 3, 4, 6, 7} \cup If(Fwi2(c), {5})
          \cup If(Fwi2(c) \/ "far address" \in p, {8}), {0}, {})

execute_fw(c, p) ==
  Sends("execute_fw", TRUE,
        {0, 1} \cup If(Fwi2(c), {2, 3, 4}) \cup If(c = "2322", {2}),
        {0} \cup If(Fwi2(c), {1}), {})

\* Registers with the versions of the MPI and of the PHY.
HasMpiVersion(c) == c \in {"8001", "8031", "8044"}

\* Slip: the version of the MPI handed on for all converged adapters.
get_fw_versionSlip(c, p) ==
  Sends("get_fw_version", TRUE, {0},
        0..6 \cup If(HasMpiVersion(c), 8..13) \cup If(Fwi2(c), 15..17),
        {1, 2, 3, 6} \cup If(Cna(c), 8..13) \cup If(Fwi2(c), 15..17))

get_fw_version(c, p) ==
  LET in == 0..6 \cup If(HasMpiVersion(c), 8..13) \cup If(Fwi2(c), 15..17)
              \cup If(Is27xx(c), 18..21)
  IN Sends("get_fw_version", TRUE, {0}, in,
           {1, 2, 3, 6} \cup If(c \notin {"2100", "2200"}, {4, 5})
             \cup If(HasMpiVersion(c), 8..13) \cup If(Fwi2(c), 15..17)
             \cup If(Is27xx(c), 18..21))

get_fw_options(c, p) == Sends("get_fw_options", TRUE, {0}, 0..3, 0..3)

set_fw_options(c, p) ==
  [Sends("set_fw_options", TRUE, 0..3 \cup If(~Fwi2(c), 10..12),
         {0} \cup If(Fwi2(c), {1}), {}) EXCEPT !.any = {0}]

mbx_reg_test(c, p) == Sends("mbx_reg_test", TRUE, 0..7, 0..7, 1..7)

verify_checksum(c, p) ==
  LET more == {1} \cup If(Fwi2(c), {2})
  IN Sends("verify_checksum", TRUE, {0} \cup more, {0} \cup more, {})

\* The mailbox command under every IOCB wrapper.
issue_iocb_timeout(n, runs, bad) ==
  [Sends(n, runs, {0, 1, 2, 3, 6, 7}, {0, 2}, {})
     EXCEPT !.dma = TRUE, !.bad = bad]

abort_command(c, p) ==
  Sends("abort_command", ~Fwi2(c), {0, 1, 2, 3, 6}, {0}, {})

abort_target(c, p) ==
  Sends("abort_target", ~Fwi2(c),
        {0, 1, 2, 9} \cup If(ExtendedIds(c), {10}), {0}, {})

lun_reset(c, p) == Sends("lun_reset", ~Fwi2(c), {0, 1, 2, 3, 9}, {0}, {})

get_adapter_id(c, p) ==
  [Sends("get_adapter_id", TRUE, {0, 9},
         {0, 1, 2, 3, 6, 7, 9} \cup If(Cna(c), 10..13) \cup If(Fwi2(c), 16..19),
         If(Cna(c), 9..13) \cup If(Fwi2(c), 16..19))
     EXCEPT !.any = {1, 2, 3, 6, 7}]

get_retry_cnt(c, p) == Sends("get_retry_cnt", TRUE, {0}, 0..3, {1, 3})

init_firmware(c, p) ==
  Sends("init_firmware", TRUE,
        {0, 1, 2, 3, 6, 7} \cup If("ex init cb" \in p, 10..14),
        0..2 \cup If(Is83xx(c) \/ Is27xx(c), {3}), {})

\* The answer lies in a buffer; loop id and options share mb[1] on old chips.
get_port_database(c, p) ==
  [Sends("get_port_database", TRUE,
         {0, 1, 2, 3, 6, 7, 9} \cup If(ExtendedIds(c), {10}),
         {0} \cup If(Fwi2(c), {1}), {}) EXCEPT !.dma = TRUE]

get_firmware_state(c, p) ==
  LET in == {1} \cup If(Fwi2(c), 2..6)
  IN [Sends("get_firmware_state", TRUE, {0}, {0} \cup in, {})
        EXCEPT !.any = in]

get_port_name(c, p) ==
  Sends("get_port_name", TRUE, {0, 1, 9} \cup If(ExtendedIds(c), {10}),
        {0, 1, 2, 3, 6, 7}, {2, 3, 6, 7})

link_initialize(c, p) ==
  Sends("link_initialize", Fwi2(c) /\ ~Cna(c), 0..3, {0}, {})

lip_reset(c, p) ==
  Sends("lip_reset", TRUE,
        0..2 \cup If(~Cna(c), {3}) \cup If(~Fwi2(c) /\ ExtendedIds(c), {10}),
        {0}, {})

send_sns(c, p) == Sends("send_sns", TRUE, {0, 1, 2, 3, 6, 7}, {0, 1}, {})

login_fabric(c, p) ==
  [Sends("login_fabric", ~Fwi2(c), 0..3 \cup If(ExtendedIds(c), {10}),
         {0, 1, 2, 6, 7}, {}) EXCEPT !.any = {0, 1, 2, 6, 7}]

login_local_device(c, p) ==
  [Sends("login_local_device", ~Fwi2(c), 0..2, {0, 1, 6, 7}, {})
     EXCEPT !.any = {0, 1, 6, 7}]

fabric_logout(c, p) ==
  Sends("fabric_logout", ~Fwi2(c), {0, 1} \cup If(ExtendedIds(c), {10}),
        {0, 1}, {})

full_login_lip(c, p) == Sends("full_login_lip", TRUE, 0..3, {0}, {})

get_id_list(c, p) ==
  Sends("get_id_list", TRUE,
        {0, 2, 3, 6} \cup (IF Fwi2(c) THEN {7, 8, 9} ELSE {1}), {0, 1}, {1})

get_resource_cnts(c, p) ==
  Sends("get_resource_cnts", TRUE, {0},
        {0, 1, 2, 3, 6, 7, 10, 11}
          \cup If(c = "8001" \/ Is83xx(c) \/ Is27xx(c), {12}),
        {3, 6, 7, 10} \cup If("npiv" \in p /\ Fwi2(c), {11})
          \cup If(c = "8001" \/ Is83xx(c), {12}))

get_fcal_position_map(c, p) ==
  [Sends("get_fcal_position_map", TRUE, {0, 2, 3, 6, 7}, {0, 1}, {})
     EXCEPT !.dma = TRUE]

get_link_status(c, p) ==
  Sends("get_link_status", TRUE,
        {0, 1, 2, 3, 6, 7} \cup If(Fwi2(c), {4}) \cup If(ExtendedIds(c), {10}),
        {0} \cup If(Fwi2(c), {1}), {})

get_isp_stats(c, p) ==
  Sends("get_isp_stats", Fwi2(c), {0, 2, 3} \cup 6..10, 0..2, {})

system_error(c, p) ==
  Sends("system_error", Fwi2(c) \/ c \in {"2300", "2322"}, {0}, {0}, {})

write_serdes_word(c, p) ==
  Sends("write_serdes_word", c = "2031", 0..3, {0}, {})

read_serdes_word(c, p) ==
  [Sends("read_serdes_word", c = "2031", {0, 1, 3}, {0, 1}, {})
     EXCEPT !.any = {1}]

write_8044_serdes(c, p) ==
  Sends("8044_write_serdes_word", c = "8044", {0, 1, 3, 4, 5, 6}, {0}, {})

read_8044_serdes(c, p) ==
  [Sends("8044_read_serdes_word", c = "8044", {0, 1, 3, 4}, 0..2, {})
     EXCEPT !.any = {1, 2}]

set_serdes_params(c, p) == Sends("set_serdes_params", TRUE, 0..4, {0}, {})

stop_firmware(c, p) == Sends("stop_firmware", Fwi2(c), {0, 1}, {0}, {})

enable_eft_trace(c, p) ==
  Sends("enable_eft_trace", Fwi2(c), 0..7, {0, 1}, {})

disable_eft_trace(c, p) ==
  Sends("disable_eft_trace", Fwi2(c), {0, 1}, {0, 1}, {})

HasFce(c) == c \in {"2532", "8001"} \/ Is83xx(c) \/ Is27xx(c)

\* Eight registers are copied for the dump, seven were asked for.
enable_fce_trace(c, p) ==
  Sends("enable_fce_trace", HasFce(c), 0..10, 0..6, 0..7)

disable_fce_trace(c, p) ==
  Sends("disable_fce_trace", Fwi2(c), 0..2, 0..9, 2..9)

get_idma_speed(c, p) ==
  [Sends("get_idma_speed", Iidma(c), {0, 1, 2, 3, 9}, {0, 1, 3}, {})
     EXCEPT !.any = {0, 1, 3}]

set_idma_speed(c, p) ==
  [Sends("set_idma_speed", Iidma(c), {0, 1, 2, 3, 9}, {0, 1, 3}, {})
     EXCEPT !.any = {0, 1, 3}]

send_change_request(c, p) ==
  Sends("send_change_request", "npiv" \in p, {0, 1, 9}, {0, 1}, {})

dump_ram(c, p) ==
  Sends("dump_ram", TRUE,
        {0, 1, 2, 3, 4, 6, 7} \cup If(Fwi2(c), {5})
          \cup If(Fwi2(c) \/ "far address" \in p, {8}), {0}, {})

Wide(c) == Is83xx(c) \/ Is27xx(c)

QueueAnswer(c) ==
  {0} \cup If(c = "8001" \/ Wide(c), {1}) \cup If(Wide(c), 7..9)

\* Loads 0 to 14, but writes 10 only with a response queue and 14 never.
init_req_que(c, p) ==
  LET wide == If(Wide(c), {15})
  IN Mbx("init_req_que", TRUE,
         0..9 \cup 11..13 \cup If("response queue" \in p, {10}) \cup wide,
         0..14 \cup wide, QueueAnswer(c), {})

\* Newer chips also load 10 to 12, which nobody has written.
init_rsp_que(c, p) ==
  LET set == 0..9 \cup {13, 14}
  IN Mbx("init_rsp_que", TRUE, set \cup If(Wide(c), {15}),
         set \cup If(c = "8001" \/ Wide(c), 10..12) \cup If(Wide(c), {15}),
         QueueAnswer(c), {})

idc_ack(c, p) == Sends("idc_ack", TRUE, 0..7, {0}, {})

HasFac(c) == c = "8001" \/ Wide(c)

fac_get_sector_size(c, p) ==
  Sends("fac_get_sector_size", HasFac(c), {0, 1}, {0, 1}, {1})

fac_do_write_enable(c, p) ==
  Sends("fac_do_write_enable", HasFac(c), {0, 1}, {0, 1}, {})

fac_erase_sector(c, p) ==
  Sends("fac_erase_sector", HasFac(c), 0..5, 0..2, {})

restart_mpi_firmware(c, p) ==
  Sends("restart_mpi_firmware", c = "8001" \/ Wide(c), {0}, {0, 1}, {})

set_82xx_version(c, p) ==
  Sends("82xx_set_driver_version", P3p(c), {0, 1} \cup 4..15, {0, 1}, {})

set_25xx_version(c, p) ==
  [Sends("25xx_set_driver_version",
         Fwi2(c) /\ ~Is24xxType(c) /\ c # "8001" /\ ~P3p(c),
         {0, 1, 2, 3, 6, 7}, {0, 1}, {}) EXCEPT !.dma = TRUE]

read_asic_temperature(c, p) ==
  [Sends("read_asic_temperature", Fwi2(c), {0, 1}, {0, 1}, {})
     EXCEPT !.any = {1}]

read_sfp(c, p) ==
  [Sends("read_sfp", Fwi2(c), 0..3 \cup 6..10, {0, 1}, {})
     EXCEPT !.any = {1}]

write_sfp(c, p) ==
  Sends("write_sfp", Fwi2(c), 0..3 \cup 6..10, {0, 1}, {})

get_xgmac_stats(c, p) ==
  Sends("get_xgmac_stats", Cna(c), {0, 2, 3, 6, 7, 8}, 0..2, {2})

get_dcbx_params(c, p) ==
  Sends("get_dcbx_params", Cna(c), {0, 1, 2, 3, 6, 7, 8}, 0..2, {})

read_ram_word(c, p) ==
  Sends("read_ram_word", Fwi2(c), {0, 1, 8}, {0, 2, 3}, {2, 3})

write_ram_word(c, p) ==
  Sends("write_ram_word", Fwi2(c), {0, 1, 2, 3, 8}, {0}, {})

\* The two tests clear their mbx_cmd_t first and copy all of it back.
loopback_test(c, p) ==
  [Mbx("loopback_test", TRUE, Reg,
       {0, 1, 6, 7} \cup 10..21 \cup If(Cna(c), {2}),
       0..3 \cup {18, 19}, {})
     EXCEPT !.any = Reg]

echo_test(c, p) ==
  [Mbx("echo_test", TRUE, Reg,
       {0, 1, 6, 7, 10, 14, 15, 16, 17, 20, 21} \cup If(Cna(c), {2}),
       {0} \cup If(Is24xxType(c) \/ c \in {"2532", "2031"} \/ Cna(c), {1})
           \cup If(Cna(c) \/ c = "2031", {3}), {})
     EXCEPT !.any = Reg]

reset_84xx_chip(c, p) ==
  Sends("84xx_reset_chip", c = "8432", {0, 1}, {0, 1}, {})

get_data_rate(c, p) ==
  Sends("get_data_rate", Fwi2(c), {0, 1},
        0..2 \cup If(Wide(c), {3}), {1})

get_port_config(c, p) ==
  Sends("get_port_config", c \in {"8001", "8044"} \/ Wide(c), {0}, 0..4, 1..4)

set_port_config(c, p) == Sends("set_port_config", TRUE, 0..4, {0}, {})

\* Register 3 is loaded although the priority lies in register 4.
set_fcp_prio(c, p) ==
  [Mbx("set_fcp_prio", Is24xxType(c) \/ c = "2532",
       {0, 1, 2, 4, 9}, 0..4 \cup {9}, {0, 1, 3, 4}, {})
     EXCEPT !.any = {0, 1, 3, 4}]

mbx_intr_enable(c, p) ==
  Sends("82xx_mbx_intr_enable", Fwi2(c), {0, 1}, {0}, {})

mbx_intr_disable(c, p) ==
  Sends("82xx_mbx_intr_disable", P3p(c), {0, 1}, {0}, {})

beacon_ctl(c, p) == Sends("82xx_mbx_beacon_ctl", P3p(c), {0, 7}, {0}, {})

configure_vfs(c, p) ==
  LET set == {0, 1, 2, 3, 6, 7}
  IN Mbx("configure_vfs", Is83xx(c), set, 0..10, set, {})

md_get_template_size(c, p) ==
  Mbx("md_get_template_size", P3p(c), Reg, 0..3, 0..14, {2, 3})

md_get_template(c, p) ==
  Mbx("82xx_md_get_template", c = "8021", Reg, 0..11, 0..3, {})

md_get_8044_template(c, p) ==
  Mbx("8044_md_get_template", c = "8044", Reg, 0..11, 0..3, {})

set_led_config(c, p) ==
  Sends("set_led_config", c \in {"8001", "8031"},
        0..2 \cup If(c = "8031", 3..6), {0}, {})

get_led_config(c, p) ==
  LET in == 1..2 \cup If(c = "8031", 3..6)
  IN Sends("get_led_config", c \in {"8001", "8031"}, {0}, {0} \cup in, in)

wr_reg(c, p) == Sends("83xx_wr_reg", Wide(c), 0..4, {0, 1}, {})

rd_reg(c, p) == Sends("83xx_rd_reg", Wide(c), 0..2, {0, 1, 3, 4}, {3, 4})

\* Slip: register 10 loaded on the assumption that extended ids set it.
port_logoutSlip(c, p) ==
  Mbx("port_logout", ExtendedIds(c), {0, 1}, {0, 1, 10}, {0}, {})

port_logout(c, p) ==
  Sends("port_logout", ExtendedIds(c), {0, 1, 10}, {0}, {})

restart_nic_firmware(c, p) ==
  Sends("83xx_restart_nic_firmware", Is83xx(c), {0}, {0, 1}, {})

access_control(c, p) ==
  Sends("83xx_access_control", c = "8031",
        {0, 1} \cup If("range" \in p, 2..5),
        0..2 \cup If({"range", "sector size"} \cap p = {}, {3, 4}),
        If("sector size" \in p, {1}))

\* Its bits are or-ed to an out_mb that nobody has set.
dump_mctp_data(c, p) ==
  [Mbx("dump_mctp_data", c = "2031" /\ "mctp firmware" \in p, Reg,
       0..8 \cup {10}, {0}, {})
     EXCEPT !.wild = TRUE]

--------------------------------------------------------------------------
(* IOCBs sent through the mailbox: the entry lies in a buffer of the pool, *)
(* and the firmware writes its answer over it.                             *)

Answers == {"entry", "completion"}

\* A login reports a failed completion in mb[0], which its callers look at.
login_iocb(c, p) == issue_iocb_timeout("login_iocb", Fwi2(c), Answers)

\* A failed completion is logged and not returned.
logout_iocb(c, p) == issue_iocb_timeout("logout_iocb", Fwi2(c), {"entry"})

\* Slip: the completion status is only logged.
abort_iocbSlip(c, p) == issue_iocb_timeout("abort_iocb", Fwi2(c), {"entry"})

abort_iocb(c, p) == issue_iocb_timeout("abort_iocb", Fwi2(c), Answers)

issue_tmf(c, p) == issue_iocb_timeout("issue_tmf", Fwi2(c), Answers)

\* Looks at the completion twice and at the entry status never.
modify_vp_config(c, p) ==
  issue_iocb_timeout("modify_vp_config", Fwi2(c), {"completion"})

control_vp(c, p) ==
  issue_iocb_timeout("control_vp", Fwi2(c) /\ "npiv" \in p, Answers)

\* Asked to update the firmware, it tries once more without.
verify_chip(c, p) ==
  [issue_iocb_timeout("verify_chip", c = "8432", {"completion"})
     EXCEPT !.again = TRUE]

Iocbs(c, p) ==
  {login_iocb(c, p), logout_iocb(c, p), abort_iocb(c, p), issue_tmf(c, p),
   modify_vp_config(c, p), control_vp(c, p), verify_chip(c, p)}

Wrappers(c, p) ==
  {load_ram(c, p), execute_fw(c, p), get_fw_version(c, p),
   get_fw_options(c, p), set_fw_options(c, p), mbx_reg_test(c, p),
   verify_checksum(c, p), abort_command(c, p), abort_target(c, p),
   lun_reset(c, p), get_adapter_id(c, p), get_retry_cnt(c, p),
   init_firmware(c, p), get_port_database(c, p), get_firmware_state(c, p),
   get_port_name(c, p), link_initialize(c, p), lip_reset(c, p),
   send_sns(c, p), login_fabric(c, p), login_local_device(c, p),
   fabric_logout(c, p), full_login_lip(c, p), get_id_list(c, p),
   get_resource_cnts(c, p), get_fcal_position_map(c, p),
   get_link_status(c, p), get_isp_stats(c, p), system_error(c, p),
   write_serdes_word(c, p), read_serdes_word(c, p), write_8044_serdes(c, p),
   read_8044_serdes(c, p), set_serdes_params(c, p), stop_firmware(c, p),
   enable_eft_trace(c, p), disable_eft_trace(c, p), enable_fce_trace(c, p),
   disable_fce_trace(c, p), get_idma_speed(c, p), set_idma_speed(c, p),
   send_change_request(c, p), dump_ram(c, p), init_req_que(c, p),
   init_rsp_que(c, p), idc_ack(c, p), fac_get_sector_size(c, p),
   fac_do_write_enable(c, p), fac_erase_sector(c, p),
   restart_mpi_firmware(c, p), set_82xx_version(c, p), set_25xx_version(c, p),
   read_asic_temperature(c, p), read_sfp(c, p), write_sfp(c, p),
   get_xgmac_stats(c, p), get_dcbx_params(c, p), read_ram_word(c, p),
   write_ram_word(c, p), loopback_test(c, p), echo_test(c, p),
   reset_84xx_chip(c, p), get_data_rate(c, p), get_port_config(c, p),
   set_port_config(c, p), set_fcp_prio(c, p), mbx_intr_enable(c, p),
   mbx_intr_disable(c, p), beacon_ctl(c, p), configure_vfs(c, p),
   md_get_template_size(c, p), md_get_template(c, p),
   md_get_8044_template(c, p), set_led_config(c, p),
   get_led_config(c, p), wr_reg(c, p), rd_reg(c, p), port_logout(c, p),
   restart_nic_firmware(c, p), access_control(c, p), dump_mctp_data(c, p)}
  \cup Iocbs(c, p)

NoCall == Mbx("none", FALSE, {}, {}, {}, {})
IsIocb == call.bad # {}

\* Slip: the loop over the registers goes one too far.
ExistingSlip(S) == {i \in 0..MbxCount(chip) : i \in S \/ i = MbxCount(chip)}

\* The registers of S that the chip has.
Existing(S) == {i \in S : i < MbxCount(chip)}

--------------------------------------------------------------------------
Init ==
  /\ chip \in MbxChips
  /\ call = NoCall
  /\ phase = "idle"
  /\ unset = Reg /\ loaded = {}
  /\ rval = "none" /\ iocb = "none"
  /\ buffer = FALSE
  /\ given = {}

\* The wrapper takes its buffer, if it needs one, and fills its mbx_cmd_t.
Enter ==
  /\ phase = "idle"
  /\ \E p \in SUBSET Options : \E w \in Wrappers(chip, p) :
       /\ w.runs
       /\ call' = w
       /\ \/ /\ phase' = "prepared"
             /\ buffer' = w.dma
             /\ rval' = "none"
          \/ /\ w.dma
             /\ phase' = "returned"
             /\ buffer' = FALSE
             /\ rval' = "no memory"
       /\ unset' = Reg \ w.set
  /\ loaded' = {} /\ iocb' = "none" /\ given' = {}
  /\ UNCHANGED chip

\* qla2x00_mailbox_command gives up before it writes a register.
Refused ==
  /\ phase = "prepared"
  /\ rval' \in {"failed", "timeout"}
  /\ phase' = "ended"
  /\ UNCHANGED <<chip, call, unset, loaded, iocb, buffer, given>>

\* It loads the registers of out_mb that the chip has.
Load ==
  /\ phase = "prepared"
  /\ \E more \in {{}} \cup If(call.wild, {Reg \ call.out}) :
       loaded' = Existing(call.out \cup more)
  /\ phase' = "loaded"
  /\ UNCHANGED <<chip, call, unset, rval, iocb, buffer, given>>

\* The interrupt has come: it brings back the registers of in_mb.
Answered ==
  /\ phase = "loaded"
  /\ unset' = unset \ Existing(call.in)
  /\ rval' \in {"success", "failed"}
  /\ iocb' \in IF IsIocb THEN {"good"} \cup Answers ELSE {"none"}
  /\ phase' = "ended"
  /\ UNCHANGED <<chip, call, loaded, buffer, given>>

\* No answer, or a hung 82xx: nothing but perhaps mb[0] is brought back.
Unanswered ==
  /\ phase = "loaded"
  /\ rval' \in {"failed", "timeout"}
  /\ phase' = "ended"
  /\ UNCHANGED <<chip, call, unset, loaded, iocb, buffer, given>>

\* The checks of an IOCB wrapper on what the firmware wrote into the entry.
Checked == IF rval = "success" /\ iocb \in call.bad THEN "failed" ELSE rval

\* qla84xx_verify_chip once more, without the update.
VerifyAgain ==
  /\ phase = "ended"
  /\ call.again /\ rval = "success" /\ iocb = "completion"
  /\ call' = [call EXCEPT !.again = FALSE]
  /\ phase' = "prepared"
  /\ unset' = Reg \ call.set
  /\ loaded' = {} /\ iocb' = "none" /\ rval' = "none"
  /\ UNCHANGED <<chip, buffer, given>>

\* Slip: an early return when the command has failed.
ReturnSlip ==
  /\ phase = "ended"
  /\ ~(call.again /\ rval = "success" /\ iocb = "completion")
  /\ rval' = Checked
  /\ given' = call.any \cup If(Checked = "success", call.ok)
  /\ buffer' = (buffer /\ Checked # "success")
  /\ phase' = "returned"
  /\ UNCHANGED <<chip, call, unset, loaded, iocb>>

\* The wrapper hands on what it hands on and gives its buffer back.
Return ==
  /\ phase = "ended"
  /\ ~(call.again /\ rval = "success" /\ iocb = "completion")
  /\ rval' = Checked
  /\ given' = call.any \cup If(Checked = "success", call.ok)
  /\ buffer' = FALSE
  /\ phase' = "returned"
  /\ UNCHANGED <<chip, call, unset, loaded, iocb>>

Leave ==
  /\ phase = "returned"
  /\ phase' = "idle"
  /\ call' = NoCall /\ unset' = Reg /\ loaded' = {} /\ rval' = "none"
  /\ iocb' = "none" /\ given' = {}
  /\ UNCHANGED <<chip, buffer>>

Next ==
  \/ Enter \/ Refused \/ Load \/ Answered \/ Unanswered
  \/ VerifyAgain \/ Return \/ Leave

Spec == Init /\ [][Next]_vars

--------------------------------------------------------------------------
(* Properties *)

TypeOK ==
  /\ chip \in MbxChips
  /\ phase \in {"idle", "prepared", "loaded", "ended", "returned"}
  /\ unset \subseteq Reg /\ loaded \subseteq Reg /\ given \subseteq Reg
  /\ rval \in {"none", "success", "failed", "timeout", "no memory"}
  /\ iocb \in {"none", "good"} \cup Answers
  /\ buffer \in BOOLEAN

\* Wrappers that load a register they have not written.
Careless == {"init_req_que", "init_rsp_que", "set_fcp_prio", "configure_vfs"}

\* No register goes to the firmware with what happened to lie on the stack:
\* out_mb names only registers the wrapper has written, on every chip.
NoGarbageSent ==
  phase = "loaded" /\ call.name \notin Careless => loaded \cap unset = {}

\* A wrapper that reports success hands on only registers that in_mb brought
\* back or it had written itself.  The 2100 has no register 10; the count of
\* IOCBs it would carry is used on newer chips only (qla_init.c:1708).
AnswersAreRead ==
  phase = "returned" /\ rval = "success" =>
    given \cap unset \subseteq
      If(call.name = "get_resource_cnts" /\ chip = "2100", {10})

\* Wrappers that drop one of the two statuses of an IOCB.
DropsStatus == {<<"logout_iocb", "completion">>, <<"modify_vp_config", "entry">>,
                <<"verify_chip", "entry">>}

\* An IOCB the firmware has refused or failed is not reported as done.
IocbErrorsReported ==
  phase = "returned" /\ iocb \in Answers /\ <<call.name, iocb>> \notin DropsStatus =>
    rval # "success"

\* The DMA pool is small: whatever happens, a wrapper gives its buffer back.
BufferReturned == phase \in {"idle", "returned"} => ~buffer
=============================================================================
