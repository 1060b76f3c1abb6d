SPECIFICATION DumpSpec
CONSTANTS
  ChipSet = {"2100", "2300", "2322", "24xx", "25xx", "81xx", "83xx", "27xx", "82xx", "8044"}
  MaxQueue <- MCMaxQueue
  Firmware = {1, 2}
  Mem <- MCMem
  MdEntries <- MCMdEntries
  Walked <- MCWalked
  Hdr = 1
  Regs = 2
  Ram = 2
  Req = 4
  Rsp = 2
  ExtraRsp = 1
  Eft = 2
  Fce = 3
  Mq = 1
  QueHdr = 1
  Tmpl = 2
  MaxDumps = 2
  MaxChanges <- MCMaxChanges
  MaxLen = 30
INVARIANTS
  MemoryIsOwn
  DumpIsReadable
  MdSizeIsTemplates
PROPERTIES
  KeptForReader
