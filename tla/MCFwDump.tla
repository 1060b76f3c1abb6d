------------------------------ MODULE MCFwDump ------------------------------
(* An instance of FwDump for TLC: every adapter, two request queues and one *)
(* response queue besides the first, and two versions of the firmware, the  *)
(* second of which has more memory and other templates.                     *)
EXTENDS FwDump

MCMaxQueue == [kind \in Kinds |-> IF kind = "req" THEN 2 ELSE 1]
\* Two queues can be created and one deleted; the 27xx has more to combine.
MCMaxChanges == [c \in ChipSet |-> IF c = "27xx" THEN 3 ELSE 5]
MCMem == <<4, 8>>
\* Every type of entry, each once.
E(type) == [type |-> type, ops |-> 1, size |-> CASE type = "RDMEM" -> 16 [] type = "RDROM" -> 4 [] OTHER -> 1,
            captured |-> type # "RDNOP"]
Twice(type) == [E(type) EXCEPT !.ops = 2]
Template(types) == [i \in DOMAIN types |-> E(types[i])]
MCMdEntries ==
  [c \in P3P |->
     IF c = "82xx"
     THEN <<Template(<<"CNTRL", "RDCRB", "RDMEM", "L2TAG">>),
            Template(<<"RDROM", "RDNOP", "L1", "RDOCM", "RDMUX", "QUEUE">>)>>
     ELSE <<Template(<<"RDROM", "RDMEM", "L2TAG", "RDOCM", "RDMUX2", "POLLRD", "POLLWR">>),
            Template(<<"CNTRL", "RDNOP", "POLLRDMWR", "RDDFE">>) \o <<Twice("RDMDIO")>>
              \o Template(<<"RDCRB", "L1", "QUEUE", "RDMUX">>)>>]
\* The default template reads less than those of the firmware.
MCWalked == [t \in Templates |-> CASE t = Default -> 1 [] t = User -> 3 [] OTHER -> t - 2]
=============================================================================
