SPECIFICATION Spec
CONSTANTS
  Length = 7
  CmdType = "type7"
  DsdCounts <- MCDsdCounts
  PlainSizes <- MCPlainSizes
  ShadowCapable = TRUE
INVARIANTS
  RingIsSound
  OnlyOthersFillTheRing
PROPERTIES
  ImplementsFifo
