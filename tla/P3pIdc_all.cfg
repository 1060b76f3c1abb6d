CONSTANTS
  Chips = {"82xx", "8044"}
  Fcoe <- MCFcoe
  FaultSets <- MCFaultSets
  MaxEvents = 2
SPECIFICATION Spec
CHECK_DEADLOCK FALSE
INVARIANTS
  StartsArePrepared
  RunningTakesPart
PROPERTIES
  OneResetPerHang
  HangsEnd
