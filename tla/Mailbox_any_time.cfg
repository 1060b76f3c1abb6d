SPECIFICATION Spec
CONSTANTS
  u1 = u1
  Users <- MCUsers
  Dpc = dpc
  MaxCalls = 1
  MaxFaults = 1
  SetupCmds = 1
  MaxRetries = 1
CHECK_DEADLOCK FALSE
INVARIANTS
  AnswersAreOwn
  OneTurn
  OneReset
  RetriesArePending
PROPERTIES
  TimeoutsAreOvercome
