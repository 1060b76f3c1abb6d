SPECIFICATION MCSpec
CONSTANTS
  c1 = c1
  c2 = c2
  c3 = c3
  Cmds <- MCCmds
  NumOutstanding = 3
  MaxConts = 1
  MaxQueued = 1
  MaxFaults = 2
  NoCmd = NoCmd
CHECK_DEADLOCK FALSE
INVARIANTS
  SrbsAreSound
  CompletionsFindTheirCommand
PROPERTIES
  AbortSuccessMeansReturned
  FirstEventuallyReturned
