SPECIFICATION RoutinesSpec
CONSTANTS
  SrbSlots = {s1, s2}
  Commands <- MCCommands
  Jobs <- MCJobs
  PerList = 4
  Chains = 6
  ShiftCtl = 3
  BlockSize = 2
  Jiffies = 8
  Delays = {1, 2}
  MbxChips <- MCMbxChips
  Routines <- AllRoutines
  Vports = {v1, v2}
  Limits = {1, 2}
  Users = {u1}
  NoPort = NoPort
SYMMETRY Symmetry
CHECK_DEADLOCK FALSE
INVARIANTS
  WrappersAreFaithful
  AllIsGivenBack
  CommandsAreBuilt
  OnlyHeldIsTouched
  JobAnsweredOnce
  VportsAreSound
