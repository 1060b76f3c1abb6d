SPECIFICATION LockSpec
CONSTANTS
  Drivers <- MCDrivers
  MaxCrashes = 1
INVARIANTS
  LockIsSound
PROPERTIES
  DeadHolderFreed
