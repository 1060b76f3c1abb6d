SPECIFICATION Spec
CONSTANTS
  Fcoe <- UpperFcoe
  Others <- Nic
  Faults = {"ack_timeout", "init_timeout", "hang", "fatal", "restart_fails", "config_fails", "unload", "application", "disable", "fc_reset"}
  MaxEvents = 4
CHECK_DEADLOCK FALSE
INVARIANTS
  OwnersAreSound
PROPERTIES
  Prepared
