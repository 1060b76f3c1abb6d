SPECIFICATION Spec
CONSTANTS
  Fcoe <- BothFcoe
  Others <- NoOther
  Faults = {"ack_timeout", "hang", "restart_fails"}
  MaxEvents = 2
CHECK_DEADLOCK FALSE
PROPERTIES
  Prepared
  ResetsHaveOutcome
