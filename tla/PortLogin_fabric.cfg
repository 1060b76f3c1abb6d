SPECIFICATION Spec
CONSTANTS
  p1 = p1
  Ports <- OnePort
  LoginRetries = 2
  MaxEvents = 2
CHECK_DEADLOCK FALSE
INVARIANTS
  MarksComeBack
  OneLogin
PROPERTIES
  PortsComeBack
  Settles
