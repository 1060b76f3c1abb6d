SPECIFICATION Spec
CONSTANTS
  a = a
  b = b
  c = c
  Srbs <- MCSrbs
  Kinds <- MCKinds
  NumOutstanding = 3
  MaxResets = 1
  NoSrb = NoSrb
CHECK_DEADLOCK FALSE
INVARIANTS
  SrbsAreSound
  AnswersReachTheirRequest
  SuccessIsReported
PROPERTIES
  TimedRequestsEnd
