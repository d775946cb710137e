CONSTANTS
  Address = {1, 2, 3}
  Usable = {1, 2}
  JoinAttempts = 3
  MaxBackoff = 4
  NetworkTimeout = 2
  Satellite = {a, b}
  Issued = {a}
  Epoch = {1, 2}
  MaxRevision = 3
  TimeServer = 2
  Answering = {1}
  a = a
  b = b
SPECIFICATION MCSpec
INVARIANT PermitIsBacked
PROPERTIES PairAdvances Recovers
CHECK_DEADLOCK FALSE
