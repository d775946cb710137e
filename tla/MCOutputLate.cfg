SPECIFICATION Spec
CONSTANTS
  az = az
  Axis = {az}
  MinActive = 1
  SameOff = 1
  ReverseOff = 2
  MovementLease = 2
  Allowance = 2
  Rest = 2
  NetworkTimeout = 2
  FeedbackMaxAge = 1
  Coast = 1
  ProgressTimeout = 2
  Late = 2
  ServicePeriod = 2
  Watchdog = 3
  MaxTime = 1000
  Places <- MidRange
  Senses = {"still", "moved"}
  Sources <- OneWay
INVARIANTS
  WorkIsBounded
  StallIsBounded
VIEW Efforts
