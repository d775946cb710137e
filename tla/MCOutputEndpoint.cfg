SPECIFICATION Spec
CONSTANTS
  az = az
  Axis = {az}
  MinActive = 2
  SameOff = 1
  ReverseOff = 2
  MovementLease = 3
  Allowance = 3
  Rest = 2
  NetworkTimeout = 2
  FeedbackMaxAge = 1
  Coast = 1
  ProgressTimeout = 2
  Late = 0
  ServicePeriod = 4
  Watchdog = 5
  MaxTime = 1000
  Places <- NearEnd
  Senses = {"moved", "wrong"}
  Sources <- OneWay
INVARIANTS
  SleepIsSafe
PROPERTIES
  StartsCoverAPulse
VIEW Now
