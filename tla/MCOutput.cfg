SPECIFICATION Spec
CONSTANTS
  az = az
  Axis = {az}
  MinActive = 1
  SameOff = 1
  ReverseOff = 2
  MovementLease = 2
  Allowance = 2
  Rest = 2
  NetworkTimeout = 2
  FeedbackMaxAge = 1
  Coast = 1
  ProgressTimeout = 2
  Late = 0
  ServicePeriod = 3
  Watchdog = 4
  MaxTime = 1000
  Places <- MidRange
  Senses = {"still", "moved"}
  Sources <- Commands
INVARIANTS
  TypeOK
  SleepIsSafe
PROPERTIES
  StartsAfterPause
  FaultLatches
  StopsAreNotOvertaken
  OutagesStop
VIEW Pauses
