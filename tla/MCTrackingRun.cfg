SPECIFICATION Spec
CONSTANTS
  az = az
  s1 = s1
  s2 = s2
  Axis = {az}
  MinActive = 1
  SameOff = 1
  ReverseOff = 1
  MovementLease = 2
  NetworkTimeout = 20
  EventShift = 1
  Allowance = 3
  Uncertainty = 1
  DriftEvery = 16
  MaxSampleAge = 20
  RecoveryLimit = 6
  Coast = 1
  FeedbackMaxAge = 2
  ControlStep = 1
  PlanningLead = 1
  InterceptGrid = 1
  InterceptRetry = 1
  RecoveryDwell = 1
  RecoveryEnter = 1
  PlanLead = 2
  Preparation = 1
  CommandMaxAge = 2
  First = 3
  Periodic = {"feedback", "pass"}
  Actions = {"Select", "Arm", "PrepareNow", "Cancel"}
  Last = 10
  MaxTime = 10
  Event <- OnePass
  Forecasts = {{}}
  Lifetimes = {40}
  Offsets = {1}
  Errors = {"good", "bad"}
  Recoveries = {1}
  Boots <- RunBoots
INVARIANTS
  TypeOK
  RecoveryIsBounded
PROPERTIES
  RunsAsPromised
  LaunchIsExact
  MovesOnSettledFeedback
  RecoveryIsMeasured
  ReadinessIsMeasured
VIEW KnownRun
