SPECIFICATION Spec
CONSTANTS
  az = az
  s1 = s1
  s2 = s2
  Axis = {az}
  MinActive = 1
  SameOff = 1
  ReverseOff = 1
  MovementLease = 2
  NetworkTimeout = 2
  EventShift = 1
  Allowance = 3
  Uncertainty = 1
  DriftEvery = 10
  MaxSampleAge = 12
  RecoveryLimit = 8
  Coast = 1
  FeedbackMaxAge = 2
  ControlStep = 1
  PlanningLead = 2
  InterceptGrid = 1
  InterceptRetry = 1
  RecoveryDwell = 2
  RecoveryEnter = 1
  PlanLead = 1
  Preparation = 1
  CommandMaxAge = 2
  First = 4
  Periodic = {"feedback", "network", "pass"}
  Actions = {"Select", "Arm", "PrepareNow", "Cancel"}
  Last = 9
  MaxTime = 3
  Event <- Passes
  Forecasts <- AnyForecast
  Lifetimes = {40}
  Offsets = {1}
  Errors = {"good", "bad"}
  Recoveries = {2}
  Boots <- RequestBoots
INVARIANTS
  RequestsApplyOnce
  RefreshIsNeverStale
PROPERTIES
  ArmsWhatWasSeen
VIEW Known
