SPECIFICATION Spec
CONSTANTS
  az = az
  Axis = {az}
  MinActive = 1
  SameOff = 1
  ReverseOff = 1
  MovementLease = 2
  NetworkTimeout = 2
  OperatorLease = 3
  CommandMaxAge = 2
  Recent = 2
  Conn = {c1, c2}
  MaxTime = 1000
  Drives <- OneWay
INVARIANTS
  TypeOK
  OrphansAreStopped
  OwnershipIsProven
  MotionDiesWithItsToken
PROPERTIES
  MotionIsPressed
  PressSawRecovery
  OverrideIsStillWanted
VIEW WithTokens
