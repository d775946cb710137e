SPECIFICATION Spec
CONSTANTS
  Axis = {az, el}
  MinActive = 2
  SameOff = 1
  ReverseOff = 2
  MovementLease = 3
  MaxTime = 1000
VIEW RelativeTime
INVARIANT ExpiryKeepsMinimumOn
