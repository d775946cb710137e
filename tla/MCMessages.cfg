CONSTANTS
  Frame <- AnyFrame
  MaxFrames = 6
  Buffer = 2
  ControlLimit = 1
  MessageTimeout = 2
SPECIFICATION Spec
INVARIANT HearsWhatIsSaid
CHECK_DEADLOCK FALSE
