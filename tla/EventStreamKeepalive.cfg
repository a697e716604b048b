SPECIFICATION Spec
CONSTANTS
  MaxEvents = 3
  MaxDelivered = 4
  MaxAttempts = 2
  Frames <- AllFrames
INVARIANT NothingSkipped
CHECK_DEADLOCK FALSE
