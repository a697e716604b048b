SPECIFICATION FairSpec
CONSTANTS
  MaxEvents = 4
  MaxDelivered = 5
  MaxAttempts = 3
  Frames <- EventFrames
INVARIANT TypeOK OneConnection
PROPERTY ImplementsDelivery Settles
CHECK_DEADLOCK FALSE
