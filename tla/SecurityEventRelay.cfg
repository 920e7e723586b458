SPECIFICATION FairSpec
CONSTANTS
  MaxEvents = 3
  BatchSize = 2
  RotateAt = 2
  Malformed = {2}
  MaxSequenceGap = 2
  MaxSequence = 8
  MaxFaults = 3
INVARIANTS
  AcknowledgedWasTakenUp
PROPERTY
  EventsAreRelayed
CHECK_DEADLOCK FALSE
