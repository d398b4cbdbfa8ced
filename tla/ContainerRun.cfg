SPECIFICATION Spec
CONSTANTS
  MaxAttempts = 3
  MaxCancels = 2
  MaxFaults = 2
INVARIANTS
  OneRunning
  LeftoverNeverRan
  StagingRemoved
PROPERTY
  NotTakenAway
CHECK_DEADLOCK FALSE
