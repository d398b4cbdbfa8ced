SPECIFICATION Spec
CONSTANTS
  NDevices = 3
  MaxAttempts = 3
INVARIANT
  SuccessIsSeen
PROPERTY
  PromiseKept
CHECK_DEADLOCK FALSE
