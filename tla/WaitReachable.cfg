SPECIFICATION WaitSpec
CONSTANTS
  NDevices = 2
  MaxWait = 7
  StableSeconds = 3
  PollInterval = 1
  ConnectTimeout = 1
INVARIANTS
  StableIsSeen
  NamedAreDown
CHECK_DEADLOCK FALSE
