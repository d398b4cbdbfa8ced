SPECIFICATION Spec
CONSTANTS
  Devices <- TwoDevices
  Preferred = {"auto", "tftp"}
  Files = {"absent", "other", "image"}
  MaxAttempts = 2
  MaxFaults = 2
INVARIANT
  VerifiedIsImage
PROPERTY
  ImageKept
CHECK_DEADLOCK FALSE
