SPECIFICATION Spec
CONSTANTS
  Image = {1, 2, 3}
  Old = 2
  New = 3
  BootLists <- InitialLists
  Sessions = {TRUE, FALSE}
  Raises = {TRUE, FALSE}
  Keeps = {0, 1}
  MaxAttempts = 2
  MaxFaults = 2
INVARIANT
  VerifiedBoots
PROPERTY
  DeletionsSpareBoot
