SPECIFICATION Spec
CONSTANTS
  Image = {1, 2, 3}
  Old = 2
  New = 3
  BootLists <- InitialLists
  Sessions = {FALSE}
  Raises = {FALSE}
  Keeps = {0, 1}
  MaxAttempts = 2
  MaxFaults = 2
PROPERTY
  ConfiguresBoot
