SPECIFICATION Spec
CONSTANTS
  NDevices = 2
  CommandLists <- MCCommandLists
INVARIANTS
  SuccessIsComplete
  SavedIsWhole
  LateBlockUnsaved
PROPERTY
  SessionEnds
CHECK_DEADLOCK FALSE
