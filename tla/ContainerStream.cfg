SPECIFICATION StreamSpec
CONSTANTS
  Sources <- ShortSources
  Huge = 9
  Budget = 3
  Threshold = 2
INVARIANTS
  StreamTypeOK
  LinesSentAsRead
  CapturedAsRead
  ReturnLeavesNothing
PROPERTY
  StreamEnds
CHECK_DEADLOCK FALSE
