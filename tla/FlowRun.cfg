SPECIFICATION FlowSpec
CONSTANTS
  MaxAttempts = 3
  MaxCancels = 2
  MaxFaults = 2
INVARIANTS
  ChildEndsWithAttempt
  NotRunAgain
PROPERTY
  StepEnds
CHECK_DEADLOCK FALSE
