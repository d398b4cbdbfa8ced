SPECIFICATION Spec
CONSTANTS
  NItems = 2
  NPatterns = 2
  AnswerLimit = 10
  QuietReads = 3
INVARIANTS
  TypeOK
  AnswersFit
  ReadPromptAnswered
  OneLateAnswer
PROPERTY
  DialogueEnds
CHECK_DEADLOCK FALSE
