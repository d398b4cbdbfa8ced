SPECIFICATION Spec
CONSTANTS
  Flows <- MCFlows
  Artifacts <- MCArtifacts
  MaxArtifacts = 2
  MaxPatterns = 2
  MaxTries = 4
  MaxAttempts = 2
INVARIANTS
  TypeOK
  EvidenceBehindPass
  MatchHolds
  AddressesWatched
  StopMeansGone
  SyncIsClean
  EventTellsResult
CHECK_DEADLOCK FALSE
