SPECIFICATION Spec
CONSTANTS
  Old = "v1"
  New = "v2"
  Short = "v"
  Version = {"v1", "v2", "v"}
  NoVersion = "none"
  Within <- DistinctVersions
  Raises = {TRUE, FALSE}
  MaxAttempts = 2
  MaxPolls = 2
  MaxFaults = 2
INVARIANTS
  VerifiedSurvivesReload
  SavedBootKept
  RollbackPointHeld
PROPERTY
  WorkflowEnds
