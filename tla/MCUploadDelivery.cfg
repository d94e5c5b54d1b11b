SPECIFICATION Spec
CONSTANTS
  Files = 2
  MaxAttempts = 2
  StagingFaults = {"refused", "partial", "stuck"}
  None = None
CHECK_DEADLOCK FALSE
INVARIANTS
  ResultIsTrue
  
  StagingIsRemoved
PROPERTY UploadEnds
