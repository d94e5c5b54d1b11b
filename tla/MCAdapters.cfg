SPECIFICATION Spec
CONSTANTS
  SinkOutcomes = {"ok", "refused"}
  MaxDrops = 1
  Configs <- MCConfigs
  Attempts <- MCAttempts
  StepNames = {"p", "c"}
  StepId <- MCStepId
  Bodies = {"b"}
  MaxEvents = 4
  Tests = {"t", "w"}
  Containers = {"E", "C", "D"}
  Parent <- MCParent
  AttemptName <- MCAttemptName
  EntryThreads <- OwnThread
  MaxEntries = 1
CHECK_DEADLOCK FALSE
INVARIANTS
  AlwaysValid
  PlaywrightVerdict
  JUnitVerdict
