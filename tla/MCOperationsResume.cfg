SPECIFICATION Spec
CONSTANTS
  Packages <- MCPackages
  Artifacts = {"pa", "ja"}
  Aliases = {"1.0"}
  Builds = {"b", "c"}
  Keys = {"k", "l"}
  Images <- MCImages
  MaxRuns = 2
  Runs = {1, 2, 3}
  Contents <- MCContents
  Executions <- MCExecutions
  Tests = {"t"}
  Versions = {1, 2}
  PageSize = 1
  PassSize = 1
  MaxSequence = 3
  Sources = {"c", "d"}
  Requires <- MCRequires
  MaxArchived = 2
  PublicIds = {1, 2, 3}
  Projects = {"p"}
  KeyPage = 1
  MaxNow = 2
  MaxCalls = 2
  IdBytes = 5
  SecretBytes = 2
  IdsIssued <- MCIds
  SecretsIssued <- MCSecrets
  MaxPresented = 1
  Names = {1, 2, 3}
  Foreign = {1}
  MaxPass = 1
  MaxClock = 2
  Objects = {"x", "y"}
  MaxScripts = 3
INVARIANT ResumeCompletes
CHECK_DEADLOCK FALSE
