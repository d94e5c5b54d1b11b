SPECIFICATION Spec
CONSTANTS
  Migrators = {"a", "b", "x"}
  Servers = {"s", "t"}
  Code <- MCCode
  Calls <- MCCalls
  MaxRequests = 2
  MaxSignals = 3
  Hashes = {1, 2, 3}
  SizeOf <- MCSizeOf
  MaxBlobs = 2
  MaxUncatalogued = 2
  MaxBytes = 2
  TempNames = {11, 12}
  Young = {2, 12}
  MaxTemps = 1
  CasPage = 2
CHECK_DEADLOCK FALSE
INVARIANTS
  SchemaIsSound
  CleanExitMeansDrained
  
PROPERTIES
  EveryMigrateEnds
  SignalEndsProcess
  GarbageDrains
