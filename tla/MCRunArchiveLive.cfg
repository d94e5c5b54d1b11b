SPECIFICATION LiveSpec
CONSTANTS
  Workers = {w1, w2}
  Runs = {r1, r2}
  Sources <- MCSources
  Fingerprint <- MCFingerprint
  Required <- MCRequired
  Blobs = {1, 2}
  Times = {1}
  MaxRuns = 1
  MaxBlobs = 1
  None = None
  Stale = Stale
INVARIANT RelationsCatalogued
PROPERTY EveryCallEnds
