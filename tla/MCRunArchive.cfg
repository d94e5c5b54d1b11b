SPECIFICATION Spec
CONSTANTS
  Workers = {w1, w2}
  Runs = {r1}
  Sources <- MCSources
  Fingerprint <- MCFingerprint
  Required <- MCRequired
  Blobs = {1}
  Times = {1, 2}
  MaxRuns = 1
  MaxBlobs = 1
  None = None
  Stale = Stale
SYMMETRY WorkerSymmetry
INVARIANTS
  SuccessMeansComplete
  IInv
PROPERTY ImplementsContract
