SPECIFICATION Spec
CONSTANTS
  SessionOrder <- MCSessionOrder
  Alphabets <- MCAlphabets
  Found <- MCFound
  MaxCopies = 1
  MaxFound = 4
CHECK_DEADLOCK FALSE
INVARIANTS
  
  ReplayAgrees
  ProjectionAgrees
  ArchivedIsSound
