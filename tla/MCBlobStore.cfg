SPECIFICATION Spec
CONSTANTS
  Hashes = {h1}
  Writers = {w1, w2}
  Inodes = {i1, i2, i3}
  None = None
SYMMETRY Symmetry
INVARIANTS
  OnlyVerifiedObjects
  SuccessMeansPublished
  
