SPECIFICATION Spec
CONSTANTS
  s1 = s1
  s2 = s2
  s3 = s3
  Holders <- MCHolders
  MaxFrames = 2
  MaxLists = {1, 3}
  HandleBound = 5
SYMMETRY HolderSymmetry
INVARIANTS
  RefsCounted
  NoLostItem
PROPERTIES
  ImplementsLease
CHECK_DEADLOCK TRUE
