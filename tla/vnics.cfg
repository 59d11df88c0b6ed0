SPECIFICATION FairSpec
CONSTANTS
  a = a
  b = b
  c = c
  N = 3
  VnicName <- MCVnicName
  Name <- MCDistinct
  Budget = 4
INVARIANTS TypeOK NoDuplicateVnic ReadyMeansAttached
PROPERTY EventuallyReady
