\* The sample's shape checks, dense copy and dense reference.
CONSTANTS
  KArgs = {2, 3}
  NArgs = {2, 3}
  MArgs = {8, 9}
  RepsArgs = {1, 2}
  FileDims <- MCFileDims
SPECIFICATION Spec
INVARIANTS
  DenseWritesInBounds
  ReferenceMatchesKernel
