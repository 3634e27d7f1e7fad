SPECIFICATION Spec
CONSTANTS
  detector = detector
  route = route
  Writers = {w1, w2}
  Materials <- MCMaterials
  Times = {0, 1}
  MaxRecords = 3
INVARIANTS
  ChainedUnlessOverlapping
  ExportVerifies
  ForksAtMost
PROPERTY
  OneChain
