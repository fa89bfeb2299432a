\* The connection breaks while the manifest is being read.
CONSTANTS
  Manifests <- MCTwoFiles
  Credit = 2
  BatchMax = 1
  SourceFails = TRUE
SPECIFICATION Spec
INVARIANT NoPanic
CHECK_DEADLOCK FALSE
