\* A sender failure that crosses the receiver's own outcome.
CONSTANTS
  Manifests <- MCTwoFiles
  Credit = 2
  BatchMax = 1
  SourceFails = TRUE
SPECIFICATION Spec
INVARIANT DoneComplete
CHECK_DEADLOCK FALSE
