\* A hardlink to a file that was there already.
CONSTANTS
  Manifests <- MCLinked
  Credit = 2
  BatchMax = 1
  SourceFails = TRUE
SPECIFICATION Spec
INVARIANT Registered
CHECK_DEADLOCK FALSE
