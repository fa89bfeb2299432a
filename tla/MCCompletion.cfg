\* Whole sessions, with every failure.
CONSTANTS
  Manifests <- MCManifests
  Credit = 2
  BatchMax = 1
  SourceFails = TRUE
SPECIFICATION FairSpec
INVARIANTS TypeOK CreditHeld ReportSound PassOrder
PROPERTIES OutcomeFinal SessionEnds
CHECK_DEADLOCK FALSE
