CONSTANTS
  SourceTree <- MCSourceTree
  OldTree <- MCOldTree
  Orders <- MCOrders
  MaxVanish = 1
  Interrupted = TRUE
SPECIFICATION MirrorSpec
INVARIANT DeletesAfterCleanEnd
CHECK_DEADLOCK FALSE
