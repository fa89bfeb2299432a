\* A session that stays up, with retries; liveness.
CONSTANTS
  z = z
  a = a
  b = b
  Hole = Hole
  Missing = Missing
  NoFile = NoFile
  ChunkCount = 2
  Content <- MCContent
  Zero = z
  Sources <- MCSources
  Olds <- MCStale
  Modes <- MCBoth
  Sparse = TRUE
  RetryLimit = 1
  MaxWrites = 1
  MaxSessions = 1
SPECIFICATION FairSpec
INVARIANTS TypeOK OneCarrier

PROPERTY SessionSettles
CHECK_DEADLOCK FALSE
