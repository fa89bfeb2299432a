\* A source rewritten under a running transfer.
CONSTANTS
  z = z
  a = a
  b = b
  Hole = Hole
  Missing = Missing
  NoFile = NoFile
  ChunkCount = 2
  Content <- MCContent
  Zero = z
  Sources <- MCSources
  Olds <- MCNone
  Modes <- MCStrict
  Sparse = TRUE
  RetryLimit = 0
  MaxWrites = 2
  MaxSessions = 1
SPECIFICATION Spec
INVARIANT MixtureFlagged

CHECK_DEADLOCK FALSE
