\* One file over two sessions: resume, delta, kill, rewrite, retry.
CONSTANTS
  z = z
  a = a
  b = b
  Hole = Hole
  Missing = Missing
  NoFile = NoFile
  ChunkCount = 2
  Content <- MCContent
  Zero = z
  Sources <- MCSources
  Olds <- MCOlds
  Modes <- MCStrict
  Sparse = TRUE
  RetryLimit = 0
  MaxWrites = 1
  MaxSessions = 2
SPECIFICATION Spec
INVARIANTS FinalExact SidecarSound IInv
PROPERTY ArrivedStays
CHECK_DEADLOCK FALSE
