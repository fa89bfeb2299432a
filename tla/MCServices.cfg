CONSTANTS
\* One direction of a relayed session, with a limit, spills and every failure.
  Limit = 4
  MemLimit = 2
  Disk = TRUE
  DiskFails = TRUE
  TruncFails = FALSE
  CopyMax = 3
  MaxIn = 14
\* Three sessions for one path, two with the same source.
  Sessions = {"s1", "s2", "s3"}
  Pieces = {1, 2}
  Source <- MCSource
  OldFinal = {0, 9}
  OldPart = TRUE
  MaxLost = 1
\* A run of two files.
  Directions = {"push", "pull"}
  Files = 2
  Retries = 2
  MaxDrops = 1
  MaxRestarts = 1
\* One process at a journal.
  Writers = {w1}
  AppendFails = TRUE
  MaxEntries = 4
  MaxCrashes = 2
\* Two publishing processes, one receiving node.
  Publishers = {p1, p2}
  Nodes = {n1}
  Names = {"e1", "e2"}
  OwnNames = {"e2"}
  ReReads = {TRUE}
  MaxVersion = 2
  MaxHooks = 2
\* A tree of two files.
  WatchedFiles = {f1, f2}
  MaxEdits = 3
\* Two ends at a new connection.
  Offers <- MCOffers
  NoSecret = ""
  Rooms = {0, 1}
\* A tree to send.
  SourceTree <- MCSourceTree
  OldTree <- MCOldTree
  Orders <- MCOrders
  MaxVanish = 1
  Interrupted = TRUE
SPECIFICATION ServicesFair
INVARIANTS TypeOK NoLostWakeup SInv FinalWhole OkMeansAll AckedIntact OneEnvelope RevokedGone NewestApplied Rebuilt
PROPERTIES IsStream WriteReturns StreamEnds SessionConverges WatchMirrors EndsMeet
CHECK_DEADLOCK FALSE
