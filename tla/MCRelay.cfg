\* A seed, a liar and a static host; parts left of an earlier run.
CONSTANTS
  Files <- MCFiles
  Chunks <- MCChunks
  Workers = {w1, w2}
  Conns = {c1}
  Peers = {seed, liar}
  Liars = {liar}
  Seeds = {seed}
  UseHTTP = TRUE
  Catalogs = {TRUE, FALSE}
  Finals <- MCFinals
  Leftovers <- MCLeftovers
  Interrupts = TRUE
  Stays = {TRUE, FALSE}
  MaxFails = 2
  DiskFails = TRUE
  MaxRuns = 1
\* A tracker that is small enough to fill.
  RoomIDs = {r1, r2}
  Addrs = {s, j1, j2}
  SeedAddrs = {s}
  MaxRooms = 1
  MaxMembers = 2
  MaxReturn = 1
  TTL = 1
  Leash = 2
  MaxTime = 3
\* A broker with one code and one slot.
  Offerers = {"o1", "o2"}
  Takers = {"t1", "t2"}
  Codes = {code1}
  MaxSlots = 1
  MaxComers = 3
SPECIFICATION RelayFair
INVARIANTS Wanted CompleteAtFinalize FinalSound AvailSound OneGoodPeer SeedsReturned BrokerLives ParkedFindable DroppedLate
PROPERTIES Settles OfferSettles
CHECK_DEADLOCK FALSE
