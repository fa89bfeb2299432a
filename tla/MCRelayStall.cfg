\* Two chunks, a static host, and peers that may be slow or gone.
CONSTANTS
  Files <- MCFiles
  Chunks <- MCChunks
  Workers = {w1, w2}
  Conns = {}
  Peers = {seed}
  Liars = {}
  Seeds = {seed}
  UseHTTP = TRUE
  Catalogs = {TRUE}
  Finals <- MCFinals
  Leftovers = {{}}
  Interrupts = FALSE
  Stays = {FALSE}
  MaxFails = 2
  DiskFails = FALSE
  MaxRuns = 1
  RoomIDs = {r1}
  Addrs = {s}
  SeedAddrs = {s}
  MaxRooms = 1
  MaxMembers = 1
  MaxReturn = 1
  TTL = 1
  Leash = 1
  MaxTime = 1
  Offerers = {"o1", "o2"}
  Takers = {"t1", "t2"}
  Codes = {code1}
  MaxSlots = 1
  MaxComers = 0
SPECIFICATION RelayFair
PROPERTY EndgameEnds
CHECK_DEADLOCK FALSE
