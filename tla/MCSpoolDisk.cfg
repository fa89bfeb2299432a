\* A consumer that is always a little behind.
CONSTANTS
  Limit = 4
  MemLimit = 2
  Disk = TRUE
  DiskFails = FALSE
  TruncFails = FALSE
  CopyMax = 3
  MaxIn = 10
SPECIFICATION Spec
INVARIANT DiskBounded
CHECK_DEADLOCK FALSE
