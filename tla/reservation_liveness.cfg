SPECIFICATION FairSpec
CONSTANTS
  Ids = {r1, r2}
  Procs = {p1, p2}
  Free = free
  Nobody = nobody
  Cpus <- MCSmallCpus
  Gbs <- MCSmallGbs
  Devs <- MCSmallDevs
  Requests <- MCSmallRequests
  UnlockedRelease = TRUE
  LostCalls = FALSE
  WriteFaults = TRUE
PROPERTIES CallsReturn LockIsReleased
