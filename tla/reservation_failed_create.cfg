SPECIFICATION Spec
CONSTANTS
  Ids = {r1, r2}
  Procs = {p1, p2, p3}
  Free = free
  Nobody = nobody
  Cpus <- MCSmallCpus
  Gbs <- MCSmallGbs
  Devs <- MCSmallDevs
  Requests <- MCSmallRequests
  UnlockedRelease = FALSE
  LostCalls = TRUE
  WriteFaults = FALSE
INVARIANT NoMarkersAfterFailedCreate
