SPECIFICATION Spec
CONSTANTS
  Ids = {r1, r2}
  Procs = {p1, p2}
  Free = free
  Nobody = nobody
  Cpus <- MCCpus
  Gbs <- MCGbs
  Devs <- MCDevs
  Requests <- MCRequests
  UnlockedRelease = TRUE
  LostCalls = FALSE
  WriteFaults = FALSE
INVARIANTS TypeOK ClaimsStayFree StateExact ReserveExact NothingLeft
PROPERTIES OnlyOwnMarkers ExclusiveAllocation
