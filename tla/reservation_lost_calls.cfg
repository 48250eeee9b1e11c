SPECIFICATION Spec
CONSTANTS
  Ids = {r1, r2}
  Procs = {p1, p2, p3}
  Free = free
  Nobody = nobody
  Cpus <- MCTwoCpus
  Gbs <- MCSmallGbs
  Devs <- MCNone
  Requests <- MCOneCore
  UnlockedRelease = FALSE
  LostCalls = TRUE
  WriteFaults = FALSE
PROPERTIES OnlyOwnMarkers
SYMMETRY Symmetry
