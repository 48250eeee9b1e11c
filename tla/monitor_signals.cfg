SPECIFICATION FairSpec
CONSTANTS
  Monitors = {m1}
  Children = {c1, c2, c3}
  None = none
  Signals <- MCTermHup
  WaitForChild = TRUE
  RestartDelay = 1
  MaxDelay = 3
  MaxFailures = 2
INVARIANTS MonitorTypeOK Backoff
PROPERTIES Restarted TermEnds
