SPECIFICATION Spec
CONSTANTS
  Monitors = {m1}
  Children = {c1, c2}
  None = none
  Signals <- MCTermHup
  WaitForChild = TRUE
  RestartDelay = 1
  MaxDelay = 3
  MaxFailures = 2
INVARIANT OneChild
