SPECIFICATION Spec
CONSTANTS
  Monitors = {m1, m2}
  Children = {c1, c2, c3}
  None = none
  Signals <- MCTerm
  WaitForChild = TRUE
  RestartDelay = 1
  MaxDelay = 1
  MaxFailures = 1
INVARIANT OneChild
