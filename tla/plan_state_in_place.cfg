SPECIFICATION PlanSpec
CONSTANTS
  PlanKinds = {"dhcp_server", "dhcp6_server", "radv", "internet_monitor", "monitor_system_usage", "local_datastore"}
  PlanValues = {"a", "b"}
  AtFirst = "a"
  PlanStopped = "b"
  MaxEdits = 1
CHECK_DEADLOCK FALSE
INVARIANT PlanStateInPlace
