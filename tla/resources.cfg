SPECIFICATION Spec
CONSTANTS
  Parts = {"tap", "lag", "link", "qmp", "sw", "ssh", "wait", "tail", "node", "image", "setup", "plan", "inet"}
  TapAsked <- MCTapAsked
  TapFaults = {"add", "delete", "mover", "mtu", "master", "addr", "state", "nomaster", "status", "back", "stop", "look"}
  i1 = i1
  i2 = i2
  a1 = a1
  a2 = a2
  ThisLag = l1
  OtherLag = l2
  Ports = {i1, i2}
  ForeignPort = f
  LagNone = none
  LagConfigs <- MCLagConfigs
  LinkKinds = {"bridge", "vlan", "netns"}
  LinkMembers = {i1, i2}
  OtherMember = f
  LinkNone = none
  Callers = {c1, c2}
  MaxEvents = 2
  ConsumerStays = TRUE
  Nobody = nobody
  Monitors = {m1, m2}
  Children = {k1, k2}
  None = none
  RestartDelay = 1
  MaxDelay = 1
  MaxFailures = 1
  SshCallers = {s1, s2}
  Hops = 2
  MaxDials = 2
  ForwardAgent = TRUE
  NoCaller = nobody
  WaitTimeout = 7
  WaitInterval = 2
  AttemptTimeout = 2
  RetainLogs = 1
  Conns = {t1, t2}
  MaxLines = 3
  SyncEvery = 1
  NoConn = nobody
  NodeConfigs <- MCNodeConfigs
  ImageKinds = {"disk", "iso", "installer", "installed"}
  Providers = {p1, p2}
  NoFile = none
  Whole = whole
  SetupTargets = {"linux", "darwin", "other"}
  SetupConfigs <- MCSetupConfigs
  PlanKinds = {"disk_image", "cloud_init_iso", "eve_installer", "installed_edge_node", "edge_node", "host_reservation", "tap", "bridge", "vlan", "netns", "lag", "dhcp_server", "dhcp6_server", "radv", "internet_monitor", "monitor_system_usage", "local_datastore", "swtpm", "wait_until"}
  PlanValues = {"a", "b"}
  AtFirst = "a"
  PlanStopped = "b"
  MaxEdits = 2
  InetDests <- MCInetDests
  InetFlushConfigs = {0, 2}
  InetV4 = v4
  InetV6 = v6
  InetNobody = nobody
  MaxCycles = 2
CHECK_DEADLOCK FALSE
CONSTRAINTS NotMisled FewEdits
INVARIANTS
  TypeOK
  TapNoEarlyDrift TapDeleteLeavesNone TapMovedIsDone
  LagApplied LinkNoSpuriousReplace
  QmpOwnReply SwOneMonitor
  SshNothingLeaks SshForwardsOnce
  WaitLogsPruned WaitWithinTimeout TailLinesKept
  PlanApplied InetRecordsWhole
PROPERTIES
  LagForeignStays SwKillsOrphans
  TapMoverEnds QmpReturns NodeLeavesNothing
