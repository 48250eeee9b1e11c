SPECIFICATION Spec
CONSTANTS
    Daemons = {d1, d2, d3}
    Kinds = {"dhcp", "radv", "datastore", "monitor"}
    Faults = {"start"}
    Prompt = TRUE
    None = None
SYMMETRY MCSymmetry
CHECK_DEADLOCK FALSE
INVARIANTS
    DaemonTypeOK
    PidFileTells
    OneDaemon
    MonitorStopped
PROPERTY DeleteLeavesNone
