SPECIFICATION Spec
CONSTANTS
    Daemons = {d1, d2, d3}
    Kinds = {"datastore"}
    Faults = {}
    Prompt = TRUE
    None = None
SYMMETRY MCSymmetry
CHECK_DEADLOCK FALSE
INVARIANT StoppedMeansStopped
