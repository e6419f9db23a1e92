CONSTANTS
    Nodes <- OneNode
    Entries <- OneNode
    Procs = {p, q}
    SameInstant = FALSE
    Commands = {"cancel", "retry"}
    MaxExecutions = 2
    MaxSeq = 2
    MaxRuns = 2
    MaxVersions = 1
SYMMETRY ProcSymmetry
SPECIFICATION Spec
CHECK_DEADLOCK FALSE
INVARIANTS
    OneRunPerOrder
    NoLiveLeftBehind
PROPERTIES
    AttemptIdsNeverReused
    ImplementsAttemptFates
