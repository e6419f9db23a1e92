CONSTANTS
    Nodes <- TwoNodes
    Entries <- OneNode
    Procs = {p, q}
    SameInstant = FALSE
    Commands = {"failure", "retry"}
    MaxExecutions = 2
    MaxSeq = 3
    MaxRuns = 1
    MaxVersions = 2
SYMMETRY ProcSymmetry
SPECIFICATION Spec
CHECK_DEADLOCK FALSE
INVARIANTS
    AcceptedStands
    SnapshotAgrees
    BudgetHeld
PROPERTIES
    NeverRebound
