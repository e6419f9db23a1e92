CONSTANTS
    Nodes <- OneNode
    Entries <- OneNode
    Procs = {p, q}
    SameInstant = TRUE
    Commands = {}
    MaxExecutions = 1
    MaxSeq = 1
    MaxRuns = 1
    MaxVersions = 2
SYMMETRY ProcSymmetry
SPECIFICATION Spec
CHECK_DEADLOCK FALSE
PROPERTIES
    SettledNotRedispatched
