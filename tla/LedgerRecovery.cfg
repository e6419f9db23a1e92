CONSTANTS
    Nodes <- OneNode
    Entries <- OneNode
    Procs = {p}
    SameInstant = FALSE
    Commands = {"retry"}
    MaxExecutions = 2
    MaxSeq = 2
    MaxRuns = 1
    MaxVersions = 3
SPECIFICATION FairSpec
CHECK_DEADLOCK FALSE
INVARIANTS
    WorkerCanSettle
PROPERTIES
    DispatchesRecovered
