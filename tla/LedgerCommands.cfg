CONSTANTS
    Nodes <- TwoNodes
    Entries <- OneNode
    Procs = {p}
    SameInstant = FALSE
    Commands = {"budget-stop", "failure", "retry", "approval-request", "approve", "reject", "timeout"}
    MaxExecutions = 2
    MaxSeq = 2
    MaxRuns = 2
    MaxVersions = 1
SPECIFICATION Spec
CHECK_DEADLOCK FALSE
INVARIANTS
    AcceptedUnpaused
    EffectTellsTruth
