SPECIFICATION Spec
CONSTANTS
  Outcomes = {"ok", "no", "again"}
  Plans <- SmallPlans
  Tokens = {}
  Unknown = Unknown
  NoBaseline = NoBaseline
  MaxRuns = 1
  MaxAttempts = 7
INVARIANTS StrandedCannotRun
CHECK_DEADLOCK FALSE
