SPECIFICATION FairSpec
CONSTANTS
  Outcomes = {"ok", "no", "again"}
  Plans <- NamedPlans
  Tokens = {t1, t2}
  Unknown = Unknown
  NoBaseline = NoBaseline
  MaxRuns = 2
  MaxAttempts = 100
INVARIANTS OneResultPerAttempt InputsAccepted PhaseIsTrue LimitsHold
PROPERTIES InputsNotSuperseded JoinsNotSuperseded RunsEnd
