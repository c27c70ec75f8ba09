CONSTANTS
  r1 = r1  r2 = r2
  w1 = w1  w2 = w2
  Nobody = Nobody
  Runs = {r1, r2}
  Consumers = {r1}
  Sweepers = {r2}
  Workers = {w1}
  OwnerOf <- SharedOwner
  LeasesOutliveRuns = FALSE
  Modes = {"AUTOMATIC"}
  Confidences = {"high", "low"}
  RetryLimit = 2
  FaultLimit = 1
SPECIFICATION Spec
INVARIANTS EscalationExplained ResolvedWasHealed SingleDiagnosis AttemptsJustified CooldownRespected
PROPERTIES ImplementsRecord ImplementsAdapter
\* The incident may be settled.
CHECK_DEADLOCK FALSE
