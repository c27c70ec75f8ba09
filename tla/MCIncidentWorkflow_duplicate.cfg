CONSTANTS
  r1 = r1  r2 = r2
  w1 = w1  w2 = w2
  Nobody = Nobody
  Runs = {r1, r2}
  Consumers = {r1}
  Sweepers = {r2}
  Workers = {w1}
  OwnerOf <- SharedOwner
  LeasesOutliveRuns = TRUE
  Modes = {"AUTOMATIC"}
  Confidences = {"high"}
  RetryLimit = 0
  FaultLimit = 0
SPECIFICATION Spec
INVARIANTS OneDiagnosis
\* The incident may be settled.
CHECK_DEADLOCK FALSE
