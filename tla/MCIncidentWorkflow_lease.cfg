CONSTANTS
  r1 = r1  r2 = r2
  w1 = w1  w2 = w2
  Nobody = Nobody
  Runs = {r1}
  Consumers = {r1}
  Sweepers = {r1}
  Workers = {w1}
  OwnerOf <- SingleOwner
  LeasesOutliveRuns = FALSE
  Modes = {"AUTOMATIC"}
  Confidences = {"high"}
  RetryLimit = 0
  FaultLimit = 0
SPECIFICATION Spec
PROPERTY WritesUnderLease
\* The incident may be settled.
CHECK_DEADLOCK FALSE
