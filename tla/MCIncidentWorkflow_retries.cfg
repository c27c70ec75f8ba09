CONSTANTS
  r1 = r1  r2 = r2
  w1 = w1  w2 = w2
  Nobody = Nobody
  Runs = {r1}
  Consumers = {r1}
  Sweepers = {r1}
  Workers = {w1}
  OwnerOf <- SingleOwner
  LeasesOutliveRuns = TRUE
  Modes = {"AUTOMATIC"}
  Confidences = {"high"}
  RetryLimit = 2
  FaultLimit = 0
SPECIFICATION FairSpec
PROPERTIES RetriesEnd
\* The incident may be settled.
CHECK_DEADLOCK FALSE
