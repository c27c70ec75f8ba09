CONSTANTS
  Handlers = {"h1", "h2"}
  Keys = {"k1", "k2"}
  KnownKeys = {"k1"}
  Starts = {1, 2}
  Batches <- MCBatches
  AlertLimit = 5
SPECIFICATION FairSpec
INVARIANTS AlertsTracked
PROPERTIES ImplementsLedger RequestsEnd
\* Every request may have been sent and answered.
CHECK_DEADLOCK FALSE
