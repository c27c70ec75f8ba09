CONSTANTS
  Keys = {"k1", "k2"}
  Ids = {1, 2}
  Publishers = {"p1"}
  Workers = {"w1"}
  SeenLimit = 1
  ListLimit = 1
  CopyLimit = 1
  CrashLimit = 1
SPECIFICATION FairSpec
INVARIANTS TraceRemains
PROPERTIES PickedUp
\* Every incident may be closed and every message gone.
CHECK_DEADLOCK FALSE
