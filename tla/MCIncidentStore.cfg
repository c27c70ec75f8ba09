\* Three transactions racing on one incident with the default retry limit.
CONSTANTS
  RetryLimit = 2
  Writers = {w1, w2, w3}
SPECIFICATION Spec
SYMMETRY WriterSymmetry
INVARIANTS
  TypeOK
  SnapshotsFresh
  GuardNeverFires
  DispatchesBounded
  ApprovalGate
PROPERTY
  ImplementsRecord
\* An incident in a terminal state takes no further step.
CHECK_DEADLOCK FALSE
