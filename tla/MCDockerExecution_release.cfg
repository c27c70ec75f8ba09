CONSTANTS
  r1 = r1  r2 = r2  r3 = r3
  w1 = w1  w2 = w2  w3 = w3
  k1 = k1  k2 = k2  k3 = k3
  Nobody = Nobody
  Runs = {r1, r2, r3}
  Workers = {w1, w2, w3}
  Keys = {k1, k2, k3}
  OwnerOf <- OwnOwner
  KeyOf <- OwnKey
  StopLimit = 0
SPECIFICATION Spec
PROPERTY NoForeignRelease
\* Every run may be over.
CHECK_DEADLOCK FALSE
