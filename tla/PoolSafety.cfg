SPECIFICATION Spec
CONSTANTS
  Workers = {w1, w2, w3}
  Clients = {main, c2}
  Owner = main
  Jobs = {j1, j2}
  NULL = NULL
  MaxPauses = 1
SYMMETRY Symmetry
INVARIANTS
  TypeOK
  LockOwners
  CountsExact
  NoLostWakeup
  JobOnce
  ServesWhileUp
  TeardownQuiescent
CHECK_DEADLOCK FALSE
