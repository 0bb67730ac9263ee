SPECIFICATION Spec
CONSTANTS
  Workers = {w1, w2}
  Clients = {main}
  Owner = main
  Jobs = {j1}
  NULL = NULL
  MaxPauses = 0
INVARIANT NoUseAfterFree
