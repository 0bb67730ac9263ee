SPECIFICATION FairSpec
CONSTANTS
  Workers = {w1, w2}
  Clients = {main, c2}
  Owner = main
  Jobs = {j1}
  NULL = NULL
  MaxPauses = 0
PROPERTY WaitReturns
