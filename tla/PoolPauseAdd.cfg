SPECIFICATION FairSpec
CONSTANTS
  Workers = {w1}
  Clients = {main}
  Owner = main
  Jobs = {j1, j2}
  NULL = NULL
  MaxPauses = 1
PROPERTY AddsWhilePaused
CHECK_DEADLOCK FALSE
