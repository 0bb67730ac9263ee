SPECIFICATION FairSpec
CONSTANTS
  Workers = {w1}
  Clients = {main}
  Owner = main
  Jobs = {j1}
  NULL = NULL
  MaxPauses = 1
PROPERTY ResumeUnpauses
CHECK_DEADLOCK FALSE
