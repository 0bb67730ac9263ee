SPECIFICATION FairSpec
CONSTANTS
  Workers = {w1, w2}
  Clients = {main}
  Owner = main
  Jobs = {j1, j2}
  NULL = NULL
  MaxPauses = 0
INVARIANT NoStrandedWaiter
PROPERTIES
  ImplementsJobPool
  JobsServed
  CallsComeBack
