SPECIFICATION BothSpec
CONSTANTS
  Workers = {w1}
  Clients = {main}
  Owner = main
  Jobs = {j1}
  Workers2 = {w2}
  Clients2 = {c2}
  Owner2 = c2
  Jobs2 = {j2}
  NULL = NULL
  MaxPauses = 0
INVARIANT SecondTeardown
PROPERTY SecondImplements
