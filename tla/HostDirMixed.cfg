SPECIFICATION Spec
CONSTANTS
  c1 = c1
  c2 = c2
  p1 = p1
  p2 = p2
  Clients = {c1, c2}
  Processes = {p1}
  ProcessOf <- OneProcess
  Leaves = {leaf1}
  Values = {v1, v2}
  Absent = absent
  Torn = torn
  Kinds = {"cas", "replace"}
  MaxTemps = 2
  IoMayFail = FALSE
  Free = free
  Orphan = orphan
  Nobody = nobody
INVARIANT ExchangeReplacesObserved
CHECK_DEADLOCK FALSE
SYMMETRY DirSymmetry
