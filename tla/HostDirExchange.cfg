SPECIFICATION Spec
CONSTANTS
  c1 = c1
  c2 = c2
  p1 = p1
  p2 = p2
  Clients = {c1, c2}
  Processes = {p1}
  ProcessOf <- OneProcess
  Leaves = {leaf1, leaf2}
  Values = {v1}
  Absent = absent
  Torn = torn
  Kinds = {"cas"}
  MaxTemps = 2
  IoMayFail = TRUE
  Free = free
  Orphan = orphan
  Nobody = nobody
INVARIANTS TypeOK AckedExchangeSurvives TempsAccounted ExhaustionNeedsLeaks RefusalChangesNothing LocksHeldByWorkers
PROPERTY ImplementsAtomicLeaves
CHECK_DEADLOCK FALSE
SYMMETRY DirSymmetry
