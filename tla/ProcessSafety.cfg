SPECIFICATION Spec
CONSTANTS
  Child = child
  Kids = {k1}
  Stdout = stdout
  Stderr = stderr
  MaxOutput = 1
  MaxWritten = 2
  GroupLeader = TRUE
  PidReuse = TRUE
  HostFaults = {"wait", "read", "write", "scan", "signal"}
INVARIANTS TypeOK BudgetExact CompletedIsWhole ClaimOwnsNothing CancellationWins
PROPERTY ImplementsContract
CHECK_DEADLOCK FALSE
SYMMETRY StreamSymmetry
