SPECIFICATION Spec
CONSTANTS
  Child = child
  Kids = {k1}
  Stdout = stdout
  Stderr = stderr
  MaxOutput = 1
  MaxWritten = 2
  GroupLeader = TRUE
  PidReuse = TRUE
  HostFaults = {}
INVARIANT OnlyOwnGroupSignalled
CHECK_DEADLOCK FALSE
SYMMETRY StreamSymmetry
