SPECIFICATION FairSpec
CONSTANTS
  Child = child
  Kids = {}
  Stdout = stdout
  Stderr = stderr
  MaxOutput = 1
  MaxWritten = 1
  GroupLeader = FALSE
  PidReuse = FALSE
  HostFaults = {}
PROPERTY StopIsEnforced
CHECK_DEADLOCK FALSE
