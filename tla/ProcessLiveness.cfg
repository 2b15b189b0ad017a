SPECIFICATION FairSpec
CONSTANTS
  Child = child
  Kids = {k1}
  Stdout = stdout
  Stderr = stderr
  MaxOutput = 1
  MaxWritten = 1
  GroupLeader = TRUE
  PidReuse = FALSE
  HostFaults = {"write"}
PROPERTIES StopIsEnforced GoneTreeReturns
CHECK_DEADLOCK FALSE
