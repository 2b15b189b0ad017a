SPECIFICATION CheckSpec
CONSTANTS
  o1 = o1
  o2 = o2
  Operations = {o1, o2}
  Commands <- AllCommands
  MaxDispatches = 2
  None = none
INVARIANTS CheckTypeOK VerdictsMatchRuns
PROPERTIES QuietVerdicts
SYMMETRY OperationSymmetry
