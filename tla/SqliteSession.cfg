SPECIFICATION SqliteSpec
CONSTANTS
  s1 = s1
  s2 = s2
  first = first
  second = second
  Sessions = {s1, s2}
  Programs = {first, second}
  Statements <- Scripts
  MaxWrites = 2
  MaxDepth = 3
  NoProgram = noProgram
  NoAttestation = noAttestation
INVARIANTS SqliteTypeOK SchemaIsAttested PromisesAreKept RefusalsAreKept OnlyBusyLeavesOpen
SYMMETRY SqliteSymmetry
