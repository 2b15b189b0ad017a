SPECIFICATION HostsSpec
CONSTANTS
  h1 = h1
  h2 = h2
  h3 = h3
  Handles = {h1, h2, h3}
  NoHandle = noHandle
  MaxHandles = 2
  MaxCalls = 4
  MaxEpochs = 2
  ApiLevels = {30, 36}
  MaxAndroid = 4
  MaxRoutes = 2
  Documents = {photo, letter}
  MaxScenes = 3
  CarinaSessions = {carina1, carina2}
  LegacySessions = {legacy1, legacy2}
  Tokens = {t1, t2}
  MaxRequests = 3
  MaxEntropy = 3
  Paths <- MountPaths
  Quota = 3
  MidiConnections = {c1, c2}
  MidiScripts <- LossyScripts
  QueueCapacity = 3
  ReconnectAttempts = 2
  MaxPlugs = 2
  MaxTime = 3
  MaxApplied = 3
  Runners = {r1, r2}
  ScriptLength = 2
  MaxOutput = 2
  MaxRuns = 2
  Artifacts = {built, other}
  Services = {"safe", "risky"}
  AllowedServices = {"safe"}
  MaxSwaps = 2
  OfferedServices = {"timer", "entropy", "storage"}
  Levels = {1, 2}
  MaxSubstitutes = 2
  MaxOffers = 2
  MaxRequirements = 2
  MaxBuilds = 2
  MaxRecords = 4
INVARIANTS HostsTypeOK SuspensionIsRespected NothingIsLost ResourcesFollowSessions OnlyVerifiedLoads RecordsAreSound
SYMMETRY HandleSymmetry
CHECK_DEADLOCK FALSE
