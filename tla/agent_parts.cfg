SPECIFICATION Spec
CONSTANTS
  Focus = {"rules", "oracle", "topology", "corral", "metrics", "switches", "snapshot", "etw",
           "affinity", "tuning", "region"}
  Machines <- MCMachines
  Targets <- MCTargets
  Services <- MCServices
  Drivers <- MCDrivers
  Known <- MCKnown
  Marked <- MCMarked
  Titles <- MCTitles
  Games <- MCGames
  Computers <- MCComputers
  Samples <- MCSamples
  MaxTargets = 4
  MaxDecisions = 3
  MaxDefense = 1
  MaxMoves = 3
  MaxCount = 3
  Background = {1, 3}
  Cores = {0, 1}
  VCache = {0}
  AdviceLogSlots = 2
  FailMax = 2
  FailBackoff = 2
  CoexistEvery = 3
  Tasks = {1, 2, 5}
  Busy = {5}
  TaskCap = 2
  HashSize = 4
  HotCap = 1
  Bulk = 2
  Sweep = 2
  Confidence = 2
  MaxTasks = 3
  MaxCpu = 1
  Tid = {1, 3}
  Owners = {1, 2}
  Cpu = {0, 1}
  CacheSize = 2
  RingCap = 1
  MaxSwitches = 2
  MaxLost = 1
  Pid = {1, 2}
  Threads = {1, 2}
  Cap = 1
  Slack = 1
  Retries = 2
  MaxLives = 3
  Settle = 3
  MaxSessions = 3
  MaxAgents = 2
  Values = {narrow, wide}
  Wide = wide
  MaxObjects = 2
  MaxCalls = 3
  MaxCrashes = 2
  MaxBegun = 2
  MaxChanges = 2
  Producers = {1, 2}
  Consumers = {c1}
  Version <- MCVersion
  Regions = {1, 2}
  MaxCreates = 2
  MaxWrites = 1
INVARIANTS ReadingsAndDecisionsAreRight ChangesCanBeUndone
PROPERTIES OthersAreRespected
CHECK_DEADLOCK FALSE
