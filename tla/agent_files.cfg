SPECIFICATION Spec
CONSTANTS
  Focus = {"memory", "policy", "kinds"}
  Exe = {a, b, c}
  Pid = {p}
  Refused = {b}
  FirstFile <- MCFirstFile
  MaxEntries = 2
  MaxBad = 2
  MaxMonitored = 1
  Window = 2
  CheckEvery = 1
  MaxStarts = 2
  MaxLives = 2
  Faults = {"crash", "io", "cli"}
  Name = {x, y}
  Action = {"never"}
  MaxRules = 2
  Cpu = "x3d_dual"
  MaxCommands = 4
  MaxAgents = 2
  Program = {game}
  Process = {1}
  NameKind <- MCNameKind
  Asked <- MCAsked
  DllMax = 1
  MaxPidEntries = 1
  MaxClock = 2
  MaxVerdicts = 1
  MaxSpawns = 2
  None = None
SYMMETRY Symmetric
INVARIANTS FilesKeepWhatWasSet
PROPERTIES KnownStaysKnown
CHECK_DEADLOCK FALSE
