SPECIFICATION Spec
CONSTANTS
  Proc = {game, bg}
  Eligible = {game}
  Games = {game}
  Streams = {}
  Protected = {}
  Denied = {}
  Bad = {}
  Remembered = {}
  Load = {"idle", "busy"}
  Verdict = {"allowed", "refused"}
  Commands = {"pause", "resume", "diff", "live", "rule", "unrule", "profile"}
  RuleAction = {"never", "vcache"}
  ForeignMask = {"freq"}
  Env = {"exit", "ac", "optimizer", "override"}
  StartProfile = {"corral"}
  StartPaused = {TRUE}
  StartLive = {FALSE}
  MaxLaunch = 1
  RefreshEvery = 2
  AcEvery = 2
  CoexistEvery = 2
  Cycle = 2
INVARIANTS TypeOK UserPinsHaveRules PausedIsQuiet CorralStaysInItsProfile NoOrphan
PROPERTIES GamePlacedIfAllowed
