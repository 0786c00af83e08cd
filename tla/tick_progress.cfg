SPECIFICATION FairSpec
CONSTANTS
  Proc = {game, stream}
  Eligible = {game, stream}
  Games = {game}
  Streams = {stream}
  Protected = {}
  Denied = {}
  Bad = {}
  Remembered = {}
  Load = {"idle"}
  Verdict = {"allowed"}
  Commands = {"reset", "resume", "rule"}
  RuleAction = {"vcache"}
  ForeignMask = {"freq"}
  Env = {"ac", "repin"}
  StartProfile = {"games"}
  StartPaused = {TRUE}
  StartLive = {FALSE}
  MaxLaunch = 2
  RefreshEvery = 2
  AcEvery = 2
  CoexistEvery = 1
  Cycle = 2
PROPERTIES AcQuietClears KnownGameIsPlaced StreamYieldsToGame
