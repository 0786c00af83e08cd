SPECIFICATION Spec
CONSTANTS
  Focus = {"launch", "link", "bench", "stats"}
  Agents = {a1, a2}
  Uis = {u1, u2}
  None = none
  Gaps = {1, 3, 6}
  Stall = 3
  Interval = 2
  MaxLives = 3
  Runs = 3
  Cooldown = 2
  AckTimeout = 1
  MaxStarts = 2
  MaxOthers = 1
  MaxRestarts = 1
  FrameTime = {0, 5, 17, 40, 6000}
  MaxRows = 3
  Time = {20, 21, 25, 40}
  Hitches = {0, 4, 5, 10}
  Group <- MCGroup
INVARIANTS UserIsToldTheTruth
PROPERTIES OwnChangesAreUndone EverythingSettles
CHECK_DEADLOCK FALSE
