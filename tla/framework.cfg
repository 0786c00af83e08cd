SPECIFICATION Spec
CONSTANTS
  Focus = {"graph", "gpu", "flow", "frames", "plane", "pipeline", "channel"}
  None = None
  Graphs <- MCGraphs
  Topology <- MCTopology
  Budget <- MCBudget
  Classes = {"flow", "blend", "external", "frames", "scene", "fsr1", "fsr2", "fsr3",
             "texture", "gl", "image", "backend", "composite"}
  Levels = {1, 2}
  Frames = {"f0", "f1", "f2"}
  Parities <- MCParities
  PoolSlots = 2
  Targets = {"c"}
  Depths = {1, 3}
  MaxInFlight = 2
  Sizes = {0, 1, 2}
  MaxChanges = 3
  MaxRefusals = 1
  Stall = 3
  Oldest = 6
  MaxSwitches = 2
  MaxLosses = 1
  kPoolSize = 3
  Transport = 2
  MaxFrames = 3
  MaxStarts = 2
  Producers = {p1, p2}
  Readers = {1}
  Capacity = 2
  MaxClaims = 3
INVARIANTS UsersFindWhatTheyUse WhatIsBuiltIsWhole
PROPERTIES FramesComeInOrder EverythingGoesOn
CHECK_DEADLOCK FALSE
