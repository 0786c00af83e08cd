SPECIFICATION Spec
CONSTANTS
  Pid = {p1}
  Mask = {full, ccd0, ccd1}
  Default = full
  Rule = {corral}
  MaxActive = 1
  Faults = {"kill", "external", "recycle", "set_fails"}
  MaxCt = 2
  MaxSlots = 3
INVARIANTS WriteAhead CapturedPrevIsTrue PinsAccountedFor
PROPERTIES RevertedAfterSuccess DeadManRestoresAll
