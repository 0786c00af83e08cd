SPECIFICATION Spec
CONSTANTS
  Pid = {p1}
  Mask = {full, ccd0}
  Default = full
  Rule = {corral, user}
  MaxActive = 2
  Faults = {"kill", "set_fails", "revert_fails", "recycle", "race", "external", "enum_fails", "torn", "overlap"}
  MaxCt = 2
  MaxSlots = 2
INVARIANTS TableSound
PROPERTIES RecoveryHitsItsOwnProcess
