SPECIFICATION Spec
CONSTANTS
  Pid = {p1, p2}
  Mask = {full, ccd0}
  Default = full
  Rule = {corral, user}
  MaxActive = 2
  Faults = {"set_fails", "external"}
  MaxCt = 2
  MaxSlots = 2
INVARIANTS CleanStop
