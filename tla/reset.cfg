SPECIFICATION ResetSpec
CONSTANTS
  MaxPositionResets = 3
  Modes = {"task", "offboard", "other"}

  
PROPERTIES
  TargetRecovers
