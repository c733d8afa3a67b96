SPECIFICATION Spec
CONSTANTS
  RETRY = 1
  HOLD = 2
  CORNER_HOLD = 2
  SEGMENT = 1
  LAST = 2
  VALIDATION = FALSE
  JOINT_WAIT = 1
PROPERTIES
  EnabledAfterHold
  CornerHeld
  Completes
