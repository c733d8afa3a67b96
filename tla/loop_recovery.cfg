CONSTANTS
  SPOOLUP = 0
  RAMP = 1
  ESO_POS_ESOGATE = TRUE
  LOITER_TIME_BEFORE_DESCEND = 1
  OFFBOARD = {TRUE}
  Trajectories <- MCPosition
  LocalPositions <- MCNoPosition
  GAIN_POS_P = 1
  GAIN_POS_I = 1
  LIM_VEL_HORIZONTAL = 4
  LIM_POS_INT = 8
  MaxError = 4
  MaxFeedForward = 3
SPECIFICATION LiveSpec
PROPERTIES
  ControlRecovers
