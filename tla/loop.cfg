CONSTANTS
  SPOOLUP = 1
  RAMP = 1
  ESO_POS_ESOGATE = TRUE
  LOITER_TIME_BEFORE_DESCEND = 1
  OFFBOARD = {TRUE}
  Trajectories <- MCTrajectories
  LocalPositions <- MCLocalPositions
  GAIN_POS_P = 1
  GAIN_POS_I = 1
  LIM_VEL_HORIZONTAL = 4
  LIM_POS_INT = 8
  MaxError = 4
  MaxFeedForward = 3
SPECIFICATION LiveSpec
INVARIANTS
  FlightIsEarned
  OriginNeverFlown
  FailsafeIsSustained
  LimitHolds
PROPERTIES
  KeepsThrust
  ColdStartExplained
  FailsafeReacts
  SpoolupEnds
