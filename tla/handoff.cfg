CONSTANTS
  ESO_AUX_TIMEOUT = 2
  GYRO_DELAY = 1
  WORD = 16
  MaxTime = 5
SPECIFICATION HandoffSpec
INVARIANTS
  TermsFresh
  PairTornByOneRun
