CONSTANTS
  Bound = 1
  DYNAMIC_COM_TIMEOUT = 2
  RUN_BACKUP = 1
  MaxTime = 5
SPECIFICATION FairSpec
INVARIANTS
  ComHasLiveSource
  InvalidFeedDropped
  ModelIsCurrent
PROPERTIES
  FallsBackWhenSourceDies
