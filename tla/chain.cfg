CONSTANTS
  N = 1
  REQUIRED = 1
  PER_JOINT = 1
  JOINT_STATE_TIMEOUT = 1
  FIELD_TIMEOUT = 1
  PUBLISH_INTERVAL = 1
  MAX_TRANSIT = 1
  MaxTime = 5
  MaxInFlight = 1
SPECIFICATION Spec
CONSTRAINT InFlightBound
CHECK_DEADLOCK FALSE
INVARIANTS
  ValidHasLiveSource
  FieldStampsInThePast
PROPERTIES
  FeedImplemented
