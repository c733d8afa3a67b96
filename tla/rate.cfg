SPECIFICATION Spec
CONSTANTS
  LIM_INT = 1
  MAX_TORQUE = 2
  MaxError = 2
  Limits = {1, 2}
INVARIANTS
  FreshObserver
PROPERTIES
  NoWindup
  SaturationReleased
  AttitudeTakesOver
