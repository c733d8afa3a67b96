SPECIFICATION Spec
CONSTANTS
  MaxResets = 3
INVARIANTS
  
  
  DerivativeContinuous
PROPERTIES
  SettlesInFrame
