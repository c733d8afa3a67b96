SPECIFICATION ManagerSpec
CONSTANTS
  ItemIds = {i1, i2, i3}
  MaxQueues = 3
INVARIANTS
  AttachedIsServed
  DetachOnLiveQueue

  
CHECK_DEADLOCK FALSE
