SPECIFICATION Spec
CONSTANTS
  Items = {i1, i2, i3}
  Threads = {t1, t2}
  Worker = w
  None = none
  MaxSpurious = 1
INVARIANTS
  TimeWaits
PROPERTIES
  PromiseKept
  ItemsServed
  TimeGoesOn
