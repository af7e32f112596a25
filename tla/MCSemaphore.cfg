SPECIFICATION SemFairSpec
CONSTANTS
  Threads = {t1, t2, t3, t4, t5}
  Value = 2
INVARIANTS
  UnitsBound
PROPERTY
  LoneWaiterServed
CHECK_DEADLOCK FALSE
