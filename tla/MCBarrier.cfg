SPECIFICATION BarFairSpec
CONSTANTS
  Threads = {t1, t2, t3, t4}
  reach = 4
  MaxRounds = 3
INVARIANTS
  NobodyPassesEarly
PROPERTY
  EverybodyPasses
CHECK_DEADLOCK FALSE
