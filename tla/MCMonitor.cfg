SPECIFICATION FairSpec
CONSTANTS
  Threads = {t1, t2, t3, t4}
  Conds = {c1, c2}
  NoCond = NoCond
  Nobody = Nobody
INVARIANTS
  MutualExclusion
  LockedIffHeld
  QueuesMatch
PROPERTIES
  ImplementsMonitor
  LockNotStarved
CHECK_DEADLOCK FALSE
