SPECIFICATION Spec
CONSTANTS
  Threads = {t1, t2, t3}
  Conds = {c1, c2}
  NoCond = NoCond
  Nobody = Nobody
INVARIANTS
  SpinExclusion
  NoMissedWaiter
PROPERTY
  ImplementsAtomicMonitor
CHECK_DEADLOCK FALSE
