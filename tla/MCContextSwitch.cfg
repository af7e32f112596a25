SPECIFICATION Spec
CONSTANTS
  Procs = {p1, p2, t1}
  Threads = {t1}
  Arguments = {0, 1}
  MaxNested = 3
INVARIANTS
  OwnContext
  InterruptsBalanced
