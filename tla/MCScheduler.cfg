SPECIFICATION FairSpec
CONSTANTS
  N = 5
  Threads = {2, 4}
  Queues = {q1, q2}
  LoneBlock = FALSE
INVARIANTS
  RingInv
  QueueInv
  RunningReady
PROPERTIES
  ImplementsRoundRobin
  NoStarvation
