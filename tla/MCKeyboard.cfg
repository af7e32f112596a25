SPECIFICATION KFairSpec
CONSTANTS
  Threads = {irq1, r1, r2}
  Conds = {moreSpace, moreData}
  NoCond = NoCond
  Nobody = Nobody
  BUFFER_SIZE = 4
  Messages = {}
  Senders = {irq1}
  Receivers = {r1, r2}
  moreSpace = moreSpace
  moreData = moreData
  OpenCloseRace = FALSE
  Irq = irq1
  Keys = {"a", "leftControl", "rightControl", "capsLock"}
  MaxScanCodes = 1
INVARIANTS
  InterruptNeverBlocks
  ShiftFollowsKeys
PROPERTY
  CharacterServed
