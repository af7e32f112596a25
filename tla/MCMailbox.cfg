SPECIFICATION MSpec
CONSTANTS
  Threads = {t1, t2, t3}
  Conds = {moreSpace, moreData}
  NoCond = NoCond
  Nobody = Nobody
  BUFFER_SIZE = 5
  Messages <- TestMessages
  Senders = {t1}
  Receivers = {t2, t3}
  moreSpace = moreSpace
  moreData = moreData
  OpenCloseRace = FALSE
INVARIANTS
  SpaceExact
  UsedMatches
PROPERTY
  ImplementsMessageQueue
CHECK_DEADLOCK FALSE
