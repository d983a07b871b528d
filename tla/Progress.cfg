SPECIFICATION FairSpec
CONSTANTS
  Page = {p1, p2}
  Turn = {t1, t2}
  NoTurn = NoTurn
  Fragile = {t1}
  Stages = 1
  Capacity = 2
  MaxForgets = 1
INVARIANTS TypeOK NothingMissed SentOnceInOrder
PROPERTIES StreamsEnd
CHECK_DEADLOCK FALSE
