SPECIFICATION FairSpec
CONSTANTS
  t1 = t1
  t2 = t2
  t3 = t3
  t4 = t4
  a1 = a1
  a2 = a2
  Task = {t1, t2, t3, t4}
  Auction = {a1, a2}
  AuctionOf <- MCAuctionOf
  NoTask = NoTask
CHECK_DEADLOCK FALSE
INVARIANTS
  FirstComeFirstServed
  EntriesAreLive
PROPERTIES
  ImplementsSerialQueue
