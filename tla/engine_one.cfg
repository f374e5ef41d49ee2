SPECIFICATION FairSpec
CONSTANTS
  ann = ann
  bob = bob
  sue = sue
  r1 = r1
  r2 = r2
  Server = {s1}
  User <- MCUser
  Seller = sue
  NoUser = NoUser
  RequestId <- MCRequestId
  NoRequest = NoRequest
  BidCall <- AllCalls
  StartingBid = 1
  MinimumIncrement = 2
  StartAt = 1
  EndAt = 2
  MaxTime = 2
  QueueBound = 2
  MaxFaults = 0
INVARIANTS
  RequestAcceptedOnce
  RecordsComplete
  ResultNamesWinningBid
PROPERTIES
  EveryWaitingBidRuns
  LateFinalizationSettles
