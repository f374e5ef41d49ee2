SPECIFICATION Spec
CONSTANTS
  ann = ann
  bob = bob
  sue = sue
  r1 = r1
  r2 = r2
  Server = {s1, s2}
  User <- MCUser
  Seller = sue
  NoUser = NoUser
  RequestId <- MCRequestId
  NoRequest = NoRequest
  BidCall <- TwoCalls
  StartingBid = 1
  MinimumIncrement = 2
  StartAt = 1
  EndAt = 2
  MaxTime = 2
  QueueBound = 1
  MaxFaults = 1
SYMMETRY ServerSymmetry
INVARIANTS
  LedgerRises
  LeaderIsLastBid
  AcknowledgedBidsCount
  ClosingRecordsMatch
  TimelineSequencesUnique
PROPERTIES
  FrozenOnceCompleted
  ImplementsEnglishAuction
