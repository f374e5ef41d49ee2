SPECIFICATION Spec
CONSTANTS
  Tab = {t1}
  Auction = {a1, a2}
  NoAuction = NoAuction
  NoSocket = NoSocket
  MaxConnections = 2
  MaxRequests = 2
  MaxCalls = 1
  MaxFaults = 1
SYMMETRY Symmetric
CHECK_DEADLOCK FALSE
INVARIANTS
  PresenceIsRoom
  OpenPageIsInRoom
  JoinedPageIsUpToDate
PROPERTIES
  VersionNeverBack
