SPECIFICATION Spec
CONSTANTS
  t1 = t1
  t2 = t2
  ann = ann
  bob = bob
  sue = sue
  Tab = {t1, t2}
  User = {ann, bob, sue}
  Seller = sue
  NoUser = NoUser
  Visitors <- MCVisitors
  StartingBid = 1
  MinimumIncrement = 2
  Typed = {4}
  ChatLimit = 1
  MaxConnections = 2
  MaxPresses = 2
  MaxFaults = 1
CHECK_DEADLOCK FALSE
INVARIANTS
  SuggestionsAreInformed
  ChatIsTrue
