SPECIFICATION FairSpec
CONSTANTS
  Calls = {c1, c2}
  Orders = {mock, o1, o2}
  MockOrder = mock
  MaxFails = 1
  Setups <- AllSetups
  NoValue = NoValue
CHECK_DEADLOCK FALSE
INVARIANTS
  SuccessWasPaid
  
  PaidOnTimelineOnce
PROPERTIES
  SuccessIsFinal
  PaidOrderSettles
