SPECIFICATION Spec
CONSTANTS
  Calls = {c1, c2}
  Orders = {mock, o1, o2}
  MockOrder = mock
  MaxFails = 1
  Setups <- RazorpayOverlapping
  NoValue = NoValue
CHECK_DEADLOCK FALSE
PROPERTIES
  NeverDowngraded
