SPECIFICATION Spec
CONSTANTS
  Calls = {c1, c2}
  Orders = {mock, o1, o2}
  MockOrder = mock
  MaxFails = 1
  Setups <- RazorpaySerial
  NoValue = NoValue
CHECK_DEADLOCK FALSE
INVARIANTS
  SuccessMeansMoney
