SPECIFICATION Spec
CONSTANTS
  a1 = a1
  a2 = a2
  Auction = {a1, a2}
  Args <- MCArgs
  Indexed = {a1}
  Contains = {a1, a2}
  Form <- MCForm
  MaxSafe = 700000
  MaxVersion = 1
  MaxFaults = 1
CHECK_DEADLOCK FALSE
INVARIANTS
  CardsTrue
  QuietListRight
