CONSTANT Calls = {c1, c2, c3, c4}
SPECIFICATION TradeSpec
SYMMETRY CallSymmetry
INVARIANTS
  TradeTypeOK
  MoneyIsSafe
  StatusHasItsEvent
\* A trade in which no call is left to make may rest.
CHECK_DEADLOCK FALSE
