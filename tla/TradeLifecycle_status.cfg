CONSTANT Calls = {c1, c2}
SPECIFICATION TradeSpec
INVARIANT CancelledMeansNoSettlement
CHECK_DEADLOCK FALSE
