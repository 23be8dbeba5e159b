SPECIFICATION MCSpec
CONSTANTS
  U64 = 8
  ROLE_COUNT = 2
  p1 = p1
  p2 = p2
  usd = usd
  eur = eur
  People <- MCPeople
  Arbitrators = {arb}
  Merchants <- MCPeople
  Open = open
  SettlementFee = 0
  OpenFee = 1
  Savings = 1
  Outcomes = {"BuyerWins", "MerchantWins", "InvalidDispute"}
  Bannable = {p1}
  Stables = {usd, eur}
  Reservations = {1, 2}
  Trade <- MCTrades
  TreasurySets <- MCTreasuries
INVARIANTS TypeOK NobodyIsHeldHostage
PROPERTIES NobodyElsePays ImplementsEscrow
