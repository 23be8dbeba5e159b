CONSTANTS
  Reads = {r1, r2}
  Wallets = {w1, w2}
  Surfaces = {"settlements", "trades", "earnings"}
SPECIFICATION ProofSpec
INVARIANTS
  ProofTypeOK
  DisclosedWhereAsked
PROPERTY RefusedForAReason
CHECK_DEADLOCK FALSE
