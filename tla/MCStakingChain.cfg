SPECIFICATION Spec
CONSTANTS
  U64 = 8
  ROLE_COUNT = 2
  Owners = {o1, o2}
  Admin = admin
  Authorities = {auth1, auth2}
  Arrays <- MCArrays
  Open = open
  Treasury <- MCTreasury
  Savings = 1
  MaxReward = 1
INVARIANTS TypeOK StakesAreBacked ConfigIsWhatWasAgreed StakersCanLeave
