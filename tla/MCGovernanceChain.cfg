SPECIFICATION MCSpec
CONSTANTS
  U64 = 8
  ROLE_COUNT = 2
  v1 = v1
  v2 = v2
  Voters <- MCVoters
  Admin = admin
  StakeOf <- MCStakeOf
  Proposals = {1, 2}
  Categories = {"Parameter", "Treasury", "Standards"}
  Actions <- MCActions
  Forfeits <- MCForfeits
  Open = open
  Deposit = 1
  Savings = 1
  Digests <- MCDigests
INVARIANTS TypeOK OneVoteEach DepositsGoWhereDecided ReadmissionIsOpen
PROPERTIES ExclusionSpendsItsVote
