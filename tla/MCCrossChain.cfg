SPECIFICATION MCSpec
CONSTANTS
  U64 = 16
  None = None
  Hooks <- MCHooks
  Requests <- MCRequests
  Orders = {"mainnet", "own", "unknown", "nothing", "w", "presale"}
  Want <- MCWant
  ProgramOf <- MCProgramOf
  MAINNET_SOLANA_STABLECOIN_MINTS <- MCMainnet
  Savings = 2
  Jobs = {"s", "d", "w"}
  Domain <- MCDomain
  Txs <- MCTxs
  For <- MCFor
  Life = 1
INVARIANTS OnlyWhatWasEncoded FundsStayTheirOwners RecordFollowsTheChain
PROPERTIES ApprovedIsCompleted
