-------------------------- MODULE EscrowInstructions --------------------------
(***************************************************************************)
(* The instruction builders of typescript/src/onchain/escrow.ts: for each  *)
(* instruction of openfiat-escrow the account list, in the program's own   *)
(* order, with who signs and what may be written, and the arguments as     *)
(* they come out of the encoders.                                          *)
(***************************************************************************)
EXTENDS StakingInstructions

(* Addresses.                                                              *)

liquidityVaultPda(merchant, mint) == <<"liquidity_vault", merchant, mint>>
liquidityVaultTokensPda(merchant, mint) ==
  <<"liquidity_vault_tokens", merchant, mint>>
tradeEscrowPda(reservationId) == <<"trade_escrow", u64LE(reservationId)>>
tradeEscrowTokensPda(reservationId) ==
  <<"trade_escrow_tokens", u64LE(reservationId)>>
disputeCasePda(reservationId) == <<"dispute_case", u64LE(reservationId)>>
feeConfigPda == <<"fee_config">>
arbitrationPoolPda == <<"arbitration_pool">>

-----------------------------------------------------------------------------
(* Deployment.                                                             *)

initializeFeeConfigIx(admin, params) ==
  Instruction("initializeFeeConfig",
    <<Payer(admin), Writable(feeConfigPda), ReadOnly(SystemProgram)>>,
    [params EXCEPT !.timeoutSecs = i64LE(@), !.disputeFilingFee = u64LE(@)])

\* The treasuries are accounts here, and the allowlist is replaced whole.
updateFeeConfigIx(admin, mint, treasuries, params) ==
  Instruction("updateFeeConfig",
    <<Signer(admin), Writable(feeConfigPda), ReadOnly(mint)>>
      \o [i \in DOMAIN treasuries |-> ReadOnly(treasuries[i])],
    [params EXCEPT !.timeoutSecs = i64LE(@), !.disputeFilingFee = u64LE(@)])

initializeArbitrationPoolIx(admin, mint, tokenProgram) ==
  Instruction("initializeArbitrationPool",
    <<Payer(admin), ReadOnly(feeConfigPda), ReadOnly(mint),
      Writable(arbitrationPoolPda), ReadOnly(tokenProgram),
      ReadOnly(SystemProgram)>>,
    <<>>)

(* A merchant's vault.                                                     *)

createLiquidityVaultIx(merchant, mint, tokenProgram) ==
  Instruction("createLiquidityVault",
    <<Payer(merchant), ReadOnly(mint), ReadOnly(feeConfigPda),
      ReadOnly(arbitrationPoolPda), Writable(liquidityVaultPda(merchant, mint)),
      Writable(liquidityVaultTokensPda(merchant, mint)),
      ReadOnly(tokenProgram), ReadOnly(SystemProgram), ReadOnly(RentSysvar)>>,
    <<>>)

\* Gated: the merchant's own ban address travels along.
depositLiquidityIx(merchant, mint, tokenProgram, from, amount) ==
  Instruction("depositLiquidity",
    <<Signer(merchant), ReadOnly(banRecordPda(merchant)),
      Writable(liquidityVaultPda(merchant, mint)),
      Writable(liquidityVaultTokensPda(merchant, mint)), Writable(from),
      ReadOnly(mint), ReadOnly(tokenProgram)>>,
    <<u64LE(amount)>>)

\* Marking only: no token account is in the list.
reserveLiquidityIx(merchant, mint, amount) ==
  Instruction("reserveLiquidity",
    <<Signer(merchant), Writable(liquidityVaultPda(merchant, mint)),
      ReadOnly(feeConfigPda)>>,
    <<u64LE(amount)>>)

\* Never gated: no ban record, no allowlist.
withdrawLiquidityIx(merchant, mint, tokenProgram, to, amount) ==
  Instruction("withdrawLiquidity",
    <<Signer(merchant), Writable(liquidityVaultPda(merchant, mint)),
      Writable(liquidityVaultTokensPda(merchant, mint)), Writable(to),
      ReadOnly(mint), ReadOnly(tokenProgram)>>,
    <<u64LE(amount)>>)

\* The advertisement's id is an argument: the program keeps no record of it.
chargeAdListingFeeIx(merchant, mint, tokenProgram, treasuries, advertisementId) ==
  Instruction("chargeAdListingFee",
    <<Signer(merchant), ReadOnly(feeConfigPda),
      Writable(liquidityVaultPda(merchant, mint)),
      Writable(liquidityVaultTokensPda(merchant, mint))>>
      \o [i \in DOMAIN treasuries |-> Writable(treasuries[i])]
      \o <<ReadOnly(mint), ReadOnly(tokenProgram)>>,
    <<advertisementId>>)

(* A trade.                                                                *)

\* The buyer is recorded, and signs nothing.
createTradeEscrowIx(merchant, buyer, mint, tokenProgram, reservationId, amount, timeoutSecs) ==
  Instruction("createTradeEscrow",
    <<Payer(merchant), ReadOnly(buyer), ReadOnly(mint), ReadOnly(feeConfigPda),
      Writable(liquidityVaultPda(merchant, mint)),
      Writable(tradeEscrowPda(reservationId)),
      Writable(tradeEscrowTokensPda(reservationId)),
      ReadOnly(tokenProgram), ReadOnly(SystemProgram), ReadOnly(RentSysvar)>>,
    <<u64LE(reservationId), u64LE(amount), i64LE(timeoutSecs)>>)

fundTradeEscrowIx(merchant, mint, tokenProgram, reservationId) ==
  Instruction("fundTradeEscrow",
    <<Signer(merchant), ReadOnly(mint),
      Writable(liquidityVaultPda(merchant, mint)),
      Writable(liquidityVaultTokensPda(merchant, mint)),
      Writable(tradeEscrowPda(reservationId)),
      Writable(tradeEscrowTokensPda(reservationId)), ReadOnly(tokenProgram)>>,
    <<>>)

approveSettlementIx(merchant, reservationId) ==
  Instruction("approveSettlement",
    <<Signer(merchant), Writable(tradeEscrowPda(reservationId))>>, <<>>)

releaseEscrowFromTheVault(mint, tokenProgram, seller, reservationId, destinations) ==
  Instruction("releaseEscrow",
    <<ReadOnly(mint), Writable(liquidityVaultPda(seller, mint)),
      Writable(tradeEscrowPda(reservationId)),
      Writable(liquidityVaultTokensPda(seller, mint)),
      Writable(destinations.buyerTokenAccount), ReadOnly(feeConfigPda)>>
      \o [i \in DOMAIN destinations.treasuries |-> Writable(destinations.treasuries[i])]
      \o <<ReadOnly(tokenProgram)>>,
    <<>>)

\* ReleaseDestinations: the buyer's token account, and the four treasuries.
\* Nobody signs.
releaseEscrowIx(mint, tokenProgram, seller, reservationId, destinations) ==
  Instruction("releaseEscrow",
    <<ReadOnly(mint), Writable(liquidityVaultPda(seller, mint)),
      Writable(tradeEscrowPda(reservationId)),
      Writable(tradeEscrowTokensPda(reservationId)),
      Writable(destinations.buyerTokenAccount), ReadOnly(feeConfigPda)>>
      \o [i \in DOMAIN destinations.treasuries |-> Writable(destinations.treasuries[i])]
      \o <<ReadOnly(tokenProgram)>>,
    <<>>)

cancelReservationOfSigner(signer, mint, tokenProgram, seller, reservationId) ==
  Instruction("cancelReservation",
    <<Signer(signer), ReadOnly(mint), Writable(liquidityVaultPda(signer, mint)),
      Writable(tradeEscrowPda(reservationId)),
      Writable(tradeEscrowTokensPda(reservationId)),
      Writable(liquidityVaultTokensPda(signer, mint)), ReadOnly(tokenProgram)>>,
    <<>>)

\* Either party signs; the tokens go back to the seller's vault.
cancelReservationIx(signer, mint, tokenProgram, seller, reservationId) ==
  Instruction("cancelReservation",
    <<Signer(signer), ReadOnly(mint), Writable(liquidityVaultPda(seller, mint)),
      Writable(tradeEscrowPda(reservationId)),
      Writable(tradeEscrowTokensPda(reservationId)),
      Writable(liquidityVaultTokensPda(seller, mint)), ReadOnly(tokenProgram)>>,
    <<>>)

expireReservationBySeller(mint, tokenProgram, seller, reservationId) ==
  Instruction("expireReservation",
    <<ReadOnly(mint), meta(liquidityVaultPda(seller, mint), FALSE, TRUE),
      Writable(tradeEscrowPda(reservationId)),
      Writable(tradeEscrowTokensPda(reservationId)),
      Signer(liquidityVaultTokensPda(seller, mint)), ReadOnly(tokenProgram)>>,
    <<>>)

\* Permissionless.
expireReservationIx(mint, tokenProgram, seller, reservationId) ==
  Instruction("expireReservation",
    <<ReadOnly(mint), Writable(liquidityVaultPda(seller, mint)),
      Writable(tradeEscrowPda(reservationId)),
      Writable(tradeEscrowTokensPda(reservationId)),
      Writable(liquidityVaultTokensPda(seller, mint)), ReadOnly(tokenProgram)>>,
    <<>>)

(* A dispute.                                                              *)

openDisputeCaseDebitingPayer(signer, payer, reservationId, commitWindowSecs, revealWindowSecs, merchant, depositMint, tokenProgram) ==
  Instruction("openDisputeCase",
    <<Signer(signer), Payer(payer), Writable(tradeEscrowPda(reservationId)),
      Writable(disputeCasePda(reservationId)), ReadOnly(feeConfigPda),
      ReadOnly(depositMint), Writable(liquidityVaultPda(payer, depositMint)),
      Writable(liquidityVaultTokensPda(payer, depositMint)),
      Writable(arbitrationPoolPda), ReadOnly(tokenProgram),
      ReadOnly(SystemProgram), ReadOnly(SlotHashesSysvar)>>,
    <<i64LE(commitWindowSecs), i64LE(revealWindowSecs)>>)

\* Whoever opens it, the deposit is the merchant's.
openDisputeCaseIx(signer, payer, reservationId, commitWindowSecs, revealWindowSecs, merchant, depositMint, tokenProgram) ==
  Instruction("openDisputeCase",
    <<Signer(signer), Payer(payer), Writable(tradeEscrowPda(reservationId)),
      Writable(disputeCasePda(reservationId)), ReadOnly(feeConfigPda),
      ReadOnly(depositMint), Writable(liquidityVaultPda(merchant, depositMint)),
      Writable(liquidityVaultTokensPda(merchant, depositMint)),
      Writable(arbitrationPoolPda), ReadOnly(tokenProgram),
      ReadOnly(SystemProgram), ReadOnly(SlotHashesSysvar)>>,
    <<i64LE(commitWindowSecs), i64LE(revealWindowSecs)>>)

\* Commitment and salt are values of 32 bytes; fixedBytes lets no other by.
commitDisputeVoteIx(arbitrator, reservationId, commitment) ==
  Instruction("commitDisputeVote",
    <<Signer(arbitrator), Writable(disputeCasePda(reservationId)),
      ReadOnly(stakingConfigPda),
      ReadOnly(stakeAccountPda(arbitrator, "Arbitrator")), ReadOnly(feeConfigPda)>>,
    <<commitment>>)

revealDisputeVoteIx(arbitrator, reservationId, outcome, salt, arbitratorStake) ==
  Instruction("revealDisputeVote",
    <<Signer(arbitrator), Writable(disputeCasePda(reservationId)),
      ReadOnly(stakingConfigPda), ReadOnly(arbitratorStake)>>,
    <<outcome, salt>>)

\* Permissionless, and it moves the escrow and the deposit at once.
executeDisputeOutcomeIx(mint, tokenProgram, seller, reservationId, destinations, depositMint) ==
  Instruction("executeDisputeOutcome",
    <<ReadOnly(mint), Writable(disputeCasePda(reservationId)),
      Writable(tradeEscrowPda(reservationId)),
      Writable(tradeEscrowTokensPda(reservationId)),
      Writable(liquidityVaultPda(seller, mint)),
      Writable(liquidityVaultTokensPda(seller, mint)),
      Writable(destinations.buyerTokenAccount), ReadOnly(feeConfigPda)>>
      \o [i \in DOMAIN destinations.treasuries |-> Writable(destinations.treasuries[i])]
      \o <<ReadOnly(depositMint), Writable(arbitrationPoolPda),
           Writable(liquidityVaultPda(seller, depositMint)),
           Writable(liquidityVaultTokensPda(seller, depositMint)),
           ReadOnly(tokenProgram), ReadOnly(SlotHashesSysvar)>>,
    <<>>)

claimArbitrationRewardIx(arbitrator, reservationId, depositMint, to, tokenProgram) ==
  Instruction("claimArbitrationReward",
    <<Signer(arbitrator), Writable(disputeCasePda(reservationId)),
      ReadOnly(feeConfigPda), ReadOnly(depositMint),
      Writable(arbitrationPoolPda), Writable(to), ReadOnly(tokenProgram)>>,
    <<>>)
=============================================================================
