------------------------ MODULE GovernanceInstructions ------------------------
(***************************************************************************)
(* The instruction builders of typescript/src/onchain/governance.ts.        *)
(***************************************************************************)
EXTENDS StakingInstructions

governanceConfigPda == <<"governance_config">>
depositVaultPda == <<"deposit_vault">>
emergencyAuthorityPda == <<"emergency_authority">>
proposalPda(id) == <<"proposal", u64LE(id)>>
voteRecordPda(proposal, voter) == <<"vote_record", proposal, voter>>
proposalActionPda(proposal) == <<"proposal_action", proposal>>

\* GovernanceAction: a tag, and the fields of that variant.
noAction == [kind |-> "none"]
ListWalletAction(wallet, reason, evidenceHash) ==
  [kind |-> "listWallet", wallet |-> wallet, reason |-> reason, evidence |-> evidenceHash]
DelistWalletAction(wallet) == [kind |-> "delistWallet", wallet |-> wallet]

-----------------------------------------------------------------------------
\* The emergency authority comes with the config.
initializeGovernanceConfigIx(admin, mint, forfeitDestination, depositAmount) ==
  Instruction("initializeGovernanceConfig",
    <<Payer(admin), ReadOnly(mint), Writable(governanceConfigPda),
      Writable(depositVaultPda), Writable(emergencyAuthorityPda),
      ReadOnly(TOKEN_2022_PROGRAM_ID), ReadOnly(SystemProgram), ReadOnly(RentSysvar)>>,
    <<u64LE(depositAmount), forfeitDestination>>)

\* Here the forfeit destination is an account.
updateGovernanceConfigIx(admin, mint, forfeitDestination, depositAmount) ==
  Instruction("updateGovernanceConfig",
    <<Signer(admin), Writable(governanceConfigPda), ReadOnly(mint),
      ReadOnly(forfeitDestination), ReadOnly(emergencyAuthorityPda)>>,
    <<u64LE(depositAmount)>>)

\* Gated.  The action is fixed here.
createProposalIx(proposer, mint, from, id, category, action) ==
  Instruction("createProposal",
    <<Payer(proposer), ReadOnly(banRecordPda(proposer)), ReadOnly(mint),
      ReadOnly(governanceConfigPda), Writable(depositVaultPda), Writable(from),
      Writable(proposalPda(id)), Writable(proposalActionPda(proposalPda(id))),
      ReadOnly(TOKEN_2022_PROGRAM_ID), ReadOnly(SystemProgram), ReadOnly(RentSysvar)>>,
    <<u64LE(id), category, action>>)

castVoteRecordedPerStake(voter, proposalId, inFavor, role) ==
  Instruction("castVote",
    <<Payer(voter), ReadOnly(governanceConfigPda), Writable(proposalPda(proposalId)),
      ReadOnly(stakingConfigPda), ReadOnly(stakeAccountPda(voter, role)),
      Writable(voteRecordPda(proposalPda(proposalId), stakeAccountPda(voter, role))),
      ReadOnly(SystemProgram)>>,
    <<inFavor, role>>)

\* With the stake of one role; the vote record is the voter's, whatever role.
castVoteIx(voter, proposalId, inFavor, role) ==
  Instruction("castVote",
    <<Payer(voter), ReadOnly(governanceConfigPda), Writable(proposalPda(proposalId)),
      ReadOnly(stakingConfigPda), ReadOnly(stakeAccountPda(voter, role)),
      Writable(voteRecordPda(proposalPda(proposalId), voter)),
      ReadOnly(SystemProgram)>>,
    <<inFavor, role>>)

\* Permissionless.
tallyAndFinalizeIx(proposalId) ==
  Instruction("tallyAndFinalize", <<Writable(proposalPda(proposalId))>>, <<>>)

refundOrForfeitSwapped(mint, proposalId, proposerTokenAccount, forfeitDestination) ==
  Instruction("refundOrForfeitDeposit",
    <<ReadOnly(mint), ReadOnly(governanceConfigPda), Writable(depositVaultPda),
      Writable(proposalPda(proposalId)), Writable(forfeitDestination),
      Writable(proposerTokenAccount), ReadOnly(TOKEN_2022_PROGRAM_ID)>>,
    <<>>)

refundOrForfeitDepositIx(mint, proposalId, proposerTokenAccount, forfeitDestination) ==
  Instruction("refundOrForfeitDeposit",
    <<ReadOnly(mint), ReadOnly(governanceConfigPda), Writable(depositVaultPda),
      Writable(proposalPda(proposalId)), Writable(proposerTokenAccount),
      Writable(forfeitDestination), ReadOnly(TOKEN_2022_PROGRAM_ID)>>,
    <<>>)

\* Two records of what was decided; neither touches what it is about.
updateConfigParameterIx(proposalId, targetProgram, parameterKey, newValue) ==
  Instruction("updateConfigParameter", <<Writable(proposalPda(proposalId))>>,
              <<targetProgram, parameterKey, u64LE(newValue)>>)

authorizeTreasurySpendIx(proposalId, destination, amount) ==
  Instruction("authorizeTreasurySpend", <<Writable(proposalPda(proposalId))>>,
              <<destination, u64LE(amount)>>)

listWalletBanningTheSubmitter(submitter, proposalId, wallet) ==
  Instruction("listWallet",
    <<Payer(submitter), ReadOnly(governanceConfigPda), Writable(proposalPda(proposalId)),
      ReadOnly(proposalActionPda(proposalPda(proposalId))),
      Writable(banRecordPda(submitter)), ReadOnly(SystemProgram)>>,
    <<wallet>>)

\* The submitter signs and pays, and is nobody in particular.
listWalletIx(submitter, proposalId, wallet) ==
  Instruction("listWallet",
    <<Payer(submitter), ReadOnly(governanceConfigPda), Writable(proposalPda(proposalId)),
      ReadOnly(proposalActionPda(proposalPda(proposalId))),
      Writable(banRecordPda(wallet)), ReadOnly(SystemProgram)>>,
    <<wallet>>)

delistWalletReadingTheGate(submitter, proposalId, wallet) ==
  Instruction("delistWallet",
    <<Payer(submitter), ReadOnly(governanceConfigPda), Writable(proposalPda(proposalId)),
      ReadOnly(proposalActionPda(proposalPda(proposalId))),
      ReadOnly(banRecordPda(wallet))>>,
    <<wallet>>)

delistWalletIx(submitter, proposalId, wallet) ==
  Instruction("delistWallet",
    <<Payer(submitter), ReadOnly(governanceConfigPda), Writable(proposalPda(proposalId)),
      ReadOnly(proposalActionPda(proposalPda(proposalId))),
      Writable(banRecordPda(wallet))>>,
    <<wallet>>)

emergencyAuthorityOfPayer(payer) ==
  Instruction("initializeEmergencyAuthority",
    <<Payer(payer), Writable(<<"emergency_authority", payer>>), ReadOnly(SystemProgram)>>,
    <<>>)

\* Permissionless and without arguments.
initializeEmergencyAuthorityIx(payer) ==
  Instruction("initializeEmergencyAuthority",
    <<Payer(payer), Writable(emergencyAuthorityPda), ReadOnly(SystemProgram)>>, <<>>)

\* Throws on a digest that is not 32 bytes.
CanBuildLink(offchainIdHash) == offchainIdHash.length = 32
linkOffchainProposalIx(proposer, proposalId, offchainIdHash) ==
  Instruction("linkOffchainProposal",
    <<Signer(proposer), Writable(proposalPda(proposalId))>>, <<offchainIdHash>>)
=============================================================================
