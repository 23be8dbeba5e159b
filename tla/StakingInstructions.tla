-------------------------- MODULE StakingInstructions --------------------------
(***************************************************************************)
(* The instruction builders of typescript/src/onchain/staking.ts.  All of   *)
(* them deal in OPEN, a Token-2022 mint.                                    *)
(***************************************************************************)
EXTENDS OnchainCodec

CONSTANT ROLE_COUNT  \* the length of a per-role array

ASSUME RoleCountAssumption == ROLE_COUNT \in Nat \ {0}

stakingConfigPda == <<"staking_config">>
stakeVaultPda == <<"stake_vault">>
rewardsVaultPda == <<"rewards_vault">>
\* A stake is per wallet and role.
stakeAccountPda(owner, role) == <<"stake", owner, role>>

Encoded(values, encode(_)) == [i \in DOMAIN values |-> encode(values[i])]

\* A per-role array goes out as its elements, with no length in front; a
\* builder throws rather than send one of another length.
roleArrayUnchecked(values) == TRUE
roleArrayBytes(values) == Len(values) = ROLE_COUNT

\* Both config instructions begin so; the authorities are 32 bytes each.
NumericConfig(params) ==
  Encoded(params.minStakeByRole, u64LE) \o Encoded(params.unbondingByRole, i64LE)
    \o <<params.slashBps>>

CanBuildConfig(params) ==
  roleArrayBytes(params.minStakeByRole) /\ roleArrayBytes(params.unbondingByRole)

initializeStakingConfigIx(admin, mint, params) ==
  Instruction("initializeStakingConfig",
    <<Payer(admin), ReadOnly(mint), Writable(stakingConfigPda),
      Writable(stakeVaultPda), Writable(rewardsVaultPda),
      ReadOnly(TOKEN_2022_PROGRAM_ID), ReadOnly(SystemProgram), ReadOnly(RentSysvar)>>,
    NumericConfig(params)
      \o <<params.slashingAuthority, params.slashDestination, params.rewardsAuthority>>)

\* Here the slash destination is an account.
updateStakingConfigIx(admin, mint, slashDestination, params) ==
  Instruction("updateStakingConfig",
    <<Signer(admin), Writable(stakingConfigPda), ReadOnly(mint),
      ReadOnly(slashDestination)>>,
    NumericConfig(params) \o <<params.slashingAuthority, params.rewardsAuthority>>)

initializeStakeAccountIx(owner, role) ==
  Instruction("initializeStakeAccount",
    <<Payer(owner), Writable(stakeAccountPda(owner, role)), ReadOnly(SystemProgram)>>,
    <<role>>)

\* Gated.
stakeIx(owner, mint, role, from, amount) ==
  Instruction("stake",
    <<Signer(owner), ReadOnly(banRecordPda(owner)), ReadOnly(stakingConfigPda),
      Writable(stakeAccountPda(owner, role)), Writable(stakeVaultPda), Writable(from),
      ReadOnly(mint), ReadOnly(TOKEN_2022_PROGRAM_ID)>>,
    <<u64LE(amount)>>)

requestUnstakeIx(owner, role, amount) ==
  Instruction("requestUnstake",
    <<Signer(owner), ReadOnly(stakingConfigPda), Writable(stakeAccountPda(owner, role))>>,
    <<u64LE(amount)>>)

withdrawUnstakedUnlessBanned(owner, mint, role, to) ==
  Instruction("withdrawUnstaked",
    <<Signer(owner), ReadOnly(banRecordPda(owner)), ReadOnly(mint),
      ReadOnly(stakingConfigPda), Writable(stakeAccountPda(owner, role)),
      Writable(stakeVaultPda), Writable(to), ReadOnly(TOKEN_2022_PROGRAM_ID)>>,
    <<>>)

\* Never gated.
withdrawUnstakedIx(owner, mint, role, to) ==
  Instruction("withdrawUnstaked",
    <<Signer(owner), ReadOnly(mint), ReadOnly(stakingConfigPda),
      Writable(stakeAccountPda(owner, role)), Writable(stakeVaultPda), Writable(to),
      ReadOnly(TOKEN_2022_PROGRAM_ID)>>,
    <<>>)

slashOutOfTheRewards(slashingAuthority, mint, owner, role, destination, misconductCode) ==
  Instruction("slash",
    <<Signer(slashingAuthority), ReadOnly(mint), ReadOnly(stakingConfigPda),
      Writable(stakeAccountPda(owner, role)), Writable(rewardsVaultPda),
      Writable(destination), ReadOnly(TOKEN_2022_PROGRAM_ID)>>,
    <<misconductCode>>)

slashIx(slashingAuthority, mint, owner, role, destination, misconductCode) ==
  Instruction("slash",
    <<Signer(slashingAuthority), ReadOnly(mint), ReadOnly(stakingConfigPda),
      Writable(stakeAccountPda(owner, role)), Writable(stakeVaultPda),
      Writable(destination), ReadOnly(TOKEN_2022_PROGRAM_ID)>>,
    <<misconductCode>>)

distributeRewardIx(rewardsAuthority, owner, role, amount) ==
  Instruction("distributeReward",
    <<Signer(rewardsAuthority), ReadOnly(stakingConfigPda),
      Writable(stakeAccountPda(owner, role))>>,
    <<u64LE(amount)>>)

claimRewardsFromTheStakes(owner, mint, role, to) ==
  Instruction("claimRewards",
    <<Signer(owner), ReadOnly(mint), ReadOnly(stakingConfigPda),
      Writable(stakeAccountPda(owner, role)), Writable(stakeVaultPda), Writable(to),
      ReadOnly(TOKEN_2022_PROGRAM_ID)>>,
    <<>>)

\* Out of the rewards vault, never out of the stakes.
claimRewardsIx(owner, mint, role, to) ==
  Instruction("claimRewards",
    <<Signer(owner), ReadOnly(mint), ReadOnly(stakingConfigPda),
      Writable(stakeAccountPda(owner, role)), Writable(rewardsVaultPda), Writable(to),
      ReadOnly(TOKEN_2022_PROGRAM_ID)>>,
    <<>>)

\* Anyone may fund; gated like every deposit.
fundRewardsVaultIx(funder, mint, from, amount) ==
  Instruction("fundRewardsVault",
    <<Signer(funder), ReadOnly(banRecordPda(funder)), ReadOnly(mint),
      ReadOnly(stakingConfigPda), Writable(rewardsVaultPda), Writable(from),
      ReadOnly(TOKEN_2022_PROGRAM_ID)>>,
    <<u64LE(amount)>>)
=============================================================================
