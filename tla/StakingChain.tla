----------------------------- MODULE StakingChain -----------------------------
(***************************************************************************)
(* What the instructions of StakingInstructions do to people's OPEN.  As in *)
(* EscrowChain the program, openfiat-staking, is not in the repository: it  *)
(* is modelled from what the SDK says of it, and as one that trusts the     *)
(* account list it is handed, so that where the money goes is decided by    *)
(* the builders.  Any instruction that can be built may land at any time.   *)
(***************************************************************************)
EXTENDS StakingInstructions, FiniteSets, Functions

CONSTANTS
  Owners,
  Admin,
  Authorities,  \* keys a config may name for slashing and for rewards
  Arrays,       \* the per-role arrays an admin passes
  Open,         \* the OPEN mint
  Treasury,     \* slash destinations: token accounts
  Savings,      \* OPEN each owner starts with
  MaxReward     \* bound on the rewards owed to one stake

Roles == 0 .. ROLE_COUNT - 1
WalletTokens(owner) == <<"wallet tokens", owner>>

ASSUME StakingAssumption ==
  /\ IsFiniteSet(Owners)
  /\ Savings \in 0 .. U64 - 1 /\ MaxReward \in 0 .. U64 - 1
  /\ Owners \cap Authorities = {} /\ Admin \notin Owners
  /\ Arrays \subseteq Seq(0 .. U64 \div 2 - 1)
  /\ Treasury \cap ({WalletTokens(o) : o \in Owners} \cup {stakeVaultPda, rewardsVaultPda}) = {}

VARIABLES
  config, \* StakingConfig
  agreed, \* what the admin last passed for it
  stakes, \* the record at each stake-account address
  tokens, \* what every token account holds
  banned  \* ban records that exist

vars == <<config, agreed, stakes, tokens, banned>>

NoConfig == [slashingAuthority |-> <<"nobody">>, rewardsAuthority |-> <<"nobody">>,
             slashDestination |-> <<"nowhere">>, minStake |-> <<>>, unbonding |-> <<>>]
NoStake == [exists |-> FALSE, owner |-> <<"nobody">>, staked |-> 0, unbonding |-> 0,
            ripe |-> FALSE, rewards |-> 0]
Stakes == {stakeAccountPda(o, r) : o \in Owners, r \in Roles}

Init ==
  /\ config = NoConfig
  /\ agreed = NoConfig
  /\ stakes = [a \in Stakes |-> NoStake]
  /\ tokens = [a \in {WalletTokens(o) : o \in Owners} \cup Treasury
                      \cup {stakeVaultPda, rewardsVaultPda} |->
                 IF \E o \in Owners : a = WalletTokens(o) THEN Savings ELSE 0]
  /\ banned = {}

-----------------------------------------------------------------------------
(* openfiat-staking.                                                       *)

Move(from, to, amount) ==
  tokens' = [tokens EXCEPT ![from] = @ - amount, ![to] = @ + amount]

\* Borsh reads fixed positions, and fails on bytes too few or too many.
PerRole(args, n) == SubSeq(args, (n - 1) * ROLE_COUNT + 1, n * ROLE_COUNT)
After(args, n) == args[2 * ROLE_COUNT + n]

InitializeStakingConfig(ix) ==
  /\ config = NoConfig
  /\ Len(ix.args) = 2 * ROLE_COUNT + 4
  /\ MayWrite(ix, {3, 4, 5})
  /\ config' = [slashingAuthority |-> After(ix.args, 2),
                slashDestination |-> After(ix.args, 3),
                rewardsAuthority |-> After(ix.args, 4),
                minStake |-> PerRole(ix.args, 1), unbonding |-> PerRole(ix.args, 2)]
  /\ UNCHANGED <<stakes, tokens, banned>>

UpdateStakingConfig(ix) ==
  /\ config # NoConfig
  /\ Len(ix.args) = 2 * ROLE_COUNT + 3
  /\ MayWrite(ix, {2})
  /\ config' = [slashingAuthority |-> After(ix.args, 2),
                slashDestination |-> Key(ix, 4),
                rewardsAuthority |-> After(ix.args, 3),
                minStake |-> PerRole(ix.args, 1), unbonding |-> PerRole(ix.args, 2)]
  /\ UNCHANGED <<stakes, tokens, banned>>

InitializeStakeAccount(ix) ==
  /\ ~stakes[Key(ix, 2)].exists
  /\ MayWrite(ix, {2})
  /\ stakes' = [stakes EXCEPT ![Key(ix, 2)] =
                  [NoStake EXCEPT !.exists = TRUE, !.owner = Key(ix, 1)]]
  /\ UNCHANGED <<config, agreed, tokens, banned>>

Stake(ix) ==
  /\ config # NoConfig
  /\ Key(ix, 2) \notin banned
  /\ stakes[Key(ix, 4)].exists
  /\ tokens[Key(ix, 6)] >= ix.args[1]
  /\ MayWrite(ix, {4, 5, 6})
  /\ Move(Key(ix, 6), Key(ix, 5), ix.args[1])
  /\ stakes' = [stakes EXCEPT ![Key(ix, 4)].staked = @ + ix.args[1]]
  /\ UNCHANGED <<config, agreed, banned>>

CanRequestUnstake(ix) ==
  /\ stakes[Key(ix, 3)].owner = Key(ix, 1)
  /\ stakes[Key(ix, 3)].staked >= ix.args[1]
  /\ MayWrite(ix, {3})

\* A second request joins the first, and both wait again.
RequestUnstake(ix) ==
  /\ CanRequestUnstake(ix)
  /\ stakes' = [stakes EXCEPT ![Key(ix, 3)].staked = @ - ix.args[1],
                              ![Key(ix, 3)].unbonding = @ + ix.args[1],
                              ![Key(ix, 3)].ripe = FALSE]
  /\ UNCHANGED <<config, agreed, tokens, banned>>

CanWithdrawUnstaked(ix) ==
  /\ Key(ix, 4) \in DOMAIN stakes
  /\ stakes[Key(ix, 4)].owner = Key(ix, 1)
  /\ stakes[Key(ix, 4)].ripe
  /\ MayWrite(ix, {4, 5, 6})

WithdrawUnstaked(ix) ==
  /\ CanWithdrawUnstaked(ix)
  /\ Move(Key(ix, 5), Key(ix, 6), stakes[Key(ix, 4)].unbonding)
  /\ stakes' = [stakes EXCEPT ![Key(ix, 4)].unbonding = 0, ![Key(ix, 4)].ripe = FALSE]
  /\ UNCHANGED <<config, agreed, banned>>

\* Some part of what is staked.
Slash(ix) ==
  /\ Key(ix, 1) = config.slashingAuthority
  /\ Key(ix, 6) = config.slashDestination
  /\ MayWrite(ix, {4, 5, 6})
  /\ \E part \in 1 .. stakes[Key(ix, 4)].staked :
       /\ Move(Key(ix, 5), Key(ix, 6), part)
       /\ stakes' = [stakes EXCEPT ![Key(ix, 4)].staked = @ - part]
  /\ UNCHANGED <<config, agreed, banned>>

\* A promise: no token moves.
DistributeReward(ix) ==
  /\ Key(ix, 1) = config.rewardsAuthority
  /\ stakes[Key(ix, 3)].exists
  /\ stakes[Key(ix, 3)].rewards + ix.args[1] <= MaxReward
  /\ MayWrite(ix, {3})
  /\ stakes' = [stakes EXCEPT ![Key(ix, 3)].rewards = @ + ix.args[1]]
  /\ UNCHANGED <<config, agreed, tokens, banned>>

ClaimRewards(ix) ==
  /\ stakes[Key(ix, 4)].owner = Key(ix, 1)
  /\ stakes[Key(ix, 4)].rewards > 0
  /\ tokens[Key(ix, 5)] >= stakes[Key(ix, 4)].rewards
  /\ MayWrite(ix, {4, 5, 6})
  /\ Move(Key(ix, 5), Key(ix, 6), stakes[Key(ix, 4)].rewards)
  /\ stakes' = [stakes EXCEPT ![Key(ix, 4)].rewards = 0]
  /\ UNCHANGED <<config, agreed, banned>>

FundRewardsVault(ix) ==
  /\ config # NoConfig
  /\ Key(ix, 2) \notin banned
  /\ tokens[Key(ix, 6)] >= ix.args[1]
  /\ MayWrite(ix, {5, 6})
  /\ Move(Key(ix, 6), Key(ix, 5), ix.args[1])
  /\ UNCHANGED <<config, agreed, stakes, banned>>

\* The unbonding period passes.
Ripen(address) ==
  /\ stakes[address].unbonding > 0
  /\ ~stakes[address].ripe
  /\ stakes' = [stakes EXCEPT ![address].ripe = TRUE]
  /\ UNCHANGED <<config, agreed, tokens, banned>>

BanOrUnban(owner) ==
  /\ banned' = IF banRecordPda(owner) \in banned
               THEN banned \ {banRecordPda(owner)}
               ELSE banned \cup {banRecordPda(owner)}
  /\ UNCHANGED <<config, agreed, stakes, tokens>>

-----------------------------------------------------------------------------
(* What callers build.                                                     *)

Lands(ix, signers, Handler(_)) == Handler(ix) /\ Signed(ix, signers)

Numbers == [minStakeByRole : Arrays, unbondingByRole : Arrays, slashBps : {1}]
AsAgreed(params, slashing, destination, rewards) ==
  agreed' = [slashingAuthority |-> slashing, slashDestination |-> destination,
             rewardsAuthority |-> rewards, minStake |-> params.minStakeByRole,
             unbonding |-> params.unbondingByRole]

ConfigStep ==
  \E params \in Numbers, slashing, rewards \in Authorities, destination \in Treasury :
    LET named == [minStakeByRole |-> params.minStakeByRole,
                  unbondingByRole |-> params.unbondingByRole,
                  slashBps |-> params.slashBps, slashingAuthority |-> slashing,
                  slashDestination |-> destination, rewardsAuthority |-> rewards]
    IN
    /\ CanBuildConfig(params)
    /\ AsAgreed(params, slashing, destination, rewards)
    /\ \/ Lands(initializeStakingConfigIx(Admin, Open, named), {Admin},
                InitializeStakingConfig)
       \/ Lands(updateStakingConfigIx(Admin, Open, destination, named), {Admin},
                UpdateStakingConfig)

WithdrawOf(owner, role) == withdrawUnstakedIx(owner, Open, role, WalletTokens(owner))

StakeStep(owner, role) ==
  \/ Lands(initializeStakeAccountIx(owner, role), {owner}, InitializeStakeAccount)
  \/ \E amount \in 1 .. Savings :
       \/ Lands(stakeIx(owner, Open, role, WalletTokens(owner), amount), {owner}, Stake)
       \/ Lands(requestUnstakeIx(owner, role, amount), {owner}, RequestUnstake)
  \/ Lands(WithdrawOf(owner, role), {owner}, WithdrawUnstaked)
  \/ Lands(claimRewardsIx(owner, Open, role, WalletTokens(owner)), {owner}, ClaimRewards)

FundStep(owner) ==
  \E amount \in 1 .. Savings :
    Lands(fundRewardsVaultIx(owner, Open, WalletTokens(owner), amount), {owner},
          FundRewardsVault)

SlashStep(owner, role) ==
  \E authority \in Authorities, destination \in Treasury :
    Lands(slashIx(authority, Open, owner, role, destination, 1), {authority}, Slash)

RewardStep(owner, role) ==
  \E authority \in Authorities :
    Lands(distributeRewardIx(authority, owner, role, 1), {authority}, DistributeReward)

Next ==
  \/ ConfigStep
  \/ \E owner \in Owners :
       \/ BanOrUnban(owner)
       \/ FundStep(owner)
       \/ \E role \in Roles :
            \/ StakeStep(owner, role) \/ SlashStep(owner, role) \/ RewardStep(owner, role)
            \/ Ripen(stakeAccountPda(owner, role))

Spec == Init /\ [][Next]_vars

-----------------------------------------------------------------------------
(* Properties.                                                             *)

\* Every account holds a number, and a stake account its own wallet's stake.
TypeOK ==
  /\ \A a \in DOMAIN tokens : tokens[a] \in Nat
  /\ \A o \in Owners, r \in Roles :
       stakes[stakeAccountPda(o, r)].exists => stakes[stakeAccountPda(o, r)].owner = o

Principal == [a \in Stakes |-> stakes[a].staked + stakes[a].unbonding]

\* Every stake is in the vault, to the token, whatever rewards were promised
\* and paid meanwhile: principal and rewards are two pools.
StakesAreBacked == tokens[stakeVaultPda] = SumFunction(Principal)

\* Who slashes, where it goes and what a role asks for are what the admin
\* said: no array of another length shifts one field into the next.
ConfigIsWhatWasAgreed == config = agreed

\* Banned or not, an owner alone can ask for any stake back and, when the
\* time has passed, fetch it.
StakersCanLeave ==
  \A o \in Owners, r \in Roles :
    LET stake == stakes[stakeAccountPda(o, r)]
        all == requestUnstakeIx(o, r, stake.staked)
    IN /\ stake.staked > 0 => Signed(all, {o}) /\ CanRequestUnstake(all)
       /\ stake.ripe => Signed(WithdrawOf(o, r), {o}) /\ CanWithdrawUnstaked(WithdrawOf(o, r))
=============================================================================
