------------------------- MODULE StakingChain_proofs -------------------------
(***************************************************************************)
(* Proofs about StakingChain, for any number of owners, any arrays whose    *)
(* numbers fit their width and any length of a per-role array: every stake  *)
(* is in the vault, the config is what was agreed, and stakers can leave.   *)
(***************************************************************************)
EXTENDS StakingChain, Induction, SequenceTheorems

Nobody == <<"nobody">>
Accounts == {WalletTokens(o) : o \in Owners} \cup Treasury \cup {stakeVaultPda, rewardsVaultPda}

Record ==
  [exists : BOOLEAN, owner : Owners \cup {Nobody}, staked : Nat, unbonding : Nat,
   ripe : BOOLEAN, rewards : Nat]

(* A record is there in full and is its own wallet's, or there is none.     *)
RecordsAreOwn ==
  /\ stakes \in [Stakes -> Record]
  /\ \A o \in Owners, r \in Roles :
       LET record == stakes[stakeAccountPda(o, r)] IN
       record = NoStake \/ (record.exists /\ record.owner = o)

TokensAreNumbers == tokens \in [Accounts -> Nat]

StakingInv ==
  /\ RecordsAreOwn
  /\ TokensAreNumbers
  /\ StakesAreBacked
  /\ ConfigIsWhatWasAgreed

-----------------------------------------------------------------------------
(* Addresses.                                                              *)

LEMMA StakesAreApart ==
  \A o, p, r, s : stakeAccountPda(o, r) = stakeAccountPda(p, s) => o = p /\ r = s
BY DEF stakeAccountPda

LEMMA AccountsAreApart ==
  /\ stakeVaultPda # rewardsVaultPda
  /\ stakeVaultPda \notin Treasury /\ rewardsVaultPda \notin Treasury
  /\ \A o \in Owners : WalletTokens(o) # stakeVaultPda /\ WalletTokens(o) # rewardsVaultPda
<1>1. \A o : WalletTokens(o) # stakeVaultPda /\ WalletTokens(o) # rewardsVaultPda
  BY DEF WalletTokens, stakeVaultPda, rewardsVaultPda
<1>2. stakeVaultPda # rewardsVaultPda
  BY DEF stakeVaultPda, rewardsVaultPda
<1> QED  BY <1>1, <1>2, StakingAssumption

LEMMA StakesAreFinite == IsFiniteSet(Stakes)
<1> DEFINE f == [p \in Owners \X Roles |-> stakeAccountPda(p[1], p[2])]
<1>1. IsFiniteSet(Roles)
  BY FS_Interval, RoleCountAssumption DEF Roles
<1>2. IsFiniteSet(Owners \X Roles)
  BY <1>1, FS_Product, StakingAssumption
<1>3. f \in Surjection(Owners \X Roles, Stakes)
  <2>1. \A o \in Owners, r \in Roles : f[<<o, r>>] = stakeAccountPda(o, r)
    OBVIOUS
  <2>2. ASSUME NEW a \in Stakes PROVE \E p \in Owners \X Roles : f[p] = a
    <3>1. PICK o \in Owners, r \in Roles : a = stakeAccountPda(o, r)
      BY DEF Stakes
    <3>2. <<o, r>> \in Owners \X Roles /\ f[<<o, r>>] = a
      BY <2>1, <3>1
    <3> HIDE DEF f
    <3> QED  BY <3>2
  <2>3. f \in [Owners \X Roles -> Stakes]
    BY DEF Stakes
  <2> QED  BY <2>2, <2>3 DEF Surjection
<1> QED  BY <1>2, <1>3, FS_Surjection

(* The amounts that go out fit.                                             *)
LEMMA AmountsFit == \A amount \in 1 .. Savings : u64LE(amount) = amount
BY StakingAssumption, U64Assumption DEF u64LE

-----------------------------------------------------------------------------
LEMMA StakingStarts == Init => StakingInv
<1> SUFFICES ASSUME Init PROVE StakingInv
  OBVIOUS
<1>1. RecordsAreOwn
  BY DEF Init, RecordsAreOwn, Record, NoStake, Nobody, Stakes
<1>2. TokensAreNumbers /\ tokens[stakeVaultPda] = 0
  BY AccountsAreApart, StakingAssumption DEF Init, TokensAreNumbers, Accounts
<1>3. StakesAreBacked
  <2>1. Principal \in [Stakes -> {0}]
    BY DEF Init, Principal, NoStake
  <2> QED  BY <1>2, <2>1, SumOfZeros, StakesAreFinite DEF StakesAreBacked
<1>4. ConfigIsWhatWasAgreed
  BY DEF Init, ConfigIsWhatWasAgreed
<1> QED  BY <1>1, <1>2, <1>3, <1>4 DEF StakingInv

(* Tokens go from one account to another.                                   *)
LEMMA MoveKeeps ==
  ASSUME TokensAreNumbers, NEW from \in Accounts, NEW to \in Accounts, from # to,
         NEW amount \in Nat, tokens[from] >= amount, Move(from, to, amount)
  PROVE  /\ TokensAreNumbers'
         /\ tokens'[from] = tokens[from] - amount
         /\ tokens'[to] = tokens[to] + amount
         /\ \A a \in Accounts \ {from, to} : tokens'[a] = tokens[a]
BY DEF TokensAreNumbers, Move

(* One stake changes, and the vault by as much.                             *)
LEMMA OneStakeKeeps ==
  ASSUME StakingInv, NEW o \in Owners, NEW r \in Roles, NEW record \in Record,
         stakes' = [stakes EXCEPT ![stakeAccountPda(o, r)] = record],
         record.exists /\ record.owner = o,
         TokensAreNumbers',
         tokens'[stakeVaultPda] =
           tokens[stakeVaultPda] + (record.staked + record.unbonding)
             - (stakes[stakeAccountPda(o, r)].staked + stakes[stakeAccountPda(o, r)].unbonding),
         UNCHANGED <<config, agreed>>
  PROVE  StakingInv'
<1> DEFINE a == stakeAccountPda(o, r)
<1>1. a \in Stakes /\ stakes \in [Stakes -> Record]
  BY DEF Stakes, StakingInv, RecordsAreOwn
<1>2. /\ stakes' \in [Stakes -> Record] /\ stakes'[a] = record
      /\ \A b \in Stakes \ {a} : stakes'[b] = stakes[b]
  BY <1>1
<1>3. RecordsAreOwn'
  <2> SUFFICES ASSUME NEW p \in Owners, NEW s \in Roles
               PROVE  \/ stakes'[stakeAccountPda(p, s)] = NoStake
                      \/ /\ stakes'[stakeAccountPda(p, s)].exists
                         /\ stakes'[stakeAccountPda(p, s)].owner = p
    BY <1>2 DEF RecordsAreOwn
  <2>1. CASE stakeAccountPda(p, s) = a
    BY <2>1, <1>2, StakesAreApart
  <2>2. CASE stakeAccountPda(p, s) # a
    BY <2>2, <1>2 DEF StakingInv, RecordsAreOwn, Stakes
  <2> QED  BY <2>1, <2>2
<1>4. StakesAreBacked'
  <2> DEFINE old == Principal
             new == [b \in Stakes |-> stakes'[b].staked + stakes'[b].unbonding]
  <2>1. \A b \in Stakes : /\ stakes[b].staked \in Nat /\ stakes[b].unbonding \in Nat
                          /\ stakes'[b].staked \in Nat /\ stakes'[b].unbonding \in Nat
    BY <1>1, <1>2 DEF Record
  <2>2. old \in [Stakes -> Int] /\ new \in [Stakes -> Int]
    BY <2>1 DEF Principal
  <2>3. /\ \A b \in Stakes \ {a} : new[b] = old[b]
        /\ new[a] = record.staked + record.unbonding
        /\ old[a] = stakes[a].staked + stakes[a].unbonding
    BY <1>1, <1>2 DEF Principal
  <2>4. tokens[stakeVaultPda] = SumFunction(old)
    BY DEF StakingInv, StakesAreBacked
  <2>4a. Principal' = new
    BY DEF Principal
  <2> HIDE DEF old, new
  <2>5. SumFunction(old) \in Int /\ SumFunction(new) = SumFunction(old) + (new[a] - old[a])
    BY <1>1, <2>2, <2>3, SumChangesBy, StakesAreFinite
  <2>6. record.staked \in Nat /\ record.unbonding \in Nat
        /\ stakes[a].staked \in Nat /\ stakes[a].unbonding \in Nat
    BY <1>1 DEF Record
  <2>7. tokens'[stakeVaultPda] = SumFunction(new)
    BY <2>3, <2>4, <2>5, <2>6
  <2> QED  BY <2>7, <2>4a DEF StakesAreBacked
<1> QED  BY <1>3, <1>4 DEF StakingInv, ConfigIsWhatWasAgreed

(* What a stake's record is, whose principal is in the vault.               *)
LEMMA StakeOf ==
  ASSUME StakingInv, NEW o \in Owners, NEW r \in Roles
  PROVE  LET a == stakeAccountPda(o, r) IN
         /\ a \in Stakes /\ stakes \in [Stakes -> Record] /\ stakes[a] \in Record
         /\ stakes[a] = NoStake \/ (stakes[a].exists /\ stakes[a].owner = o)
         /\ stakes[a].staked \in Nat /\ stakes[a].unbonding \in Nat
         /\ stakes[a].rewards \in Nat
         /\ stakes[a].staked + stakes[a].unbonding <= tokens[stakeVaultPda]
<1> DEFINE a == stakeAccountPda(o, r)
<1>1. a \in Stakes /\ stakes \in [Stakes -> Record] /\ stakes[a] \in Record
  BY DEF Stakes, StakingInv, RecordsAreOwn
<1>2. stakes[a] = NoStake \/ (stakes[a].exists /\ stakes[a].owner = o)
  BY DEF StakingInv, RecordsAreOwn
<1>3. Principal \in [Stakes -> Nat]
  BY <1>1 DEF Principal, Record
<1>4. Principal[a] <= SumFunction(Principal)
  BY <1>1, <1>3, StakesAreFinite, SumOfAmounts
<1>5. Principal[a] = stakes[a].staked + stakes[a].unbonding
  BY <1>1 DEF Principal
<1> QED  BY <1>1, <1>2, <1>4, <1>5 DEF StakingInv, StakesAreBacked, Record

LEMMA InitializeStakeAccountKeeps ==
  ASSUME StakingInv, NEW o \in Owners, NEW r \in Roles,
         InitializeStakeAccount(initializeStakeAccountIx(o, r))
  PROVE  StakingInv'
<1> DEFINE a == stakeAccountPda(o, r)
           record == [NoStake EXCEPT !.exists = TRUE, !.owner = o]
<1>1. Key(initializeStakeAccountIx(o, r), 1) = o /\ Key(initializeStakeAccountIx(o, r), 2) = a
  BY DEF initializeStakeAccountIx, Key, Instruction, Payer, Writable, ReadOnly, meta
<1>2. /\ stakes' = [stakes EXCEPT ![a] = record] /\ ~ stakes[a].exists
      /\ UNCHANGED <<config, agreed, tokens>>
  BY <1>1 DEF InitializeStakeAccount
<1>3. record \in Record /\ record.exists /\ record.owner = o /\ record.staked = 0
      /\ record.unbonding = 0
  BY DEF Record, NoStake, Nobody
<1>4. stakes[a].staked = 0 /\ stakes[a].unbonding = 0
  BY <1>2, StakeOf DEF NoStake
<1>5. TokensAreNumbers' /\ tokens[stakeVaultPda] \in Nat
  BY <1>2 DEF StakingInv, TokensAreNumbers, Accounts
<1>6. tokens'[stakeVaultPda] =
        tokens[stakeVaultPda] + (record.staked + record.unbonding)
          - (stakes[a].staked + stakes[a].unbonding)
  BY <1>2, <1>3, <1>4, <1>5
<1> HIDE DEF record
<1> QED  BY <1>2, <1>3, <1>5, <1>6, OneStakeKeeps

LEMMA StakeKeeps ==
  ASSUME StakingInv, NEW o \in Owners, NEW r \in Roles, NEW amount \in 1 .. Savings,
         Stake(stakeIx(o, Open, r, WalletTokens(o), amount))
  PROVE  StakingInv'
<1> DEFINE ix == stakeIx(o, Open, r, WalletTokens(o), amount)
           a == stakeAccountPda(o, r)
           record == [stakes[a] EXCEPT !.staked = @ + amount]
<1>1. /\ Key(ix, 4) = a /\ Key(ix, 5) = stakeVaultPda /\ Key(ix, 6) = WalletTokens(o)
      /\ ix.args[1] = amount
  BY AmountsFit DEF stakeIx, Key, Instruction, Signer, Writable, ReadOnly, meta
<1> HIDE DEF ix
<1>2. /\ stakes[a].exists /\ tokens[WalletTokens(o)] >= amount
      /\ Move(WalletTokens(o), stakeVaultPda, amount)
      /\ stakes' = [stakes EXCEPT ![a].staked = @ + amount]
      /\ UNCHANGED <<config, agreed>>
  BY <1>1 DEF Stake, ix
<1>3. stakes[a] \in Record /\ stakes[a].owner = o /\ amount \in Nat
  BY <1>2, StakeOf DEF NoStake
<1>4. /\ record \in Record /\ record.exists /\ record.owner = o
      /\ record.staked = stakes[a].staked + amount /\ record.unbonding = stakes[a].unbonding
  BY <1>2, <1>3 DEF Record
<1>5. stakes' = [stakes EXCEPT ![a] = record]
  BY <1>2
<1>6. /\ TokensAreNumbers' /\ tokens[stakeVaultPda] \in Nat
      /\ tokens'[stakeVaultPda] = tokens[stakeVaultPda] + amount
  <2>1. /\ WalletTokens(o) \in Accounts /\ stakeVaultPda \in Accounts
        /\ WalletTokens(o) # stakeVaultPda
    BY AccountsAreApart DEF Accounts
  <2> QED  BY <1>2, <1>3, <2>1, MoveKeeps DEF StakingInv, TokensAreNumbers
<1>7. tokens'[stakeVaultPda] =
        tokens[stakeVaultPda] + (record.staked + record.unbonding)
          - (stakes[a].staked + stakes[a].unbonding)
  BY <1>3, <1>4, <1>6 DEF Record
<1> HIDE DEF record
<1> QED  BY <1>2, <1>4, <1>5, <1>6, <1>7, OneStakeKeeps

LEMMA RequestUnstakeKeeps ==
  ASSUME StakingInv, NEW o \in Owners, NEW r \in Roles, NEW amount \in 1 .. Savings,
         RequestUnstake(requestUnstakeIx(o, r, amount))
  PROVE  StakingInv'
<1> DEFINE ix == requestUnstakeIx(o, r, amount)
           a == stakeAccountPda(o, r)
           record == [stakes[a] EXCEPT !.staked = stakes[a].staked - amount,
                                       !.unbonding = stakes[a].unbonding + amount,
                                       !.ripe = FALSE]
<1>1. Key(ix, 1) = o /\ Key(ix, 3) = a /\ ix.args[1] = amount
  BY AmountsFit DEF requestUnstakeIx, Key, Instruction, Signer, Writable, ReadOnly, meta
<1> HIDE DEF ix
<1>2. /\ stakes[a].staked >= amount
      /\ UNCHANGED <<config, agreed, tokens>>
  BY <1>1 DEF RequestUnstake, CanRequestUnstake, ix
<1>2a. stakes' = [stakes EXCEPT ![a].staked = @ - amount, ![a].unbonding = @ + amount,
                               ![a].ripe = FALSE]
  BY <1>1 DEF RequestUnstake, ix
<1>3a. a \in Stakes /\ stakes \in [Stakes -> Record]
  BY StakeOf
<1>3. /\ stakes[a] \in Record /\ stakes[a].exists /\ stakes[a].owner = o
      /\ amount \in Nat /\ stakes[a].staked \in Nat /\ stakes[a].unbonding \in Nat
  BY <1>2, StakeOf DEF NoStake
<1>4. /\ record \in Record /\ record.exists /\ record.owner = o
      /\ record.staked = stakes[a].staked - amount
      /\ record.unbonding = stakes[a].unbonding + amount
  <2>1. stakes[a].staked - amount \in Nat /\ stakes[a].unbonding + amount \in Nat
    BY <1>2, <1>3
  <2> QED  BY <1>3, <2>1 DEF Record
<1>5. TokensAreNumbers' /\ tokens[stakeVaultPda] \in Nat
  BY <1>2 DEF StakingInv, TokensAreNumbers, Accounts
<1>6. tokens'[stakeVaultPda] =
        tokens[stakeVaultPda] + (record.staked + record.unbonding)
          - (stakes[a].staked + stakes[a].unbonding)
  BY <1>2, <1>3, <1>4, <1>5
<1>7. stakes' = [stakes EXCEPT ![a] = record]
  BY <1>2a, <1>3a
<1> HIDE DEF record
<1> QED  BY <1>2, <1>4, <1>5, <1>6, <1>7, OneStakeKeeps

LEMMA WithdrawUnstakedKeeps ==
  ASSUME StakingInv, NEW o \in Owners, NEW r \in Roles,
         WithdrawUnstaked(WithdrawOf(o, r))
  PROVE  StakingInv'
<1> DEFINE ix == WithdrawOf(o, r)
           a == stakeAccountPda(o, r)
           record == [stakes[a] EXCEPT !.unbonding = 0, !.ripe = FALSE]
<1>1. /\ Key(ix, 1) = o /\ Key(ix, 4) = a /\ Key(ix, 5) = stakeVaultPda
      /\ Key(ix, 6) = WalletTokens(o)
  BY DEF WithdrawOf, withdrawUnstakedIx, Key, Instruction, Signer, Writable, ReadOnly, meta
<1> HIDE DEF ix
<1>2. /\ stakes[a].ripe
      /\ Move(stakeVaultPda, WalletTokens(o), stakes[a].unbonding)
      /\ stakes' = [stakes EXCEPT ![a].unbonding = 0, ![a].ripe = FALSE]
      /\ UNCHANGED <<config, agreed>>
  BY <1>1 DEF WithdrawUnstaked, CanWithdrawUnstaked, ix
<1>3. /\ a \in Stakes /\ stakes \in [Stakes -> Record]
      /\ stakes[a] \in Record /\ stakes[a].exists /\ stakes[a].owner = o
      /\ stakes[a].staked \in Nat /\ stakes[a].unbonding \in Nat
      /\ stakes[a].staked + stakes[a].unbonding <= tokens[stakeVaultPda]
  BY <1>2, StakeOf DEF NoStake
<1>4. /\ record \in Record /\ record.exists /\ record.owner = o
      /\ record.staked = stakes[a].staked /\ record.unbonding = 0
  BY <1>3 DEF Record
<1>5. stakes' = [stakes EXCEPT ![a] = record]
  BY <1>2, <1>3
<1>6. /\ TokensAreNumbers' /\ tokens[stakeVaultPda] \in Nat
      /\ tokens'[stakeVaultPda] = tokens[stakeVaultPda] - stakes[a].unbonding
  <2>1. /\ WalletTokens(o) \in Accounts /\ stakeVaultPda \in Accounts
        /\ WalletTokens(o) # stakeVaultPda
    BY AccountsAreApart DEF Accounts
  <2>2. TokensAreNumbers /\ tokens[stakeVaultPda] \in Nat
    BY <2>1 DEF StakingInv, TokensAreNumbers
  <2>3. tokens[stakeVaultPda] >= stakes[a].unbonding
    BY <1>3, <2>2
  <2> QED  BY <1>2, <1>3, <2>1, <2>2, <2>3, MoveKeeps
<1>7. tokens'[stakeVaultPda] =
        tokens[stakeVaultPda] + (record.staked + record.unbonding)
          - (stakes[a].staked + stakes[a].unbonding)
  BY <1>3, <1>4, <1>6
<1> HIDE DEF record
<1> QED  BY <1>2, <1>4, <1>5, <1>6, <1>7, OneStakeKeeps

LEMMA SlashKeeps ==
  ASSUME StakingInv, NEW o \in Owners, NEW r \in Roles,
         NEW authority, NEW destination \in Treasury,
         Slash(slashIx(authority, Open, o, r, destination, 1))
  PROVE  StakingInv'
<1> DEFINE ix == slashIx(authority, Open, o, r, destination, 1)
           a == stakeAccountPda(o, r)
<1>1. Key(ix, 4) = a /\ Key(ix, 5) = stakeVaultPda /\ Key(ix, 6) = destination
  BY DEF slashIx, Key, Instruction, Signer, Writable, ReadOnly, meta
<1> HIDE DEF ix
<1>2. PICK part \in 1 .. stakes[a].staked :
        /\ Move(stakeVaultPda, destination, part)
        /\ stakes' = [stakes EXCEPT ![a].staked = @ - part]
  BY <1>1 DEF Slash, ix
<1>2a. UNCHANGED <<config, agreed>>
  BY DEF Slash
<1> DEFINE record == [stakes[a] EXCEPT !.staked = @ - part]
<1>3. /\ a \in Stakes /\ stakes \in [Stakes -> Record]
      /\ stakes[a] \in Record /\ stakes[a].exists /\ stakes[a].owner = o
      /\ stakes[a].staked \in Nat /\ stakes[a].unbonding \in Nat /\ part \in Nat
      /\ stakes[a].staked + stakes[a].unbonding <= tokens[stakeVaultPda]
      /\ part <= stakes[a].staked
  BY <1>2, StakeOf DEF NoStake
<1>4. /\ record \in Record /\ record.exists /\ record.owner = o
      /\ record.staked = stakes[a].staked - part
      /\ record.unbonding = stakes[a].unbonding
  BY <1>3 DEF Record
<1>5. stakes' = [stakes EXCEPT ![a] = record]
  BY <1>2, <1>3
<1>6. /\ TokensAreNumbers' /\ tokens[stakeVaultPda] \in Nat
      /\ tokens'[stakeVaultPda] = tokens[stakeVaultPda] - part
  <2>1. destination \in Accounts /\ stakeVaultPda \in Accounts /\ destination # stakeVaultPda
    BY AccountsAreApart DEF Accounts
  <2>2. TokensAreNumbers /\ tokens[stakeVaultPda] \in Nat
    BY <2>1 DEF StakingInv, TokensAreNumbers
  <2>3. tokens[stakeVaultPda] >= part
    BY <1>3, <2>2
  <2> QED  BY <1>2, <1>3, <2>1, <2>2, <2>3, MoveKeeps
<1>7. tokens'[stakeVaultPda] =
        tokens[stakeVaultPda] + (record.staked + record.unbonding)
          - (stakes[a].staked + stakes[a].unbonding)
  BY <1>3, <1>4, <1>6
<1> HIDE DEF record
<1> QED  BY <1>2a, <1>4, <1>5, <1>6, <1>7, OneStakeKeeps

LEMMA DistributeRewardKeeps ==
  ASSUME StakingInv, NEW o \in Owners, NEW r \in Roles, NEW authority,
         DistributeReward(distributeRewardIx(authority, o, r, 1))
  PROVE  StakingInv'
<1> DEFINE ix == distributeRewardIx(authority, o, r, 1)
           a == stakeAccountPda(o, r)
           record == [stakes[a] EXCEPT !.rewards = @ + 1]
<1>1. Key(ix, 3) = a /\ ix.args[1] = 1
  <2>1. u64LE(1) = 1
    BY U64Assumption DEF u64LE
  <2> QED
    BY <2>1 DEF distributeRewardIx, Key, Instruction, Signer, Writable, ReadOnly, meta
<1> HIDE DEF ix
<1>2. /\ stakes[a].exists
      /\ stakes' = [stakes EXCEPT ![a].rewards = @ + 1]
      /\ UNCHANGED <<config, agreed, tokens>>
  BY <1>1 DEF DistributeReward, ix
<1>3. /\ a \in Stakes /\ stakes \in [Stakes -> Record]
      /\ stakes[a] \in Record /\ stakes[a].exists /\ stakes[a].owner = o
      /\ stakes[a].staked \in Nat /\ stakes[a].unbonding \in Nat
  BY <1>2, StakeOf DEF NoStake
<1>4. /\ record \in Record /\ record.exists /\ record.owner = o
      /\ record.staked = stakes[a].staked /\ record.unbonding = stakes[a].unbonding
  BY <1>3 DEF Record
<1>5. stakes' = [stakes EXCEPT ![a] = record]
  BY <1>2, <1>3
<1>6. TokensAreNumbers' /\ tokens[stakeVaultPda] \in Nat
  BY <1>2 DEF StakingInv, TokensAreNumbers, Accounts
<1>7. tokens'[stakeVaultPda] =
        tokens[stakeVaultPda] + (record.staked + record.unbonding)
          - (stakes[a].staked + stakes[a].unbonding)
  BY <1>2, <1>3, <1>4, <1>6
<1> HIDE DEF record
<1> QED  BY <1>2, <1>4, <1>5, <1>6, <1>7, OneStakeKeeps

LEMMA ClaimRewardsKeeps ==
  ASSUME StakingInv, NEW o \in Owners, NEW r \in Roles,
         ClaimRewards(claimRewardsIx(o, Open, r, WalletTokens(o)))
  PROVE  StakingInv'
<1> DEFINE ix == claimRewardsIx(o, Open, r, WalletTokens(o))
           a == stakeAccountPda(o, r)
           record == [stakes[a] EXCEPT !.rewards = 0]
<1>1. /\ Key(ix, 1) = o /\ Key(ix, 4) = a /\ Key(ix, 5) = rewardsVaultPda
      /\ Key(ix, 6) = WalletTokens(o)
  BY DEF claimRewardsIx, Key, Instruction, Signer, Writable, ReadOnly, meta
<1> HIDE DEF ix
<1>2. /\ stakes[a].rewards > 0 /\ tokens[rewardsVaultPda] >= stakes[a].rewards
      /\ Move(rewardsVaultPda, WalletTokens(o), stakes[a].rewards)
      /\ stakes' = [stakes EXCEPT ![a].rewards = 0]
      /\ UNCHANGED <<config, agreed>>
  BY <1>1 DEF ClaimRewards, ix
<1>3. /\ a \in Stakes /\ stakes \in [Stakes -> Record]
      /\ stakes[a] \in Record /\ stakes[a].exists /\ stakes[a].owner = o
      /\ stakes[a].staked \in Nat /\ stakes[a].unbonding \in Nat /\ stakes[a].rewards \in Nat
  BY <1>2, StakeOf DEF NoStake
<1>4. /\ record \in Record /\ record.exists /\ record.owner = o
      /\ record.staked = stakes[a].staked /\ record.unbonding = stakes[a].unbonding
  BY <1>3 DEF Record
<1>5. stakes' = [stakes EXCEPT ![a] = record]
  BY <1>2, <1>3
<1>6. /\ TokensAreNumbers' /\ tokens[stakeVaultPda] \in Nat
      /\ tokens'[stakeVaultPda] = tokens[stakeVaultPda]
  <2>1. /\ WalletTokens(o) \in Accounts /\ rewardsVaultPda \in Accounts
        /\ WalletTokens(o) # rewardsVaultPda
        /\ stakeVaultPda \in Accounts \ {rewardsVaultPda, WalletTokens(o)}
    BY AccountsAreApart DEF Accounts
  <2>2. TokensAreNumbers /\ tokens[stakeVaultPda] \in Nat
    BY <2>1 DEF StakingInv, TokensAreNumbers
  <2> QED  BY <1>2, <1>3, <2>1, <2>2, MoveKeeps
<1>7. tokens'[stakeVaultPda] =
        tokens[stakeVaultPda] + (record.staked + record.unbonding)
          - (stakes[a].staked + stakes[a].unbonding)
  BY <1>3, <1>4, <1>6
<1> HIDE DEF record
<1> QED  BY <1>2, <1>4, <1>5, <1>6, <1>7, OneStakeKeeps

LEMMA FundRewardsVaultKeeps ==
  ASSUME StakingInv, NEW o \in Owners, NEW amount \in 1 .. Savings,
         FundRewardsVault(fundRewardsVaultIx(o, Open, WalletTokens(o), amount))
  PROVE  StakingInv'
<1> DEFINE ix == fundRewardsVaultIx(o, Open, WalletTokens(o), amount)
<1>1. Key(ix, 5) = rewardsVaultPda /\ Key(ix, 6) = WalletTokens(o) /\ ix.args[1] = amount
  BY AmountsFit DEF fundRewardsVaultIx, Key, Instruction, Signer, Writable, ReadOnly, meta
<1> HIDE DEF ix
<1>2. /\ tokens[WalletTokens(o)] >= amount
      /\ Move(WalletTokens(o), rewardsVaultPda, amount)
      /\ UNCHANGED <<config, agreed, stakes>>
  BY <1>1 DEF FundRewardsVault, ix
<1>3. TokensAreNumbers' /\ tokens'[stakeVaultPda] = tokens[stakeVaultPda]
  <2>1. /\ WalletTokens(o) \in Accounts /\ rewardsVaultPda \in Accounts
        /\ WalletTokens(o) # rewardsVaultPda /\ amount \in Nat
        /\ stakeVaultPda \in Accounts \ {rewardsVaultPda, WalletTokens(o)}
    BY AccountsAreApart DEF Accounts
  <2> QED  BY <1>2, <2>1, MoveKeeps DEF StakingInv
<1>4. Principal' = Principal
  BY <1>2 DEF Principal
<1>5. RecordsAreOwn' /\ ConfigIsWhatWasAgreed'
  BY <1>2 DEF StakingInv, RecordsAreOwn, ConfigIsWhatWasAgreed
<1> QED  BY <1>3, <1>4, <1>5 DEF StakingInv, StakesAreBacked

LEMMA RipenKeeps ==
  ASSUME StakingInv, NEW o \in Owners, NEW r \in Roles, Ripen(stakeAccountPda(o, r))
  PROVE  StakingInv'
<1> DEFINE a == stakeAccountPda(o, r)
           record == [stakes[a] EXCEPT !.ripe = TRUE]
<1>1. /\ stakes[a].unbonding > 0
      /\ stakes' = [stakes EXCEPT ![a].ripe = TRUE]
      /\ UNCHANGED <<config, agreed, tokens>>
  BY DEF Ripen
<1>2. /\ a \in Stakes /\ stakes \in [Stakes -> Record]
      /\ stakes[a] \in Record /\ stakes[a].exists /\ stakes[a].owner = o
      /\ stakes[a].staked \in Nat /\ stakes[a].unbonding \in Nat
  BY <1>1, StakeOf DEF NoStake
<1>3. /\ record \in Record /\ record.exists /\ record.owner = o
      /\ record.staked = stakes[a].staked /\ record.unbonding = stakes[a].unbonding
  BY <1>2 DEF Record
<1>4. stakes' = [stakes EXCEPT ![a] = record]
  BY <1>1, <1>2
<1>5. TokensAreNumbers' /\ tokens[stakeVaultPda] \in Nat
  BY <1>1 DEF StakingInv, TokensAreNumbers, Accounts
<1>6. tokens'[stakeVaultPda] =
        tokens[stakeVaultPda] + (record.staked + record.unbonding)
          - (stakes[a].staked + stakes[a].unbonding)
  BY <1>1, <1>2, <1>3, <1>5
<1> HIDE DEF record
<1> QED  BY <1>1, <1>3, <1>4, <1>5, <1>6, OneStakeKeeps

-----------------------------------------------------------------------------
(* A field is read back from where it was put, arrays of the length agreed.  *)

Joins(u, s, t) == u = s \o t
IsLong(s, n) == Len(s) = n

LEMMA Joined ==
  ASSUME NEW S, NEW s \in Seq(S), NEW t \in Seq(S), NEW u, Joins(u, s, t),
         NEW m, IsLong(s, m), NEW n, IsLong(t, n)
  PROVE  /\ m \in Nat /\ n \in Nat /\ u \in Seq(S) /\ IsLong(u, m + n)
         /\ \A i \in 1 .. m : u[i] = s[i] /\ s[i] \in S
         /\ \A i \in 1 .. n : u[m + i] = t[i] /\ t[i] \in S
<1>1. m \in Nat /\ n \in Nat /\ m = Len(s) /\ n = Len(t) /\ u = s \o t
  BY LenProperties DEF IsLong, Joins
<1>2. /\ s \o t \in Seq(S) /\ Len(s \o t) = Len(s) + Len(t)
      /\ \A i \in 1 .. Len(s) + Len(t) :
           (s \o t)[i] = IF i <= Len(s) THEN s[i] ELSE t[i - Len(s)]
  BY ConcatProperties, Zenon
<1>3. ASSUME NEW i \in 1 .. m PROVE u[i] = s[i] /\ s[i] \in S
  <2>1. i \in 1 .. Len(s) + Len(t) /\ i <= Len(s)
    BY <1>1
  <2> QED  BY <1>1, <1>2, <2>1, ElementOfSeq
<1>4. ASSUME NEW i \in 1 .. n PROVE u[m + i] = t[i] /\ t[i] \in S
  <2>1. /\ m + i \in 1 .. Len(s) + Len(t) /\ ~ (m + i <= Len(s))
        /\ (m + i) - Len(s) = i
    BY <1>1
  <2> QED  BY <1>1, <1>2, <2>1, ElementOfSeq
<1> QED  BY <1>1, <1>2, <1>3, <1>4 DEF IsLong

FourFields(all, a, b, c, d) == all = (a \o b \o c) \o d
FieldsAt(all, a, b, d, n, k) ==
  /\ SubSeq(all, 1, n) = a
  /\ SubSeq(all, n + 1, n + n) = b
  /\ \A i \in 1 .. Len(d) : all[n + n + k + i] = d[i]

LEMMA FieldsAreFound ==
  ASSUME NEW S, NEW a \in Seq(S), NEW b \in Seq(S), NEW c \in Seq(S), NEW d \in Seq(S),
         NEW all, FourFields(all, a, b, c, d), Len(a) = Len(b)
  PROVE  FieldsAt(all, a, b, d, Len(a), Len(c))
<1>0. PICK n, k, l, ab, abc :
        /\ IsLong(a, n) /\ IsLong(b, n) /\ IsLong(c, k) /\ IsLong(d, l)
        /\ Joins(ab, a, b) /\ Joins(abc, ab, c) /\ Joins(all, abc, d)
  BY DEF IsLong, Joins, FourFields
<1>1. /\ ab \in Seq(S) /\ IsLong(ab, n + n) /\ n \in Nat
      /\ \A i \in 1 .. n : ab[i] = a[i] /\ a[i] \in S
      /\ \A i \in 1 .. n : ab[n + i] = b[i] /\ b[i] \in S
  BY <1>0, Joined
<1>2. /\ abc \in Seq(S) /\ IsLong(abc, n + n + k) /\ k \in Nat
      /\ \A i \in 1 .. n + n : abc[i] = ab[i]
  BY <1>0, <1>1, Joined
<1>3. /\ all \in Seq(S)
      /\ \A i \in 1 .. n + n + k : all[i] = abc[i]
      /\ \A i \in 1 .. l : all[n + n + k + i] = d[i]
  BY <1>0, <1>2, Joined
<1>4. Len(a) = n /\ Len(b) = n /\ Len(c) = k /\ Len(d) = l
  BY <1>0 DEF IsLong
<1>6. \A i \in 1 .. n : all[i] = a[i] /\ all[n + i] = b[i] /\ a[i] \in S /\ b[i] \in S
  <2> TAKE i \in 1 .. n
  <2>1. /\ i \in 1 .. n + n /\ n + i \in 1 .. n + n
        /\ i \in 1 .. n + n + k /\ n + i \in 1 .. n + n + k
    BY <1>1, <1>2
  <2> QED  BY <2>1, <1>1, <1>2, <1>3
<1>7. SubSeq(all, 1, n) = a
  <2>1. \A i \in 1 .. n : all[i] \in S
    BY <1>6
  <2>2. /\ SubSeq(all, 1, n) \in Seq(S) /\ Len(SubSeq(all, 1, n)) = n
        /\ \A i \in 1 .. n : SubSeq(all, 1, n)[i] = all[i]
    BY <1>1, <2>1, SubSeqProperties
  <2> QED  BY <1>4, <1>6, <2>2, SeqEqual
<1>8. SubSeq(all, n + 1, n + n) = b
  <2>0. n \in Nat /\ (n + n) - (n + 1) + 1 = n /\ \A i \in 1 .. n : (n + 1) + i - 1 = n + i
    BY <1>1
  <2>1. \A i \in n + 1 .. n + n : all[i] \in S
    <3> TAKE i \in n + 1 .. n + n
    <3>1. i - n \in 1 .. n /\ n + (i - n) = i
      BY <2>0
    <3> QED  BY <3>1, <1>6
  <2>2. /\ SubSeq(all, n + 1, n + n) \in Seq(S) /\ Len(SubSeq(all, n + 1, n + n)) = n
        /\ \A i \in 1 .. n : SubSeq(all, n + 1, n + n)[i] = all[n + i]
    BY <2>0, <2>1, SubSeqProperties
  <2>3. \A i \in 1 .. n : SubSeq(all, n + 1, n + n)[i] = b[i]
    BY <1>6, <2>2
  <2> QED  BY <1>4, <2>2, <2>3, SeqEqual
<1> QED  BY <1>3, <1>4, <1>7, <1>8 DEF FieldsAt

(* Numbers that fit keep their value, signed or not.                        *)
LEMMA ArraysArriveAsSent ==
  ASSUME NEW values \in Arrays
  PROVE  /\ Encoded(values, u64LE) = values /\ Encoded(values, i64LE) = values
         /\ values \in Seq(Nat) /\ Len(values) \in Nat
<1>1. values \in Seq(0 .. U64 \div 2 - 1)
  BY StakingAssumption
<1>2. ASSUME NEW v \in 0 .. U64 \div 2 - 1 PROVE u64LE(v) = v /\ i64LE(v) = v
  <2>1. U64 \div 2 \in Nat /\ U64 \div 2 <= U64
    BY U64Assumption
  <2>2. v % U64 = v
    BY <2>1, U64Assumption
  <2> QED  BY <2>1, <2>2 DEF u64LE, i64LE
<1>3. values = [i \in DOMAIN values |-> values[i]] /\ Len(values) \in Nat
      /\ DOMAIN values = 1 .. Len(values)
  BY <1>1, LenProperties
<1>4. \A i \in DOMAIN values : values[i] \in 0 .. U64 \div 2 - 1 /\ values[i] \in Nat
  BY <1>1, <1>3, ElementOfSeq, U64Assumption
<1>5. Encoded(values, u64LE) = [i \in DOMAIN values |-> values[i]]
  BY <1>2, <1>4 DEF Encoded
<1>6. Encoded(values, i64LE) = [i \in DOMAIN values |-> values[i]]
  BY <1>2, <1>4 DEF Encoded
<1>7. values \in Seq(Nat)
  BY <1>3, <1>4
<1> QED  BY <1>3, <1>5, <1>6, <1>7

ConfigSent(args, min, unbonding, bps, rest) ==
  FourFields(args, min, unbonding, <<bps>>, rest)
ConfigRead(args, min, unbonding, rest) ==
  /\ PerRole(args, 1) = min /\ PerRole(args, 2) = unbonding
  /\ \A i \in 1 .. Len(rest) : After(args, 1 + i) = rest[i]

(* What the program reads out of either config instruction.                 *)
LEMMA ConfigIsReadBack ==
  ASSUME NEW min \in Arrays, NEW unbonding \in Arrays,
         Len(min) = ROLE_COUNT, Len(unbonding) = ROLE_COUNT,
         NEW bps, NEW T, NEW rest \in Seq(T),
         NEW args, ConfigSent(args, min, unbonding, bps, rest)
  PROVE  ConfigRead(args, min, unbonding, rest)
<1> DEFINE S == Nat \cup {bps} \cup T
<1>1. /\ min \in Seq(S) /\ unbonding \in Seq(S) /\ <<bps>> \in Seq(S) /\ Len(<<bps>>) = 1
      /\ rest \in Seq(S)
  <2>1. Nat \subseteq S /\ T \subseteq S /\ bps \in S
    OBVIOUS
  <2> HIDE DEF S
  <2> QED  BY <2>1, ArraysArriveAsSent, SeqMonotonic
<1> HIDE DEF S
<1>2. ROLE_COUNT \in Nat
  BY RoleCountAssumption
<1>3. /\ SubSeq(args, 1, ROLE_COUNT) = min
      /\ SubSeq(args, ROLE_COUNT + 1, ROLE_COUNT + ROLE_COUNT) = unbonding
      /\ \A i \in 1 .. Len(rest) : args[ROLE_COUNT + ROLE_COUNT + 1 + i] = rest[i]
  <2>1. PICK one : one = <<bps>>
    OBVIOUS
  <2>2. FourFields(args, min, unbonding, one, rest) /\ one \in Seq(S) /\ Len(one) = 1
    BY <1>1, <2>1 DEF ConfigSent
  <2>3. FieldsAt(args, min, unbonding, rest, Len(min), Len(one))
    BY <1>1, <2>2, FieldsAreFound
  <2> QED  BY <2>2, <2>3 DEF FieldsAt
<1>4. /\ (1 - 1) * ROLE_COUNT + 1 = 1 /\ 1 * ROLE_COUNT = ROLE_COUNT
      /\ (2 - 1) * ROLE_COUNT + 1 = ROLE_COUNT + 1
      /\ 2 * ROLE_COUNT = ROLE_COUNT + ROLE_COUNT
  BY <1>2
<1>5. ASSUME NEW i \in 1 .. Len(rest)
      PROVE  2 * ROLE_COUNT + (1 + i) = ROLE_COUNT + ROLE_COUNT + 1 + i
  BY <1>2, LenProperties
<1>6. ASSUME NEW i \in 1 .. Len(rest) PROVE After(args, 1 + i) = rest[i]
  BY <1>3, <1>5 DEF After
<1> QED  BY <1>3, <1>4, <1>6 DEF PerRole, ConfigRead

(* Either config instruction leaves what the admin passed.                  *)
LEMMA ConfigStepKeeps ==
  ASSUME StakingInv, ConfigStep
  PROVE  StakingInv'
<1>1. PICK params \in Numbers, slashing \in Authorities, rewards \in Authorities,
           destination \in Treasury :
        LET named == [minStakeByRole |-> params.minStakeByRole,
                      unbondingByRole |-> params.unbondingByRole,
                      slashBps |-> params.slashBps, slashingAuthority |-> slashing,
                      slashDestination |-> destination, rewardsAuthority |-> rewards]
        IN
        /\ CanBuildConfig(params)
        /\ AsAgreed(params, slashing, destination, rewards)
        /\ \/ InitializeStakingConfig(initializeStakingConfigIx(Admin, Open, named))
           \/ UpdateStakingConfig(updateStakingConfigIx(Admin, Open, destination, named))
  BY DEF ConfigStep, Lands
<1> DEFINE min == params.minStakeByRole
           unbonding == params.unbondingByRole
           named == [minStakeByRole |-> min, unbondingByRole |-> unbonding,
                     slashBps |-> params.slashBps, slashingAuthority |-> slashing,
                     slashDestination |-> destination, rewardsAuthority |-> rewards]
           S == {slashing, destination, rewards}
<1>2. /\ min \in Arrays /\ unbonding \in Arrays /\ params.slashBps = 1
      /\ Len(min) = ROLE_COUNT /\ Len(unbonding) = ROLE_COUNT
  BY <1>1 DEF Numbers, CanBuildConfig, roleArrayBytes
<1>3. NumericConfig(named) = min \o unbonding \o <<params.slashBps>>
  BY <1>2, ArraysArriveAsSent DEF NumericConfig
<1>4. UNCHANGED <<stakes, tokens>>
  BY <1>1 DEF InitializeStakingConfig, UpdateStakingConfig
<1>5. agreed' = [slashingAuthority |-> slashing, slashDestination |-> destination,
                 rewardsAuthority |-> rewards, minStake |-> min, unbonding |-> unbonding]
  BY <1>1 DEF AsAgreed
<1>6. ASSUME InitializeStakingConfig(initializeStakingConfigIx(Admin, Open, named))
      PROVE  ConfigIsWhatWasAgreed'
  <2> DEFINE ix == initializeStakingConfigIx(Admin, Open, named)
             rest == <<slashing, destination, rewards>>
  <2>1. ix.args = (min \o unbonding \o <<params.slashBps>>) \o rest
    BY <1>3 DEF initializeStakingConfigIx, Instruction
  <2>2. /\ rest \in Seq(S) /\ Len(rest) = 3
        /\ rest[1] = slashing /\ rest[2] = destination /\ rest[3] = rewards
    OBVIOUS
  <2> HIDE DEF ix, rest
  <2>3. ConfigRead(ix.args, min, unbonding, rest)
    <3>1. ConfigSent(ix.args, min, unbonding, params.slashBps, rest)
      BY <2>1 DEF ConfigSent, FourFields
    <3> HIDE DEF S, min, unbonding
    <3> QED  BY <1>2, <2>2, <3>1, ConfigIsReadBack
  <2>4. /\ After(ix.args, 2) = slashing /\ After(ix.args, 3) = destination
        /\ After(ix.args, 4) = rewards
        /\ PerRole(ix.args, 1) = min /\ PerRole(ix.args, 2) = unbonding
    BY <2>2, <2>3 DEF ConfigRead
  <2>5. config' = [slashingAuthority |-> After(ix.args, 2),
                   slashDestination |-> After(ix.args, 3),
                   rewardsAuthority |-> After(ix.args, 4),
                   minStake |-> PerRole(ix.args, 1), unbonding |-> PerRole(ix.args, 2)]
    BY <1>6 DEF InitializeStakingConfig, ix
  <2> QED  BY <1>5, <2>4, <2>5 DEF ConfigIsWhatWasAgreed
<1>7. ASSUME UpdateStakingConfig(updateStakingConfigIx(Admin, Open, destination, named))
      PROVE  ConfigIsWhatWasAgreed'
  <2> DEFINE ix == updateStakingConfigIx(Admin, Open, destination, named)
             rest == <<slashing, rewards>>
  <2>1. /\ ix.args = (min \o unbonding \o <<params.slashBps>>) \o rest
        /\ Key(ix, 4) = destination
    BY <1>3 DEF updateStakingConfigIx, Instruction, Key, Signer, Writable, ReadOnly, meta
  <2>2. rest \in Seq(S) /\ Len(rest) = 2 /\ rest[1] = slashing /\ rest[2] = rewards
    OBVIOUS
  <2> HIDE DEF ix, rest
  <2>3. ConfigRead(ix.args, min, unbonding, rest)
    <3>1. ConfigSent(ix.args, min, unbonding, params.slashBps, rest)
      BY <2>1 DEF ConfigSent, FourFields
    <3> HIDE DEF S, min, unbonding
    <3> QED  BY <1>2, <2>2, <3>1, ConfigIsReadBack
  <2>4. /\ After(ix.args, 2) = slashing /\ After(ix.args, 3) = rewards
        /\ PerRole(ix.args, 1) = min /\ PerRole(ix.args, 2) = unbonding
    BY <2>2, <2>3 DEF ConfigRead
  <2>5. config' = [slashingAuthority |-> After(ix.args, 2),
                   slashDestination |-> Key(ix, 4),
                   rewardsAuthority |-> After(ix.args, 3),
                   minStake |-> PerRole(ix.args, 1), unbonding |-> PerRole(ix.args, 2)]
    BY <1>7 DEF UpdateStakingConfig, ix
  <2> QED  BY <1>5, <2>1, <2>4, <2>5 DEF ConfigIsWhatWasAgreed
<1>8. Principal' = Principal
  BY <1>4 DEF Principal
<1>9. RecordsAreOwn' /\ TokensAreNumbers' /\ StakesAreBacked'
  BY <1>4, <1>8 DEF StakingInv, RecordsAreOwn, TokensAreNumbers, StakesAreBacked
<1> QED  BY <1>1, <1>6, <1>7, <1>9 DEF StakingInv

-----------------------------------------------------------------------------
LEMMA StakingInvariance == StakingInv /\ [Next]_vars => StakingInv'
<1> SUFFICES ASSUME StakingInv, [Next]_vars PROVE StakingInv'
  OBVIOUS
<1>1. CASE UNCHANGED vars
  <2>1. Principal' = Principal
    BY <1>1 DEF vars, Principal
  <2> QED
    BY <1>1, <2>1 DEF vars, StakingInv, RecordsAreOwn, TokensAreNumbers, StakesAreBacked,
                      ConfigIsWhatWasAgreed
<1>2. CASE ConfigStep
  BY <1>2, ConfigStepKeeps
<1>3. ASSUME NEW o \in Owners, BanOrUnban(o) PROVE StakingInv'
  <2>1. UNCHANGED <<config, agreed, stakes, tokens>>
    BY <1>3 DEF BanOrUnban
  <2>2. Principal' = Principal
    BY <2>1 DEF Principal
  <2> QED
    BY <2>1, <2>2 DEF StakingInv, RecordsAreOwn, TokensAreNumbers, StakesAreBacked,
                      ConfigIsWhatWasAgreed
<1>4. ASSUME NEW o \in Owners, FundStep(o) PROVE StakingInv'
  BY <1>4, FundRewardsVaultKeeps DEF FundStep, Lands
<1>5. ASSUME NEW o \in Owners, NEW r \in Roles, StakeStep(o, r) PROVE StakingInv'
  BY <1>5, InitializeStakeAccountKeeps, StakeKeeps, RequestUnstakeKeeps,
     WithdrawUnstakedKeeps, ClaimRewardsKeeps DEF StakeStep, Lands
<1>6. ASSUME NEW o \in Owners, NEW r \in Roles, SlashStep(o, r) PROVE StakingInv'
  BY <1>6, SlashKeeps DEF SlashStep, Lands
<1>7. ASSUME NEW o \in Owners, NEW r \in Roles, RewardStep(o, r) PROVE StakingInv'
  BY <1>7, DistributeRewardKeeps DEF RewardStep, Lands
<1>8. ASSUME NEW o \in Owners, NEW r \in Roles, Ripen(stakeAccountPda(o, r))
      PROVE  StakingInv'
  BY <1>8, RipenKeeps
<1> QED  BY <1>1, <1>2, <1>3, <1>4, <1>5, <1>6, <1>7, <1>8 DEF Next

LEMMA StakingInvHolds == Spec => []StakingInv
BY StakingStarts, StakingInvariance, PTL DEF Spec

(* Every account holds a number, and a stake account its own wallet's stake: *)
(* the address a stake is kept at is derived from its owner (pda.ts).       *)
THEOREM StakingTypeCorrect == Spec => []TypeOK
<1>1. StakingInv => TypeOK
  <2> SUFFICES ASSUME StakingInv PROVE TypeOK
    OBVIOUS
  <2>1. \A a \in DOMAIN tokens : tokens[a] \in Nat
    BY DEF StakingInv, TokensAreNumbers
  <2>2. ASSUME NEW o \in Owners, NEW r \in Roles, stakes[stakeAccountPda(o, r)].exists
        PROVE  stakes[stakeAccountPda(o, r)].owner = o
    BY <2>2 DEF StakingInv, RecordsAreOwn, NoStake
  <2> QED  BY <2>1, <2>2 DEF TypeOK
<1> QED  BY <1>1, StakingInvHolds, PTL

(* The vault holds every stake and everything unbonding, to the token: no    *)
(* builder pays rewards or a slash out of somebody's principal.             *)
THEOREM StakesStayBacked == Spec => []StakesAreBacked
<1>1. StakingInv => StakesAreBacked
  BY DEF StakingInv
<1> QED  BY <1>1, StakingInvHolds, PTL

(* The config the program reads is the one the admin passed, for arrays of   *)
(* any length the builder lets through.                                     *)
THEOREM ConfigStaysAsAgreed == Spec => []ConfigIsWhatWasAgreed
<1>1. StakingInv => ConfigIsWhatWasAgreed
  BY DEF StakingInv
<1> QED  BY <1>1, StakingInvHolds, PTL

(* No ban, and nobody's word but the owner's, stands between a staker and    *)
(* what they staked: the two instructions can be built and their program     *)
(* guards hold.                                                             *)
THEOREM StakersMayLeave == Spec => []StakersCanLeave
<1>1. StakingInv => StakersCanLeave
  <2> SUFFICES ASSUME StakingInv, NEW o \in Owners, NEW r \in Roles
               PROVE  LET stake == stakes[stakeAccountPda(o, r)]
                          all == requestUnstakeIx(o, r, stake.staked)
                      IN /\ stake.staked > 0 => Signed(all, {o}) /\ CanRequestUnstake(all)
                         /\ stake.ripe => /\ Signed(WithdrawOf(o, r), {o})
                                          /\ CanWithdrawUnstaked(WithdrawOf(o, r))
    BY DEF StakersCanLeave
  <2> DEFINE a == stakeAccountPda(o, r)
             all == requestUnstakeIx(o, r, stakes[a].staked)
             out == WithdrawOf(o, r)
  <2>1. /\ a \in DOMAIN stakes /\ stakes[a].staked \in Nat
        /\ stakes[a] = NoStake \/ stakes[a].owner = o
    BY StakeOf
  <2>2. u64LE(stakes[a].staked) <= stakes[a].staked
    <3>1. CASE stakes[a].staked < U64
      BY <2>1, <3>1, U64Assumption DEF u64LE
    <3>2. CASE ~ (stakes[a].staked < U64)
      BY <2>1, <3>2, U64Assumption DEF u64LE
    <3> QED  BY <3>1, <3>2
  <2>3. /\ Key(all, 1) = o /\ Key(all, 3) = a /\ all.args[1] = u64LE(stakes[a].staked)
        /\ MayWrite(all, {3}) /\ Signed(all, {o})
    BY DEF requestUnstakeIx, Key, Instruction, Signer, Writable, ReadOnly, meta, MayWrite,
           Signed
  <2>4. /\ Key(out, 1) = o /\ Key(out, 4) = a /\ MayWrite(out, {4, 5, 6}) /\ Signed(out, {o})
    BY DEF WithdrawOf, withdrawUnstakedIx, Key, Instruction, Signer, Writable, ReadOnly, meta,
           MayWrite, Signed
  <2> HIDE DEF all, out
  <2>5. ASSUME stakes[a].staked > 0 PROVE Signed(all, {o}) /\ CanRequestUnstake(all)
    <3>1. stakes[a].owner = o
      BY <2>1, <2>5 DEF NoStake
    <3>2. stakes[a].staked >= u64LE(stakes[a].staked)
      <4>1. u64LE(stakes[a].staked) \in Int
        BY <2>1, U64Assumption DEF u64LE
      <4> QED  BY <2>1, <2>2, <4>1
    <3> QED  BY <2>3, <3>1, <3>2 DEF CanRequestUnstake
  <2>6. ASSUME stakes[a].ripe PROVE Signed(out, {o}) /\ CanWithdrawUnstaked(out)
    <3>1. stakes[a].owner = o
      BY <2>1, <2>6 DEF NoStake
    <3> QED  BY <2>1, <2>4, <2>6, <3>1 DEF CanWithdrawUnstaked
  <2> QED  BY <2>5, <2>6 DEF all, out
<1> QED  BY <1>1, StakingInvHolds, PTL
=============================================================================
