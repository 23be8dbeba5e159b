-------------------------- MODULE EscrowChain_proofs --------------------------
(***************************************************************************)
(* Proof that EscrowChain keeps the promise of EscrowPromise, that nobody is *)
(* locked in and that no account is overdrawn, for any people and mints, any *)
(* number of trades between them, and any treasuries.                       *)
(*                                                                          *)
(* Every instruction is first reduced to what it does to a trade: the keys  *)
(* its builder lists are looked up once, and a few classes of steps remain. *)
(***************************************************************************)
EXTENDS EscrowChain, Functions, Induction, SequenceTheorems

Locked == {"funded", "approved", "disputed"}

Agreed(i) ==
  [state : Live \cup {"closed"}, seller : {Trade[i].seller}, buyer : {Trade[i].buyer},
   amount : {Trade[i].amount}, timedOut : BOOLEAN]

(* Records and accounts are there, and a trade's record says what was        *)
(* agreed.                                                                 *)
RecordsAreAgreed ==
  /\ DOMAIN tokens = TokenAccounts
  /\ DOMAIN escrows = {tradeEscrowPda(i) : i \in Reservations}
  /\ \A i \in Reservations :
       escrows[tradeEscrowPda(i)] = NoEscrow \/ escrows[tradeEscrowPda(i)] \in Agreed(i)

(* Its token account holds the amount exactly while it should.              *)
HeldIsAgreed ==
  \A i \in Reservations :
    tokens[tradeEscrowTokensPda(i)] =
      IF escrows[tradeEscrowPda(i)].state \in Locked THEN Trade[i].amount ELSE 0

Undecided == {"commit", "reveal", "tally"}
IsCase(c) ==
  /\ {"phase", "deposit"} \subseteq DOMAIN c
  /\ c.phase \in Undecided => c.deposit \in Nat

(* A case is about a trade that was disputed, and one that is not decided    *)
(* about a trade that still is.                                            *)
CasesAreDisputes ==
  /\ DOMAIN cases = {disputeCasePda(i) : i \in Reservations}
  /\ \A i \in Reservations :
       \/ cases[disputeCasePda(i)] = NoCase
       \/ /\ IsCase(cases[disputeCasePda(i)])
          /\ escrows[tradeEscrowPda(i)].state \in {"disputed", "closed"}
          /\ cases[disputeCasePda(i)].phase \in Undecided =>
               escrows[tradeEscrowPda(i)].state = "disputed"

(* No vault is overdrawn.                                                  *)
VaultsAreNumbers ==
  \A p \in People, m \in Mints : tokens[liquidityVaultTokensPda(p, m)] \in Nat

EscrowInv ==
  /\ RecordsAreAgreed
  /\ HeldIsAgreed
  /\ CasesAreDisputes
  /\ VaultsAreNumbers

-----------------------------------------------------------------------------
(* Addresses.                                                              *)

LEMMA LowBits ==
  ASSUME NEW v \in 0 .. U64 - 1
  PROVE  u64LE(v) = v
BY U64Assumption DEF u64LE

(* Two trades share neither a record, a token account nor a case.           *)
LEMMA TradesAreApart ==
  ASSUME NEW i \in Reservations, NEW j \in Reservations, i # j
  PROVE  /\ tradeEscrowPda(i) # tradeEscrowPda(j)
         /\ tradeEscrowTokensPda(i) # tradeEscrowTokensPda(j)
         /\ disputeCasePda(i) # disputeCasePda(j)
<1>1. u64LE(i) = i /\ u64LE(j) = j
  BY LowBits, ChainAssumption
<1> QED  BY <1>1 DEF tradeEscrowPda, tradeEscrowTokensPda, disputeCasePda

(* An escrow's token account is nobody's wallet and nobody's vault.         *)
LEMMA EscrowIsApart ==
  ASSUME NEW i, NEW p, NEW m
  PROVE  /\ tradeEscrowTokensPda(i) # WalletTokens(p, m)
         /\ tradeEscrowTokensPda(i) # liquidityVaultTokensPda(p, m)
         /\ tradeEscrowTokensPda(i) # arbitrationPoolPda
BY DEF WalletTokens, liquidityVaultTokensPda, tradeEscrowTokensPda, arbitrationPoolPda

(* Nor are a wallet and a vault the same, or two vaults.                    *)
LEMMA VaultIsApart ==
  ASSUME NEW p, NEW m, NEW q, NEW n
  PROVE  /\ WalletTokens(p, m) # liquidityVaultTokensPda(q, n)
         /\ WalletTokens(p, m) # arbitrationPoolPda
         /\ liquidityVaultTokensPda(p, m) # arbitrationPoolPda
         /\ p # q \/ m # n => liquidityVaultTokensPda(p, m) # liquidityVaultTokensPda(q, n)
BY DEF WalletTokens, liquidityVaultTokensPda, arbitrationPoolPda

LEMMA AccountsOfATrade ==
  ASSUME NEW i \in Reservations
  PROVE  /\ tradeEscrowTokensPda(i) \in TokenAccounts
         /\ liquidityVaultTokensPda(Trade[i].seller, Trade[i].mint) \in TokenAccounts
         /\ WalletTokens(Trade[i].buyer, Trade[i].mint) \in TokenAccounts
BY ChainAssumption DEF TokenAccounts, Mints

LEMMA VaultsAreThere ==
  ASSUME NEW p \in People, NEW m \in Mints
  PROVE  liquidityVaultTokensPda(p, m) \in TokenAccounts
BY DEF TokenAccounts

LEMMA LowestBits ==
  ASSUME NEW v \in Nat
  PROVE  u64LE(v) <= v
<1>1. CASE v < U64
  BY <1>1, LowBits, U64Assumption
<1>2. CASE v >= U64
  BY <1>2, U64Assumption DEF u64LE
<1> QED  BY <1>1, <1>2, U64Assumption

LEMMA BitsAreNumber ==
  ASSUME NEW v \in Int
  PROVE  u64LE(v) \in Nat
BY U64Assumption DEF u64LE

LEMMA AmountIsNumber ==
  ASSUME NEW i \in Reservations
  PROVE  Trade[i].amount \in 0 .. U64 - 1 /\ u64LE(Trade[i].amount) = Trade[i].amount
<1>1. Trade[i].amount \in 0 .. U64 - 1
  BY ChainAssumption, U64Assumption
<1> QED  BY <1>1, LowBits

LEMMA EscrowStarts ==
  ASSUME Init
  PROVE  EscrowInv
<1> USE DEF Init
<1>1. RecordsAreAgreed
  BY DEF RecordsAreAgreed
<1>2. ASSUME NEW i \in Reservations
      PROVE  escrows[tradeEscrowPda(i)] = NoEscrow /\ cases[disputeCasePda(i)] = NoCase
  OBVIOUS
<1>3. HeldIsAgreed
  BY <1>2, AccountsOfATrade, EscrowIsApart DEF HeldIsAgreed, NoEscrow, Locked
<1>4. CasesAreDisputes
  BY <1>2 DEF CasesAreDisputes
<1>5. VaultsAreNumbers
  BY VaultsAreThere, VaultIsApart DEF VaultsAreNumbers
<1> QED  BY <1>1, <1>3, <1>4, <1>5 DEF EscrowInv

-----------------------------------------------------------------------------
(* Classes of steps.                                                       *)

Record(i) == escrows[tradeEscrowPda(i)]
Vault(i) == liquidityVaultTokensPda(Trade[i].seller, Trade[i].mint)
BuyersWallet(i) == WalletTokens(Trade[i].buyer, Trade[i].mint)

(* Tokens move, but no trade's.                                            *)
TokensElsewhere ==
  /\ DOMAIN tokens' = TokenAccounts
  /\ \A i \in Reservations : tokens'[tradeEscrowTokensPda(i)] = tokens[tradeEscrowTokensPda(i)]

(* Only this trade's.                                                      *)
HoldsThen(i, left) ==
  /\ DOMAIN tokens' = TokenAccounts
  /\ tokens'[tradeEscrowTokensPda(i)] = left
  /\ \A j \in Reservations \ {i} :
       tokens'[tradeEscrowTokensPda(j)] = tokens[tradeEscrowTokensPda(j)]

(* Only this trade's record changes, and of it the state.                   *)
Becomes(i, to) == escrows' = [escrows EXCEPT ![tradeEscrowPda(i)].state = to]

(* Vaults are where they were, or fuller.                                  *)
NoVaultLoses ==
  \A p \in People, m \in Mints :
    /\ tokens'[liquidityVaultTokensPda(p, m)] \in Nat
    /\ tokens'[liquidityVaultTokensPda(p, m)] >= tokens[liquidityVaultTokensPda(p, m)]

(* What a transfer between two accounts does to the vaults.                 *)
AtVaults(a, b, amount) ==
  \A p \in People, m \in Mints :
    tokens'[liquidityVaultTokensPda(p, m)] =
      IF liquidityVaultTokensPda(p, m) \notin {a, b} \/ a = b
      THEN tokens[liquidityVaultTokensPda(p, m)]
      ELSE IF liquidityVaultTokensPda(p, m) = a
           THEN tokens[liquidityVaultTokensPda(p, m)] - amount
           ELSE tokens[liquidityVaultTokensPda(p, m)] + amount

LEMMA TransferAtVaults ==
  ASSUME RecordsAreAgreed, NEW a, NEW b, NEW amount,
         tokens' = IF a = b THEN tokens
                   ELSE [tokens EXCEPT ![a] = @ - amount, ![b] = @ + amount]
  PROVE  AtVaults(a, b, amount)
<1>1. SUFFICES ASSUME NEW p \in People, NEW m \in Mints
               PROVE  tokens'[liquidityVaultTokensPda(p, m)] =
                        IF liquidityVaultTokensPda(p, m) \notin {a, b} \/ a = b
                        THEN tokens[liquidityVaultTokensPda(p, m)]
                        ELSE IF liquidityVaultTokensPda(p, m) = a
                             THEN tokens[liquidityVaultTokensPda(p, m)] - amount
                             ELSE tokens[liquidityVaultTokensPda(p, m)] + amount
  BY DEF AtVaults
<1>2. liquidityVaultTokensPda(p, m) \in DOMAIN tokens
  BY VaultsAreThere DEF RecordsAreAgreed
<1> HIDE DEF liquidityVaultTokensPda
<1> QED  BY <1>2

(* Or just where they were.                                                *)
VaultsStay ==
  \A p \in People, m \in Mints :
    tokens'[liquidityVaultTokensPda(p, m)] = tokens[liquidityVaultTokensPda(p, m)]

LEMMA UntouchedVaults ==
  ASSUME EscrowInv, VaultsStay
  PROVE  NoVaultLoses
BY DEF EscrowInv, VaultsAreNumbers, NoVaultLoses, VaultsStay

LEMMA TransferIsElsewhere ==
  ASSUME RecordsAreAgreed, NEW a, NEW b, NEW amount,
         \A i \in Reservations : tradeEscrowTokensPda(i) \notin {a, b},
         tokens' = IF a = b THEN tokens
                   ELSE [tokens EXCEPT ![a] = @ - amount, ![b] = @ + amount]
  PROVE  TokensElsewhere
BY AccountsOfATrade DEF TokensElsewhere, RecordsAreAgreed

LEMMA BecomesKeepsRecords ==
  ASSUME EscrowInv, NEW i \in Reservations, NEW to \in Live \cup {"closed"},
         Record(i).state # "none", Becomes(i, to), DOMAIN tokens' = TokenAccounts
  PROVE  /\ RecordsAreAgreed'
         /\ Record(i)'.state = to
         /\ \A j \in Reservations \ {i} : Record(j)' = Record(j)
<1>1. Record(i) \in Agreed(i) /\ tradeEscrowPda(i) \in DOMAIN escrows
  BY DEF EscrowInv, RecordsAreAgreed, NoEscrow, Record
<1>2. Record(i)' = [Record(i) EXCEPT !.state = to]
  BY <1>1 DEF Becomes, Record
<1>3. Record(i)' \in Agreed(i) /\ Record(i)'.state = to
  BY <1>1, <1>2 DEF Agreed
<1>4. \A j \in Reservations \ {i} : Record(j)' = Record(j)
  BY TradesAreApart DEF Becomes, Record, EscrowInv, RecordsAreAgreed
<1>5. DOMAIN escrows' = DOMAIN escrows
  BY DEF Becomes
<1> QED  BY <1>3, <1>4, <1>5 DEF EscrowInv, RecordsAreAgreed, Record

(* Such a step keeps the invariant if the token account follows.            *)
LEMMA BecomesKeeps ==
  ASSUME EscrowInv, NEW i \in Reservations, NEW to \in Live \cup {"closed"}, NEW left,
         Record(i).state # "none", Becomes(i, to), HoldsThen(i, left),
         left = IF to \in Locked THEN Trade[i].amount ELSE 0,
         CasesAreDisputes', VaultsAreNumbers'
  PROVE  EscrowInv'
<1>1. /\ RecordsAreAgreed'
      /\ Record(i)'.state = to
      /\ \A j \in Reservations \ {i} : Record(j)' = Record(j)
  BY BecomesKeepsRecords DEF HoldsThen
<1>2. HeldIsAgreed'
  BY <1>1 DEF HeldIsAgreed, HoldsThen, Record, EscrowInv
<1> QED  BY <1>1, <1>2 DEF EscrowInv

(* And so does one that touches no record.                                 *)
LEMMA ElsewhereKeeps ==
  ASSUME EscrowInv, TokensElsewhere, UNCHANGED escrows, CasesAreDisputes',
         VaultsAreNumbers'
  PROVE  EscrowInv'
BY DEF EscrowInv, RecordsAreAgreed, HeldIsAgreed, TokensElsewhere

(* Without a new record the old cases are still about what they were.       *)
LEMMA CasesKeep ==
  ASSUME EscrowInv, UNCHANGED cases, NEW i \in Reservations, NEW to \in Live \cup {"closed"},
         Record(i).state \in {"created", "funded", "approved"}, Becomes(i, to),
         DOMAIN tokens' = TokenAccounts
  PROVE  CasesAreDisputes'
<1>1. \A j \in Reservations \ {i} : Record(j)' = Record(j)
  BY BecomesKeepsRecords
<1>2. cases[disputeCasePda(i)] = NoCase
  BY DEF EscrowInv, CasesAreDisputes, Record
<1> QED  BY <1>1, <1>2 DEF EscrowInv, CasesAreDisputes, Record

-----------------------------------------------------------------------------
(* What each instruction does, with the keys of its account list looked up.  *)

LEMMA AdminEffect ==
  ASSUME AdminStep
  PROVE  UNCHANGED <<tokens, escrows, cases>>
BY DEF AdminStep, Lands, InitializeFeeConfig, InitializeArbitrationPool, UpdateFeeConfig

(* A merchant's own step leaves everybody else's vaults alone.              *)
OthersStay(merchant) ==
  \A p \in People \ {merchant}, m \in Mints :
    tokens'[liquidityVaultTokensPda(p, m)] = tokens[liquidityVaultTokensPda(p, m)]

LEMMA VaultEffect ==
  ASSUME EscrowInv, NEW merchant \in People, VaultStep(merchant)
  PROVE  /\ TokensElsewhere /\ UNCHANGED <<escrows, cases>>
         /\ VaultsAreNumbers' /\ OthersStay(merchant)
<1> DEFINE Effect == /\ TokensElsewhere /\ UNCHANGED <<escrows, cases>>
                     /\ VaultsAreNumbers' /\ OthersStay(merchant)
<1> USE DEF EscrowInv
<1>1. ASSUME NEW mint \in Mints, NEW amount \in 1 .. Savings,
             DepositLiquidity(depositLiquidityIx(merchant, mint, TokenProgram,
                                                 WalletTokens(merchant, mint), amount))
      PROVE  Effect
  <2> DEFINE ix == depositLiquidityIx(merchant, mint, TokenProgram,
                                      WalletTokens(merchant, mint), amount)
  <2>1. /\ Key(ix, 5) = WalletTokens(merchant, mint)
        /\ Key(ix, 4) = liquidityVaultTokensPda(merchant, mint) /\ ix.args[1] = u64LE(amount)
    BY DEF depositLiquidityIx, Key, Instruction, Signer, Writable, ReadOnly, meta
  <2>2. Move(ix, 5, 4, ix.args[1]) /\ UNCHANGED <<escrows, cases>>
    BY <1>1 DEF DepositLiquidity
  <2>3. ix.args[1] \in Nat
    BY <2>1, BitsAreNumber, ChainAssumption
  <2> HIDE DEF ix
  <2>4. TokensElsewhere
    BY <2>1, <2>2, EscrowIsApart, TransferIsElsewhere DEF Move
  <2>5. AtVaults(Key(ix, 5), Key(ix, 4), ix.args[1])
    BY <2>2, TransferAtVaults DEF Move
  <2>6. OthersStay(merchant)
    BY <2>1, <2>5, VaultIsApart DEF AtVaults, OthersStay
  <2>7. VaultsAreNumbers'
    BY <2>1, <2>3, <2>5, VaultIsApart DEF AtVaults, VaultsAreNumbers
  <2> QED  BY <2>2, <2>4, <2>6, <2>7
<1>2. ASSUME NEW mint \in Mints, NEW amount \in 1 .. Savings,
             WithdrawLiquidity(WithdrawOf(merchant, mint, amount))
      PROVE  Effect
  <2> DEFINE ix == WithdrawOf(merchant, mint, amount)
  <2>1. /\ Key(ix, 3) = liquidityVaultTokensPda(merchant, mint)
        /\ Key(ix, 4) = WalletTokens(merchant, mint) /\ ix.args[1] = u64LE(amount)
    BY DEF WithdrawOf, withdrawLiquidityIx, Key, Instruction, Signer, Writable, ReadOnly, meta
  <2>2. /\ Move(ix, 3, 4, ix.args[1]) /\ UNCHANGED <<escrows, cases>>
        /\ ix.args[1] <= tokens[Key(ix, 3)]
    BY <1>2 DEF WithdrawLiquidity, CanWithdraw
  <2>3. ix.args[1] \in Nat
    BY <2>1, BitsAreNumber, ChainAssumption
  <2> HIDE DEF ix
  <2>4. TokensElsewhere
    BY <2>1, <2>2, EscrowIsApart, TransferIsElsewhere DEF Move
  <2>5. AtVaults(Key(ix, 3), Key(ix, 4), ix.args[1])
    BY <2>2, TransferAtVaults DEF Move
  <2>6. OthersStay(merchant)
    BY <2>1, <2>5, VaultIsApart DEF AtVaults, OthersStay
  <2>7. VaultsAreNumbers'
    BY <2>1, <2>2, <2>3, <2>5, VaultIsApart DEF AtVaults, VaultsAreNumbers
  <2> QED  BY <2>2, <2>4, <2>6, <2>7
<1>3. ASSUME NEW treasuries \in TreasurySets,
             ChargeAdListingFee(chargeAdListingFeeIx(merchant, Open, TokenProgram, treasuries, "ad"))
      PROVE  Effect
  <2> DEFINE ix == chargeAdListingFeeIx(merchant, Open, TokenProgram, treasuries, "ad")
  <2>1. Key(ix, 4) = liquidityVaultTokensPda(merchant, Open)
    BY DEF chargeAdListingFeeIx, Key, Instruction, Signer, Writable, ReadOnly, meta
  <2>2. /\ tokens' = [tokens EXCEPT ![Key(ix, 4)] = @ - OpenFee] /\ UNCHANGED <<escrows, cases>>
        /\ tokens[Key(ix, 4)] >= OpenFee
    BY <1>3 DEF ChargeAdListingFee
  <2> HIDE DEF ix
  <2>3. TokensElsewhere
    BY <2>1, <2>2, EscrowIsApart DEF TokensElsewhere, RecordsAreAgreed
  <2>4. OthersStay(merchant)
    BY <2>1, <2>2, VaultIsApart DEF OthersStay
  <2>5. VaultsAreNumbers'
    BY <2>1, <2>2, VaultsAreThere, ChainAssumption DEF VaultsAreNumbers, RecordsAreAgreed
  <2> QED  BY <2>2, <2>3, <2>4, <2>5
<1>4. ASSUME UNCHANGED <<tokens, escrows, cases>>
      PROVE  Effect
  BY <1>4 DEF TokensElsewhere, RecordsAreAgreed, VaultsAreNumbers, OthersStay
<1> QED
  BY <1>1, <1>2, <1>3, <1>4
  DEF VaultStep, Lands, CreateLiquidityVault, ReserveLiquidity, vars

(* The accounts of a trade.                                                *)
LEMMA ThreeAccounts ==
  ASSUME NEW i \in Reservations
  PROVE  /\ Vault(i) \in TokenAccounts /\ BuyersWallet(i) \in TokenAccounts
         /\ tradeEscrowTokensPda(i) \in TokenAccounts
         /\ BuyersWallet(i) # Vault(i)
         /\ \A j \in Reservations : /\ tradeEscrowTokensPda(j) # Vault(i)
                                    /\ tradeEscrowTokensPda(j) # BuyersWallet(i)
BY AccountsOfATrade, EscrowIsApart, VaultIsApart DEF Vault, BuyersWallet

(* A record is made for what was agreed.                                   *)
LEMMA CreateEffect ==
  ASSUME EscrowInv, NEW i \in Reservations,
         CreateTradeEscrow(createTradeEscrowIx(Trade[i].seller, Trade[i].buyer, Trade[i].mint,
                                               TokenProgram, i, Trade[i].amount, 1))
  PROVE  /\ Record(i) = NoEscrow
         /\ liquidityVaultPda(Trade[i].seller, Trade[i].mint) \in vaults
         /\ escrows' = [escrows EXCEPT ![tradeEscrowPda(i)] =
              [state |-> "created", seller |-> Trade[i].seller, buyer |-> Trade[i].buyer,
               amount |-> Trade[i].amount, timedOut |-> FALSE]]
         /\ UNCHANGED <<tokens, cases>>
<1> DEFINE ix == createTradeEscrowIx(Trade[i].seller, Trade[i].buyer, Trade[i].mint,
                                     TokenProgram, i, Trade[i].amount, 1)
<1>1. /\ Key(ix, 1) = Trade[i].seller /\ Key(ix, 2) = Trade[i].buyer
      /\ Key(ix, 5) = liquidityVaultPda(Trade[i].seller, Trade[i].mint)
      /\ Key(ix, 6) = tradeEscrowPda(i) /\ ix.args[2] = Trade[i].amount
  BY AmountIsNumber
  DEF createTradeEscrowIx, Key, Instruction, Payer, Writable, ReadOnly, meta
<1>2. CreateTradeEscrow(ix)
  OBVIOUS
<1> HIDE DEF ix
<1> QED  BY <1>1, <1>2 DEF CreateTradeEscrow, Record

LEMMA FundEffect ==
  ASSUME EscrowInv, NEW i \in Reservations,
         FundTradeEscrow(fundTradeEscrowIx(Trade[i].seller, Trade[i].mint, TokenProgram, i))
  PROVE  /\ Record(i).state = "created"
         /\ Becomes(i, "funded")
         /\ HoldsThen(i, Trade[i].amount)
         /\ tokens'[Vault(i)] = tokens[Vault(i)] - Trade[i].amount
         /\ tokens'[BuyersWallet(i)] = tokens[BuyersWallet(i)]
         /\ UNCHANGED cases
         /\ VaultsAreNumbers'
         /\ \A p \in People, m \in Mints :
              liquidityVaultTokensPda(p, m) # Vault(i) =>
                tokens'[liquidityVaultTokensPda(p, m)] = tokens[liquidityVaultTokensPda(p, m)]
<1> DEFINE ix == fundTradeEscrowIx(Trade[i].seller, Trade[i].mint, TokenProgram, i)
<1>1. /\ Key(ix, 4) = Vault(i) /\ Key(ix, 5) = tradeEscrowPda(i)
      /\ Key(ix, 6) = tradeEscrowTokensPda(i)
  BY DEF fundTradeEscrowIx, Vault, Key, Instruction, Signer, Writable, ReadOnly, meta
<1>2. FundTradeEscrow(ix)
  OBVIOUS
<1> HIDE DEF ix
<1>3. /\ Record(i).state = "created" /\ Becomes(i, "funded") /\ UNCHANGED cases
      /\ Move(ix, 4, 6, Record(i).amount) /\ tokens[Vault(i)] >= Record(i).amount
  BY <1>1, <1>2 DEF FundTradeEscrow, Record, Becomes
<1>4. Record(i).amount = Trade[i].amount /\ tokens[tradeEscrowTokensPda(i)] = 0
  BY <1>3 DEF EscrowInv, RecordsAreAgreed, HeldIsAgreed, Record, NoEscrow, Agreed, Locked
<1>5. /\ DOMAIN tokens' = TokenAccounts
      /\ \A b \in TokenAccounts :
           tokens'[b] = IF b = tradeEscrowTokensPda(i) THEN Trade[i].amount
                        ELSE IF b = Vault(i) THEN tokens[b] - Trade[i].amount ELSE tokens[b]
  BY <1>1, <1>3, <1>4, ThreeAccounts, AmountIsNumber DEF Move, EscrowInv, RecordsAreAgreed
<1>6. /\ HoldsThen(i, Trade[i].amount)
      /\ tokens'[Vault(i)] = tokens[Vault(i)] - Trade[i].amount
      /\ tokens'[BuyersWallet(i)] = tokens[BuyersWallet(i)]
  BY <1>5, ThreeAccounts, AccountsOfATrade, TradesAreApart DEF HoldsThen
<1>7. \A p \in People, m \in Mints :
        liquidityVaultTokensPda(p, m) # Vault(i) =>
          tokens'[liquidityVaultTokensPda(p, m)] = tokens[liquidityVaultTokensPda(p, m)]
  BY <1>5, VaultsAreThere, EscrowIsApart
<1>8. VaultsAreNumbers'
  BY <1>3, <1>4, <1>6, <1>7, AmountIsNumber DEF VaultsAreNumbers, EscrowInv
<1> QED  BY <1>3, <1>6, <1>7, <1>8

LEMMA ApproveEffect ==
  ASSUME EscrowInv, NEW i \in Reservations,
         ApproveSettlement(approveSettlementIx(Trade[i].seller, i))
  PROVE  Record(i).state = "funded" /\ Becomes(i, "approved") /\ UNCHANGED <<tokens, cases>>
<1>1. Key(approveSettlementIx(Trade[i].seller, i), 2) = tradeEscrowPda(i)
  BY DEF approveSettlementIx, Key, Instruction, Signer, Writable, meta
<1> QED  BY <1>1 DEF ApproveSettlement, Becomes, Record

(* The seller's OPEN vault can have put up a deposit, until the case is      *)
(* decided.                                                                *)
OpenVault(i) == liquidityVaultTokensPda(Trade[i].seller, Open)
PutUpDeposit(i) ==
  cases[disputeCasePda(i)].phase \in Undecided /\ cases[disputeCasePda(i)].deposit # 0

(* No case gets a deposit it did not have.                                  *)
DepositsStay ==
  \A j \in Reservations : PutUpDeposit(j)' => PutUpDeposit(j)

(* Nobody else's vault gets anything.                                      *)
OnlySellerGains(i) ==
  \A p \in People, m \in Mints :
    \/ tokens'[liquidityVaultTokensPda(p, m)] = tokens[liquidityVaultTokensPda(p, m)]
    \/ liquidityVaultTokensPda(p, m) = Vault(i)
    \/ liquidityVaultTokensPda(p, m) = OpenVault(i) /\ PutUpDeposit(i)

(* The locked tokens go back to the seller, or there were none.             *)
GoesBack(i) ==
  /\ Becomes(i, "closed")
  /\ HoldsThen(i, 0)
  /\ tokens'[Vault(i)] = tokens[Vault(i)] + tokens[tradeEscrowTokensPda(i)]
  /\ tokens'[BuyersWallet(i)] = tokens[BuyersWallet(i)]
  /\ NoVaultLoses
  /\ OnlySellerGains(i)

LEMMA MoveBack ==
  ASSUME EscrowInv, NEW i \in Reservations, Becomes(i, "closed"),
         tokens' = [tokens EXCEPT
           ![tradeEscrowTokensPda(i)] = @ - tokens[tradeEscrowTokensPda(i)],
           ![Vault(i)] = @ + tokens[tradeEscrowTokensPda(i)]]
  PROVE  GoesBack(i)
<1>1. tokens[tradeEscrowTokensPda(i)] \in Nat
  BY AmountIsNumber DEF EscrowInv, HeldIsAgreed
<1>2. /\ DOMAIN tokens' = TokenAccounts
      /\ \A b \in TokenAccounts :
           tokens'[b] = IF b = tradeEscrowTokensPda(i) THEN 0
                        ELSE IF b = Vault(i) THEN tokens[b] + tokens[tradeEscrowTokensPda(i)]
                        ELSE tokens[b]
  BY <1>1, ThreeAccounts DEF EscrowInv, RecordsAreAgreed
<1>3. /\ HoldsThen(i, 0)
      /\ tokens'[Vault(i)] = tokens[Vault(i)] + tokens[tradeEscrowTokensPda(i)]
      /\ tokens'[BuyersWallet(i)] = tokens[BuyersWallet(i)]
  BY <1>2, ThreeAccounts, AccountsOfATrade, TradesAreApart DEF HoldsThen
<1>4. NoVaultLoses
  <2>1. ASSUME NEW p \in People, NEW m \in Mints
        PROVE  /\ tokens'[liquidityVaultTokensPda(p, m)] \in Nat
               /\ tokens'[liquidityVaultTokensPda(p, m)] >= tokens[liquidityVaultTokensPda(p, m)]
    <3> DEFINE vault == liquidityVaultTokensPda(p, m)
    <3>1. tokens[vault] \in Nat /\ vault \in TokenAccounts /\ vault # tradeEscrowTokensPda(i)
      BY VaultsAreThere, EscrowIsApart DEF EscrowInv, VaultsAreNumbers
    <3> HIDE DEF vault
    <3>2. tokens'[vault] \in Nat /\ tokens'[vault] >= tokens[vault]
      BY <1>1, <1>2, <3>1
    <3> QED  BY <3>2 DEF vault
  <2> QED  BY <2>1 DEF NoVaultLoses
<1>5. OnlySellerGains(i)
  <2>1. SUFFICES ASSUME NEW p \in People, NEW m \in Mints,
                        liquidityVaultTokensPda(p, m) # Vault(i)
                 PROVE  tokens'[liquidityVaultTokensPda(p, m)] = tokens[liquidityVaultTokensPda(p, m)]
    BY DEF OnlySellerGains
  <2>2. /\ liquidityVaultTokensPda(p, m) \in TokenAccounts
        /\ liquidityVaultTokensPda(p, m) # tradeEscrowTokensPda(i)
    BY VaultsAreThere, EscrowIsApart
  <2> QED  BY <1>2, <2>1, <2>2
<1> QED  BY <1>3, <1>4, <1>5 DEF GoesBack

LEMMA CancelEffect ==
  ASSUME EscrowInv, NEW i \in Reservations, NEW signer,
         CancelReservation(CancelOf(i, signer))
  PROVE  Record(i).state \in {"created", "funded"} /\ GoesBack(i) /\ UNCHANGED cases
<1> DEFINE ix == CancelOf(i, signer)
<1>1. /\ Key(ix, 4) = tradeEscrowPda(i) /\ Key(ix, 5) = tradeEscrowTokensPda(i)
      /\ Key(ix, 6) = Vault(i)
  BY DEF CancelOf, cancelReservationIx, Vault, Key, Instruction, Signer, Writable, ReadOnly, meta
<1>2. CancelReservation(ix)
  OBVIOUS
<1> HIDE DEF ix
<1>3. /\ Record(i).state \in {"created", "funded"} /\ Becomes(i, "closed") /\ UNCHANGED cases
      /\ Move(ix, 5, 6, tokens[tradeEscrowTokensPda(i)])
  BY <1>1, <1>2 DEF CancelReservation, CanCancel, Becomes, Record
<1> QED  BY <1>1, <1>3, EscrowIsApart, MoveBack DEF Move, Vault

LEMMA ExpireEffect ==
  ASSUME EscrowInv, NEW i \in Reservations, ExpireReservation(ExpireOf(i))
  PROVE  Record(i).state \in {"created", "funded"} /\ GoesBack(i) /\ UNCHANGED cases
<1> DEFINE ix == ExpireOf(i)
<1>1. /\ Key(ix, 3) = tradeEscrowPda(i) /\ Key(ix, 4) = tradeEscrowTokensPda(i)
      /\ Key(ix, 5) = Vault(i)
  BY DEF ExpireOf, expireReservationIx, Vault, Key, Instruction, Writable, ReadOnly, meta
<1>2. ExpireReservation(ix)
  OBVIOUS
<1> HIDE DEF ix
<1>3. /\ Record(i).state \in {"created", "funded"} /\ Becomes(i, "closed") /\ UNCHANGED cases
      /\ Move(ix, 4, 5, tokens[tradeEscrowTokensPda(i)])
  BY <1>1, <1>2 DEF ExpireReservation, CanExpire, Becomes, Record
<1> QED  BY <1>1, <1>3, EscrowIsApart, MoveBack DEF Move, Vault

(* The buyer is paid what is left of the locked tokens after the fee.       *)
GoesToBuyer(i) ==
  /\ Becomes(i, "closed")
  /\ HoldsThen(i, 0)
  /\ tokens'[BuyersWallet(i)] = tokens[BuyersWallet(i)] + (Trade[i].amount - SettlementFee)
  /\ tokens'[Vault(i)] = tokens[Vault(i)]
  /\ VaultsStay

LEMMA PayBuyer ==
  ASSUME EscrowInv, NEW i \in Reservations, Record(i).state \in Locked, Becomes(i, "closed"),
         tokens' = [tokens EXCEPT
           ![tradeEscrowTokensPda(i)] = @ - Trade[i].amount,
           ![BuyersWallet(i)] = @ + (Trade[i].amount - SettlementFee)]
  PROVE  GoesToBuyer(i)
<1>1. tokens[tradeEscrowTokensPda(i)] = Trade[i].amount /\ Trade[i].amount \in Int
  BY AmountIsNumber DEF EscrowInv, HeldIsAgreed, Record
<1>2. /\ DOMAIN tokens' = TokenAccounts
      /\ \A b \in TokenAccounts :
           tokens'[b] = IF b = tradeEscrowTokensPda(i) THEN 0
                        ELSE IF b = BuyersWallet(i)
                             THEN tokens[b] + (Trade[i].amount - SettlementFee)
                        ELSE tokens[b]
  BY <1>1, ThreeAccounts DEF EscrowInv, RecordsAreAgreed
<1>3. VaultsStay
  <2>1. SUFFICES ASSUME NEW p \in People, NEW m \in Mints
                 PROVE  tokens'[liquidityVaultTokensPda(p, m)] = tokens[liquidityVaultTokensPda(p, m)]
    BY DEF VaultsStay
  <2>2. /\ liquidityVaultTokensPda(p, m) \in TokenAccounts
        /\ liquidityVaultTokensPda(p, m) # tradeEscrowTokensPda(i)
        /\ liquidityVaultTokensPda(p, m) # BuyersWallet(i)
    BY VaultsAreThere, EscrowIsApart, VaultIsApart DEF BuyersWallet
  <2> QED  BY <1>2, <2>2
<1> QED
  BY <1>2, <1>3, ThreeAccounts, AccountsOfATrade, TradesAreApart DEF HoldsThen, GoesToBuyer

LEMMA ReleaseEffect ==
  ASSUME EscrowInv, NEW i \in Reservations, NEW treasuries \in TreasurySets,
         ReleaseEscrow(ReleaseOf(i, treasuries))
  PROVE  Record(i).state = "approved" /\ GoesToBuyer(i) /\ UNCHANGED cases
<1> DEFINE ix == ReleaseOf(i, treasuries)
<1>1. /\ Key(ix, 3) = tradeEscrowPda(i) /\ Key(ix, 4) = tradeEscrowTokensPda(i)
      /\ Key(ix, 5) = BuyersWallet(i)
  BY DEF ReleaseOf, releaseEscrowIx, Destinations, BuyersWallet,
         Key, Instruction, Writable, ReadOnly, meta
<1>2. ReleaseEscrow(ix)
  OBVIOUS
<1> HIDE DEF ix
<1>3. /\ Record(i).state = "approved" /\ Becomes(i, "closed") /\ UNCHANGED cases
      /\ PayOut(ix, 4, 5, Record(i).amount)
  BY <1>1, <1>2 DEF ReleaseEscrow, CanRelease, Becomes, Record
<1>4. Record(i).amount = Trade[i].amount
  BY <1>3 DEF EscrowInv, RecordsAreAgreed, Record, NoEscrow, Agreed
<1> QED  BY <1>1, <1>3, <1>4, PayBuyer DEF PayOut, Locked

(* The account list of an execution, around its treasuries.                 *)
LEMMA ExecuteKeys ==
  ASSUME NEW i \in Reservations, NEW treasuries \in TreasurySets
  PROVE  LET ix == ExecuteOf(i, treasuries) IN
         /\ Key(ix, 2) = disputeCasePda(i) /\ Key(ix, 3) = tradeEscrowPda(i)
         /\ Key(ix, 4) = tradeEscrowTokensPda(i) /\ Key(ix, 6) = Vault(i)
         /\ Key(ix, 7) = BuyersWallet(i)
         /\ Key(ix, Len(ix.keys) - 4) = arbitrationPoolPda
         /\ Key(ix, Len(ix.keys) - 2) = liquidityVaultTokensPda(Trade[i].seller, Open)
<1> DEFINE paid == [k \in DOMAIN treasuries |-> Writable(treasuries[k])]
           Metas == {Writable(treasuries[k]) : k \in DOMAIN treasuries}
<1>1. paid \in Seq(Metas)
  <2>1. PICK n \in Nat : DOMAIN treasuries = 1 .. n
    BY ChainAssumption
  <2>2. paid \in [1 .. n -> Metas]
    BY <2>1
  <2> QED  BY <2>2
<1> QED
  BY <1>1 DEF ExecuteOf, executeDisputeOutcomeIx, Destinations, BuyersWallet, Vault,
         Key, Instruction, Writable, ReadOnly, meta

(* A case's record changes, and no other's.                                *)
CaseBecomes(i, case) == cases' = [cases EXCEPT ![disputeCasePda(i)] = case]

LEMMA CaseKeeps ==
  ASSUME EscrowInv, NEW i \in Reservations, NEW case, IsCase(case), CaseBecomes(i, case),
         \A j \in Reservations \ {i} : Record(j)'.state = Record(j).state,
         Record(i)'.state \in {"disputed", "closed"},
         case.phase \in Undecided => Record(i)'.state = "disputed"
  PROVE  CasesAreDisputes'
<1>1. /\ DOMAIN cases' = DOMAIN cases
      /\ cases'[disputeCasePda(i)] = case
      /\ \A j \in Reservations \ {i} : cases'[disputeCasePda(j)] = cases[disputeCasePda(j)]
  BY TradesAreApart DEF CaseBecomes, EscrowInv, CasesAreDisputes
<1> QED  BY <1>1 DEF EscrowInv, CasesAreDisputes, Record

LEMMA OpenEffect ==
  ASSUME EscrowInv, NEW i \in Reservations, NEW signer, NEW payer,
         OpenDisputeCase(DisputeOf(i, signer, payer))
  PROVE  /\ Record(i).state = "funded"
         /\ Becomes(i, "disputed")
         /\ TokensElsewhere
         /\ CasesAreDisputes'
         /\ cases[disputeCasePda(i)] = NoCase /\ cases'[disputeCasePda(i)] # NoCase
         /\ VaultsAreNumbers'
         /\ \A p \in People, m \in Mints :
              liquidityVaultTokensPda(p, m) # liquidityVaultTokensPda(Trade[i].seller, Open) =>
                tokens'[liquidityVaultTokensPda(p, m)] = tokens[liquidityVaultTokensPda(p, m)]
         /\ tokens[OpenVault(i)] = 0 => tokens'[OpenVault(i)] = 0 /\ ~PutUpDeposit(i)'
         /\ \A j \in Reservations \ {i} : PutUpDeposit(j)' => PutUpDeposit(j)
<1> DEFINE ix == DisputeOf(i, signer, payer)
<1>1. /\ Key(ix, 3) = tradeEscrowPda(i) /\ Key(ix, 4) = disputeCasePda(i)
      /\ Key(ix, 8) = liquidityVaultTokensPda(Trade[i].seller, Open)
      /\ Key(ix, 9) = arbitrationPoolPda
  BY DEF DisputeOf, openDisputeCaseIx, Key, Instruction, Signer, Payer, Writable, ReadOnly, meta
<1>2. OpenDisputeCase(ix)
  OBVIOUS
<1> HIDE DEF ix
<1> DEFINE open == liquidityVaultTokensPda(Trade[i].seller, Open)
           deposit == LesserOf(OpenFee, tokens[open])
           new == [phase |-> "commit", deposit |-> deposit, committed |-> {},
                   revealed |-> {}, claimed |-> {}, outcomes |-> {}]
<1>3. /\ Record(i).state = "funded" /\ Becomes(i, "disputed")
      /\ Move(ix, 8, 9, deposit)
      /\ CaseBecomes(i, new)
  BY <1>1, <1>2 DEF OpenDisputeCase, CanOpenDispute, Becomes, CaseBecomes, Record
<1>4. deposit \in Nat /\ deposit <= tokens[open] /\ tokens[open] \in Nat
  BY ChainAssumption DEF LesserOf, EscrowInv, VaultsAreNumbers, Mints
<1> HIDE DEF deposit
<1>5. TokensElsewhere
  <2>1. \A j \in Reservations : tradeEscrowTokensPda(j) \notin {Key(ix, 8), Key(ix, 9)}
    BY <1>1, EscrowIsApart
  <2>2. Move(ix, 8, 9, deposit)
    BY <1>3
  <2> QED  BY <2>1, <2>2, TransferIsElsewhere DEF Move, EscrowInv
<1>6. \A p \in People, m \in Mints :
        LET vault == liquidityVaultTokensPda(p, m) IN
        tokens'[vault] = IF vault = open THEN tokens[vault] - deposit ELSE tokens[vault]
  <2>1. AtVaults(Key(ix, 8), Key(ix, 9), deposit)
    BY <1>3, TransferAtVaults DEF Move, EscrowInv
  <2> QED  BY <1>1, <2>1, VaultIsApart DEF AtVaults
<1>7. Record(i)'.state = "disputed" /\ \A j \in Reservations \ {i} : Record(j)' = Record(j)
  BY <1>3, <1>5, BecomesKeepsRecords DEF TokensElsewhere, Live
<1>8. CasesAreDisputes'
  BY <1>3, <1>4, <1>7, CaseKeeps DEF IsCase
<1>9. cases[disputeCasePda(i)] = NoCase
  BY <1>3 DEF EscrowInv, CasesAreDisputes, Record
<1>10. cases'[disputeCasePda(i)] # NoCase
  BY <1>3 DEF CaseBecomes, EscrowInv, CasesAreDisputes, NoCase
<1>11. VaultsAreNumbers'
  BY <1>4, <1>6 DEF VaultsAreNumbers, EscrowInv
<1>12. /\ cases'[disputeCasePda(i)].deposit = deposit
       /\ \A j \in Reservations \ {i} : cases'[disputeCasePda(j)] = cases[disputeCasePda(j)]
  BY <1>3, TradesAreApart DEF CaseBecomes, EscrowInv, CasesAreDisputes
<1>13. tokens[OpenVault(i)] = 0 => tokens'[OpenVault(i)] = 0 /\ ~PutUpDeposit(i)'
  <2>1. open = OpenVault(i) /\ tokens'[open] = tokens[open] - deposit
    BY <1>6, ChainAssumption DEF OpenVault, Mints
  <2> HIDE DEF open
  <2> QED  BY <1>4, <1>12, <2>1 DEF PutUpDeposit
<1>14. \A j \in Reservations \ {i} : PutUpDeposit(j)' => PutUpDeposit(j)
  BY <1>12 DEF PutUpDeposit
<1> QED  BY <1>3, <1>5, <1>6, <1>8, <1>9, <1>10, <1>11, <1>13, <1>14

(* Voting, counting and claiming leave the trade as it is.                  *)
Deliberates ==
  TokensElsewhere /\ VaultsStay /\ UNCHANGED escrows /\ CasesAreDisputes' /\ DepositsStay

(* A case that goes on keeps its phase, or moves among those of a dispute,   *)
(* or was decided before.                                                  *)
LEMMA CaseGoesOn ==
  ASSUME EscrowInv, NEW i \in Reservations, NEW case, IsCase(case), CaseBecomes(i, case),
         TokensElsewhere, VaultsStay, UNCHANGED escrows,
         cases[disputeCasePda(i)].phase # "none",
         case.phase \in Undecided => /\ cases[disputeCasePda(i)].phase \in Undecided
                                     /\ case.deposit = cases[disputeCasePda(i)].deposit
  PROVE  Deliberates
<1>1. /\ Record(i)'.state \in {"disputed", "closed"}
      /\ case.phase \in Undecided => Record(i)'.state = "disputed"
  BY DEF EscrowInv, CasesAreDisputes, Record, NoCase
<1>2. \A j \in Reservations \ {i} : Record(j)'.state = Record(j).state
  BY DEF Record
<1>3. DepositsStay
  <2>1. /\ cases'[disputeCasePda(i)] = case
        /\ \A j \in Reservations \ {i} : cases'[disputeCasePda(j)] = cases[disputeCasePda(j)]
    BY TradesAreApart DEF CaseBecomes, EscrowInv, CasesAreDisputes
  <2> QED  BY <2>1 DEF DepositsStay, PutUpDeposit
<1> QED  BY <1>1, <1>2, <1>3, CaseKeeps DEF Deliberates

(* A step that moves no tokens at all.                                     *)
LEMMA NoTokensMove ==
  ASSUME EscrowInv, UNCHANGED tokens
  PROVE  TokensElsewhere /\ VaultsStay /\ NoVaultLoses
BY UntouchedVaults DEF TokensElsewhere, VaultsStay, EscrowInv, RecordsAreAgreed

LEMMA IsCaseOnceOpened ==
  ASSUME EscrowInv, NEW i \in Reservations, cases[disputeCasePda(i)].phase # "none"
  PROVE  IsCase(cases[disputeCasePda(i)]) /\ disputeCasePda(i) \in DOMAIN cases
BY DEF EscrowInv, CasesAreDisputes, NoCase

LEMMA CommitEffect ==
  ASSUME EscrowInv, NEW i \in Reservations, NEW arbitrator,
         CommitDisputeVote(commitDisputeVoteIx(arbitrator, i, "commitment"))
  PROVE  Deliberates
<1> DEFINE ix == commitDisputeVoteIx(arbitrator, i, "commitment")
           case == cases[disputeCasePda(i)]
<1>1. Key(ix, 2) = disputeCasePda(i)
  BY DEF commitDisputeVoteIx, Key, Instruction, Signer, Writable, ReadOnly, meta
<1>2. CommitDisputeVote(ix)
  OBVIOUS
<1> HIDE DEF ix
<1>3. /\ case.phase = "commit" /\ UNCHANGED <<tokens, escrows>>
      /\ CaseBecomes(i, [case EXCEPT !.committed = @ \cup {Key(ix, 1)}])
  BY <1>1, <1>2 DEF CommitDisputeVote, CaseBecomes
<1>4. IsCase(case)
  BY <1>3, IsCaseOnceOpened
<1>5. /\ IsCase([case EXCEPT !.committed = @ \cup {Key(ix, 1)}])
      /\ [case EXCEPT !.committed = @ \cup {Key(ix, 1)}].phase = case.phase
      /\ [case EXCEPT !.committed = @ \cup {Key(ix, 1)}].deposit = case.deposit
  BY <1>4 DEF IsCase
<1>6. TokensElsewhere /\ VaultsStay
  BY <1>3, NoTokensMove
<1> QED  BY <1>3, <1>5, <1>6, CaseGoesOn

LEMMA RevealEffect ==
  ASSUME EscrowInv, NEW i \in Reservations, NEW arbitrator, NEW outcome,
         RevealDisputeVote(revealDisputeVoteIx(arbitrator, i, outcome, "salt",
                                               stakeAccountPda(arbitrator, "Arbitrator")))
  PROVE  Deliberates
<1> DEFINE ix == revealDisputeVoteIx(arbitrator, i, outcome, "salt",
                                     stakeAccountPda(arbitrator, "Arbitrator"))
           case == cases[disputeCasePda(i)]
           then == [case EXCEPT !.revealed = @ \cup {Key(ix, 1)},
                                !.outcomes = @ \cup {ix.args[1]}]
<1>1. Key(ix, 2) = disputeCasePda(i)
  BY DEF revealDisputeVoteIx, Key, Instruction, Signer, Writable, ReadOnly, meta
<1>2. RevealDisputeVote(ix)
  OBVIOUS
<1> HIDE DEF ix
<1>3. /\ case.phase = "reveal" /\ UNCHANGED <<tokens, escrows>>
      /\ cases' = [cases EXCEPT ![disputeCasePda(i)].revealed = @ \cup {Key(ix, 1)},
                                ![disputeCasePda(i)].outcomes = @ \cup {ix.args[1]}]
  BY <1>1, <1>2 DEF RevealDisputeVote
<1>4. IsCase(case) /\ disputeCasePda(i) \in DOMAIN cases
  BY <1>3, IsCaseOnceOpened
<1>5. IsCase(then) /\ then.phase = case.phase /\ then.deposit = case.deposit
  BY <1>4 DEF IsCase
<1>6. CaseBecomes(i, then)
  BY <1>3, <1>4 DEF CaseBecomes
<1>7. TokensElsewhere /\ VaultsStay
  BY <1>3, NoTokensMove
<1> QED  BY <1>3, <1>5, <1>6, <1>7, CaseGoesOn

LEMMA ClaimEffect ==
  ASSUME EscrowInv, NEW i \in Reservations, NEW arbitrator,
         ClaimArbitrationReward(claimArbitrationRewardIx(arbitrator, i, Open,
                                  WalletTokens(arbitrator, Open), TokenProgram))
  PROVE  Deliberates
<1> DEFINE ix == claimArbitrationRewardIx(arbitrator, i, Open,
                                          WalletTokens(arbitrator, Open), TokenProgram)
           case == cases[disputeCasePda(i)]
           then == [case EXCEPT !.claimed = @ \cup {Key(ix, 1)}]
<1>1. /\ Key(ix, 2) = disputeCasePda(i) /\ Key(ix, 5) = arbitrationPoolPda
      /\ Key(ix, 6) = WalletTokens(arbitrator, Open)
  BY DEF claimArbitrationRewardIx, Key, Instruction, Signer, Writable, ReadOnly, meta
<1>2. ClaimArbitrationReward(ix)
  OBVIOUS
<1> HIDE DEF ix
<1>3. /\ case.phase = "paid" /\ UNCHANGED escrows
      /\ Move(ix, 5, 6, case.deposit \div Cardinality(case.revealed))
      /\ CaseBecomes(i, then)
  BY <1>1, <1>2 DEF ClaimArbitrationReward, CaseBecomes
<1>4. IsCase(case)
  BY <1>3, IsCaseOnceOpened
<1>5. IsCase(then) /\ then.phase = case.phase /\ then.deposit = case.deposit
  BY <1>4 DEF IsCase
<1>6. TokensElsewhere /\ VaultsStay
  <2> DEFINE share == case.deposit \div Cardinality(case.revealed)
  <2>1. Move(ix, 5, 6, share)
    BY <1>3
  <2> HIDE DEF share
  <2>2. VaultsStay
    <3>1. AtVaults(Key(ix, 5), Key(ix, 6), share)
      BY <2>1, TransferAtVaults DEF Move, EscrowInv
    <3> QED  BY <1>1, <3>1, VaultIsApart DEF AtVaults, VaultsStay
  <2>3. TokensElsewhere
    BY <2>1, <1>1, EscrowIsApart, TransferIsElsewhere DEF Move, EscrowInv
  <2> QED  BY <2>2, <2>3
<1> QED  BY <1>3, <1>5, <1>6, CaseGoesOn

LEMMA CloseWindowEffect ==
  ASSUME EscrowInv, NEW i \in Reservations, CloseWindow(i)
  PROVE  Deliberates
<1> DEFINE case == cases[disputeCasePda(i)]
           then == [case EXCEPT !.phase = IF @ = "commit" THEN "reveal" ELSE "tally"]
<1>1. /\ case.phase \in {"commit", "reveal"} /\ UNCHANGED <<tokens, escrows>>
      /\ CaseBecomes(i, then)
  BY DEF CloseWindow, CaseBecomes
<1>2. IsCase(case)
  BY <1>1, IsCaseOnceOpened
<1>3. IsCase(then) /\ then.deposit = case.deposit
  BY <1>1, <1>2 DEF IsCase, Undecided
<1>4. TokensElsewhere /\ VaultsStay
  BY <1>1, NoTokensMove
<1> QED  BY <1>1, <1>3, <1>4, CaseGoesOn DEF Undecided

(* An execution pays the buyer, gives the seller the tokens and the deposit  *)
(* back, or has the case drawn again.                                      *)
LEMMA ExecuteEffect ==
  ASSUME EscrowInv, NEW i \in Reservations, NEW treasuries \in TreasurySets,
         ExecuteDisputeOutcome(ExecuteOf(i, treasuries))
  PROVE  /\ Record(i).state = "disputed"
         /\ CasesAreDisputes' /\ DepositsStay
         /\ GoesToBuyer(i) \/ GoesBack(i) \/ Deliberates
<1> DEFINE ix == ExecuteOf(i, treasuries)
           case == cases[disputeCasePda(i)]
           open == liquidityVaultTokensPda(Trade[i].seller, Open)
<1>1. /\ Key(ix, 2) = disputeCasePda(i) /\ Key(ix, 3) = tradeEscrowPda(i)
      /\ Key(ix, 4) = tradeEscrowTokensPda(i) /\ Key(ix, 6) = Vault(i)
      /\ Key(ix, 7) = BuyersWallet(i)
      /\ Key(ix, Len(ix.keys) - 4) = arbitrationPoolPda
      /\ Key(ix, Len(ix.keys) - 2) = open
  BY ExecuteKeys
<1>2. ExecuteDisputeOutcome(ix)
  OBVIOUS
<1> HIDE DEF ix
<1>3. case.phase = "tally"
  BY <1>1, <1>2 DEF ExecuteDisputeOutcome, CanExecute
<1>4. Record(i).state = "disputed"
  BY <1>3 DEF EscrowInv, CasesAreDisputes, Record, Undecided, NoCase
<1>5. IsCase(case) /\ disputeCasePda(i) \in DOMAIN cases
  BY <1>3, IsCaseOnceOpened
<1>6. tokens[tradeEscrowTokensPda(i)] = Trade[i].amount
  BY <1>4 DEF EscrowInv, HeldIsAgreed, Record, Locked
<1>7. ASSUME NEW phase \in {"paid", "returned"},
             cases' = [cases EXCEPT ![disputeCasePda(i)].phase = phase], Becomes(i, "closed"),
             DOMAIN tokens' = TokenAccounts
      PROVE  CasesAreDisputes' /\ DepositsStay
  <2>1. CaseBecomes(i, [case EXCEPT !.phase = phase])
    BY <1>7 DEF CaseBecomes
  <2>2. /\ IsCase([case EXCEPT !.phase = phase])
        /\ [case EXCEPT !.phase = phase].phase \notin Undecided
    BY <1>5 DEF IsCase, Undecided
  <2>3. Record(i)'.state = "closed" /\ \A j \in Reservations \ {i} : Record(j)' = Record(j)
    BY <1>4, <1>7, BecomesKeepsRecords
  <2>4. DepositsStay
    <3>1. /\ cases'[disputeCasePda(i)] = [case EXCEPT !.phase = phase]
          /\ \A j \in Reservations \ {i} : cases'[disputeCasePda(j)] = cases[disputeCasePda(j)]
      BY <2>1, TradesAreApart DEF CaseBecomes, EscrowInv, CasesAreDisputes
    <3> QED  BY <2>2, <3>1 DEF DepositsStay, PutUpDeposit
  <2> QED  BY <2>1, <2>2, <2>3, <2>4, CaseKeeps
<1>8. CASE /\ PayOut(ix, 4, 7, tokens[Key(ix, 4)])
           /\ cases' = [cases EXCEPT ![Key(ix, 2)].phase = "paid"]
           /\ escrows' = [escrows EXCEPT ![Key(ix, 3)].state = "closed"]
  <2>1. Becomes(i, "closed")
    BY <1>1, <1>8 DEF Becomes
  <2>2. GoesToBuyer(i)
    BY <1>1, <1>4, <1>6, <1>8, <2>1, PayBuyer DEF PayOut, Locked
  <2> QED  BY <1>1, <1>4, <1>7, <1>8, <2>1, <2>2 DEF GoesToBuyer, HoldsThen
<1>9. CASE /\ tokens' = [tokens EXCEPT
                ![Key(ix, 4)] = 0,
                ![Key(ix, 6)] = @ + tokens[Key(ix, 4)],
                ![Key(ix, Len(ix.keys) - 4)] = @ - case.deposit,
                ![Key(ix, Len(ix.keys) - 2)] = @ + case.deposit]
           /\ cases' = [cases EXCEPT ![Key(ix, 2)].phase = "returned"]
           /\ escrows' = [escrows EXCEPT ![Key(ix, 3)].state = "closed"]
  <2>1. Becomes(i, "closed")
    BY <1>1, <1>9 DEF Becomes
  <2>2. /\ open # Vault(i) /\ open # BuyersWallet(i)
        /\ arbitrationPoolPda # Vault(i) /\ arbitrationPoolPda # BuyersWallet(i)
        /\ \A j \in Reservations : tradeEscrowTokensPda(j) \notin {open, arbitrationPoolPda}
    BY VaultIsApart, EscrowIsApart, ChainAssumption DEF Vault, BuyersWallet
  <2>3. DOMAIN tokens' = TokenAccounts
    BY <1>9 DEF EscrowInv, RecordsAreAgreed
  <2>4. HoldsThen(i, 0)
    BY <1>1, <1>9, <2>2, <2>3, ThreeAccounts, AccountsOfATrade, TradesAreApart
    DEF HoldsThen, EscrowInv, RecordsAreAgreed
  <2>5. /\ tokens'[Vault(i)] = tokens[Vault(i)] + tokens[tradeEscrowTokensPda(i)]
        /\ tokens'[BuyersWallet(i)] = tokens[BuyersWallet(i)]
    BY <1>1, <1>9, <2>2, ThreeAccounts DEF EscrowInv, RecordsAreAgreed
  <2>6. NoVaultLoses
    <3>1. SUFFICES ASSUME NEW p \in People, NEW m \in Mints
                   PROVE  /\ tokens'[liquidityVaultTokensPda(p, m)] \in Nat
                          /\ tokens'[liquidityVaultTokensPda(p, m)] >= tokens[liquidityVaultTokensPda(p, m)]
      BY DEF NoVaultLoses
    <3> DEFINE vault == liquidityVaultTokensPda(p, m)
    <3>2. /\ tokens[vault] \in Nat /\ vault \in TokenAccounts
          /\ vault # tradeEscrowTokensPda(i) /\ vault # arbitrationPoolPda
      BY VaultsAreThere, EscrowIsApart, VaultIsApart DEF EscrowInv, VaultsAreNumbers
    <3>3. case.deposit \in Nat /\ Trade[i].amount \in Nat
      BY <1>3, <1>5, AmountIsNumber DEF IsCase, Undecided
    <3>4. DOMAIN tokens = TokenAccounts
      BY DEF EscrowInv, RecordsAreAgreed
    <3> HIDE DEF vault, case, open
    <3>5. tokens'[vault] \in Nat /\ tokens'[vault] >= tokens[vault]
      BY <1>1, <1>6, <1>9, <2>2, <3>2, <3>3, <3>4
    <3> QED  BY <3>5 DEF vault
  <2>7. OnlySellerGains(i)
    <3>1. SUFFICES ASSUME NEW p \in People, NEW m \in Mints,
                          liquidityVaultTokensPda(p, m) # Vault(i),
                          liquidityVaultTokensPda(p, m) = open => ~PutUpDeposit(i)
                   PROVE  tokens'[liquidityVaultTokensPda(p, m)] = tokens[liquidityVaultTokensPda(p, m)]
      BY DEF OnlySellerGains, OpenVault
    <3> DEFINE vault == liquidityVaultTokensPda(p, m)
    <3>2. /\ tokens[vault] \in Nat /\ vault \in TokenAccounts
          /\ vault # tradeEscrowTokensPda(i) /\ vault # arbitrationPoolPda
      BY VaultsAreThere, EscrowIsApart, VaultIsApart DEF EscrowInv, VaultsAreNumbers
    <3>3. vault = open => case.deposit = 0
      BY <1>3, <3>1 DEF PutUpDeposit, Undecided
    <3>4. DOMAIN tokens = TokenAccounts
      BY DEF EscrowInv, RecordsAreAgreed
    <3>5. vault # Vault(i)
      BY <3>1
    <3> HIDE DEF vault, case, open
    <3>6. tokens'[vault] = tokens[vault]
      BY <1>1, <1>9, <2>2, <3>2, <3>3, <3>4, <3>5
    <3> QED  BY <3>6 DEF vault
  <2> QED  BY <1>1, <1>4, <1>7, <1>9, <2>1, <2>3, <2>4, <2>5, <2>6, <2>7 DEF GoesBack
<1>10. CASE /\ cases' = [cases EXCEPT ![Key(ix, 2)].phase = "commit",
                                      ![Key(ix, 2)].committed = {}]
            /\ UNCHANGED <<tokens, escrows>>
  <2> DEFINE then == [case EXCEPT !.phase = "commit", !.committed = {}]
  <2>1. CaseBecomes(i, then)
    BY <1>1, <1>5, <1>10 DEF CaseBecomes
  <2>2. IsCase(then) /\ then.deposit = case.deposit
    BY <1>3, <1>5 DEF IsCase, Undecided
  <2>3. TokensElsewhere /\ VaultsStay
    BY <1>10, NoTokensMove
  <2>4. Deliberates
    BY <1>3, <1>10, <2>1, <2>2, <2>3, CaseGoesOn DEF Undecided
  <2> QED  BY <1>4, <2>4 DEF Deliberates
<1>11. \/ /\ PayOut(ix, 4, 7, tokens[Key(ix, 4)])
          /\ cases' = [cases EXCEPT ![Key(ix, 2)].phase = "paid"]
          /\ escrows' = [escrows EXCEPT ![Key(ix, 3)].state = "closed"]
       \/ /\ tokens' = [tokens EXCEPT
               ![Key(ix, 4)] = 0,
               ![Key(ix, 6)] = @ + tokens[Key(ix, 4)],
               ![Key(ix, Len(ix.keys) - 4)] = @ - case.deposit,
               ![Key(ix, Len(ix.keys) - 2)] = @ + case.deposit]
          /\ cases' = [cases EXCEPT ![Key(ix, 2)].phase = "returned"]
          /\ escrows' = [escrows EXCEPT ![Key(ix, 3)].state = "closed"]
       \/ /\ cases' = [cases EXCEPT ![Key(ix, 2)].phase = "commit",
                                     ![Key(ix, 2)].committed = {}]
          /\ UNCHANGED <<tokens, escrows>>
  <2>1. case = cases[Key(ix, 2)]
    BY <1>1
  <2> HIDE DEF case
  <2> QED  BY <1>2, <2>1 DEF ExecuteDisputeOutcome
<1> QED  BY <1>8, <1>9, <1>10, <1>11

-----------------------------------------------------------------------------
(* What a step is to EscrowPromise.                                        *)

LEMMA StageMoves ==
  ASSUME EscrowInv, NEW i \in Reservations, NEW to \in Live \cup {"closed"},
         Record(i).state # "none", Becomes(i, to), DOMAIN tokens' = TokenAccounts
  PROVE  Stages' = [Stages EXCEPT ![i] = StageOf(to)]
<1>1. Record(i)'.state = to /\ \A j \in Reservations \ {i} : Record(j)' = Record(j)
  BY BecomesKeepsRecords
<1>2. escrows'[tradeEscrowPda(i)].state = to
  BY <1>1 DEF Record
<1>3. \A j \in Reservations \ {i} : escrows'[tradeEscrowPda(j)] = escrows[tradeEscrowPda(j)]
  BY <1>1 DEF Record
<1>4. Stages' = [j \in Reservations |-> StageOf(escrows'[tradeEscrowPda(j)].state)]
  BY DEF Stages
<1> HIDE DEF StageOf
<1> QED  BY <1>2, <1>3, <1>4 DEF Stages

LEMMA HeldMoves ==
  ASSUME NEW i \in Reservations, NEW left, HoldsThen(i, left)
  PROVE  Held' = [Held EXCEPT ![i] = left]
<1>1. Held' = [j \in Reservations |-> tokens'[tradeEscrowTokensPda(j)]]
  BY DEF Held
<1> QED  BY <1>1 DEF Held, HoldsThen

LEMMA NothingHeldMoves ==
  ASSUME TokensElsewhere
  PROVE  Held' = Held
BY DEF Held, TokensElsewhere

LEMMA StageNow ==
  ASSUME NEW i \in Reservations
  PROVE  /\ Stages[i] = StageOf(Record(i).state)
         /\ Held[i] = tokens[tradeEscrowTokensPda(i)]
         /\ Home[i] = tokens[Vault(i)] /\ Purse[i] = tokens[BuyersWallet(i)]
         /\ Home'[i] = tokens'[Vault(i)] /\ Purse'[i] = tokens'[BuyersWallet(i)]
BY DEF Stages, Held, Home, Purse, Record, Vault, BuyersWallet

LEMMA LockIsPromised ==
  ASSUME EscrowInv, NEW i \in Reservations, Record(i).state = "created",
         Becomes(i, "funded"), HoldsThen(i, Trade[i].amount),
         tokens'[Vault(i)] = tokens[Vault(i)] - Trade[i].amount,
         tokens'[BuyersWallet(i)] = tokens[BuyersWallet(i)]
  PROVE  Promise!Lock(i)
<1>1. Stages' = [Stages EXCEPT ![i] = "locked"]
  BY StageMoves DEF HoldsThen, StageOf, Live
<1>2. Held' = [Held EXCEPT ![i] = Trade[i].amount]
  BY HeldMoves
<1>3. Stages[i] = "unfunded"
  BY StageNow DEF StageOf
<1>4. [j \in Reservations |-> Trade[j].amount][i] = Trade[i].amount
  OBVIOUS
<1> QED  BY <1>1, <1>2, <1>3, <1>4, StageNow DEF Promise!Lock, Promise!Step

LEMMA ApprovalIsPromised ==
  ASSUME EscrowInv, NEW i \in Reservations, Record(i).state = "funded",
         Becomes(i, "approved"), UNCHANGED tokens
  PROVE  Promise!Approve(i)
<1>1. Stages' = [Stages EXCEPT ![i] = "approved"]
  BY StageMoves DEF EscrowInv, RecordsAreAgreed, StageOf, Live
<1>2. Stages[i] = "locked"
  BY StageNow DEF StageOf
<1>3. Held' = [Held EXCEPT ![i] = Held[i]] /\ UNCHANGED <<Home, Purse>>
  BY DEF Held, Home, Purse
<1> QED  BY <1>1, <1>2, <1>3 DEF Promise!Approve, Promise!Step

LEMMA DisputeIsPromised ==
  ASSUME EscrowInv, NEW i \in Reservations, Record(i).state = "funded",
         Becomes(i, "disputed"), TokensElsewhere
  PROVE  Promise!Dispute(i)
<1>1. Stages' = [Stages EXCEPT ![i] = "disputed"]
  BY StageMoves DEF TokensElsewhere, StageOf, Live
<1>2. Stages[i] = "locked"
  BY StageNow DEF StageOf
<1>3. Held' = [Held EXCEPT ![i] = Held[i]]
  BY NothingHeldMoves DEF Held
<1> QED  BY <1>1, <1>2, <1>3 DEF Promise!Dispute, Promise!Step

LEMMA PaymentIsPromised ==
  ASSUME EscrowInv, NEW i \in Reservations, Record(i).state \in {"approved", "disputed"},
         GoesToBuyer(i)
  PROVE  Promise!Pay(i)
<1>1. Stages' = [Stages EXCEPT ![i] = "ended"]
  BY StageMoves DEF GoesToBuyer, HoldsThen, StageOf
<1>2. Held' = [Held EXCEPT ![i] = 0]
  BY HeldMoves DEF GoesToBuyer
<1>3. Stages[i] \in {"approved", "disputed"}
  BY StageNow DEF StageOf
<1>4. [j \in Reservations |-> Trade[j].amount][i] = Trade[i].amount
  OBVIOUS
<1> QED  BY <1>1, <1>2, <1>3, <1>4, StageNow DEF Promise!Pay, Promise!Step, GoesToBuyer

LEMMA ReturnIsPromised ==
  ASSUME EscrowInv, NEW i \in Reservations,
         Record(i).state \in {"created", "funded", "disputed"}, GoesBack(i)
  PROVE  Promise!Return(i)
<1>1. Stages' = [Stages EXCEPT ![i] = "ended"]
  BY StageMoves DEF GoesBack, HoldsThen, StageOf
<1>2. Held' = [Held EXCEPT ![i] = 0]
  BY HeldMoves DEF GoesBack
<1>3. Stages[i] \in {"unfunded", "locked", "disputed"}
  BY StageNow DEF StageOf
<1> QED  BY <1>1, <1>2, <1>3, StageNow DEF Promise!Return, Promise!Step, GoesBack

LEMMA ElsewhereIsPromised ==
  ASSUME TokensElsewhere, UNCHANGED escrows
  PROVE  Promise!Elsewhere
BY NothingHeldMoves DEF Promise!Elsewhere, Stages

-----------------------------------------------------------------------------
(* One lemma per kind of step: the invariant is kept, and so is the promise,  *)
(* and nobody pays for what is not theirs.                                 *)

Kept == EscrowInv' /\ Promise!Next /\ OnlyOwnersPay

LEMMA FullerIsFair ==
  ASSUME EscrowInv, NoVaultLoses
  PROVE  VaultsAreNumbers' /\ OnlyOwnersPay
<1>1. VaultsAreNumbers'
  BY DEF NoVaultLoses, VaultsAreNumbers
<1>2. \A p \in People, m \in Mints :
        ~(tokens'[liquidityVaultTokensPda(p, m)] < tokens[liquidityVaultTokensPda(p, m)])
  BY DEF NoVaultLoses, VaultsAreNumbers, EscrowInv
<1> QED  BY <1>1, <1>2 DEF OnlyOwnersPay

LEMMA ElsewhereIsKept ==
  ASSUME EscrowInv, TokensElsewhere, VaultsStay, UNCHANGED escrows, CasesAreDisputes'
  PROVE  Kept
BY ElsewhereKeeps, ElsewhereIsPromised, UntouchedVaults, FullerIsFair DEF Kept, Promise!Next

LEMMA NothingIsKept ==
  ASSUME EscrowInv, UNCHANGED <<tokens, escrows, cases>>
  PROVE  Kept
<1>1. TokensElsewhere /\ VaultsStay
  BY NoTokensMove
<1>2. CasesAreDisputes'
  BY DEF EscrowInv, CasesAreDisputes
<1> QED  BY <1>1, <1>2, ElsewhereIsKept

(* A seller who funds a trade, or is taken to a case, is the one who pays.    *)
LEMMA PayerIsFair ==
  ASSUME EscrowInv, NEW i \in Reservations, NEW mint \in Mints,
         \A p \in People, m \in Mints :
           liquidityVaultTokensPda(p, m) # liquidityVaultTokensPda(Trade[i].seller, mint) =>
             tokens'[liquidityVaultTokensPda(p, m)] = tokens[liquidityVaultTokensPda(p, m)],
         \/ mint = Trade[i].mint /\ escrows'[tradeEscrowPda(i)].state = "funded"
         \/ mint = Open /\ cases[disputeCasePda(i)] = NoCase
                        /\ cases'[disputeCasePda(i)] # NoCase
  PROVE  OnlyOwnersPay
<1>1. SUFFICES ASSUME NEW p \in People, NEW m \in Mints,
                      tokens'[liquidityVaultTokensPda(p, m)] < tokens[liquidityVaultTokensPda(p, m)]
               PROVE  /\ Trade[i].seller = p
                      /\ \/ m = Trade[i].mint /\ escrows'[tradeEscrowPda(i)].state = "funded"
                         \/ m = Open /\ cases[disputeCasePda(i)] = NoCase
                                     /\ cases'[disputeCasePda(i)] # NoCase
  BY DEF OnlyOwnersPay
<1>2. tokens[liquidityVaultTokensPda(p, m)] \in Nat
  BY DEF EscrowInv, VaultsAreNumbers
<1>3. liquidityVaultTokensPda(p, m) = liquidityVaultTokensPda(Trade[i].seller, mint)
  BY <1>1, <1>2
<1>4. p = Trade[i].seller /\ m = mint
  BY <1>3 DEF liquidityVaultTokensPda
<1> QED  BY <1>4

LEMMA PayingIsKept ==
  ASSUME EscrowInv, NEW i \in Reservations, Record(i).state \in {"approved", "disputed"},
         GoesToBuyer(i), CasesAreDisputes'
  PROVE  Kept
<1>1. VaultsAreNumbers' /\ OnlyOwnersPay
  BY UntouchedVaults, FullerIsFair DEF GoesToBuyer
<1>2. EscrowInv'
  BY <1>1, BecomesKeeps DEF GoesToBuyer, Locked
<1> QED  BY <1>1, <1>2, PaymentIsPromised DEF Kept, Promise!Next

LEMMA ReturningIsKept ==
  ASSUME EscrowInv, NEW i \in Reservations,
         Record(i).state \in {"created", "funded", "disputed"}, GoesBack(i), CasesAreDisputes'
  PROVE  Kept
<1>1. VaultsAreNumbers' /\ OnlyOwnersPay
  BY FullerIsFair DEF GoesBack
<1>2. EscrowInv'
  BY <1>1, BecomesKeeps DEF GoesBack, Locked
<1> QED  BY <1>1, <1>2, ReturnIsPromised DEF Kept, Promise!Next

LEMMA CreateIsKept ==
  ASSUME EscrowInv, NEW i \in Reservations,
         CreateTradeEscrow(createTradeEscrowIx(Trade[i].seller, Trade[i].buyer, Trade[i].mint,
                                               TokenProgram, i, Trade[i].amount, 1))
  PROVE  Kept
<1> DEFINE new == [state |-> "created", seller |-> Trade[i].seller, buyer |-> Trade[i].buyer,
                   amount |-> Trade[i].amount, timedOut |-> FALSE]
<1>1. /\ Record(i) = NoEscrow /\ UNCHANGED <<tokens, cases>>
      /\ escrows' = [escrows EXCEPT ![tradeEscrowPda(i)] = new]
  BY CreateEffect
<1>2. /\ DOMAIN escrows' = DOMAIN escrows /\ escrows'[tradeEscrowPda(i)] = new
      /\ \A j \in Reservations \ {i} : escrows'[tradeEscrowPda(j)] = escrows[tradeEscrowPda(j)]
  BY <1>1, TradesAreApart DEF EscrowInv, RecordsAreAgreed
<1>3. new \in Agreed(i) /\ new.state = "created"
  BY DEF Agreed, Live
<1> HIDE DEF new
<1>4. RecordsAreAgreed'
  BY <1>1, <1>2, <1>3 DEF EscrowInv, RecordsAreAgreed
<1>5. escrows[tradeEscrowPda(i)].state = "none"
  BY <1>1 DEF Record, NoEscrow
<1>6. HeldIsAgreed'
  BY <1>1, <1>2, <1>3, <1>5 DEF EscrowInv, HeldIsAgreed, Locked
<1>7. CasesAreDisputes'
  BY <1>1, <1>2, <1>5 DEF EscrowInv, CasesAreDisputes
<1>8. Stages' = Stages
  BY <1>2, <1>3, <1>5 DEF Stages, StageOf
<1>9. Promise!Elsewhere
  BY <1>1, <1>8 DEF Promise!Elsewhere, Held
<1>10. VaultsAreNumbers' /\ OnlyOwnersPay
  BY <1>1, NoTokensMove, FullerIsFair
<1> QED  BY <1>4, <1>6, <1>7, <1>9, <1>10 DEF Kept, EscrowInv, Promise!Next

LEMMA TimeoutIsKept ==
  ASSUME EscrowInv, NEW i \in Reservations, Timeout(i)
  PROVE  Kept
<1> DEFINE new == [Record(i) EXCEPT !.timedOut = TRUE]
<1>1. /\ Record(i).state \in Live /\ UNCHANGED <<tokens, cases>>
      /\ escrows' = [escrows EXCEPT ![tradeEscrowPda(i)] = new]
  BY DEF Timeout, Record
<1>2. /\ DOMAIN escrows' = DOMAIN escrows /\ escrows'[tradeEscrowPda(i)] = new
      /\ \A j \in Reservations \ {i} : escrows'[tradeEscrowPda(j)] = escrows[tradeEscrowPda(j)]
  BY <1>1, TradesAreApart DEF EscrowInv, RecordsAreAgreed
<1>3. new \in Agreed(i) /\ new.state = Record(i).state
  <2>1. Record(i) \in Agreed(i)
    BY <1>1 DEF EscrowInv, RecordsAreAgreed, Record, NoEscrow, Live
  <2> QED  BY <2>1 DEF Agreed
<1> HIDE DEF new
<1>4. RecordsAreAgreed'
  BY <1>1, <1>2, <1>3 DEF EscrowInv, RecordsAreAgreed
<1>5. \A j \in Reservations :
        escrows'[tradeEscrowPda(j)].state = escrows[tradeEscrowPda(j)].state
  BY <1>2, <1>3 DEF Record
<1>6. HeldIsAgreed' /\ CasesAreDisputes'
  BY <1>1, <1>5 DEF EscrowInv, HeldIsAgreed, CasesAreDisputes
<1>7. Stages' = Stages
  BY <1>5 DEF Stages
<1>8. Promise!Elsewhere
  BY <1>1, <1>7 DEF Promise!Elsewhere, Held
<1>9. VaultsAreNumbers' /\ OnlyOwnersPay
  BY <1>1, NoTokensMove, FullerIsFair
<1> QED  BY <1>4, <1>6, <1>8, <1>9 DEF Kept, EscrowInv, Promise!Next

LEMMA TradeIsKept ==
  ASSUME EscrowInv, NEW i \in Reservations, TradeStep(i)
  PROVE  Kept
<1>1. ASSUME FundTradeEscrow(fundTradeEscrowIx(Trade[i].seller, Trade[i].mint, TokenProgram, i))
      PROVE  Kept
  <2>1. /\ Record(i).state = "created" /\ Becomes(i, "funded") /\ UNCHANGED cases
        /\ HoldsThen(i, Trade[i].amount)
        /\ tokens'[Vault(i)] = tokens[Vault(i)] - Trade[i].amount
        /\ tokens'[BuyersWallet(i)] = tokens[BuyersWallet(i)]
        /\ VaultsAreNumbers'
        /\ \A p \in People, m \in Mints :
             liquidityVaultTokensPda(p, m) # liquidityVaultTokensPda(Trade[i].seller, Trade[i].mint) =>
               tokens'[liquidityVaultTokensPda(p, m)] = tokens[liquidityVaultTokensPda(p, m)]
    BY <1>1, FundEffect DEF Vault
  <2>2. CasesAreDisputes'
    BY <2>1, CasesKeep DEF HoldsThen, Live
  <2>3. EscrowInv'
    BY <2>1, <2>2, BecomesKeeps DEF Locked, Live
  <2>4. escrows'[tradeEscrowPda(i)].state = "funded"
    BY <2>1, BecomesKeepsRecords DEF Record, HoldsThen, Live
  <2>5. OnlyOwnersPay
    BY <2>1, <2>4, PayerIsFair, ChainAssumption DEF Mints
  <2> QED  BY <2>1, <2>3, <2>5, LockIsPromised DEF Kept, Promise!Next
<1>2. ASSUME ApproveSettlement(approveSettlementIx(Trade[i].seller, i))
      PROVE  Kept
  <2>1. Record(i).state = "funded" /\ Becomes(i, "approved") /\ UNCHANGED <<tokens, cases>>
    BY <1>2, ApproveEffect
  <2>2. HoldsThen(i, Trade[i].amount)
    BY <2>1 DEF HoldsThen, EscrowInv, RecordsAreAgreed, HeldIsAgreed, Record, Locked
  <2>3. CasesAreDisputes'
    BY <2>1, <2>2, CasesKeep DEF HoldsThen, Live
  <2>4. VaultsAreNumbers' /\ OnlyOwnersPay
    BY <2>1, NoTokensMove, FullerIsFair
  <2>5. EscrowInv'
    BY <2>1, <2>2, <2>3, <2>4, BecomesKeeps DEF Locked, Live
  <2> QED  BY <2>1, <2>4, <2>5, ApprovalIsPromised DEF Kept, Promise!Next
<1>3. ASSUME NEW signer, CancelReservation(CancelOf(i, signer))
      PROVE  Kept
  <2>1. Record(i).state \in {"created", "funded"} /\ GoesBack(i) /\ UNCHANGED cases
    BY <1>3, CancelEffect
  <2>2. CasesAreDisputes'
    BY <2>1, CasesKeep DEF GoesBack, HoldsThen
  <2> QED  BY <2>1, <2>2, ReturningIsKept
<1>4. ASSUME ExpireReservation(ExpireOf(i))
      PROVE  Kept
  <2>1. Record(i).state \in {"created", "funded"} /\ GoesBack(i) /\ UNCHANGED cases
    BY <1>4, ExpireEffect
  <2>2. CasesAreDisputes'
    BY <2>1, CasesKeep DEF GoesBack, HoldsThen
  <2> QED  BY <2>1, <2>2, ReturningIsKept
<1>5. ASSUME NEW treasuries \in TreasurySets, ReleaseEscrow(ReleaseOf(i, treasuries))
      PROVE  Kept
  <2>1. Record(i).state = "approved" /\ GoesToBuyer(i) /\ UNCHANGED cases
    BY <1>5, ReleaseEffect
  <2>2. CasesAreDisputes'
    BY <2>1, CasesKeep DEF GoesToBuyer, HoldsThen
  <2> QED  BY <2>1, <2>2, PayingIsKept
<1> QED  BY <1>1, <1>2, <1>3, <1>4, <1>5, CreateIsKept DEF TradeStep, Lands

LEMMA DisputeIsKept ==
  ASSUME EscrowInv, NEW i \in Reservations, DisputeStep(i)
  PROVE  Kept
<1>1. ASSUME NEW signer, NEW payer, OpenDisputeCase(DisputeOf(i, signer, payer))
      PROVE  Kept
  <2>1. /\ Record(i).state = "funded" /\ Becomes(i, "disputed") /\ TokensElsewhere
        /\ CasesAreDisputes' /\ VaultsAreNumbers'
        /\ cases[disputeCasePda(i)] = NoCase /\ cases'[disputeCasePda(i)] # NoCase
        /\ \A p \in People, m \in Mints :
             liquidityVaultTokensPda(p, m) # liquidityVaultTokensPda(Trade[i].seller, Open) =>
               tokens'[liquidityVaultTokensPda(p, m)] = tokens[liquidityVaultTokensPda(p, m)]
    BY <1>1, OpenEffect
  <2>2. HoldsThen(i, Trade[i].amount)
    BY <2>1 DEF HoldsThen, TokensElsewhere, EscrowInv, HeldIsAgreed, Record, Locked
  <2>3. EscrowInv'
    BY <2>1, <2>2, BecomesKeeps DEF Locked, Live
  <2>4. OnlyOwnersPay
    BY <2>1, PayerIsFair DEF Mints
  <2> QED  BY <2>1, <2>3, <2>4, DisputeIsPromised DEF Kept, Promise!Next
<1>2. ASSUME Deliberates
      PROVE  Kept
  BY <1>2, ElsewhereIsKept DEF Deliberates
<1>3. ASSUME NEW treasuries \in TreasurySets, ExecuteDisputeOutcome(ExecuteOf(i, treasuries))
      PROVE  Kept
  <2>1. /\ Record(i).state = "disputed" /\ CasesAreDisputes'
        /\ GoesToBuyer(i) \/ GoesBack(i) \/ Deliberates
    BY <1>3, ExecuteEffect
  <2> QED  BY <2>1, <1>2, PayingIsKept, ReturningIsKept
<1> QED
  BY <1>1, <1>2, <1>3, CommitEffect, RevealEffect, ClaimEffect DEF DisputeStep, Lands

LEMMA StepIsKept ==
  ASSUME EscrowInv, [Next]_vars
  PROVE  Kept
<1>1. CASE AdminStep
  BY <1>1, AdminEffect, NothingIsKept
<1>2. ASSUME NEW merchant \in Merchants, VaultStep(merchant)
      PROVE  Kept
  <2>1. /\ TokensElsewhere /\ UNCHANGED <<escrows, cases>>
        /\ VaultsAreNumbers' /\ OthersStay(merchant)
    BY <1>2, VaultEffect, ChainAssumption
  <2>2. CasesAreDisputes'
    BY <2>1 DEF EscrowInv, CasesAreDisputes
  <2>3. OnlyOwnersPay
    <3>1. ASSUME NEW p \in People, NEW m \in Mints, p # merchant
          PROVE  ~(tokens'[liquidityVaultTokensPda(p, m)] < tokens[liquidityVaultTokensPda(p, m)])
      BY <2>1, <3>1 DEF OthersStay, EscrowInv, VaultsAreNumbers
    <3> QED  BY <1>2, <3>1 DEF OnlyOwnersPay
  <2> QED  BY <2>1, <2>2, <2>3, ElsewhereKeeps, ElsewhereIsPromised DEF Kept, Promise!Next
<1>3. ASSUME NEW person, BanOrUnban(person)
      PROVE  Kept
  BY <1>3, NothingIsKept DEF BanOrUnban
<1>4. ASSUME NEW i \in Reservations, CloseWindow(i)
      PROVE  Kept
  BY <1>4, CloseWindowEffect, ElsewhereIsKept DEF Deliberates
<1>5. CASE UNCHANGED vars
  BY <1>5, NothingIsKept DEF vars
<1> QED
  BY <1>1, <1>2, <1>3, <1>4, <1>5, TradeIsKept, DisputeIsKept, TimeoutIsKept DEF Next

LEMMA StartIsPromised ==
  ASSUME Init
  PROVE  Promise!Init
<1> USE DEF Init
<1>1. \A i \in Reservations : escrows[tradeEscrowPda(i)].state = "none"
  BY DEF NoEscrow
<1>2. Stages = [i \in Reservations |-> "unfunded"]
  BY <1>1 DEF Stages, StageOf
<1>3. Held = [i \in Reservations |-> 0]
  BY AccountsOfATrade, EscrowIsApart DEF Held
<1>4. \A a \in TokenAccounts : tokens[a] \in Nat
  BY ChainAssumption
<1>5. Home \in [Reservations -> Nat] /\ Purse \in [Reservations -> Nat]
  BY <1>4, AccountsOfATrade DEF Home, Purse
<1> QED  BY <1>2, <1>3, <1>5 DEF Promise!Init

(* The escrow's records, its token account and its case say the same of a    *)
(* trade, whatever lands.                                                  *)
THEOREM EscrowIsWhatWasAgreed == Spec => []EscrowInv
<1>1. Init => EscrowInv
  BY EscrowStarts
<1>2. EscrowInv /\ [Next]_vars => EscrowInv'
  BY StepIsKept DEF Kept
<1> QED  BY <1>1, <1>2, PTL DEF Spec

(* The instructions of the SDK keep the promise of an escrow, whatever is    *)
(* sent and in whatever order it lands.                                    *)
THEOREM KeepsThePromise == Spec => ImplementsEscrow
<1>1. Init => Promise!Init
  BY StartIsPromised
<1>2. EscrowInv /\ [Next]_vars => [Promise!Next]_(Promise!vars)
  BY StepIsKept DEF Kept
<1> QED  BY <1>1, <1>2, EscrowIsWhatWasAgreed, PTL DEF Spec, ImplementsEscrow, Promise!Spec

(* Nobody's vault pays for what is not its owner's doing.                   *)
THEOREM OwnersPayForThemselves == Spec => NobodyElsePays
<1>1. EscrowInv /\ [Next]_vars => OnlyOwnersPay
  BY StepIsKept DEF Kept
<1> QED  BY <1>1, EscrowIsWhatWasAgreed, PTL DEF Spec, NobodyElsePays

-----------------------------------------------------------------------------
(* The way out.  It needs that what is asked of the chain is there: the      *)
(* vaults behind the tokens, the pool, and the treasuries of the config.     *)

(* The config's treasuries are a list that was once passed, or none.        *)
TreasuriesAreListed == config.treasuries \in TreasurySets \cup {<<>>}

(* A vault means that there is a pool, and a trade's record a vault.         *)
RecordsHaveVaults ==
  /\ vaults # {} => pool
  /\ \A i \in Reservations :
       Record(i) # NoEscrow => liquidityVaultPda(Trade[i].seller, Trade[i].mint) \in vaults

(* Tokens are in vaults that exist, and a deposit came out of one.           *)
TokensHaveVaults ==
  /\ \A p \in People, m \in Mints :
       tokens[liquidityVaultTokensPda(p, m)] # 0 => liquidityVaultPda(p, m) \in vaults
  /\ \A i \in Reservations :
       PutUpDeposit(i) => liquidityVaultPda(Trade[i].seller, Open) \in vaults

WaysOut == TreasuriesAreListed /\ RecordsHaveVaults /\ TokensHaveVaults

(* Steps of trades, disputes and time change none of what is deployed.       *)
Deployed == <<config, pool, vaults>>

LEMMA NothingIsDeployed ==
  ASSUME NEW ix
  PROVE  /\ CreateTradeEscrow(ix) \/ FundTradeEscrow(ix) \/ ApproveSettlement(ix)
              \/ CancelReservation(ix) \/ ExpireReservation(ix) \/ ReleaseEscrow(ix)
            => UNCHANGED Deployed
         /\ OpenDisputeCase(ix) \/ CommitDisputeVote(ix) \/ RevealDisputeVote(ix)
              \/ ExecuteDisputeOutcome(ix) \/ ClaimArbitrationReward(ix)
            => UNCHANGED Deployed
BY DEF Deployed, CreateTradeEscrow, FundTradeEscrow, ApproveSettlement, CancelReservation,
       ExpireReservation, ReleaseEscrow, OpenDisputeCase, CommitDisputeVote,
       RevealDisputeVote, ExecuteDisputeOutcome, ClaimArbitrationReward

LEMMA TradesDeployNothing ==
  ASSUME NEW i \in Reservations,
         TradeStep(i) \/ DisputeStep(i) \/ Timeout(i) \/ CloseWindow(i)
  PROVE  UNCHANGED Deployed
<1>1. CASE TradeStep(i)
  BY <1>1, NothingIsDeployed DEF TradeStep, Lands
<1>2. CASE DisputeStep(i)
  BY <1>2, NothingIsDeployed DEF DisputeStep, Lands
<1>3. CASE Timeout(i) \/ CloseWindow(i)
  BY <1>3 DEF Timeout, CloseWindow, Deployed
<1> QED  BY <1>1, <1>2, <1>3

(* Records that are there stay, unless this one is made.                    *)
RecordsStay == \A i \in Reservations : Record(i)' # NoEscrow => Record(i) # NoEscrow

LEMMA StayingKeeps ==
  ASSUME WaysOut, UNCHANGED Deployed, RecordsStay, VaultsStay, DepositsStay
  PROVE  WaysOut'
BY DEF WaysOut, Deployed, RecordsStay, VaultsStay, DepositsStay, TreasuriesAreListed,
       RecordsHaveVaults, TokensHaveVaults

LEMMA BecomingStays ==
  ASSUME EscrowInv, NEW i \in Reservations, NEW to \in Live \cup {"closed"},
         Record(i).state # "none", Becomes(i, to), DOMAIN tokens' = TokenAccounts
  PROVE  RecordsStay /\ Record(i) # NoEscrow
<1>1. Record(i) # NoEscrow /\ \A j \in Reservations \ {i} : Record(j)' = Record(j)
  BY BecomesKeepsRecords DEF NoEscrow
<1> QED  BY <1>1 DEF RecordsStay

(* Only vaults that exist gain.                                            *)
LEMMA ReturningKeepsWaysOut ==
  ASSUME EscrowInv, WaysOut, UNCHANGED Deployed, NEW i \in Reservations,
         Record(i).state # "none", GoesBack(i), DepositsStay
  PROVE  WaysOut'
<1>1. RecordsStay /\ Record(i) # NoEscrow
  BY BecomingStays DEF GoesBack, HoldsThen
<1>2. TreasuriesAreListed' /\ RecordsHaveVaults'
  BY <1>1 DEF WaysOut, Deployed, RecordsStay, TreasuriesAreListed, RecordsHaveVaults
<1>3. ASSUME NEW p \in People, NEW m \in Mints, tokens'[liquidityVaultTokensPda(p, m)] # 0
      PROVE  liquidityVaultPda(p, m) \in vaults'
  <2>1. CASE tokens'[liquidityVaultTokensPda(p, m)] = tokens[liquidityVaultTokensPda(p, m)]
    BY <1>3, <2>1 DEF WaysOut, TokensHaveVaults, Deployed
  <2>2. CASE liquidityVaultTokensPda(p, m) = Vault(i)
    <3>1. p = Trade[i].seller /\ m = Trade[i].mint
      BY <2>2 DEF Vault, liquidityVaultTokensPda
    <3> QED  BY <1>1, <3>1 DEF WaysOut, RecordsHaveVaults, Deployed
  <2>3. CASE liquidityVaultTokensPda(p, m) = OpenVault(i) /\ PutUpDeposit(i)
    <3>1. p = Trade[i].seller /\ m = Open
      BY <2>3 DEF OpenVault, liquidityVaultTokensPda
    <3> QED  BY <2>3, <3>1 DEF WaysOut, TokensHaveVaults, Deployed
  <2> QED  BY <2>1, <2>2, <2>3 DEF GoesBack, OnlySellerGains
<1>4. \A j \in Reservations :
        PutUpDeposit(j)' => liquidityVaultPda(Trade[j].seller, Open) \in vaults'
  BY DEF WaysOut, TokensHaveVaults, DepositsStay, Deployed
<1> QED  BY <1>2, <1>3, <1>4 DEF WaysOut, TokensHaveVaults

LEMMA PayingKeepsWaysOut ==
  ASSUME EscrowInv, WaysOut, UNCHANGED Deployed, NEW i \in Reservations,
         Record(i).state # "none", GoesToBuyer(i), DepositsStay
  PROVE  WaysOut'
<1>1. RecordsStay
  BY BecomingStays DEF GoesToBuyer, HoldsThen
<1> QED  BY <1>1, StayingKeeps DEF GoesToBuyer

(* A vault that pays stays what it was, down to being empty.                *)
LEMMA SpendingKeepsWaysOut ==
  ASSUME WaysOut, UNCHANGED Deployed, RecordsStay,
         NEW p \in People, NEW m \in Mints,
         \A q \in People, n \in Mints :
           liquidityVaultTokensPda(q, n) # liquidityVaultTokensPda(p, m) =>
             tokens'[liquidityVaultTokensPda(q, n)] = tokens[liquidityVaultTokensPda(q, n)],
         tokens'[liquidityVaultTokensPda(p, m)] # 0 => liquidityVaultPda(p, m) \in vaults,
         \A j \in Reservations :
           PutUpDeposit(j)' => liquidityVaultPda(Trade[j].seller, Open) \in vaults
  PROVE  WaysOut'
<1>1. TreasuriesAreListed' /\ RecordsHaveVaults'
  BY DEF WaysOut, Deployed, RecordsStay, TreasuriesAreListed, RecordsHaveVaults
<1>2. ASSUME NEW q \in People, NEW n \in Mints, tokens'[liquidityVaultTokensPda(q, n)] # 0
      PROVE  liquidityVaultPda(q, n) \in vaults'
  <2>1. CASE liquidityVaultTokensPda(q, n) = liquidityVaultTokensPda(p, m)
    <3>1. q = p /\ n = m
      BY <2>1 DEF liquidityVaultTokensPda
    <3> QED  BY <1>2, <3>1 DEF Deployed
  <2>2. CASE liquidityVaultTokensPda(q, n) # liquidityVaultTokensPda(p, m)
    BY <1>2, <2>2 DEF WaysOut, TokensHaveVaults, Deployed
  <2> QED  BY <2>1, <2>2
<1> QED  BY <1>1, <1>2 DEF WaysOut, TokensHaveVaults, Deployed

LEMMA TradeKeepsWaysOut ==
  ASSUME EscrowInv, WaysOut, NEW i \in Reservations, TradeStep(i)
  PROVE  WaysOut'
<1>1. UNCHANGED Deployed
  BY TradesDeployNothing
<1>2. ASSUME UNCHANGED cases
      PROVE  DepositsStay
  BY <1>2 DEF DepositsStay, PutUpDeposit
<1>3. ASSUME CreateTradeEscrow(createTradeEscrowIx(Trade[i].seller, Trade[i].buyer,
               Trade[i].mint, TokenProgram, i, Trade[i].amount, 1))
      PROVE  WaysOut'
  <2>1. /\ liquidityVaultPda(Trade[i].seller, Trade[i].mint) \in vaults
        /\ UNCHANGED <<tokens, cases>>
        /\ \A j \in Reservations \ {i} : Record(j)' = Record(j)
    BY <1>3, CreateEffect, TradesAreApart DEF Record, EscrowInv, RecordsAreAgreed
  <2>2. RecordsHaveVaults'
    BY <1>1, <2>1 DEF WaysOut, RecordsHaveVaults, Deployed
  <2>3. TokensHaveVaults'
    BY <1>1, <2>1 DEF WaysOut, TokensHaveVaults, Deployed, PutUpDeposit
  <2> QED  BY <1>1, <2>2, <2>3 DEF WaysOut, TreasuriesAreListed, Deployed
<1>4. ASSUME FundTradeEscrow(fundTradeEscrowIx(Trade[i].seller, Trade[i].mint, TokenProgram, i))
      PROVE  WaysOut'
  <2>1. /\ Record(i).state = "created" /\ Becomes(i, "funded") /\ UNCHANGED cases
        /\ DOMAIN tokens' = TokenAccounts
        /\ \A p \in People, m \in Mints :
             liquidityVaultTokensPda(p, m) # liquidityVaultTokensPda(Trade[i].seller, Trade[i].mint) =>
               tokens'[liquidityVaultTokensPda(p, m)] = tokens[liquidityVaultTokensPda(p, m)]
    BY <1>4, FundEffect DEF Vault, HoldsThen
  <2>2. RecordsStay /\ Record(i) # NoEscrow
    BY <2>1, BecomingStays DEF Live
  <2>3. liquidityVaultPda(Trade[i].seller, Trade[i].mint) \in vaults
    BY <2>2 DEF WaysOut, RecordsHaveVaults
  <2>4. \A j \in Reservations :
          PutUpDeposit(j)' => liquidityVaultPda(Trade[j].seller, Open) \in vaults
    BY <2>1 DEF PutUpDeposit, WaysOut, TokensHaveVaults
  <2>5. Trade[i].seller \in People /\ Trade[i].mint \in Mints
    BY ChainAssumption DEF Mints
  <2> QED  BY <1>1, <2>1, <2>2, <2>3, <2>4, <2>5, SpendingKeepsWaysOut
<1>5. ASSUME ApproveSettlement(approveSettlementIx(Trade[i].seller, i))
      PROVE  WaysOut'
  <2>1. Record(i).state = "funded" /\ Becomes(i, "approved") /\ UNCHANGED <<tokens, cases>>
    BY <1>5, ApproveEffect
  <2>2. RecordsStay
    BY <2>1, BecomingStays DEF Live, EscrowInv, RecordsAreAgreed
  <2> QED  BY <1>1, <1>2, <2>1, <2>2, NoTokensMove, StayingKeeps
<1>6. ASSUME NEW signer, CancelReservation(CancelOf(i, signer))
      PROVE  WaysOut'
  BY <1>1, <1>2, <1>6, CancelEffect, ReturningKeepsWaysOut
<1>7. ASSUME ExpireReservation(ExpireOf(i))
      PROVE  WaysOut'
  BY <1>1, <1>2, <1>7, ExpireEffect, ReturningKeepsWaysOut
<1>8. ASSUME NEW treasuries \in TreasurySets, ReleaseEscrow(ReleaseOf(i, treasuries))
      PROVE  WaysOut'
  BY <1>1, <1>2, <1>8, ReleaseEffect, PayingKeepsWaysOut
<1> QED  BY <1>3, <1>4, <1>5, <1>6, <1>7, <1>8 DEF TradeStep, Lands

LEMMA DeliberatingKeepsWaysOut ==
  ASSUME WaysOut, UNCHANGED Deployed, Deliberates
  PROVE  WaysOut'
<1>1. RecordsStay
  BY DEF Deliberates, RecordsStay, Record
<1> QED  BY <1>1, StayingKeeps DEF Deliberates

LEMMA DisputeKeepsWaysOut ==
  ASSUME EscrowInv, WaysOut, NEW i \in Reservations, DisputeStep(i)
  PROVE  WaysOut'
<1>1. UNCHANGED Deployed
  BY TradesDeployNothing
<1>2. ASSUME NEW signer, NEW payer, OpenDisputeCase(DisputeOf(i, signer, payer))
      PROVE  WaysOut'
  <2>1. /\ Record(i).state = "funded" /\ Becomes(i, "disputed") /\ TokensElsewhere
        /\ \A p \in People, m \in Mints :
             liquidityVaultTokensPda(p, m) # liquidityVaultTokensPda(Trade[i].seller, Open) =>
               tokens'[liquidityVaultTokensPda(p, m)] = tokens[liquidityVaultTokensPda(p, m)]
        /\ tokens[OpenVault(i)] = 0 => tokens'[OpenVault(i)] = 0 /\ ~PutUpDeposit(i)'
        /\ \A j \in Reservations \ {i} : PutUpDeposit(j)' => PutUpDeposit(j)
    BY <1>2, OpenEffect
  <2>2. RecordsStay
    BY <2>1, BecomingStays DEF Live, TokensElsewhere
  <2>3. Trade[i].seller \in People /\ Open \in Mints
    BY ChainAssumption DEF Mints
  <2>4. tokens[OpenVault(i)] # 0 => liquidityVaultPda(Trade[i].seller, Open) \in vaults
    BY <2>3 DEF WaysOut, TokensHaveVaults, OpenVault
  <2>5. /\ tokens'[OpenVault(i)] # 0 => liquidityVaultPda(Trade[i].seller, Open) \in vaults
        /\ \A j \in Reservations :
             PutUpDeposit(j)' => liquidityVaultPda(Trade[j].seller, Open) \in vaults
    BY <2>1, <2>4 DEF WaysOut, TokensHaveVaults
  <2> QED  BY <1>1, <2>1, <2>2, <2>3, <2>5, SpendingKeepsWaysOut DEF OpenVault
<1>3. ASSUME NEW treasuries \in TreasurySets, ExecuteDisputeOutcome(ExecuteOf(i, treasuries))
      PROVE  WaysOut'
  BY <1>1, <1>3, ExecuteEffect, PayingKeepsWaysOut, ReturningKeepsWaysOut,
     DeliberatingKeepsWaysOut
<1>4. ASSUME Deliberates
      PROVE  WaysOut'
  BY <1>1, <1>4, DeliberatingKeepsWaysOut
<1> QED
  BY <1>2, <1>3, <1>4, CommitEffect, RevealEffect, ClaimEffect DEF DisputeStep, Lands

(* A vault is filled and emptied where it is there.                         *)
LEMMA VaultKeepsWaysOut ==
  ASSUME EscrowInv, WaysOut, NEW merchant \in People, VaultStep(merchant)
  PROVE  WaysOut'
<1>1. UNCHANGED <<escrows, cases>> /\ OthersStay(merchant)
  BY VaultEffect
<1>2. /\ RecordsStay /\ DepositsStay
      /\ \A j \in Reservations :
           PutUpDeposit(j)' => liquidityVaultPda(Trade[j].seller, Open) \in vaults
  BY <1>1 DEF RecordsStay, DepositsStay, PutUpDeposit, Record, WaysOut, TokensHaveVaults
<1>3. ASSUME NEW mint \in Mints, CreateLiquidityVault(createLiquidityVaultIx(merchant, mint, TokenProgram))
      PROVE  WaysOut'
  <2> DEFINE ix == createLiquidityVaultIx(merchant, mint, TokenProgram)
  <2>1. pool /\ pool' = pool /\ config' = config /\ tokens' = tokens /\ vaults \subseteq vaults'
    BY <1>3 DEF CreateLiquidityVault
  <2> HIDE DEF ix
  <2>2. RecordsHaveVaults'
    BY <1>2, <2>1 DEF WaysOut, RecordsHaveVaults, RecordsStay
  <2>3. TokensHaveVaults'
    BY <1>2, <2>1 DEF WaysOut, TokensHaveVaults
  <2> QED  BY <2>1, <2>2, <2>3 DEF WaysOut, TreasuriesAreListed
<1>4. ASSUME NEW mint \in Mints, NEW amount \in 1 .. Savings,
             DepositLiquidity(depositLiquidityIx(merchant, mint, TokenProgram,
                                                 WalletTokens(merchant, mint), amount))
      PROVE  WaysOut'
  <2> DEFINE ix == depositLiquidityIx(merchant, mint, TokenProgram,
                                      WalletTokens(merchant, mint), amount)
  <2>1. /\ Key(ix, 5) = WalletTokens(merchant, mint)
        /\ Key(ix, 4) = liquidityVaultTokensPda(merchant, mint)
        /\ Key(ix, 3) = liquidityVaultPda(merchant, mint)
    BY DEF depositLiquidityIx, Key, Instruction, Signer, Writable, ReadOnly, meta
  <2>2. DepositLiquidity(ix)
    BY <1>4
  <2> HIDE DEF ix
  <2>3. Move(ix, 5, 4, ix.args[1]) /\ Key(ix, 3) \in vaults /\ UNCHANGED Deployed
    BY <2>2 DEF DepositLiquidity, Deployed
  <2>4. AtVaults(Key(ix, 5), Key(ix, 4), ix.args[1])
    BY <2>3, TransferAtVaults DEF Move, EscrowInv
  <2>5. \A q \in People, n \in Mints :
          liquidityVaultTokensPda(q, n) # liquidityVaultTokensPda(merchant, mint) =>
            tokens'[liquidityVaultTokensPda(q, n)] = tokens[liquidityVaultTokensPda(q, n)]
    BY <2>1, <2>4, VaultIsApart DEF AtVaults
  <2> QED  BY <1>2, <2>1, <2>3, <2>5, SpendingKeepsWaysOut
<1>5. ASSUME NEW mint \in Mints, NEW amount \in 1 .. Savings,
             WithdrawLiquidity(WithdrawOf(merchant, mint, amount))
      PROVE  WaysOut'
  <2> DEFINE ix == WithdrawOf(merchant, mint, amount)
  <2>1. /\ Key(ix, 2) = liquidityVaultPda(merchant, mint)
        /\ Key(ix, 3) = liquidityVaultTokensPda(merchant, mint)
        /\ Key(ix, 4) = WalletTokens(merchant, mint)
    BY DEF WithdrawOf, withdrawLiquidityIx, Key, Instruction, Signer, Writable, ReadOnly, meta
  <2>2. WithdrawLiquidity(ix)
    BY <1>5
  <2> HIDE DEF ix
  <2>3. Move(ix, 3, 4, ix.args[1]) /\ Key(ix, 2) \in vaults /\ UNCHANGED Deployed
    BY <2>2 DEF WithdrawLiquidity, CanWithdraw, Deployed
  <2>4. AtVaults(Key(ix, 3), Key(ix, 4), ix.args[1])
    BY <2>3, TransferAtVaults DEF Move, EscrowInv
  <2>5. \A q \in People, n \in Mints :
          liquidityVaultTokensPda(q, n) # liquidityVaultTokensPda(merchant, mint) =>
            tokens'[liquidityVaultTokensPda(q, n)] = tokens[liquidityVaultTokensPda(q, n)]
    BY <2>1, <2>4, VaultIsApart DEF AtVaults
  <2> QED  BY <1>2, <2>1, <2>3, <2>5, SpendingKeepsWaysOut
<1>6. ASSUME NEW treasuries \in TreasurySets,
             ChargeAdListingFee(chargeAdListingFeeIx(merchant, Open, TokenProgram, treasuries, "ad"))
      PROVE  WaysOut'
  <2> DEFINE ix == chargeAdListingFeeIx(merchant, Open, TokenProgram, treasuries, "ad")
             vault == liquidityVaultTokensPda(merchant, Open)
  <2>1. Key(ix, 4) = vault
    BY DEF chargeAdListingFeeIx, Key, Instruction, Signer, Writable, ReadOnly, meta
  <2>2. /\ tokens' = [tokens EXCEPT ![Key(ix, 4)] = @ - OpenFee] /\ UNCHANGED Deployed
        /\ tokens[Key(ix, 4)] >= OpenFee
    BY <1>6 DEF ChargeAdListingFee, Deployed
  <2> HIDE DEF ix
  <2>3. Open \in Mints /\ vault \in DOMAIN tokens /\ tokens[vault] \in Nat
    BY VaultsAreThere DEF EscrowInv, RecordsAreAgreed, VaultsAreNumbers, Mints
  <2>4. \A q \in People, n \in Mints :
          liquidityVaultTokensPda(q, n) # vault =>
            tokens'[liquidityVaultTokensPda(q, n)] = tokens[liquidityVaultTokensPda(q, n)]
    BY <2>1, <2>2
  <2>5. tokens'[vault] # 0 => tokens[vault] # 0
    <3> HIDE DEF vault
    <3> QED  BY <2>1, <2>2, <2>3, ChainAssumption
  <2>6. tokens'[vault] # 0 => liquidityVaultPda(merchant, Open) \in vaults
    BY <2>3, <2>5 DEF WaysOut, TokensHaveVaults
  <2> QED  BY <1>2, <2>2, <2>3, <2>4, <2>6, SpendingKeepsWaysOut
<1>7. ASSUME UNCHANGED vars
      PROVE  WaysOut'
  BY <1>2, <1>7, NoTokensMove, StayingKeeps DEF vars, Deployed
<1> QED
  BY <1>3, <1>4, <1>5, <1>6, <1>7 DEF VaultStep, Lands, ReserveLiquidity

(* A list inside a longer one keeps its length and its order.               *)
LEMMA InTheMiddle ==
  ASSUME NEW S, NEW before \in Seq(S), NEW listed \in Seq(S), NEW after \in Seq(S)
  PROVE  LET all == before \o listed \o after IN
         /\ Len(all) = Len(before) + Len(listed) + Len(after)
         /\ \A k \in 1 .. Len(listed) : all[k + Len(before)] = listed[k]
<1> DEFINE front == before \o listed
<1>1. front \in Seq(S)
  OBVIOUS
<1>2. /\ Len(front) = Len(before) + Len(listed)
      /\ \A k \in 1 .. Len(before) + Len(listed) :
           front[k] = IF k <= Len(before) THEN before[k] ELSE listed[k - Len(before)]
  BY ConcatProperties, SMT
<1>3. Len(before) \in Nat /\ Len(listed) \in Nat /\ Len(after) \in Nat
  OBVIOUS
<1> HIDE DEF front
<1>4. /\ Len(front \o after) = Len(front) + Len(after)
      /\ \A k \in 1 .. Len(front) + Len(after) :
           (front \o after)[k] = IF k <= Len(front) THEN front[k] ELSE after[k - Len(front)]
  BY <1>1, ConcatProperties, SMT
<1>5. ASSUME NEW k \in 1 .. Len(listed)
      PROVE  (front \o after)[k + Len(before)] = listed[k]
  <2>1. /\ k + Len(before) \in 1 .. Len(before) + Len(listed)
        /\ k + Len(before) \in 1 .. Len(front) + Len(after)
        /\ k + Len(before) <= Len(front)
        /\ ~(k + Len(before) <= Len(before)) /\ k + Len(before) - Len(before) = k
    BY <1>2, <1>3
  <2> QED  BY <1>2, <1>4, <2>1
<1> QED  BY <1>2, <1>4, <1>5 DEF front

(* The treasuries as accounts of an instruction, and read back from it.      *)
Listed(treasuries, isWritable) ==
  [k \in DOMAIN treasuries |-> meta(treasuries[k], FALSE, isWritable)]

IsListOf(listed, treasuries) ==
  /\ Len(listed) = Len(treasuries)
  /\ \A k \in 1 .. Len(treasuries) : listed[k].key = treasuries[k]

MetasOf(keys, treasuries) ==
  [key : keys \cup {treasuries[k] : k \in DOMAIN treasuries},
   isSigner : BOOLEAN, isWritable : BOOLEAN]

LEMMA ListedMetas ==
  ASSUME NEW treasuries \in TreasurySets \cup {<<>>}, NEW isWritable \in BOOLEAN, NEW keys,
         NEW listed, listed = Listed(treasuries, isWritable)
  PROVE  IsListOf(listed, treasuries) /\ listed \in Seq(MetasOf(keys, treasuries))
<1> DEFINE S == MetasOf(keys, treasuries)
<1>1. PICK n \in Nat : n = Len(treasuries) /\ DOMAIN treasuries = 1 .. n
  <2>1. CASE treasuries = <<>>
    <3>1. Len(treasuries) = 0 /\ DOMAIN treasuries = 1 .. 0
      BY <2>1
    <3> QED  BY <3>1
  <2> QED  BY <2>1, ChainAssumption
<1>2. listed = [k \in 1 .. n |-> meta(treasuries[k], FALSE, isWritable)]
  BY <1>1 DEF Listed
<1>3. listed \in [1 .. n -> S]
  BY <1>1, <1>2 DEF MetasOf, meta
<1> HIDE DEF S
<1>4. listed \in Seq(S) /\ Len(listed) = n
  <2>1. listed \in Seq(S)
    BY <1>3
  <2>2. Len(listed) = n
    BY <1>2
  <2> QED  BY <2>1, <2>2
<1>5. \A k \in 1 .. n : listed[k].key = treasuries[k]
  BY <1>2 DEF meta
<1> QED  BY <1>1, <1>4, <1>5 DEF S, IsListOf

Between(ix, before, after) ==
  [k \in 1 .. Len(ix.keys) - (before + after) |-> Key(ix, k + before)]

LEMMA ReadBack ==
  ASSUME NEW treasuries \in TreasurySets \cup {<<>>}, NEW ix,
         NEW S, NEW before \in Seq(S), NEW listed \in Seq(S), NEW after \in Seq(S),
         IsListOf(listed, treasuries),
         ix.keys = before \o listed \o after
  PROVE  Between(ix, Len(before), Len(after)) = treasuries
<1>1. PICK n \in Nat : n = Len(treasuries) /\ treasuries = [k \in 1 .. n |-> treasuries[k]]
  <2>1. CASE treasuries \in TreasurySets
    BY <2>1, ChainAssumption
  <2>2. CASE treasuries = <<>>
    <3>1. [k \in 1 .. 0 |-> treasuries[k]] \in Seq({}) /\ Len([k \in 1 .. 0 |-> treasuries[k]]) = 0
      OBVIOUS
    <3>2. Len(treasuries) = 0 /\ treasuries = [k \in 1 .. 0 |-> treasuries[k]]
      BY <2>2, <3>1, EmptySeq, Zenon
    <3> QED  BY <3>2
  <2> QED  BY <2>1, <2>2
<1>2. Len(listed) = n /\ \A k \in 1 .. n : listed[k].key = treasuries[k]
  BY <1>1 DEF IsListOf
<1>3. Len(before) \in Nat /\ Len(after) \in Nat
  OBVIOUS
<1>4. /\ Len(ix.keys) = Len(before) + n + Len(after)
      /\ \A k \in 1 .. n : ix.keys[k + Len(before)] = listed[k]
  <2> DEFINE all == before \o listed \o after
  <2>1. /\ Len(all) = Len(before) + Len(listed) + Len(after)
        /\ \A k \in 1 .. Len(listed) : all[k + Len(before)] = listed[k]
    BY InTheMiddle
  <2>2. ix.keys = all
    OBVIOUS
  <2> HIDE DEF all
  <2> QED  BY <1>2, <2>1, <2>2
<1>5. Len(ix.keys) - (Len(before) + Len(after)) = n
  BY <1>3, <1>4
<1> QED  BY <1>1, <1>2, <1>4, <1>5 DEF Key, Between

(* What is before and after them stays where it is.                         *)
Around(ix, before, after) ==
  /\ \A k \in 1 .. Len(before) : ix.keys[k] = before[k]
  /\ \A k \in 1 .. Len(after) : ix.keys[Len(ix.keys) - Len(after) + k] = after[k]

LEMMA StaysAround ==
  ASSUME NEW ix, NEW S, NEW before \in Seq(S), NEW listed \in Seq(S), NEW after \in Seq(S),
         ix.keys = before \o listed \o after
  PROVE  Around(ix, before, after)
<1> DEFINE front == before \o listed
<1>1. front \in Seq(S) /\ Len(before) \in Nat /\ Len(listed) \in Nat /\ Len(after) \in Nat
  OBVIOUS
<1>2. /\ Len(front) = Len(before) + Len(listed)
      /\ \A k \in 1 .. Len(before) : front[k] = before[k]
  BY ConcatProperties, SMT
<1>3. ix.keys = front \o after
  OBVIOUS
<1> HIDE DEF front
<1>4. /\ Len(front \o after) = Len(front) + Len(after)
      /\ \A k \in 1 .. Len(front) : (front \o after)[k] = front[k]
  BY <1>1, ConcatProperties, SMT
<1>5. \A k \in 1 .. Len(after) : (front \o after)[Len(front) + k] = after[k]
  <2>1. \A k \in 1 .. Len(front) + Len(after) :
          (front \o after)[k] = IF k <= Len(front) THEN front[k] ELSE after[k - Len(front)]
    BY <1>1, ConcatProperties, SMT
  <2>2. SUFFICES ASSUME NEW k \in 1 .. Len(after)
                 PROVE  (front \o after)[Len(front) + k] = after[k]
    OBVIOUS
  <2>3. /\ Len(front) + k \in 1 .. Len(front) + Len(after)
        /\ ~(Len(front) + k <= Len(front)) /\ Len(front) + k - Len(front) = k
    BY <1>1, <1>2
  <2> QED  BY <2>1, <2>3
<1>6. Len(ix.keys) - Len(after) = Len(front)
  BY <1>1, <1>2, <1>3, <1>4
<1>7. \A k \in 1 .. Len(before) : ix.keys[k] = before[k]
  BY <1>1, <1>2, <1>3, <1>4
<1> QED  BY <1>3, <1>5, <1>6, <1>7 DEF Around

(* The config takes over a list of treasuries as it was passed.             *)
LEMMA UpdatedTreasuries ==
  ASSUME NEW admin, NEW treasuries \in TreasurySets, NEW params
  PROVE  LET ix == updateFeeConfigIx(admin, Open, treasuries, params)
         IN [k \in 1 .. Len(ix.keys) - 3 |-> Key(ix, k + 3)] = treasuries
<1> DEFINE ix == updateFeeConfigIx(admin, Open, treasuries, params)
           before == <<Signer(admin), Writable(feeConfigPda), ReadOnly(Open)>>
           listed == Listed(treasuries, FALSE)
           after == <<>>
           S == MetasOf({admin, feeConfigPda, Open}, treasuries)
<1>1. IsListOf(listed, treasuries) /\ listed \in Seq(S)
  BY ListedMetas
<1>2. before \in Seq(S) /\ Len(before) = 3
  <2>1. Signer(admin) \in S /\ Writable(feeConfigPda) \in S /\ ReadOnly(Open) \in S
    BY DEF MetasOf, Signer, Writable, ReadOnly, meta
  <2> HIDE DEF S
  <2> QED  BY <2>1
<1>3. after \in Seq(S) /\ Len(after) = 0
  OBVIOUS
<1>4. ix.keys = before \o listed \o after
  <2>1. ix.keys = before \o listed
    BY DEF updateFeeConfigIx, Instruction, Listed, ReadOnly
  <2> HIDE DEF before, ix, S, listed
  <2> QED  BY <1>1, <1>2, <2>1
<1>5. treasuries \in TreasurySets \cup {<<>>}
  OBVIOUS
<1> HIDE DEF before, listed, after, ix, S
<1>6. Between(ix, 3, 0) = treasuries
  <2>1. Between(ix, Len(before), Len(after)) = treasuries
    BY <1>1, <1>2, <1>3, <1>4, <1>5, ReadBack, Zenon
  <2> QED  BY <1>2, <1>3, <2>1
<1>7. 3 + 0 = 3
  OBVIOUS
<1>8. [k \in 1 .. Len(ix.keys) - 3 |-> Key(ix, k + 3)] = treasuries
  BY <1>6, <1>7 DEF Between
<1> QED  BY <1>8 DEF ix

LEMMA AdminKeepsWaysOut ==
  ASSUME WaysOut, AdminStep
  PROVE  WaysOut'
<1>1. UNCHANGED <<tokens, escrows, cases>>
  BY AdminEffect
<1>2. PICK admin \in Arbitrators, treasuries \in TreasurySets, mints \in SUBSET Stables :
        \/ InitializeFeeConfig(initializeFeeConfigIx(admin,
             [timeoutSecs |-> 1, disputeFilingFee |-> OpenFee, treasuries |-> treasuries]))
        \/ InitializeArbitrationPool(initializeArbitrationPoolIx(admin, Open, TokenProgram))
        \/ UpdateFeeConfig(updateFeeConfigIx(admin, Open, treasuries,
             [timeoutSecs |-> 1, disputeFilingFee |-> OpenFee, settlementMints |-> mints]))
  BY DEF AdminStep, Lands
<1>3. vaults' = vaults /\ (pool => pool')
  BY <1>2 DEF InitializeFeeConfig, InitializeArbitrationPool, UpdateFeeConfig
<1>4. config' = config \/ config'.treasuries = treasuries
  <2>1. initializeFeeConfigIx(admin, [timeoutSecs |-> 1, disputeFilingFee |-> OpenFee,
                                      treasuries |-> treasuries]).args.treasuries = treasuries
    BY DEF initializeFeeConfigIx, Instruction
  <2> DEFINE params == [timeoutSecs |-> 1, disputeFilingFee |-> OpenFee, settlementMints |-> mints]
             ix == updateFeeConfigIx(admin, Open, treasuries, params)
  <2>2. [k \in 1 .. Len(ix.keys) - 3 |-> Key(ix, k + 3)] = treasuries
    BY UpdatedTreasuries
  <2>3. CASE UpdateFeeConfig(ix)
    <3> HIDE DEF ix
    <3> QED  BY <2>2, <2>3 DEF UpdateFeeConfig
  <2> QED
    BY <1>2, <2>1, <2>3 DEF InitializeFeeConfig, InitializeArbitrationPool
<1> QED
  BY <1>1, <1>3, <1>4
  DEF WaysOut, TreasuriesAreListed, RecordsHaveVaults, TokensHaveVaults, PutUpDeposit, Record

LEMMA WaysOutStart ==
  ASSUME Init
  PROVE  WaysOut
<1> USE DEF Init
<1>1. TreasuriesAreListed
  BY DEF TreasuriesAreListed, NoConfig
<1>2. RecordsHaveVaults
  BY DEF RecordsHaveVaults, Record
<1>3. \A p \in People, m \in Mints : tokens[liquidityVaultTokensPda(p, m)] = 0
  BY VaultsAreThere, VaultIsApart
<1>4. \A i \in Reservations : cases[disputeCasePda(i)].phase = "none"
  BY DEF NoCase
<1>5. TokensHaveVaults
  BY <1>3, <1>4 DEF TokensHaveVaults, PutUpDeposit, Undecided
<1> QED  BY <1>1, <1>2, <1>5 DEF WaysOut

LEMMA StepKeepsWaysOut ==
  ASSUME EscrowInv, WaysOut, [Next]_vars
  PROVE  WaysOut'
<1>1. ASSUME NEW i \in Reservations, Timeout(i)
      PROVE  WaysOut'
  <2>1. /\ Record(i).state \in Live /\ UNCHANGED <<tokens, cases>>
        /\ escrows' = [escrows EXCEPT ![tradeEscrowPda(i)].timedOut = TRUE]
    BY <1>1 DEF Timeout, Record
  <2>2. RecordsStay
    <3>1. Record(i) # NoEscrow
      BY <2>1 DEF NoEscrow, Live
    <3>2. \A j \in Reservations \ {i} : Record(j)' = Record(j)
      BY <2>1, TradesAreApart DEF EscrowInv, RecordsAreAgreed, Record
    <3> QED  BY <3>1, <3>2 DEF RecordsStay
  <2>3. DepositsStay
    BY <2>1 DEF DepositsStay, PutUpDeposit
  <2> QED  BY <1>1, <2>1, <2>2, <2>3, TradesDeployNothing, NoTokensMove, StayingKeeps
<1>2. ASSUME NEW i \in Reservations, CloseWindow(i)
      PROVE  WaysOut'
  BY <1>2, TradesDeployNothing, CloseWindowEffect, DeliberatingKeepsWaysOut
<1>3. ASSUME UNCHANGED <<Deployed, tokens, escrows, cases>>
      PROVE  WaysOut'
  BY <1>3, NoTokensMove, StayingKeeps
  DEF RecordsStay, DepositsStay, PutUpDeposit, Record
<1>4. ASSUME NEW person, BanOrUnban(person)
      PROVE  WaysOut'
  BY <1>3, <1>4 DEF BanOrUnban, Deployed
<1>5. CASE UNCHANGED vars
  BY <1>3, <1>5 DEF vars, Deployed
<1> QED
  BY <1>1, <1>2, <1>4, <1>5, AdminKeepsWaysOut, VaultKeepsWaysOut, TradeKeepsWaysOut,
     DisputeKeepsWaysOut, ChainAssumption DEF Next

-----------------------------------------------------------------------------
(* What can be built then lands.  Nobody signs a list that asks for no       *)
(* signature, and every position the program writes is writable.            *)
LEMMA WithdrawalIsOpen ==
  ASSUME EscrowInv, WaysOut, NEW p \in People, NEW m \in Mints,
         tokens[liquidityVaultTokensPda(p, m)] > 0
  PROVE  LET ix == WithdrawOf(p, m, tokens[liquidityVaultTokensPda(p, m)])
         IN Signed(ix, {p}) /\ CanWithdraw(ix)
<1> DEFINE held == tokens[liquidityVaultTokensPda(p, m)]
           ix == WithdrawOf(p, m, held)
<1>1. held \in Nat
  BY DEF EscrowInv, VaultsAreNumbers
<1>2. u64LE(held) <= held
  BY <1>1, LowestBits
<1>3. liquidityVaultPda(p, m) \in vaults
  BY <1>1 DEF WaysOut, TokensHaveVaults
<1> HIDE DEF held
<1>4. /\ DOMAIN ix.keys = 1 .. 6 /\ \A k \in 2 .. 6 : ~ix.keys[k].isSigner
      /\ Key(ix, 1) = p /\ Key(ix, 2) = liquidityVaultPda(p, m)
      /\ Key(ix, 3) = liquidityVaultTokensPda(p, m) /\ ix.args[1] = u64LE(held)
      /\ MayWrite(ix, {2, 3, 4})
  BY DEF WithdrawOf, withdrawLiquidityIx, Instruction, Key, MayWrite, Signer, Writable,
         ReadOnly, meta
<1>5. Signed(ix, {p})
  <2> HIDE DEF ix
  <2> QED  BY <1>4 DEF Signed
<1>6. CanWithdraw(ix)
  <2> HIDE DEF ix
  <2> QED  BY <1>2, <1>3, <1>4 DEF CanWithdraw, held
<1> QED  BY <1>5, <1>6 DEF held

LEMMA CancellingIsOpen ==
  ASSUME EscrowInv, NEW i \in Reservations, NEW p \in Parties(i),
         Record(i).state \in {"created", "funded"}
  PROVE  Signed(CancelOf(i, p), {p}) /\ CanCancel(CancelOf(i, p))
<1> DEFINE ix == CancelOf(i, p)
<1>1. p \in {Record(i).seller, Record(i).buyer}
  BY DEF EscrowInv, RecordsAreAgreed, Record, NoEscrow, Agreed, Parties
<1>2. /\ DOMAIN ix.keys = 1 .. 7 /\ \A k \in 2 .. 7 : ~ix.keys[k].isSigner
      /\ Key(ix, 1) = p /\ Key(ix, 4) = tradeEscrowPda(i)
      /\ MayWrite(ix, {3, 4, 5, 6})
  BY DEF CancelOf, cancelReservationIx, Instruction, Key, MayWrite, Signer, Writable,
         ReadOnly, meta
<1> HIDE DEF ix
<1>3. Signed(ix, {p}) /\ CanCancel(ix)
  BY <1>1, <1>2 DEF Signed, CanCancel, Record
<1> QED  BY <1>3 DEF ix

LEMMA ExpiryIsOpen ==
  ASSUME NEW i \in Reservations, Record(i).state \in {"created", "funded"}, Record(i).timedOut
  PROVE  Signed(ExpireOf(i), {}) /\ CanExpire(ExpireOf(i))
<1> DEFINE ix == ExpireOf(i)
<1>1. /\ DOMAIN ix.keys = 1 .. 6 /\ \A k \in 1 .. 6 : ~ix.keys[k].isSigner
      /\ Key(ix, 3) = tradeEscrowPda(i) /\ MayWrite(ix, {2, 3, 4, 5})
  BY DEF ExpireOf, expireReservationIx, Instruction, Key, MayWrite, Writable, ReadOnly, meta
<1> HIDE DEF ix
<1>2. Signed(ix, {}) /\ CanExpire(ix)
  BY <1>1 DEF Signed, CanExpire, Record
<1> QED  BY <1>2 DEF ix

LEMMA DisputingIsOpen ==
  ASSUME EscrowInv, WaysOut, NEW i \in Reservations, NEW p \in Parties(i),
         Record(i).state = "funded"
  PROVE  Signed(DisputeOf(i, p, p), {p}) /\ CanOpenDispute(DisputeOf(i, p, p))
<1> DEFINE ix == DisputeOf(i, p, p)
<1>1. p \in {Record(i).seller, Record(i).buyer}
  BY DEF EscrowInv, RecordsAreAgreed, Record, NoEscrow, Agreed, Parties
<1>2. pool
  BY DEF WaysOut, RecordsHaveVaults, NoEscrow
<1>3. /\ DOMAIN ix.keys = 1 .. 12 /\ \A k \in 3 .. 12 : ~ix.keys[k].isSigner
      /\ Key(ix, 1) = p /\ Key(ix, 2) = p /\ Key(ix, 3) = tradeEscrowPda(i)
      /\ MayWrite(ix, {3, 4, 7, 8, 9})
  BY DEF DisputeOf, openDisputeCaseIx, Instruction, Key, MayWrite, Signer, Payer, Writable,
         ReadOnly, meta
<1> HIDE DEF ix
<1>4. Signed(ix, {p}) /\ CanOpenDispute(ix)
  BY <1>1, <1>2, <1>3 DEF Signed, CanOpenDispute, Record
<1> QED  BY <1>4 DEF ix

(* Nobody signs what has no signer in any part of its list.                 *)
Unsigned(keys, treasuries) ==
  [key : keys \cup {treasuries[k] : k \in DOMAIN treasuries},
   isSigner : {FALSE}, isWritable : BOOLEAN]

LEMMA NobodySigns ==
  ASSUME NEW keys, NEW treasuries, NEW ix, ix.keys \in Seq(Unsigned(keys, treasuries))
  PROVE  Signed(ix, {})
<1>1. ix.keys \in [DOMAIN ix.keys -> Unsigned(keys, treasuries)]
  OBVIOUS
<1> QED  BY <1>1 DEF Signed, Unsigned

LEMMA ListedUnsigned ==
  ASSUME NEW treasuries \in TreasurySets \cup {<<>>}, NEW keys,
         NEW listed, listed = Listed(treasuries, TRUE)
  PROVE  IsListOf(listed, treasuries) /\ listed \in Seq(Unsigned(keys, treasuries))
<1> DEFINE S == Unsigned(keys, treasuries)
<1>1. PICK n \in Nat : n = Len(treasuries) /\ DOMAIN treasuries = 1 .. n
  <2>1. CASE treasuries = <<>>
    <3>1. Len(treasuries) = 0 /\ DOMAIN treasuries = 1 .. 0
      BY <2>1
    <3> QED  BY <3>1
  <2> QED  BY <2>1, ChainAssumption
<1>2. listed \in [1 .. n -> S]
  BY <1>1 DEF Listed, Unsigned, meta
<1> HIDE DEF S
<1>3. listed \in Seq(S)
  BY <1>2, SeqDef
<1> QED  BY <1>3, ListedMetas DEF S

LEMMA ReleaseList ==
  ASSUME NEW i \in Reservations, NEW treasuries \in TreasurySets \cup {<<>>}
  PROVE  LET ix == ReleaseOf(i, treasuries) IN
         /\ Signed(ix, {}) /\ Key(ix, 3) = tradeEscrowPda(i) /\ MayWrite(ix, {2, 3, 4, 5})
         /\ [k \in 1 .. Len(ix.keys) - 7 |-> Key(ix, k + 6)] = treasuries
<1> DEFINE seller == Trade[i].seller
           mint == Trade[i].mint
           keys == {mint, liquidityVaultPda(seller, mint), tradeEscrowPda(i),
                    tradeEscrowTokensPda(i), BuyersWallet(i), feeConfigPda, TokenProgram}
           before == <<ReadOnly(mint), Writable(liquidityVaultPda(seller, mint)),
                       Writable(tradeEscrowPda(i)), Writable(tradeEscrowTokensPda(i)),
                       Writable(BuyersWallet(i)), ReadOnly(feeConfigPda)>>
           listed == Listed(treasuries, TRUE)
           after == <<ReadOnly(TokenProgram)>>
           S == Unsigned(keys, treasuries)
           ix == ReleaseOf(i, treasuries)
<1>1. IsListOf(listed, treasuries) /\ listed \in Seq(S)
  BY ListedUnsigned
<1>2. before \in Seq(S) /\ Len(before) = 6 /\ after \in Seq(S) /\ Len(after) = 1
  <2>1. /\ ReadOnly(mint) \in S /\ Writable(liquidityVaultPda(seller, mint)) \in S
        /\ Writable(tradeEscrowPda(i)) \in S /\ Writable(tradeEscrowTokensPda(i)) \in S
        /\ Writable(BuyersWallet(i)) \in S /\ ReadOnly(feeConfigPda) \in S
        /\ ReadOnly(TokenProgram) \in S
    BY DEF Unsigned, Writable, ReadOnly, meta
  <2> HIDE DEF S
  <2> QED  BY <2>1
<1>3. ix.keys = before \o listed \o after
  BY DEF ReleaseOf, releaseEscrowIx, Destinations, BuyersWallet, Instruction, Listed, Writable
<1>4. /\ before[3].key = tradeEscrowPda(i)
      /\ \A k \in {2, 3, 4, 5} : before[k].isWritable
  BY DEF Writable, meta
<1> HIDE DEF before, after, listed, ix, S
<1>5. Key(ix, 3) = tradeEscrowPda(i) /\ MayWrite(ix, {2, 3, 4, 5})
  <2>1. Around(ix, before, after)
    BY <1>1, <1>2, <1>3, StaysAround, Zenon
  <2>2. \A k \in {2, 3, 4, 5} : ix.keys[k] = before[k]
    BY <1>2, <2>1 DEF Around
  <2> QED  BY <1>4, <2>2 DEF Key, MayWrite
<1>6. Between(ix, 6, 1) = treasuries
  <2>1. Between(ix, Len(before), Len(after)) = treasuries
    BY <1>1, <1>2, <1>3, ReadBack, Zenon
  <2> QED  BY <1>2, <2>1
<1>7. [k \in 1 .. Len(ix.keys) - 7 |-> Key(ix, k + 6)] = treasuries
  <2>1. 6 + 1 = 7
    OBVIOUS
  <2> QED  BY <1>6, <2>1 DEF Between
<1>8. Signed(ix, {})
  <2>1. ix.keys \in Seq(S)
    BY <1>1, <1>2, <1>3
  <2> QED  BY <2>1, NobodySigns DEF S
<1> QED  BY <1>5, <1>7, <1>8 DEF ix

LEMMA ReleaseIsOpen ==
  ASSUME WaysOut, NEW i \in Reservations, Record(i).state = "approved"
  PROVE  LET ix == ReleaseOf(i, config.treasuries) IN Signed(ix, {}) /\ CanRelease(ix)
BY ReleaseList DEF CanRelease, Record, WaysOut, TreasuriesAreListed

LEMMA ExecuteList ==
  ASSUME NEW i \in Reservations, NEW treasuries \in TreasurySets \cup {<<>>}
  PROVE  LET ix == ExecuteOf(i, treasuries)
             last == Len(ix.keys)
         IN
         /\ Signed(ix, {}) /\ Key(ix, 2) = disputeCasePda(i)
         /\ Key(ix, 6) = Vault(i) /\ Key(ix, last - 2) = OpenVault(i)
         /\ MayWrite(ix, {2, 3, 4, 5, 6, 7} \cup {last - k : k \in 2 .. 4})
         /\ [k \in 1 .. last - 14 |-> Key(ix, k + 8)] = treasuries
<1> DEFINE seller == Trade[i].seller
           mint == Trade[i].mint
           keys == {mint, disputeCasePda(i), tradeEscrowPda(i), tradeEscrowTokensPda(i),
                    liquidityVaultPda(seller, mint), Vault(i), BuyersWallet(i), feeConfigPda,
                    Open, arbitrationPoolPda, liquidityVaultPda(seller, Open), OpenVault(i),
                    TokenProgram, SlotHashesSysvar}
           before == <<ReadOnly(mint), Writable(disputeCasePda(i)),
                       Writable(tradeEscrowPda(i)), Writable(tradeEscrowTokensPda(i)),
                       Writable(liquidityVaultPda(seller, mint)), Writable(Vault(i)),
                       Writable(BuyersWallet(i)), ReadOnly(feeConfigPda)>>
           listed == Listed(treasuries, TRUE)
           after == <<ReadOnly(Open), Writable(arbitrationPoolPda),
                      Writable(liquidityVaultPda(seller, Open)), Writable(OpenVault(i)),
                      ReadOnly(TokenProgram), ReadOnly(SlotHashesSysvar)>>
           S == Unsigned(keys, treasuries)
           ix == ExecuteOf(i, treasuries)
           last == Len(ix.keys)
<1>1. IsListOf(listed, treasuries) /\ listed \in Seq(S)
  BY ListedUnsigned
<1>2. before \in Seq(S) /\ Len(before) = 8 /\ after \in Seq(S) /\ Len(after) = 6
  <2>1. \A key \in keys : Writable(key) \in S /\ ReadOnly(key) \in S
    BY DEF Unsigned, Writable, ReadOnly, meta
  <2>2. before \in Seq(S) /\ Len(before) = 8
    <3> HIDE DEF S
    <3> QED  BY <2>1
  <2>3. after \in Seq(S) /\ Len(after) = 6
    <3> HIDE DEF S
    <3> QED  BY <2>1
  <2> QED  BY <2>2, <2>3
<1>3. ix.keys = before \o listed \o after
  BY DEF ExecuteOf, executeDisputeOutcomeIx, Destinations, BuyersWallet, Vault, OpenVault,
         Instruction, Listed, Writable
<1>4. /\ before[2].key = disputeCasePda(i) /\ before[6].key = Vault(i)
      /\ \A k \in {2, 3, 4, 5, 6, 7} : before[k].isWritable
      /\ after[4].key = OpenVault(i) /\ \A k \in {2, 3, 4} : after[k].isWritable
  BY DEF Writable, meta
<1> HIDE DEF before, after, listed, ix, S
<1>5. Around(ix, before, after)
  BY <1>1, <1>2, <1>3, StaysAround, Zenon
<1>6. \A k \in {2, 3, 4, 5, 6, 7} : ix.keys[k] = before[k]
  <2>1. \A k \in 1 .. 8 : ix.keys[k] = before[k]
    BY <1>2, <1>5 DEF Around
  <2> QED  BY <2>1
<1>7. /\ last \in Nat
      /\ ix.keys[last - 4] = after[2] /\ ix.keys[last - 3] = after[3]
      /\ ix.keys[last - 2] = after[4]
  <2>1. ix.keys \in Seq(S)
    BY <1>1, <1>2, <1>3
  <2>2. last \in Nat
    BY <2>1
  <2> HIDE DEF last
  <2>3. last - 6 + 2 = last - 4 /\ last - 6 + 3 = last - 3 /\ last - 6 + 4 = last - 2
    BY <2>2
  <2>4. \A k \in 1 .. 6 : ix.keys[last - 6 + k] = after[k]
    BY <1>2, <1>5 DEF Around, last
  <2> QED  BY <2>2, <2>3, <2>4
<1>8. MayWrite(ix, {2, 3, 4, 5, 6, 7} \cup {last - k : k \in 2 .. 4})
  <2>1. \A k \in 2 .. 4 : k = 2 \/ k = 3 \/ k = 4
    OBVIOUS
  <2> HIDE DEF last
  <2> QED  BY <1>4, <1>6, <1>7, <2>1 DEF MayWrite
<1>9. Between(ix, 8, 6) = treasuries
  <2>1. Between(ix, Len(before), Len(after)) = treasuries
    BY <1>1, <1>2, <1>3, ReadBack, Zenon
  <2> QED  BY <1>2, <2>1
<1>10. [k \in 1 .. last - 14 |-> Key(ix, k + 8)] = treasuries
  <2>1. 8 + 6 = 14
    OBVIOUS
  <2> QED  BY <1>9, <2>1 DEF Between
<1>11. Signed(ix, {})
  <2>1. ix.keys \in Seq(S)
    BY <1>1, <1>2, <1>3
  <2> QED  BY <2>1, NobodySigns DEF S
<1>12. /\ Key(ix, 2) = disputeCasePda(i) /\ Key(ix, 6) = Vault(i)
       /\ Key(ix, last - 2) = OpenVault(i)
  BY <1>4, <1>6, <1>7 DEF Key
<1> QED  BY <1>8, <1>10, <1>11, <1>12 DEF ix

(* The seller's two vaults are two: OPEN is never settled in.               *)
LEMMA ExecutionIsOpen ==
  ASSUME WaysOut, NEW i \in Reservations, cases[disputeCasePda(i)].phase = "tally"
  PROVE  LET ix == ExecuteOf(i, config.treasuries) IN Signed(ix, {}) /\ CanExecute(ix)
<1>1. Vault(i) # OpenVault(i)
  BY VaultIsApart, ChainAssumption DEF Vault, OpenVault
<1> QED
  BY <1>1, ExecuteList DEF CanExecute, WaysOut, TreasuriesAreListed

LEMMA WaysOutAreOpen ==
  ASSUME EscrowInv, WaysOut
  PROVE  NobodyIsHeldHostage
BY WithdrawalIsOpen, CancellingIsOpen, ExpiryIsOpen, DisputingIsOpen, ReleaseIsOpen,
   ExecutionIsOpen DEF NobodyIsHeldHostage, Record

(* No trade and no vault is held hostage, with any number of traders and in  *)
(* any state they can bring about: withdrawLiquidityIx, cancelReservationIx,  *)
(* expireReservationIx, openDisputeCaseIx, releaseEscrowIx and               *)
(* executeDisputeOutcomeIx list whatever the program then asks for, and no   *)
(* signature but the one of whoever wants out.                              *)
THEOREM NobodyIsLockedIn == Spec => []NobodyIsHeldHostage
<1>1. Init => WaysOut
  BY WaysOutStart
<1>2. EscrowInv /\ WaysOut /\ [Next]_vars => WaysOut'
  BY StepKeepsWaysOut
<1>3. EscrowInv /\ WaysOut => NobodyIsHeldHostage
  BY WaysOutAreOpen
<1> QED  BY <1>1, <1>2, <1>3, EscrowIsWhatWasAgreed, PTL DEF Spec

-----------------------------------------------------------------------------
(* Types.  That accounts hold numbers is a matter of one account alone: the  *)
(* arbitration pool, which many cases pay into and draw on.                 *)

Case(i) == cases[disputeCasePda(i)]

CaseRecord ==
  [phase : Undecided \cup {"paid", "returned"}, deposit : Nat,
   committed : SUBSET Arbitrators, revealed : SUBSET Arbitrators,
   claimed : SUBSET Arbitrators, outcomes : SUBSET Outcomes]

(* Nobody claims before the case is paid, or without having revealed, and it *)
(* is paid because somebody did.                                            *)
IsWhole(c) ==
  /\ c \in CaseRecord
  /\ IsFiniteSet(c.revealed) /\ c.claimed \subseteq c.revealed
  /\ c.phase \in Undecided => c.claimed = {}
  /\ c.outcomes = {} <=> c.revealed = {}
  /\ c.phase = "paid" => c.revealed # {}

(* What may still leave the pool on account of a case.                      *)
OwedBy(c) ==
  IF c.phase \in Undecided THEN c.deposit
  ELSE IF c.phase = "paid"
       THEN (Cardinality(c.revealed) - Cardinality(c.claimed))
              * (c.deposit \div Cardinality(c.revealed))
       ELSE 0
Owed == [i \in Reservations |-> OwedBy(Case(i))]

MintsAreStable == config.mints \subseteq Stables
TokensAreNumbers == tokens \in [TokenAccounts -> Nat]
CasesAreWhole == \A i \in Reservations : Case(i) = NoCase \/ IsWhole(Case(i))
PoolCoversCases == tokens[arbitrationPoolPda] >= SumFunction(Owed)

PoolInv == MintsAreStable /\ TokensAreNumbers /\ CasesAreWhole /\ PoolCoversCases

LEMMA ReservationsAreFinite == IsFiniteSet(Reservations)
<1>1. IsFiniteSet(0 .. U64 - 1)
  BY U64Assumption, FS_Interval
<1> QED  BY <1>1, ChainAssumption, FS_Subset

(* Shares are rounded down.                                                *)
LEMMA SharesFit ==
  ASSUME NEW d \in Nat, NEW n \in Nat, n # 0
  PROVE  d \div n \in Nat /\ n * (d \div n) <= d
OBVIOUS

LEMMA WhatIsOwed ==
  ASSUME NEW c, c = NoCase \/ IsWhole(c)
  PROVE  /\ OwedBy(c) \in Nat
         /\ c.phase = "paid" =>
              /\ Cardinality(c.revealed) \in Nat \ {0} /\ Cardinality(c.claimed) \in Nat
              /\ Cardinality(c.claimed) <= Cardinality(c.revealed)
<1>1. CASE c = NoCase
  BY <1>1 DEF NoCase, OwedBy, Undecided
<1>2. CASE IsWhole(c)
  <2>1. c.deposit \in Nat /\ IsFiniteSet(c.revealed) /\ c.claimed \subseteq c.revealed
    BY <1>2 DEF IsWhole, CaseRecord
  <2> DEFINE n == Cardinality(c.revealed)
             k == Cardinality(c.claimed)
  <2>2. n \in Nat /\ k \in Nat /\ k <= n
    BY <2>1, FS_Subset, FS_CardinalityType
  <2>3. c.phase = "paid" => n # 0
    BY <1>2, <2>1, FS_EmptySet DEF IsWhole
  <2>4. CASE c.phase = "paid"
    <3>1. c.deposit \div n \in Nat
      BY <2>1, <2>2, <2>3, <2>4, SharesFit
    <3>2. OwedBy(c) = (n - k) * (c.deposit \div n)
      BY <2>4 DEF OwedBy, Undecided
    <3>3. n - k \in Nat
      BY <2>2
    <3> HIDE DEF n, k
    <3>4. PICK share \in Nat : share = c.deposit \div n
      BY <3>1
    <3>5. (n - k) * share \in Nat
      BY <3>3
    <3>6. OwedBy(c) \in Nat
      BY <3>2, <3>4, <3>5
    <3> QED  BY <2>2, <2>3, <2>4, <3>6 DEF n, k
  <2>5. CASE c.phase # "paid"
    BY <2>1, <2>5 DEF OwedBy
  <2> QED  BY <2>4, <2>5
<1> QED  BY <1>1, <1>2

LEMMA OwedIsAmounts ==
  ASSUME CasesAreWhole
  PROVE  Owed \in [Reservations -> Nat] /\ \A i \in Reservations : Owed[i] = OwedBy(Case(i))
BY WhatIsOwed DEF CasesAreWhole, Owed

(* The pool holds what any one case still asks of it.                       *)
LEMMA CaseIsCovered ==
  ASSUME PoolInv, NEW i \in Reservations
  PROVE  OwedBy(Case(i)) <= tokens[arbitrationPoolPda]
<1>1. Owed \in [Reservations -> Nat] /\ Owed[i] = OwedBy(Case(i))
  BY OwedIsAmounts DEF PoolInv
<1>2. SumFunction(Owed) \in Nat /\ Owed[i] <= SumFunction(Owed)
  BY <1>1, ReservationsAreFinite, SumOfAmounts
<1>3. tokens[arbitrationPoolPda] \in Nat
  BY DEF PoolInv, TokensAreNumbers, TokenAccounts
<1> QED  BY <1>1, <1>2, <1>3 DEF PoolInv, PoolCoversCases

(* A transfer of no more than there is.                                     *)
LEMMA TransferOfNumbers ==
  ASSUME TokensAreNumbers, NEW a \in TokenAccounts, NEW b \in TokenAccounts, NEW amount \in Nat,
         amount <= tokens[a],
         tokens' = IF a = b THEN tokens
                   ELSE [tokens EXCEPT ![a] = @ - amount, ![b] = @ + amount]
  PROVE  /\ TokensAreNumbers'
         /\ arbitrationPoolPda \notin {a, b} =>
              tokens'[arbitrationPoolPda] = tokens[arbitrationPoolPda]
         /\ a # b => tokens'[a] = tokens[a] - amount /\ tokens'[b] = tokens[b] + amount
<1>1. tokens \in [TokenAccounts -> Nat]
  BY DEF TokensAreNumbers
<1>2. tokens' \in [TokenAccounts -> Nat]
  BY <1>1
<1>3. arbitrationPoolPda \notin {a, b} =>
        tokens'[arbitrationPoolPda] = tokens[arbitrationPoolPda]
  <2>1. arbitrationPoolPda \in TokenAccounts
    BY DEF TokenAccounts
  <2> QED  BY <1>1, <2>1
<1>4. a # b => tokens'[a] = tokens[a] - amount /\ tokens'[b] = tokens[b] + amount
  BY <1>1
<1> QED  BY <1>2, <1>3, <1>4 DEF TokensAreNumbers

(* A trade's tokens are more than the fee that is kept of them.             *)
LEMMA PaymentOfNumbers ==
  ASSUME EscrowInv, TokensAreNumbers, NEW i \in Reservations, Record(i).state \in Locked,
         NEW ix, NEW from, NEW to, Key(ix, from) = tradeEscrowTokensPda(i),
         Key(ix, to) = BuyersWallet(i),
         PayOut(ix, from, to, tokens[tradeEscrowTokensPda(i)])
  PROVE  /\ TokensAreNumbers'
         /\ tokens'[arbitrationPoolPda] = tokens[arbitrationPoolPda]
<1> DEFINE held == tradeEscrowTokensPda(i)
           wallet == BuyersWallet(i)
<1>1. /\ held \in TokenAccounts /\ wallet \in TokenAccounts /\ held # wallet
      /\ arbitrationPoolPda \notin {held, wallet} /\ arbitrationPoolPda \in TokenAccounts
  BY ThreeAccounts, VaultIsApart, EscrowIsApart DEF BuyersWallet, TokenAccounts
<1>2. tokens[held] = Trade[i].amount /\ Trade[i].amount - SettlementFee \in Nat
  BY ChainAssumption DEF EscrowInv, HeldIsAgreed, Record
<1>3. tokens' = [tokens EXCEPT ![held] = @ - Trade[i].amount,
                               ![wallet] = @ + (Trade[i].amount - SettlementFee)]
  BY <1>2 DEF PayOut
<1> HIDE DEF held, wallet
<1>4. tokens \in [TokenAccounts -> Nat]
  BY DEF TokensAreNumbers
<1>5. PICK rest \in Nat : rest = Trade[i].amount - SettlementFee
  BY <1>2
<1>6. tokens' \in [TokenAccounts -> Nat]
  BY <1>1, <1>2, <1>3, <1>4, <1>5
<1> QED  BY <1>1, <1>3, <1>4, <1>6 DEF TokensAreNumbers

(* Where cases and pool stay, the invariant does.                           *)
LEMMA PoolStays ==
  ASSUME PoolInv, UNCHANGED <<config, cases>>, TokensAreNumbers',
         tokens'[arbitrationPoolPda] = tokens[arbitrationPoolPda]
  PROVE  PoolInv'
BY DEF PoolInv, MintsAreStable, CasesAreWhole, PoolCoversCases, Owed, Case

(* And where one case changes, the pool must pay for what it owes more.      *)
LEMMA OneCaseKeeps ==
  ASSUME EscrowInv, PoolInv, UNCHANGED config, NEW i \in Reservations, NEW case,
         IsWhole(case), CaseBecomes(i, case), TokensAreNumbers',
         tokens'[arbitrationPoolPda] - tokens[arbitrationPoolPda] >= OwedBy(case) - OwedBy(Case(i))
  PROVE  PoolInv'
<1>1. Case(i)' = case /\ \A j \in Reservations \ {i} : Case(j)' = Case(j)
  BY TradesAreApart DEF CaseBecomes, Case, EscrowInv, CasesAreDisputes
<1>2. CasesAreWhole'
  BY <1>1 DEF CasesAreWhole, PoolInv
<1> DEFINE new == [j \in Reservations |-> OwedBy(Case(j)')]
<1>3. Owed \in [Reservations -> Nat] /\ \A j \in Reservations : Owed[j] = OwedBy(Case(j))
  BY OwedIsAmounts DEF PoolInv
<1>4. new \in [Reservations -> Nat]
  BY <1>2, WhatIsOwed DEF CasesAreWhole
<1>5. Owed' = new
  BY DEF Owed, OwedBy, Case
<1>6. new[i] = OwedBy(case) /\ \A j \in Reservations \ {i} : new[j] = Owed[j]
  BY <1>1, <1>3
<1> HIDE DEF new
<1>7. /\ SumFunction(Owed) \in Int
      /\ SumFunction(new) = SumFunction(Owed) + (new[i] - Owed[i])
  <2>1. Owed \in [Reservations -> Int] /\ new \in [Reservations -> Int]
    BY <1>3, <1>4
  <2> QED  BY <1>6, <2>1, ReservationsAreFinite, SumChangesBy
<1>8. tokens[arbitrationPoolPda] \in Nat /\ tokens'[arbitrationPoolPda] \in Nat
  BY DEF PoolInv, TokensAreNumbers, TokenAccounts
<1>9. new[i] \in Nat /\ Owed[i] \in Nat /\ Owed[i] = OwedBy(Case(i))
  BY <1>3, <1>4
<1>10. tokens'[arbitrationPoolPda] >= SumFunction(new)
  BY <1>6, <1>7, <1>8, <1>9 DEF PoolInv, PoolCoversCases
<1> QED  BY <1>2, <1>5, <1>10 DEF PoolInv, MintsAreStable, PoolCoversCases

-----------------------------------------------------------------------------
LEMMA AdminKeepsPool ==
  ASSUME PoolInv, AdminStep
  PROVE  PoolInv'
<1>1. UNCHANGED <<tokens, cases>>
  BY AdminEffect
<1>2. PICK admin \in Arbitrators, treasuries \in TreasurySets, mints \in SUBSET Stables :
        \/ InitializeFeeConfig(initializeFeeConfigIx(admin,
             [timeoutSecs |-> 1, disputeFilingFee |-> OpenFee, treasuries |-> treasuries]))
        \/ InitializeArbitrationPool(initializeArbitrationPoolIx(admin, Open, TokenProgram))
        \/ UpdateFeeConfig(updateFeeConfigIx(admin, Open, treasuries,
             [timeoutSecs |-> 1, disputeFilingFee |-> OpenFee, settlementMints |-> mints]))
  BY DEF AdminStep, Lands
<1> DEFINE params == [timeoutSecs |-> 1, disputeFilingFee |-> OpenFee, settlementMints |-> mints]
           ix == updateFeeConfigIx(admin, Open, treasuries, params)
<1>3. ix.args.settlementMints = mints
  BY DEF updateFeeConfigIx, Instruction
<1>4. config' = config \/ config'.mints \in {{}, mints}
  <2>1. CASE UpdateFeeConfig(ix)
    <3> HIDE DEF ix
    <3> QED  BY <1>3, <2>1 DEF UpdateFeeConfig
  <2> QED
    BY <1>2, <2>1 DEF InitializeFeeConfig, InitializeArbitrationPool
<1>5. MintsAreStable'
  BY <1>4 DEF PoolInv, MintsAreStable
<1> QED
  BY <1>1, <1>5 DEF PoolInv, TokensAreNumbers, CasesAreWhole, PoolCoversCases, Owed, Case

LEMMA VaultKeepsPool ==
  ASSUME PoolInv, NEW merchant \in People, VaultStep(merchant)
  PROVE  PoolInv'
<1>1. ASSUME NEW mint \in Mints, NEW amount \in 1 .. Savings,
             DepositLiquidity(depositLiquidityIx(merchant, mint, TokenProgram,
                                                 WalletTokens(merchant, mint), amount))
      PROVE  PoolInv'
  <2> DEFINE ix == depositLiquidityIx(merchant, mint, TokenProgram,
                                      WalletTokens(merchant, mint), amount)
  <2>1. /\ Key(ix, 5) = WalletTokens(merchant, mint)
        /\ Key(ix, 4) = liquidityVaultTokensPda(merchant, mint) /\ ix.args[1] = u64LE(amount)
    BY DEF depositLiquidityIx, Key, Instruction, Signer, Writable, ReadOnly, meta
  <2>2. /\ Move(ix, 5, 4, ix.args[1]) /\ UNCHANGED <<config, cases>>
        /\ ix.args[1] <= tokens[Key(ix, 5)]
    BY <1>1 DEF DepositLiquidity
  <2>3. ix.args[1] \in Nat
    BY <2>1, BitsAreNumber, ChainAssumption
  <2> HIDE DEF ix
  <2>4. Key(ix, 5) \in TokenAccounts /\ Key(ix, 4) \in TokenAccounts
    BY <2>1, VaultsAreThere DEF TokenAccounts
  <2>5. arbitrationPoolPda \notin {Key(ix, 5), Key(ix, 4)}
    BY <2>1, VaultIsApart
  <2>6. TokensAreNumbers' /\ tokens'[arbitrationPoolPda] = tokens[arbitrationPoolPda]
    BY <2>2, <2>3, <2>4, <2>5, TransferOfNumbers DEF Move, PoolInv
  <2> QED  BY <2>2, <2>6, PoolStays
<1>2. ASSUME NEW mint \in Mints, NEW amount \in 1 .. Savings,
             WithdrawLiquidity(WithdrawOf(merchant, mint, amount))
      PROVE  PoolInv'
  <2> DEFINE ix == WithdrawOf(merchant, mint, amount)
  <2>1. /\ Key(ix, 3) = liquidityVaultTokensPda(merchant, mint)
        /\ Key(ix, 4) = WalletTokens(merchant, mint) /\ ix.args[1] = u64LE(amount)
    BY DEF WithdrawOf, withdrawLiquidityIx, Key, Instruction, Signer, Writable, ReadOnly, meta
  <2>2. /\ Move(ix, 3, 4, ix.args[1]) /\ UNCHANGED <<config, cases>>
        /\ ix.args[1] <= tokens[Key(ix, 3)]
    BY <1>2 DEF WithdrawLiquidity, CanWithdraw
  <2>3. ix.args[1] \in Nat
    BY <2>1, BitsAreNumber, ChainAssumption
  <2> HIDE DEF ix
  <2>4. Key(ix, 3) \in TokenAccounts /\ Key(ix, 4) \in TokenAccounts
    BY <2>1, VaultsAreThere DEF TokenAccounts
  <2>5. arbitrationPoolPda \notin {Key(ix, 3), Key(ix, 4)}
    BY <2>1, VaultIsApart
  <2>6. TokensAreNumbers' /\ tokens'[arbitrationPoolPda] = tokens[arbitrationPoolPda]
    BY <2>2, <2>3, <2>4, <2>5, TransferOfNumbers DEF Move, PoolInv
  <2> QED  BY <2>2, <2>6, PoolStays
<1>3. ASSUME NEW treasuries \in TreasurySets,
             ChargeAdListingFee(chargeAdListingFeeIx(merchant, Open, TokenProgram, treasuries, "ad"))
      PROVE  PoolInv'
  <2> DEFINE ix == chargeAdListingFeeIx(merchant, Open, TokenProgram, treasuries, "ad")
             vault == liquidityVaultTokensPda(merchant, Open)
  <2>1. Key(ix, 4) = vault
    BY DEF chargeAdListingFeeIx, Key, Instruction, Signer, Writable, ReadOnly, meta
  <2>2. /\ tokens' = [tokens EXCEPT ![Key(ix, 4)] = @ - OpenFee] /\ UNCHANGED <<config, cases>>
        /\ tokens[Key(ix, 4)] >= OpenFee
    BY <1>3 DEF ChargeAdListingFee
  <2>3. vault \in TokenAccounts /\ arbitrationPoolPda # vault
    BY VaultsAreThere, VaultIsApart DEF Mints
  <2> HIDE DEF ix, vault
  <2>4. TokensAreNumbers' /\ tokens'[arbitrationPoolPda] = tokens[arbitrationPoolPda]
    BY <2>1, <2>2, <2>3, ChainAssumption DEF PoolInv, TokensAreNumbers, TokenAccounts
  <2> QED  BY <2>2, <2>4, PoolStays
<1>4. ASSUME UNCHANGED <<config, tokens, cases>>
      PROVE  PoolInv'
  BY <1>4, PoolStays DEF PoolInv, TokensAreNumbers
<1> QED
  BY <1>1, <1>2, <1>3, <1>4
  DEF VaultStep, Lands, CreateLiquidityVault, ReserveLiquidity, vars

LEMMA TradeKeepsPool ==
  ASSUME EscrowInv, PoolInv, NEW i \in Reservations, TradeStep(i)
  PROVE  PoolInv'
<1> DEFINE Still == PoolInv'
<1>0. UNCHANGED config
  BY TradesDeployNothing DEF Deployed
<1>1. /\ Vault(i) \in TokenAccounts /\ BuyersWallet(i) \in TokenAccounts
      /\ tradeEscrowTokensPda(i) \in TokenAccounts
      /\ tradeEscrowTokensPda(i) # Vault(i) /\ tradeEscrowTokensPda(i) # BuyersWallet(i)
      /\ arbitrationPoolPda \notin {Vault(i), BuyersWallet(i), tradeEscrowTokensPda(i)}
  BY ThreeAccounts, VaultIsApart, EscrowIsApart DEF Vault, BuyersWallet
<1>2. ASSUME UNCHANGED <<tokens, cases>> PROVE Still
  BY <1>0, <1>2, PoolStays DEF PoolInv, TokensAreNumbers
<1>3. ASSUME NEW a \in {Vault(i), tradeEscrowTokensPda(i)},
             NEW b \in {Vault(i), tradeEscrowTokensPda(i)},
             NEW amount \in Nat, amount <= tokens[a], UNCHANGED cases,
             tokens' = IF a = b THEN tokens
                       ELSE [tokens EXCEPT ![a] = @ - amount, ![b] = @ + amount]
      PROVE  Still
  <2>1. a \in TokenAccounts /\ b \in TokenAccounts /\ arbitrationPoolPda \notin {a, b}
    BY <1>1
  <2>2. TokensAreNumbers' /\ tokens'[arbitrationPoolPda] = tokens[arbitrationPoolPda]
    BY <1>3, <2>1, TransferOfNumbers DEF PoolInv
  <2> QED  BY <1>0, <1>3, <2>2, PoolStays
<1>4. tokens[tradeEscrowTokensPda(i)] \in Nat
  BY <1>1 DEF PoolInv, TokensAreNumbers
<1>5. CASE FundTradeEscrow(fundTradeEscrowIx(Trade[i].seller, Trade[i].mint, TokenProgram, i))
  <2> DEFINE ix == fundTradeEscrowIx(Trade[i].seller, Trade[i].mint, TokenProgram, i)
  <2>1. /\ Key(ix, 4) = Vault(i) /\ Key(ix, 5) = tradeEscrowPda(i)
        /\ Key(ix, 6) = tradeEscrowTokensPda(i)
    BY DEF fundTradeEscrowIx, Vault, Key, Instruction, Signer, Writable, ReadOnly, meta
  <2> HIDE DEF ix
  <2>2. /\ Record(i).state = "created" /\ UNCHANGED cases
        /\ Move(ix, 4, 6, Record(i).amount) /\ tokens[Vault(i)] >= Record(i).amount
    BY <1>5, <2>1 DEF FundTradeEscrow, Record, ix
  <2>3. Record(i).amount = Trade[i].amount /\ Trade[i].amount \in Nat
    BY <2>2, AmountIsNumber DEF EscrowInv, RecordsAreAgreed, Record, NoEscrow, Agreed
  <2>4. tokens[Vault(i)] \in Nat
    BY <1>1 DEF PoolInv, TokensAreNumbers
  <2> QED  BY <1>3, <2>1, <2>2, <2>3, <2>4 DEF Move
<1>6. ASSUME NEW signer, CancelReservation(CancelOf(i, signer))
      PROVE  Still
  <2> DEFINE ix == CancelOf(i, signer)
  <2>1. Key(ix, 5) = tradeEscrowTokensPda(i) /\ Key(ix, 6) = Vault(i)
    BY DEF CancelOf, cancelReservationIx, Vault, Key, Instruction, Signer, Writable, ReadOnly, meta
  <2> HIDE DEF ix
  <2>2. Move(ix, 5, 6, tokens[tradeEscrowTokensPda(i)]) /\ UNCHANGED cases
    BY <1>6, <2>1 DEF CancelReservation, ix
  <2> QED  BY <1>3, <1>4, <2>1, <2>2 DEF Move
<1>7. CASE ExpireReservation(ExpireOf(i))
  <2> DEFINE ix == ExpireOf(i)
  <2>1. Key(ix, 4) = tradeEscrowTokensPda(i) /\ Key(ix, 5) = Vault(i)
    BY DEF ExpireOf, expireReservationIx, Vault, Key, Instruction, Writable, ReadOnly, meta
  <2> HIDE DEF ix
  <2>2. Move(ix, 4, 5, tokens[tradeEscrowTokensPda(i)]) /\ UNCHANGED cases
    BY <1>7, <2>1 DEF ExpireReservation, ix
  <2> QED  BY <1>3, <1>4, <2>1, <2>2 DEF Move
<1>8. ASSUME NEW treasuries \in TreasurySets, ReleaseEscrow(ReleaseOf(i, treasuries))
      PROVE  Still
  <2> DEFINE ix == ReleaseOf(i, treasuries)
  <2>1. /\ Key(ix, 3) = tradeEscrowPda(i) /\ Key(ix, 4) = tradeEscrowTokensPda(i)
        /\ Key(ix, 5) = BuyersWallet(i)
    BY DEF ReleaseOf, releaseEscrowIx, Destinations, BuyersWallet,
           Key, Instruction, Writable, ReadOnly, meta
  <2> HIDE DEF ix
  <2>2. Record(i).state = "approved" /\ UNCHANGED cases /\ PayOut(ix, 4, 5, Record(i).amount)
    BY <1>8, <2>1 DEF ReleaseEscrow, CanRelease, Record, ix
  <2>3. Record(i).amount = Trade[i].amount /\ tokens[tradeEscrowTokensPda(i)] = Trade[i].amount
    BY <2>2 DEF EscrowInv, RecordsAreAgreed, HeldIsAgreed, Record, NoEscrow, Agreed, Locked
  <2>4. PayOut(ix, 4, 5, tokens[tradeEscrowTokensPda(i)])
    BY <2>2, <2>3
  <2> QED  BY <1>0, <2>1, <2>2, <2>4, PaymentOfNumbers, PoolStays DEF Locked, PoolInv
<1> QED
  BY <1>2, <1>5, <1>6, <1>7, <1>8
  DEF TradeStep, Lands, CreateTradeEscrow, ApproveSettlement

(* A case that has been opened is there.                                    *)
LEMMA OpenedCaseIsWhole ==
  ASSUME PoolInv, NEW i \in Reservations, Case(i).phase # "none"
  PROVE  IsWhole(Case(i)) /\ Case(i).deposit \in Nat
BY DEF PoolInv, CasesAreWhole, NoCase, IsWhole, CaseRecord

LEMMA OpenKeepsPool ==
  ASSUME EscrowInv, PoolInv, UNCHANGED config, NEW i \in Reservations, NEW signer, NEW payer,
         OpenDisputeCase(DisputeOf(i, signer, payer))
  PROVE  PoolInv'
<1> DEFINE ix == DisputeOf(i, signer, payer)
           open == OpenVault(i)
           deposit == LesserOf(OpenFee, tokens[open])
           new == [phase |-> "commit", deposit |-> deposit, committed |-> {},
                   revealed |-> {}, claimed |-> {}, outcomes |-> {}]
<1>1. /\ Key(ix, 4) = disputeCasePda(i) /\ Key(ix, 8) = open /\ Key(ix, 9) = arbitrationPoolPda
  BY DEF DisputeOf, openDisputeCaseIx, OpenVault,
         Key, Instruction, Signer, Payer, Writable, ReadOnly, meta
<1>2. Case(i) = NoCase
  BY OpenEffect DEF Case
<1> HIDE DEF ix
<1>3. Move(ix, 8, 9, deposit) /\ CaseBecomes(i, new)
  BY <1>1 DEF OpenDisputeCase, CaseBecomes, ix
<1>4. open \in TokenAccounts /\ arbitrationPoolPda \in TokenAccounts /\ open # arbitrationPoolPda
  <2>1. Trade[i].seller \in People /\ Open \in Mints
    BY ChainAssumption DEF Mints
  <2>2. open \in TokenAccounts /\ open # arbitrationPoolPda
    BY <2>1, VaultsAreThere, VaultIsApart DEF OpenVault
  <2> QED  BY <2>2 DEF TokenAccounts
<1> HIDE DEF open
<1>5. deposit \in Nat /\ deposit <= tokens[open]
  BY <1>4, ChainAssumption DEF LesserOf, PoolInv, TokensAreNumbers
<1> HIDE DEF deposit
<1>6. IsWhole(new) /\ OwedBy(new) = deposit
  BY <1>5, FS_EmptySet DEF IsWhole, CaseRecord, Undecided, OwedBy
<1>7. OwedBy(Case(i)) = 0
  BY <1>2 DEF OwedBy, NoCase, Undecided
<1>8. /\ TokensAreNumbers'
      /\ tokens'[arbitrationPoolPda] = tokens[arbitrationPoolPda] + deposit
  BY <1>1, <1>3, <1>4, <1>5, TransferOfNumbers DEF Move, PoolInv
<1>9. tokens[arbitrationPoolPda] \in Nat
  BY <1>4 DEF PoolInv, TokensAreNumbers
<1>10. tokens'[arbitrationPoolPda] - tokens[arbitrationPoolPda] >= OwedBy(new) - OwedBy(Case(i))
  BY <1>5, <1>6, <1>7, <1>8, <1>9
<1> HIDE DEF new
<1> QED  BY <1>3, <1>6, <1>8, <1>10, OneCaseKeeps

(* Deliberating changes nothing that is owed.                               *)
LEMMA DeliberatingKeepsPool ==
  ASSUME EscrowInv, PoolInv, UNCHANGED <<config, tokens>>, NEW i \in Reservations, NEW case,
         Case(i).phase # "none", IsWhole(case), CaseBecomes(i, case),
         Case(i).phase \in Undecided, case.phase \in Undecided, case.deposit = Case(i).deposit
  PROVE  PoolInv'
<1>1. OwedBy(case) = OwedBy(Case(i)) /\ OwedBy(case) \in Nat
  BY WhatIsOwed DEF OwedBy
<1>2. TokensAreNumbers' /\ tokens[arbitrationPoolPda] \in Nat
  BY DEF PoolInv, TokensAreNumbers, TokenAccounts
<1>3. tokens'[arbitrationPoolPda] - tokens[arbitrationPoolPda] >= OwedBy(case) - OwedBy(Case(i))
  BY <1>1, <1>2
<1> QED  BY <1>2, <1>3, OneCaseKeeps

LEMMA CommitKeepsPool ==
  ASSUME EscrowInv, PoolInv, UNCHANGED config, NEW i \in Reservations,
         NEW arbitrator \in Arbitrators,
         CommitDisputeVote(commitDisputeVoteIx(arbitrator, i, "commitment"))
  PROVE  PoolInv'
<1> DEFINE ix == commitDisputeVoteIx(arbitrator, i, "commitment")
           then == [Case(i) EXCEPT !.committed = @ \cup {arbitrator}]
<1>1. Key(ix, 1) = arbitrator /\ Key(ix, 2) = disputeCasePda(i)
  BY DEF commitDisputeVoteIx, Key, Instruction, Signer, Writable, ReadOnly, meta
<1> HIDE DEF ix
<1>2. Case(i).phase = "commit" /\ UNCHANGED tokens /\ CaseBecomes(i, then)
  BY <1>1 DEF CommitDisputeVote, CaseBecomes, Case, ix
<1>3. IsWhole(Case(i))
  BY <1>2, OpenedCaseIsWhole
<1>4. IsWhole(then) /\ then.phase = "commit" /\ then.deposit = Case(i).deposit
  BY <1>2, <1>3 DEF IsWhole, CaseRecord
<1> HIDE DEF then
<1> QED  BY <1>2, <1>4, DeliberatingKeepsPool DEF Undecided

LEMMA RevealKeepsPool ==
  ASSUME EscrowInv, PoolInv, UNCHANGED config, NEW i \in Reservations,
         NEW arbitrator \in Arbitrators, NEW outcome \in Outcomes,
         RevealDisputeVote(revealDisputeVoteIx(arbitrator, i, outcome, "salt",
                                               stakeAccountPda(arbitrator, "Arbitrator")))
  PROVE  PoolInv'
<1> DEFINE ix == revealDisputeVoteIx(arbitrator, i, outcome, "salt",
                                     stakeAccountPda(arbitrator, "Arbitrator"))
           then == [Case(i) EXCEPT !.revealed = @ \cup {arbitrator},
                                   !.outcomes = @ \cup {outcome}]
<1>1. Key(ix, 1) = arbitrator /\ Key(ix, 2) = disputeCasePda(i) /\ ix.args[1] = outcome
  BY DEF revealDisputeVoteIx, Key, Instruction, Signer, Writable, ReadOnly, meta
<1> HIDE DEF ix
<1>2. /\ Case(i).phase = "reveal" /\ UNCHANGED tokens
      /\ cases' = [cases EXCEPT ![disputeCasePda(i)].revealed = @ \cup {arbitrator},
                                ![disputeCasePda(i)].outcomes = @ \cup {outcome}]
  BY <1>1 DEF RevealDisputeVote, Case, ix
<1>3. IsWhole(Case(i))
  BY <1>2, OpenedCaseIsWhole
<1>4. CaseBecomes(i, then)
  BY <1>2 DEF CaseBecomes, Case, EscrowInv, CasesAreDisputes
<1>5. IsWhole(then) /\ then.phase = "reveal" /\ then.deposit = Case(i).deposit
  <2>1. Case(i) \in CaseRecord /\ IsFiniteSet(Case(i).revealed)
    BY <1>3 DEF IsWhole
  <2>2. /\ then \in CaseRecord /\ then.phase = "reveal" /\ then.deposit = Case(i).deposit
        /\ then.revealed = Case(i).revealed \cup {arbitrator}
        /\ then.outcomes = Case(i).outcomes \cup {outcome} /\ then.claimed = Case(i).claimed
    BY <1>2, <2>1 DEF CaseRecord
  <2>3. IsFiniteSet(then.revealed)
    BY <2>1, <2>2, FS_AddElement
  <2> HIDE DEF then
  <2> QED  BY <1>2, <1>3, <2>2, <2>3 DEF IsWhole
<1> HIDE DEF then
<1> QED  BY <1>2, <1>4, <1>5, DeliberatingKeepsPool DEF Undecided

LEMMA CloseWindowKeepsPool ==
  ASSUME EscrowInv, PoolInv, UNCHANGED config, NEW i \in Reservations, CloseWindow(i)
  PROVE  PoolInv'
<1> DEFINE then == [Case(i) EXCEPT !.phase = IF @ = "commit" THEN "reveal" ELSE "tally"]
<1>1. Case(i).phase \in {"commit", "reveal"} /\ UNCHANGED tokens /\ CaseBecomes(i, then)
  BY DEF CloseWindow, CaseBecomes, Case
<1>2. IsWhole(Case(i))
  BY <1>1, OpenedCaseIsWhole
<1>3. /\ IsWhole(then) /\ then.phase \in {"reveal", "tally"}
      /\ then.deposit = Case(i).deposit
  BY <1>1, <1>2 DEF IsWhole, CaseRecord, Undecided
<1> HIDE DEF then
<1> QED  BY <1>1, <1>3, DeliberatingKeepsPool DEF Undecided

(* A claim takes one share of what is owed.                                 *)
LEMMA ClaimKeepsPool ==
  ASSUME EscrowInv, PoolInv, UNCHANGED config, NEW i \in Reservations,
         NEW arbitrator \in Arbitrators,
         ClaimArbitrationReward(claimArbitrationRewardIx(arbitrator, i, Open,
                                  WalletTokens(arbitrator, Open), TokenProgram))
  PROVE  PoolInv'
<1> DEFINE ix == claimArbitrationRewardIx(arbitrator, i, Open,
                                          WalletTokens(arbitrator, Open), TokenProgram)
           wallet == WalletTokens(arbitrator, Open)
           then == [Case(i) EXCEPT !.claimed = @ \cup {arbitrator}]
           n == Cardinality(Case(i).revealed)
           k == Cardinality(Case(i).claimed)
           share == Case(i).deposit \div n
<1>1. /\ Key(ix, 1) = arbitrator /\ Key(ix, 2) = disputeCasePda(i)
      /\ Key(ix, 5) = arbitrationPoolPda /\ Key(ix, 6) = wallet
  BY DEF claimArbitrationRewardIx, Key, Instruction, Signer, Writable, ReadOnly, meta
<1> HIDE DEF ix
<1>2. /\ Case(i).phase = "paid" /\ arbitrator \in Case(i).revealed \ Case(i).claimed
      /\ Move(ix, 5, 6, share) /\ CaseBecomes(i, then)
  BY <1>1 DEF ClaimArbitrationReward, CaseBecomes, Case, ix
<1>3. IsWhole(Case(i)) /\ Case(i).deposit \in Nat
  BY <1>2, OpenedCaseIsWhole
<1>4. IsFiniteSet(Case(i).revealed) /\ IsFiniteSet(Case(i).claimed)
  BY <1>3, FS_Subset DEF IsWhole
<1>5. /\ Case(i) \in CaseRecord /\ then \in CaseRecord /\ then.phase = "paid"
      /\ then.deposit = Case(i).deposit /\ then.revealed = Case(i).revealed
      /\ then.outcomes = Case(i).outcomes /\ then.claimed = Case(i).claimed \cup {arbitrator}
  BY <1>2, <1>3 DEF IsWhole, CaseRecord
<1> HIDE DEF then
<1>6. IsWhole(then)
  BY <1>2, <1>3, <1>5 DEF IsWhole, Undecided
<1>7. /\ n \in Nat \ {0} /\ k \in Nat /\ k <= n /\ Cardinality(then.claimed) = k + 1
      /\ k + 1 <= n
  <2>1. /\ n \in Nat \ {0} /\ k \in Nat /\ k <= n
    BY <1>2, <1>3, WhatIsOwed
  <2>2. Cardinality(then.claimed) = k + 1
    BY <1>2, <1>4, <1>5, FS_AddElement
  <2>3. then.claimed \subseteq Case(i).revealed
    BY <1>5, <1>6 DEF IsWhole
  <2>4. Cardinality(then.claimed) <= n
    BY <1>4, <2>3, FS_Subset
  <2> QED  BY <2>1, <2>2, <2>4
<1>8. share \in Nat
  BY <1>3, <1>7, SharesFit
<1>9. /\ OwedBy(Case(i)) = (n - k) * share
      /\ OwedBy(then) = (n - (k + 1)) * share
  BY <1>2, <1>5, <1>7 DEF OwedBy, Undecided
<1> HIDE DEF n, k, share
<1>10. OwedBy(Case(i)) = OwedBy(then) + share /\ OwedBy(then) \in Nat
  <2>1. PICK rest \in Nat : rest = n - (k + 1)
    BY <1>7
  <2>2. n - k = rest + 1
    BY <1>7, <2>1
  <2>3. (rest + 1) * share = rest * share + share /\ rest * share \in Nat
    BY <1>8
  <2> QED  BY <1>9, <2>1, <2>2, <2>3
<1>11. tokens[arbitrationPoolPda] \in Nat /\ share <= tokens[arbitrationPoolPda]
  <2>1. tokens[arbitrationPoolPda] \in Nat
    BY DEF PoolInv, TokensAreNumbers, TokenAccounts
  <2> QED  BY <1>8, <1>10, <2>1, CaseIsCovered
<1>12. /\ wallet \in TokenAccounts /\ arbitrationPoolPda \in TokenAccounts
       /\ wallet # arbitrationPoolPda
  BY VaultIsApart DEF TokenAccounts, Mints
<1> HIDE DEF wallet
<1>13. /\ TokensAreNumbers'
       /\ tokens'[arbitrationPoolPda] = tokens[arbitrationPoolPda] - share
  BY <1>1, <1>2, <1>8, <1>11, <1>12, TransferOfNumbers DEF Move, PoolInv
<1>14. tokens'[arbitrationPoolPda] - tokens[arbitrationPoolPda] >= OwedBy(then) - OwedBy(Case(i))
  BY <1>8, <1>10, <1>11, <1>13
<1> QED  BY <1>2, <1>6, <1>13, <1>14, OneCaseKeeps

(* An execution that pays leaves the deposit to the arbitrators, what does   *)
(* not divide to nobody; one that returns gives the deposit back.           *)
LEMMA PaidCaseKeepsPool ==
  ASSUME EscrowInv, PoolInv, UNCHANGED config, NEW i \in Reservations,
         Case(i).phase = "tally", Case(i).outcomes # {},
         NEW phase \in {"paid", "returned"},
         CaseBecomes(i, [Case(i) EXCEPT !.phase = phase]), TokensAreNumbers',
         tokens'[arbitrationPoolPda] =
           tokens[arbitrationPoolPda] - (IF phase = "paid" THEN 0 ELSE Case(i).deposit)
  PROVE  PoolInv'
<1> DEFINE then == [Case(i) EXCEPT !.phase = phase]
           n == Cardinality(Case(i).revealed)
           d == Case(i).deposit
<1>1. IsWhole(Case(i)) /\ d \in Nat
  BY OpenedCaseIsWhole
<1>2. /\ Case(i) \in CaseRecord /\ then \in CaseRecord /\ then.phase = phase /\ then.deposit = d
      /\ then.revealed = Case(i).revealed /\ then.outcomes = Case(i).outcomes
      /\ then.claimed = Case(i).claimed
  BY <1>1 DEF IsWhole, CaseRecord
<1>3. CaseBecomes(i, then)
  OBVIOUS
<1> HIDE DEF then
<1>4. then.claimed = {}
  BY <1>1, <1>2 DEF IsWhole, Undecided
<1>5. IsWhole(then)
  BY <1>1, <1>2, <1>4 DEF IsWhole, Undecided
<1>6. OwedBy(Case(i)) = d
  BY DEF OwedBy, Undecided
<1>7. phase = "returned" => OwedBy(then) = 0
  BY <1>2 DEF OwedBy, Undecided
<1>8. phase = "paid" => OwedBy(then) \in Nat /\ OwedBy(then) <= d
  <2>1. SUFFICES ASSUME phase = "paid" PROVE OwedBy(then) \in Nat /\ OwedBy(then) <= d
    OBVIOUS
  <2>2. n \in Nat \ {0} /\ OwedBy(then) \in Nat
    BY <1>2, <1>5, <2>1, WhatIsOwed
  <2>3. OwedBy(then) = (n - 0) * (d \div n)
    BY <1>2, <1>4, <2>1, FS_EmptySet DEF OwedBy, Undecided
  <2>4. n - 0 = n
    BY <2>2
  <2>5. n * (d \div n) <= d
    BY <1>1, <2>2, SharesFit
  <2> QED  BY <2>2, <2>3, <2>4, <2>5
<1>9. tokens[arbitrationPoolPda] \in Nat
  BY DEF PoolInv, TokensAreNumbers, TokenAccounts
<1>10. tokens'[arbitrationPoolPda] - tokens[arbitrationPoolPda] >= OwedBy(then) - OwedBy(Case(i))
  <2>0. tokens'[arbitrationPoolPda] =
          tokens[arbitrationPoolPda] - (IF phase = "paid" THEN 0 ELSE d)
    OBVIOUS
  <2> HIDE DEF d
  <2>1. CASE phase = "paid"
    BY <1>1, <1>6, <1>8, <1>9, <2>0, <2>1
  <2>2. CASE phase = "returned"
    BY <1>1, <1>6, <1>7, <1>9, <2>0, <2>2
  <2> QED  BY <2>1, <2>2
<1> QED  BY <1>3, <1>5, <1>10, OneCaseKeeps

LEMMA ExecuteKeepsPool ==
  ASSUME EscrowInv, PoolInv, UNCHANGED config, NEW i \in Reservations,
         NEW treasuries \in TreasurySets,
         ExecuteDisputeOutcome(ExecuteOf(i, treasuries))
  PROVE  PoolInv'
<1> DEFINE ix == ExecuteOf(i, treasuries)
           open == OpenVault(i)
           held == tradeEscrowTokensPda(i)
           d == Case(i).deposit
<1>1. /\ Key(ix, 2) = disputeCasePda(i)
      /\ Key(ix, 4) = held /\ Key(ix, 6) = Vault(i) /\ Key(ix, 7) = BuyersWallet(i)
      /\ Key(ix, Len(ix.keys) - 4) = arbitrationPoolPda
      /\ Key(ix, Len(ix.keys) - 2) = open
  BY ExecuteKeys DEF OpenVault
<1>2. ExecuteDisputeOutcome(ix)
  OBVIOUS
<1> HIDE DEF ix
<1>3. Case(i).phase = "tally" /\ Vault(i) # open
  BY <1>1, <1>2 DEF ExecuteDisputeOutcome, CanExecute, Case
<1>4. IsWhole(Case(i)) /\ d \in Nat
  BY <1>3, OpenedCaseIsWhole
<1>5. Record(i).state = "disputed"
  BY ExecuteEffect
<1>6. \/ /\ Case(i).outcomes # {}
         /\ PayOut(ix, 4, 7, tokens[held])
         /\ CaseBecomes(i, [Case(i) EXCEPT !.phase = "paid"])
      \/ /\ Case(i).outcomes # {}
         /\ tokens' = [tokens EXCEPT ![held] = 0, ![Vault(i)] = @ + tokens[held],
                                     ![arbitrationPoolPda] = @ - d, ![open] = @ + d]
         /\ CaseBecomes(i, [Case(i) EXCEPT !.phase = "returned"])
      \/ /\ Case(i).outcomes = {} /\ UNCHANGED tokens
         /\ cases' = [cases EXCEPT ![disputeCasePda(i)].phase = "commit",
                                   ![disputeCasePda(i)].committed = {}]
  BY <1>1, <1>2 DEF ExecuteDisputeOutcome, CaseBecomes, Case
<1>7. CASE /\ Case(i).outcomes # {}
           /\ PayOut(ix, 4, 7, tokens[held])
           /\ CaseBecomes(i, [Case(i) EXCEPT !.phase = "paid"])
  <2>1. TokensAreNumbers' /\ tokens'[arbitrationPoolPda] = tokens[arbitrationPoolPda]
    BY <1>1, <1>5, <1>7, PaymentOfNumbers DEF Locked, PoolInv
  <2>2. tokens[arbitrationPoolPda] \in Nat
    BY DEF PoolInv, TokensAreNumbers, TokenAccounts
  <2>3. tokens'[arbitrationPoolPda] =
          tokens[arbitrationPoolPda] - (IF "paid" = "paid" THEN 0 ELSE Case(i).deposit)
    BY <2>1, <2>2
  <2> QED  BY <1>3, <1>7, <2>1, <2>3, PaidCaseKeepsPool
<1>8. CASE /\ Case(i).outcomes # {}
           /\ tokens' = [tokens EXCEPT ![held] = 0, ![Vault(i)] = @ + tokens[held],
                                       ![arbitrationPoolPda] = @ - d, ![open] = @ + d]
           /\ CaseBecomes(i, [Case(i) EXCEPT !.phase = "returned"])
  <2>1. /\ Vault(i) \in TokenAccounts /\ held \in TokenAccounts /\ open \in TokenAccounts
        /\ arbitrationPoolPda \in TokenAccounts
    <3>1. Trade[i].seller \in People /\ Open \in Mints
      BY ChainAssumption DEF Mints
    <3>2. open \in TokenAccounts
      BY <3>1, VaultsAreThere DEF OpenVault
    <3> QED  BY <3>2, ThreeAccounts DEF TokenAccounts
  <2>2. /\ arbitrationPoolPda \notin {held, Vault(i), open} /\ held \notin {Vault(i), open}
    BY VaultIsApart, EscrowIsApart DEF Vault, OpenVault
  <2>3. d <= tokens[arbitrationPoolPda]
    <3>1. OwedBy(Case(i)) = d
      BY <1>3 DEF OwedBy, Undecided
    <3> QED  BY <3>1, CaseIsCovered
  <2>4. tokens \in [TokenAccounts -> Nat]
    BY DEF PoolInv, TokensAreNumbers
  <2> DEFINE vault == Vault(i)
             fund == arbitrationPoolPda
  <2>5. /\ tokens' = [tokens EXCEPT ![held] = 0, ![vault] = @ + tokens[held],
                                    ![fund] = @ - d, ![open] = @ + d]
        /\ vault # open /\ fund \notin {held, vault, open} /\ held \notin {vault, open}
        /\ vault \in TokenAccounts /\ fund \in TokenAccounts /\ d <= tokens[fund]
    BY <1>3, <1>8, <2>1, <2>2, <2>3
  <2> HIDE DEF vault, fund, open, held, d
  <2>6. /\ \A a \in TokenAccounts \ {held, vault, fund, open} : tokens'[a] = tokens[a]
        /\ tokens'[held] = 0 /\ tokens'[vault] = tokens[vault] + tokens[held]
        /\ tokens'[fund] = tokens[fund] - d /\ tokens'[open] = tokens[open] + d
        /\ tokens' = [a \in TokenAccounts |-> tokens'[a]]
    BY <2>1, <2>4, <2>5
  <2>7. \A a \in TokenAccounts : tokens'[a] \in Nat
    BY <1>4, <2>1, <2>4, <2>5, <2>6
  <2>8. tokens' \in [TokenAccounts -> Nat]
    BY <2>6, <2>7
  <2>9. TokensAreNumbers'
    BY <2>8 DEF TokensAreNumbers
  <2>10. tokens'[arbitrationPoolPda] =
           tokens[arbitrationPoolPda] - (IF "returned" = "paid" THEN 0 ELSE Case(i).deposit)
    BY <2>6 DEF fund, d
  <2> QED  BY <1>3, <1>8, <2>9, <2>10, PaidCaseKeepsPool
<1>9. CASE /\ Case(i).outcomes = {} /\ UNCHANGED tokens
           /\ cases' = [cases EXCEPT ![disputeCasePda(i)].phase = "commit",
                                     ![disputeCasePda(i)].committed = {}]
  <2> DEFINE then == [Case(i) EXCEPT !.phase = "commit", !.committed = {}]
  <2>1. CaseBecomes(i, then)
    BY <1>9 DEF CaseBecomes, Case, EscrowInv, CasesAreDisputes
  <2>2. IsWhole(then) /\ then.phase = "commit" /\ then.deposit = Case(i).deposit
    BY <1>3, <1>4 DEF IsWhole, CaseRecord, Undecided
  <2> HIDE DEF then
  <2> QED  BY <1>3, <1>9, <2>1, <2>2, DeliberatingKeepsPool DEF Undecided
<1> QED  BY <1>6, <1>7, <1>8, <1>9

LEMMA DisputeKeepsPool ==
  ASSUME EscrowInv, PoolInv, NEW i \in Reservations, DisputeStep(i)
  PROVE  PoolInv'
<1>1. UNCHANGED config
  BY TradesDeployNothing DEF Deployed
<1> QED
  BY <1>1, OpenKeepsPool, CommitKeepsPool, RevealKeepsPool, ClaimKeepsPool, ExecuteKeepsPool
  DEF DisputeStep, Lands

LEMMA PoolStarts ==
  ASSUME Init
  PROVE  PoolInv
<1> USE DEF Init
<1>1. MintsAreStable /\ CasesAreWhole /\ \A i \in Reservations : Case(i) = NoCase
  BY DEF MintsAreStable, NoConfig, CasesAreWhole, Case
<1>2. TokensAreNumbers
  BY ChainAssumption DEF TokensAreNumbers
<1>3. tokens[arbitrationPoolPda] \in Nat
  BY <1>2 DEF TokensAreNumbers, TokenAccounts
<1>4. SumFunction(Owed) = 0
  <2>1. \A i \in Reservations : OwedBy(Case(i)) = 0
    BY <1>1 DEF OwedBy, NoCase, Undecided
  <2>2. Owed \in [Reservations -> {0}]
    BY <2>1 DEF Owed
  <2> QED  BY <2>2, ReservationsAreFinite, SumOfZeros
<1> QED  BY <1>1, <1>2, <1>3, <1>4 DEF PoolInv, PoolCoversCases

LEMMA StepKeepsPool ==
  ASSUME EscrowInv, PoolInv, [Next]_vars
  PROVE  PoolInv'
<1>1. ASSUME UNCHANGED <<config, tokens, cases>>
      PROVE  PoolInv'
  BY <1>1, PoolStays DEF PoolInv, TokensAreNumbers
<1>2. ASSUME NEW i \in Reservations, Timeout(i)
      PROVE  PoolInv'
  BY <1>1, <1>2 DEF Timeout
<1>3. ASSUME NEW i \in Reservations, CloseWindow(i)
      PROVE  PoolInv'
  BY <1>3, CloseWindowKeepsPool DEF CloseWindow
<1>4. ASSUME NEW person, BanOrUnban(person)
      PROVE  PoolInv'
  BY <1>1, <1>4 DEF BanOrUnban
<1>5. CASE UNCHANGED vars
  BY <1>1, <1>5 DEF vars
<1> QED
  BY <1>2, <1>3, <1>4, <1>5, AdminKeepsPool, VaultKeepsPool, TradeKeepsPool, DisputeKeepsPool,
     ChainAssumption DEF Next

(* No account is ever overdrawn, and the pool of deposits in particular: the *)
(* claims of claimArbitrationRewardIx and the returns of                     *)
(* executeDisputeOutcomeIx on all its cases together never exceed what       *)
(* openDisputeCaseIx brought in.                                            *)
THEOREM AccountsAreNeverOverdrawn == Spec => []TypeOK
<1>1. Init => WaysOut /\ PoolInv
  BY WaysOutStart, PoolStarts
<1>2. EscrowInv /\ WaysOut /\ PoolInv /\ [Next]_vars => WaysOut' /\ PoolInv'
  BY StepKeepsWaysOut, StepKeepsPool
<1>3. EscrowInv /\ WaysOut /\ PoolInv => TypeOK
  <2> SUFFICES ASSUME EscrowInv, WaysOut, PoolInv PROVE TypeOK
    OBVIOUS
  <2>1. config.mints \subseteq Stables /\ config.treasuries \in TreasurySets \cup {<<>>}
    BY DEF PoolInv, MintsAreStable, WaysOut, TreasuriesAreListed
  <2>2. \A a \in TokenAccounts : tokens[a] \in Nat
    BY DEF PoolInv, TokensAreNumbers
  <2>3. \A a \in DOMAIN escrows : escrows[a].state \in Live \cup {"none", "closed"}
    BY DEF EscrowInv, RecordsAreAgreed, NoEscrow, Agreed
  <2>4. ASSUME NEW a \in DOMAIN cases
        PROVE  cases[a].phase \in {"none", "commit", "reveal", "tally", "paid", "returned"}
    <3>1. PICK i \in Reservations : a = disputeCasePda(i)
      BY DEF EscrowInv, CasesAreDisputes
    <3> QED
      BY <3>1 DEF PoolInv, CasesAreWhole, Case, NoCase, IsWhole, CaseRecord, Undecided
  <2> QED  BY <2>1, <2>2, <2>3, <2>4 DEF TypeOK
<1> QED  BY <1>1, <1>2, <1>3, EscrowIsWhatWasAgreed, PTL DEF Spec

(* And what the pool holds covers every case still open: deposits that may   *)
(* go back, and the shares not yet claimed.                                 *)
THEOREM PoolCoversItsCases == Spec => []PoolCoversCases
<1>1. EscrowInv /\ PoolInv /\ [Next]_vars => PoolInv'
  BY StepKeepsPool
<1>2. PoolInv => PoolCoversCases
  BY DEF PoolInv
<1> QED  BY <1>1, <1>2, PoolStarts, EscrowIsWhatWasAgreed, PTL DEF Spec
=============================================================================
