------------------------------ MODULE EscrowChain ------------------------------
(***************************************************************************)
(* What the instructions built by EscrowInstructions do to people's        *)
(* tokens.  openfiat-escrow itself is not in the repository: it is modelled *)
(* from what the SDK's comments and tests say of it, and as a program that  *)
(* trusts the account list it is handed.  It moves tokens between the       *)
(* positions of the list and never recomputes an address, so that where the *)
(* money ends up is decided by the builders and by nothing else; the        *)
(* deployed program refuses more.  The runtime's own rule is kept: every    *)
(* account marked as signer signs, and only a writable account changes.     *)
(*                                                                          *)
(* Callers pass the values of the trade they are in.  A transaction may be  *)
(* lost, delayed, repeated or overtaken: any instruction that could ever    *)
(* have been built may land at any time, with treasuries read from a config *)
(* that has been replaced since.                                            *)
(***************************************************************************)
EXTENDS EscrowInstructions, FiniteSets

CONSTANTS
  People,       \* wallets; each may sell and buy
  Merchants,    \* those of them who hold vaults
  Bannable,     \* those of them governance may ever ban
  Arbitrators,
  Stables,      \* the mints a config may allow for settlement
  Open,         \* the OPEN mint
  Reservations, \* on-chain reservation ids
  Trade,        \* what each was agreed to be: [seller, buyer, mint, amount]
  TreasurySets, \* the sequences of treasury accounts a config may name
  SettlementFee,\* taken out of a payment to a buyer
  OpenFee,      \* charged for a listing, and deposited in a dispute
  Savings,      \* tokens of each mint a person starts with
  Outcomes      \* DisputeOutcome: BuyerWins, MerchantWins, and others

Mints == Stables \cup {Open}
TokenProgram == <<"token program">>
WalletTokens(owner, mint) == <<"wallet tokens", owner, mint>>

ASSUME ChainAssumption ==
  /\ Open \notin Stables
  /\ Bannable \subseteq People /\ Merchants \subseteq People
  /\ People \cap Arbitrators = {}
  /\ Reservations \subseteq 0 .. U64 - 1
  /\ \A treasuries \in TreasurySets :
       /\ Len(treasuries) \in Nat
       /\ treasuries = [i \in 1 .. Len(treasuries) |-> treasuries[i]]
  /\ SettlementFee \in Nat /\ OpenFee \in Nat /\ Savings \in Nat
  /\ \A id \in Reservations :
       /\ Trade[id].seller \in Merchants
       /\ Trade[id].buyer \in People \ {Trade[id].seller}
       /\ Trade[id].mint \in Stables
       /\ Trade[id].amount \in SettlementFee .. U64 - 1

VARIABLES
  config,   \* FeeConfig: the treasuries and the settlement-mint allowlist
  pool,     \* the arbitration pool has been created
  vaults,   \* addresses of the vaults that exist
  tokens,   \* what every token account holds
  escrows,  \* the record at each trade-escrow address
  cases,    \* the record at each dispute-case address
  banned    \* ban records that exist

vars == <<config, pool, vaults, tokens, escrows, cases, banned>>

TokenAccounts ==
  {WalletTokens(p, m) : p \in People \cup Arbitrators, m \in Mints}
    \cup {liquidityVaultTokensPda(p, m) : p \in People, m \in Mints}
    \cup {tradeEscrowTokensPda(id) : id \in Reservations}
    \cup {arbitrationPoolPda}

NoConfig == [treasuries |-> <<>>, mints |-> {}]
NoEscrow == [state |-> "none"]
NoCase == [phase |-> "none"]
Live == {"created", "funded", "approved", "disputed"}

Init ==
  /\ config = NoConfig
  /\ pool = FALSE
  /\ vaults = {}
  /\ tokens = [a \in TokenAccounts |->
                 IF \E p \in People, m \in Mints : a = WalletTokens(p, m)
                 THEN Savings ELSE 0]
  /\ escrows = [a \in {tradeEscrowPda(id) : id \in Reservations} |-> NoEscrow]
  /\ cases = [a \in {disputeCasePda(id) : id \in Reservations} |-> NoCase]
  /\ banned = {}

-----------------------------------------------------------------------------
Move(ix, from, to, amount) ==
  tokens' = IF Key(ix, from) = Key(ix, to) THEN tokens
            ELSE [tokens EXCEPT ![Key(ix, from)] = @ - amount,
                                ![Key(ix, to)] = @ + amount]

(* Deployment.                                                             *)

\* Once; nothing is allowed for settlement yet.
InitializeFeeConfig(ix) ==
  /\ config = NoConfig
  /\ MayWrite(ix, {2})
  /\ config' = [treasuries |-> ix.args.treasuries, mints |-> {}]
  /\ UNCHANGED <<pool, vaults, tokens, escrows, cases, banned>>

InitializeArbitrationPool(ix) ==
  /\ config # NoConfig
  /\ ~pool
  /\ MayWrite(ix, {4})
  /\ pool' = TRUE
  /\ UNCHANGED <<config, vaults, tokens, escrows, cases, banned>>

\* The allowlist is never empty.
UpdateFeeConfig(ix) ==
  /\ config # NoConfig
  /\ ix.args.settlementMints # {}
  /\ MayWrite(ix, {2})
  /\ config' = [treasuries |-> [i \in 1 .. Len(ix.keys) - 3 |-> Key(ix, i + 3)],
                mints |-> ix.args.settlementMints]
  /\ UNCHANGED <<pool, vaults, tokens, escrows, cases, banned>>

(* Vaults.                                                                 *)

\* OPEN is recognised by the pool, which has to be there.
CreateLiquidityVault(ix) ==
  /\ pool
  /\ Key(ix, 2) \in config.mints \cup {Open}
  /\ Key(ix, 5) \notin vaults
  /\ MayWrite(ix, {5, 6})
  /\ vaults' = vaults \cup {Key(ix, 5)}
  /\ UNCHANGED <<config, pool, tokens, escrows, cases, banned>>

DepositLiquidity(ix) ==
  /\ Key(ix, 2) \notin banned
  /\ Key(ix, 3) \in vaults
  /\ ix.args[1] <= tokens[Key(ix, 5)]
  /\ MayWrite(ix, {3, 4, 5})
  /\ Move(ix, 5, 4, ix.args[1])
  /\ UNCHANGED <<config, pool, vaults, escrows, cases, banned>>

\* A mark on the vault's record: no token moves, and nothing below depends on
\* how the program counts its marks.
ReserveLiquidity(ix) ==
  /\ Key(ix, 2) \in {liquidityVaultPda(Key(ix, 1), m) : m \in config.mints} \cap vaults
  /\ MayWrite(ix, {2})
  /\ UNCHANGED vars

\* Nothing is read but the vault: neither the allowlist nor a ban record.
CanWithdraw(ix) ==
  /\ Key(ix, 2) \in vaults
  /\ ix.args[1] <= tokens[Key(ix, 3)]
  /\ MayWrite(ix, {2, 3, 4})

WithdrawLiquidity(ix) ==
  /\ CanWithdraw(ix)
  /\ Move(ix, 3, 4, ix.args[1])
  /\ UNCHANGED <<config, pool, vaults, escrows, cases, banned>>

\* Treasuries are outside the model: what they are paid leaves it.
ChargeAdListingFee(ix) ==
  /\ tokens[Key(ix, 4)] >= OpenFee
  /\ [i \in 1 .. Len(ix.keys) - 6 |-> Key(ix, i + 4)] = config.treasuries
  /\ MayWrite(ix, {3, 4})
  /\ tokens' = [tokens EXCEPT ![Key(ix, 4)] = @ - OpenFee]
  /\ UNCHANGED <<config, pool, vaults, escrows, cases, banned>>

(* Trades.                                                                 *)

CreateTradeEscrow(ix) ==
  /\ Key(ix, 3) \in config.mints
  /\ Key(ix, 5) \in vaults
  /\ escrows[Key(ix, 6)] = NoEscrow
  /\ MayWrite(ix, {5, 6, 7})
  /\ escrows' = [escrows EXCEPT ![Key(ix, 6)] =
                   [state |-> "created", seller |-> Key(ix, 1),
                    buyer |-> Key(ix, 2), amount |-> ix.args[2],
                    timedOut |-> FALSE]]
  /\ UNCHANGED <<config, pool, vaults, tokens, cases, banned>>

FundTradeEscrow(ix) ==
  /\ escrows[Key(ix, 5)].state = "created"
  /\ Key(ix, 1) = escrows[Key(ix, 5)].seller
  /\ tokens[Key(ix, 4)] >= escrows[Key(ix, 5)].amount
  /\ MayWrite(ix, {3, 4, 5, 6})
  /\ Move(ix, 4, 6, escrows[Key(ix, 5)].amount)
  /\ escrows' = [escrows EXCEPT ![Key(ix, 5)].state = "funded"]
  /\ UNCHANGED <<config, pool, vaults, cases, banned>>

ApproveSettlement(ix) ==
  /\ escrows[Key(ix, 2)].state = "funded"
  /\ Key(ix, 1) = escrows[Key(ix, 2)].seller
  /\ MayWrite(ix, {2})
  /\ escrows' = [escrows EXCEPT ![Key(ix, 2)].state = "approved"]
  /\ UNCHANGED <<config, pool, vaults, tokens, cases, banned>>

\* Buyer's share to the position `to', the fee out of the model.
PayOut(ix, from, to, amount) ==
  tokens' = [tokens EXCEPT ![Key(ix, from)] = @ - amount,
                           ![Key(ix, to)] = @ + (amount - SettlementFee)]

CanRelease(ix) ==
  /\ escrows[Key(ix, 3)].state = "approved"
  /\ [i \in 1 .. Len(ix.keys) - 7 |-> Key(ix, i + 6)] = config.treasuries
  /\ MayWrite(ix, {2, 3, 4, 5})

ReleaseEscrow(ix) ==
  /\ CanRelease(ix)
  /\ PayOut(ix, 4, 5, escrows[Key(ix, 3)].amount)
  /\ escrows' = [escrows EXCEPT ![Key(ix, 3)].state = "closed"]
  /\ UNCHANGED <<config, pool, vaults, cases, banned>>

CanCancel(ix) ==
  /\ escrows[Key(ix, 4)].state \in {"created", "funded"}
  /\ Key(ix, 1) \in {escrows[Key(ix, 4)].seller, escrows[Key(ix, 4)].buyer}
  /\ MayWrite(ix, {3, 4, 5, 6})

CancelReservation(ix) ==
  /\ CanCancel(ix)
  /\ Move(ix, 5, 6, tokens[Key(ix, 5)])
  /\ escrows' = [escrows EXCEPT ![Key(ix, 4)].state = "closed"]
  /\ UNCHANGED <<config, pool, vaults, cases, banned>>

CanExpire(ix) ==
  /\ escrows[Key(ix, 3)].state \in {"created", "funded"}
  /\ escrows[Key(ix, 3)].timedOut
  /\ MayWrite(ix, {2, 3, 4, 5})

ExpireReservation(ix) ==
  /\ CanExpire(ix)
  /\ Move(ix, 4, 5, tokens[Key(ix, 4)])
  /\ escrows' = [escrows EXCEPT ![Key(ix, 3)].state = "closed"]
  /\ UNCHANGED <<config, pool, vaults, cases, banned>>

(* Disputes.  Windows and stake weights are data: a window closes when it   *)
(* does, and any outcome somebody revealed may have the weight.             *)

LesserOf(a, b) == IF a <= b THEN a ELSE b

CanOpenDispute(ix) ==
  /\ pool
  /\ escrows[Key(ix, 3)].state = "funded"
  /\ Key(ix, 1) \in {escrows[Key(ix, 3)].seller, escrows[Key(ix, 3)].buyer}
  /\ MayWrite(ix, {3, 4, 7, 8, 9})

\* An empty vault does not stop it.
OpenDisputeCase(ix) ==
  LET deposit == LesserOf(OpenFee, tokens[Key(ix, 8)]) IN
  /\ CanOpenDispute(ix)
  /\ Move(ix, 8, 9, deposit)
  /\ escrows' = [escrows EXCEPT ![Key(ix, 3)].state = "disputed"]
  /\ cases' = [cases EXCEPT ![Key(ix, 4)] =
                 [phase |-> "commit", deposit |-> deposit, committed |-> {},
                  revealed |-> {}, claimed |-> {}, outcomes |-> {}]]
  /\ UNCHANGED <<config, pool, vaults, banned>>

CommitDisputeVote(ix) ==
  /\ cases[Key(ix, 2)].phase = "commit"
  /\ MayWrite(ix, {2})
  /\ cases' = [cases EXCEPT ![Key(ix, 2)].committed = @ \cup {Key(ix, 1)}]
  /\ UNCHANGED <<config, pool, vaults, tokens, escrows, banned>>

RevealDisputeVote(ix) ==
  LET case == cases[Key(ix, 2)] IN
  /\ case.phase = "reveal"
  /\ Key(ix, 1) \in case.committed \ case.revealed
  /\ MayWrite(ix, {2})
  /\ cases' = [cases EXCEPT ![Key(ix, 2)].revealed = @ \cup {Key(ix, 1)},
                            ![Key(ix, 2)].outcomes = @ \cup {ix.args[1]}]
  /\ UNCHANGED <<config, pool, vaults, tokens, escrows, banned>>

\* One account under two positions is refused: its second write-back would
\* lose the first.
CanExecute(ix) ==
  /\ cases[Key(ix, 2)].phase = "tally"
  /\ [i \in 1 .. Len(ix.keys) - 14 |-> Key(ix, i + 8)] = config.treasuries
  /\ Key(ix, 6) # Key(ix, Len(ix.keys) - 2)
  /\ MayWrite(ix, {2, 3, 4, 5, 6, 7} \cup {Len(ix.keys) - i : i \in 2 .. 4})

\* The buyer is paid and the deposit stays for the arbitrators, or both go
\* back to the seller; which of the two an outcome in between means is not
\* known here.  Nobody revealed: the case is drawn again.
ExecuteDisputeOutcome(ix) ==
  LET case == cases[Key(ix, 2)]
      poolAt == Len(ix.keys) - 4
      openAt == Len(ix.keys) - 2
  IN
  /\ CanExecute(ix)
  /\ \/ /\ case.outcomes \ {"MerchantWins"} # {}
        /\ PayOut(ix, 4, 7, tokens[Key(ix, 4)])
        /\ cases' = [cases EXCEPT ![Key(ix, 2)].phase = "paid"]
        /\ escrows' = [escrows EXCEPT ![Key(ix, 3)].state = "closed"]
     \/ /\ case.outcomes \ {"BuyerWins"} # {}
        /\ tokens' = [tokens EXCEPT ![Key(ix, 4)] = 0,
                                    ![Key(ix, 6)] = @ + tokens[Key(ix, 4)],
                                    ![Key(ix, poolAt)] = @ - case.deposit,
                                    ![Key(ix, openAt)] = @ + case.deposit]
        /\ cases' = [cases EXCEPT ![Key(ix, 2)].phase = "returned"]
        /\ escrows' = [escrows EXCEPT ![Key(ix, 3)].state = "closed"]
     \/ /\ case.outcomes = {}
        /\ cases' = [cases EXCEPT ![Key(ix, 2)].phase = "commit",
                                  ![Key(ix, 2)].committed = {}]
        /\ UNCHANGED <<tokens, escrows>>
  /\ UNCHANGED <<config, pool, vaults, banned>>

\* Pro rata among those who revealed, once each.
ClaimArbitrationReward(ix) ==
  LET case == cases[Key(ix, 2)] IN
  /\ case.phase = "paid"
  /\ Key(ix, 1) \in case.revealed \ case.claimed
  /\ MayWrite(ix, {2, 5, 6})
  /\ Move(ix, 5, 6, case.deposit \div Cardinality(case.revealed))
  /\ cases' = [cases EXCEPT ![Key(ix, 2)].claimed = @ \cup {Key(ix, 1)}]
  /\ UNCHANGED <<config, pool, vaults, escrows, banned>>

(* Time, and governance's ban list.                                        *)

Timeout(id) ==
  /\ escrows[tradeEscrowPda(id)].state \in Live
  /\ ~escrows[tradeEscrowPda(id)].timedOut
  /\ escrows' = [escrows EXCEPT ![tradeEscrowPda(id)].timedOut = TRUE]
  /\ UNCHANGED <<config, pool, vaults, tokens, cases, banned>>

CloseWindow(id) ==
  LET address == disputeCasePda(id) IN
  /\ cases[address].phase \in {"commit", "reveal"}
  /\ cases' = [cases EXCEPT ![address].phase =
                 IF @ = "commit" THEN "reveal" ELSE "tally"]
  /\ UNCHANGED <<config, pool, vaults, tokens, escrows, banned>>

BanOrUnban(person) ==
  /\ banned' = IF banRecordPda(person) \in banned
               THEN banned \ {banRecordPda(person)}
               ELSE banned \cup {banRecordPda(person)}
  /\ UNCHANGED <<config, pool, vaults, tokens, escrows, cases>>

-----------------------------------------------------------------------------
(* What callers build.  Each trade's instructions carry its own parties,    *)
(* mint and id; the treasuries may be any a config named.                   *)

CancelOf(id, signer) ==
  cancelReservationIx(signer, Trade[id].mint, TokenProgram, Trade[id].seller, id)
ExpireOf(id) ==
  expireReservationIx(Trade[id].mint, TokenProgram, Trade[id].seller, id)
DisputeOf(id, signer, payer) ==
  openDisputeCaseIx(signer, payer, id, 1, 1, Trade[id].seller, Open, TokenProgram)
Destinations(id, treasuries) ==
  [buyerTokenAccount |-> WalletTokens(Trade[id].buyer, Trade[id].mint),
   treasuries |-> treasuries]
ReleaseOf(id, treasuries) ==
  releaseEscrowIx(Trade[id].mint, TokenProgram, Trade[id].seller, id,
                  Destinations(id, treasuries))
ExecuteOf(id, treasuries) ==
  executeDisputeOutcomeIx(Trade[id].mint, TokenProgram, Trade[id].seller, id,
                          Destinations(id, treasuries), Open)
WithdrawOf(merchant, mint, amount) ==
  withdrawLiquidityIx(merchant, mint, TokenProgram, WalletTokens(merchant, mint),
                      amount)

\* One transaction: signed by these wallets, and by no one else.
Lands(ix, signers, Handler(_)) == Handler(ix) /\ Signed(ix, signers)

Parties(id) == {Trade[id].seller, Trade[id].buyer}

AdminStep ==
  \E admin \in Arbitrators, treasuries \in TreasurySets, mints \in SUBSET Stables :
    \/ Lands(initializeFeeConfigIx(admin,
               [timeoutSecs |-> 1, disputeFilingFee |-> OpenFee,
                treasuries |-> treasuries]),
             {admin}, InitializeFeeConfig)
    \/ Lands(initializeArbitrationPoolIx(admin, Open, TokenProgram), {admin},
             InitializeArbitrationPool)
    \/ Lands(updateFeeConfigIx(admin, Open, treasuries,
                               [timeoutSecs |-> 1, disputeFilingFee |-> OpenFee,
                                settlementMints |-> mints]),
             {admin}, UpdateFeeConfig)

VaultStep(merchant) ==
  \/ \E mint \in Mints, amount \in 1 .. Savings :
       \/ Lands(createLiquidityVaultIx(merchant, mint, TokenProgram), {merchant},
                CreateLiquidityVault)
       \/ Lands(depositLiquidityIx(merchant, mint, TokenProgram,
                                   WalletTokens(merchant, mint), amount),
                {merchant}, DepositLiquidity)
       \/ Lands(reserveLiquidityIx(merchant, mint, amount), {merchant}, ReserveLiquidity)
       \/ Lands(WithdrawOf(merchant, mint, amount), {merchant}, WithdrawLiquidity)
  \/ \E treasuries \in TreasurySets :
       Lands(chargeAdListingFeeIx(merchant, Open, TokenProgram, treasuries, "ad"),
             {merchant}, ChargeAdListingFee)

TradeStep(id) ==
  LET trade == Trade[id] IN
  \/ Lands(createTradeEscrowIx(trade.seller, trade.buyer, trade.mint, TokenProgram,
                               id, trade.amount, 1),
           {trade.seller}, CreateTradeEscrow)
  \/ Lands(fundTradeEscrowIx(trade.seller, trade.mint, TokenProgram, id),
           {trade.seller}, FundTradeEscrow)
  \/ Lands(approveSettlementIx(trade.seller, id), {trade.seller}, ApproveSettlement)
  \/ \E signer \in Parties(id) : Lands(CancelOf(id, signer), {signer}, CancelReservation)
  \/ Lands(ExpireOf(id), {}, ExpireReservation)
  \/ \E treasuries \in TreasurySets : Lands(ReleaseOf(id, treasuries), {}, ReleaseEscrow)

DisputeStep(id) ==
  \/ \E signer \in Parties(id), payer \in People :
       Lands(DisputeOf(id, signer, payer), {signer, payer}, OpenDisputeCase)
  \/ \E arbitrator \in Arbitrators, outcome \in Outcomes :
       \/ Lands(commitDisputeVoteIx(arbitrator, id, "commitment"), {arbitrator},
                CommitDisputeVote)
       \/ Lands(revealDisputeVoteIx(arbitrator, id, outcome, "salt",
                                    stakeAccountPda(arbitrator, "Arbitrator")),
                {arbitrator}, RevealDisputeVote)
       \/ Lands(claimArbitrationRewardIx(arbitrator, id, Open,
                                         WalletTokens(arbitrator, Open), TokenProgram),
                {arbitrator}, ClaimArbitrationReward)
  \/ \E treasuries \in TreasurySets :
       Lands(ExecuteOf(id, treasuries), {}, ExecuteDisputeOutcome)

Next ==
  \/ AdminStep
  \/ \E person \in Merchants : VaultStep(person)
  \/ \E person \in Bannable : BanOrUnban(person)
  \/ \E id \in Reservations :
       TradeStep(id) \/ DisputeStep(id) \/ Timeout(id) \/ CloseWindow(id)

Spec == Init /\ [][Next]_vars

-----------------------------------------------------------------------------
(* Properties.                                                             *)

\* Every token account holds a number; every record is in a known state.
TypeOK ==
  /\ config.mints \subseteq Stables /\ config.treasuries \in TreasurySets \cup {<<>>}
  /\ \A a \in TokenAccounts : tokens[a] \in Nat
  /\ \A a \in DOMAIN escrows : escrows[a].state \in Live \cup {"none", "closed"}
  /\ \A a \in DOMAIN cases :
       cases[a].phase \in {"none", "commit", "reveal", "tally", "paid", "returned"}

OnlyOwnersPay ==
  \A p \in People, m \in Mints :
    LET vault == liquidityVaultTokensPda(p, m) IN
      tokens'[vault] < tokens[vault] =>
        \/ VaultStep(p)
        \/ \E id \in Reservations :
             /\ Trade[id].seller = p
             /\ \/ m = Trade[id].mint /\ escrows'[tradeEscrowPda(id)].state = "funded"
                \/ m = Open /\ cases[disputeCasePda(id)] = NoCase
                            /\ cases'[disputeCasePda(id)] # NoCase

\* Nobody is made to pay: a vault loses tokens only to its merchant's own
\* withdrawal or listing, to the funding of a trade they sell in, or, the
\* OPEN vault, to the opening of a case against them.  A buyer in particular
\* pays nothing to be heard, also one who holds vaults.
NobodyElsePays == [][OnlyOwnersPay]_vars

(* What EscrowPromise speaks of.                                           *)
StageOf(state) ==
  CASE state \in {"none", "created"} -> "unfunded"
    [] state = "funded" -> "locked"
    [] state = "closed" -> "ended"
    [] OTHER -> state
Stages == [id \in Reservations |-> StageOf(escrows[tradeEscrowPda(id)].state)]
Held == [id \in Reservations |-> tokens[tradeEscrowTokensPda(id)]]
Home == [id \in Reservations |->
           tokens[liquidityVaultTokensPda(Trade[id].seller, Trade[id].mint)]]
Purse == [id \in Reservations |-> tokens[WalletTokens(Trade[id].buyer, Trade[id].mint)]]

Promise ==
  INSTANCE EscrowPromise WITH
    Trades <- Reservations,
    Amount <- [id \in Reservations |-> Trade[id].amount],
    Fee <- SettlementFee,
    stage <- Stages, held <- Held, home <- Home, purse <- Purse

\* Every trade's escrow keeps the promise of EscrowPromise, whatever lands and
\* in whatever order: between funding and the instruction that closes it it
\* holds exactly what was agreed, and a trade that ends without the buyer
\* being paid ends with the seller's vault as full as before, whoever ended
\* it and how: the seller or the buyer cancelling, a stranger expiring it, or
\* the vote.
ImplementsEscrow == Promise!Spec

\* No trade is held hostage: at every moment of its life somebody other than
\* the seller can end it or move it on with an instruction of the SDK that
\* needs no one else's signature.  Nor is a merchant: what they have in a
\* vault they can take out alone, banned or not and with the mint still
\* allowed or no longer.
NobodyIsHeldHostage ==
  LET Usable(ix, signers, Can(_)) == Signed(ix, signers) /\ Can(ix) IN
  /\ \A p \in People, m \in Mints :
       LET held == tokens[liquidityVaultTokensPda(p, m)]
       IN held > 0 => Usable(WithdrawOf(p, m, held), {p}, CanWithdraw)
  /\ \A id \in Reservations :
    LET escrow == escrows[tradeEscrowPda(id)] IN
    /\ escrow.state \in {"created", "funded"} =>
         \A p \in Parties(id) : Usable(CancelOf(id, p), {p}, CanCancel)
    /\ escrow.state \in {"created", "funded"} /\ escrow.timedOut =>
         Usable(ExpireOf(id), {}, CanExpire)
    /\ escrow.state = "funded" =>
         \A p \in Parties(id) : Usable(DisputeOf(id, p, p), {p}, CanOpenDispute)
    /\ escrow.state = "approved" =>
         Usable(ReleaseOf(id, config.treasuries), {}, CanRelease)
    /\ cases[disputeCasePda(id)].phase = "tally" =>
         Usable(ExecuteOf(id, config.treasuries), {}, CanExecute)
=============================================================================
