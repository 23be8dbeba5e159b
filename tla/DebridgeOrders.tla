---------------------------- MODULE DebridgeOrders ----------------------------
(***************************************************************************)
(* typescript/src/debridge/stablecoin.ts: the orders that move a person's   *)
(* USDC or USDT between their wallet on another chain and their Solana       *)
(* wallet, next to the presale contribution an app orders with a hook.      *)
(* deBridge is modelled from what the builders' comments say of it: an      *)
(* order takes its amount from the source wallet, is filled once at the     *)
(* address it names or cancelled once by the authority it names, and does   *)
(* not look at whose address that is.                                      *)
(*                                                                          *)
(* Amounts arrive as they left: fees are data.  A Solana token account is    *)
(* its derivation, and tokens sent to a derivation that is nobody's stay     *)
(* there.                                                                   *)
(***************************************************************************)
EXTENDS Integers

CONSTANTS
  Orders,   \* what people want moved
  Want,     \* the parameters of each, and what its caller knows besides
  ProgramOf,\* mint -> the token program it lives under on its cluster
  MAINNET_SOLANA_STABLECOIN_MINTS,
  Savings,  \* what each order's source holds at first
  None

SOLANA_CHAIN_ID == 7565164

VARIABLES
  open,  \* order -> how many deBridge orders of it are open
  purse  \* address and token -> what it holds

orderVars == <<open, purse>>

-----------------------------------------------------------------------------
(* The builders.  A mint table gives a symbol its mint and token program,   *)
(* or does not have it.                                                    *)

deriveUnderTheTokenProgram(owner, mint, tokenProgram) == <<owner, "Token", mint>>

deriveAssociatedTokenAddress(owner, mint, tokenProgram) == <<owner, tokenProgram, mint>>

\* None: throws.
resolveSolanaMint(stablecoin, solanaMints) ==
  LET mints == IF solanaMints = None THEN MAINNET_SOLANA_STABLECOIN_MINTS ELSE solanaMints
  IN IF stablecoin \in DOMAIN mints THEN mints[stablecoin] ELSE None

\* The source side's authority and the hook are left out.
buildStablecoinDepositOrder(params) ==
  LET info == resolveSolanaMint(params.stablecoin, params.solanaMints) IN
  IF params.amount <= 0 \/ info = None THEN None
  ELSE [srcChain |-> params.chain, srcToken |-> params.token, amount |-> params.amount,
        dstChain |-> SOLANA_CHAIN_ID, dstToken |-> info.mint,
        recipient |->
          deriveAssociatedTokenAddress(params.owner, info.mint, info.tokenProgram),
        srcAuthority |-> None, dstAuthority |-> params.owner, hook |-> None]

buildStablecoinWithdrawOrder(params) ==
  LET info == resolveSolanaMint(params.stablecoin, params.solanaMints) IN
  IF params.amount <= 0 \/ info = None THEN None
  ELSE [srcChain |-> SOLANA_CHAIN_ID, srcToken |-> info.mint, amount |-> params.amount,
        dstChain |-> params.chain, dstToken |-> params.token,
        recipient |-> params.wallet,
        srcAuthority |-> params.owner, dstAuthority |-> params.wallet, hook |-> None]

\* An app's own, with what buildDeliverContributionHook made for it.
ContributionOrder(params) ==
  [srcChain |-> params.chain, srcToken |-> params.token, amount |-> params.amount,
   dstChain |-> SOLANA_CHAIN_ID, dstToken |-> params.mint, recipient |-> None,
   srcAuthority |-> None, dstAuthority |-> params.owner, hook |-> params.hook]

\* What is sent to create-tx: the caller fills in the wallet it will sign with.
Request(o) ==
  LET built == CASE Want[o].way = "deposit" -> buildStablecoinDepositOrder(Want[o])
                 [] Want[o].way = "withdraw" -> buildStablecoinWithdrawOrder(Want[o])
                 [] Want[o].way = "contribution" -> ContributionOrder(Want[o])
  IN IF built = None \/ built.srcChain = SOLANA_CHAIN_ID THEN built
     ELSE [built EXCEPT !.srcAuthority = Want[o].wallet]

-----------------------------------------------------------------------------
(* Where tokens are.                                                       *)

\* On Solana the account that the token program itself would look at.
TokensOf(chain, wallet, token) ==
  IF chain = SOLANA_CHAIN_ID THEN <<wallet, ProgramOf[token], token>> ELSE <<wallet, token>>

\* An order asks for an address; on Solana that is the account, elsewhere the
\* wallet.
Paid(request) ==
  IF request.dstChain = SOLANA_CHAIN_ID THEN request.recipient
  ELSE TokensOf(request.dstChain, request.recipient, request.dstToken)

Spent(o) ==
  TokensOf(Request(o).srcChain,
           IF Want[o].way = "withdraw" THEN Want[o].owner ELSE Want[o].wallet,
           Request(o).srcToken)
Refunded(request) == TokensOf(request.srcChain, request.srcAuthority, request.srcToken)

\* Whose the tokens are: where the person has them, and where they want them.
Source(o) ==
  IF Want[o].way = "withdraw" THEN TokensOf(SOLANA_CHAIN_ID, Want[o].owner, Want[o].mint)
  ELSE TokensOf(Want[o].chain, Want[o].wallet, Want[o].token)
Wanted(o) ==
  CASE Want[o].way = "deposit" -> TokensOf(SOLANA_CHAIN_ID, Want[o].owner, Want[o].mint)
    [] Want[o].way = "withdraw" -> TokensOf(Want[o].chain, Want[o].wallet, Want[o].token)
    [] Want[o].way = "contribution" -> <<Want[o].owner, "contributed">>

Addresses ==
  {Source(o) : o \in Orders} \cup {Wanted(o) : o \in Orders}
    \cup UNION {{Spent(o), Refunded(Request(o))} : o \in {p \in Orders : Request(p) # None}}
    \cup {Paid(Request(o)) : o \in {p \in Orders : Request(p) # None /\ Want[p].way # "contribution"}}

\* Assumed where they get their values: amounts are not negative, an order goes
\* to or from another chain, a mint table names the token that is meant and the
\* program it lives under, and what one order moves is no other's.
OrdersAssumption ==
  /\ Savings \in Nat
  /\ \A o \in Orders :
       /\ Want[o].way \in {"deposit", "withdraw", "contribution"}
       /\ Want[o].amount \in Nat
       /\ Want[o].chain # SOLANA_CHAIN_ID
       /\ IF Want[o].way = "contribution" THEN Want[o].hook # None
          ELSE LET info == resolveSolanaMint(Want[o].stablecoin, Want[o].solanaMints) IN
               info # None => /\ info.mint = Want[o].mint
                              /\ info.tokenProgram = ProgramOf[Want[o].mint]
       /\ Source(o) # Wanted(o)
       /\ \A p \in Orders \ {o} : {Source(o), Wanted(o)} \cap {Source(p), Wanted(p)} = {}

OrdersInit ==
  /\ open = [o \in Orders |-> 0]
  /\ purse = [a \in Addresses |-> IF \E o \in Orders : a = Source(o) THEN Savings ELSE 0]

-----------------------------------------------------------------------------
(* deBridge.                                                               *)

\* Both authorities are required, and the signer's tokens are taken.
Create(o) ==
  /\ Request(o) # None
  /\ Request(o).srcAuthority # None /\ Request(o).dstAuthority # None
  /\ purse[Spent(o)] >= Request(o).amount
  /\ purse' = [purse EXCEPT ![Spent(o)] = @ - Request(o).amount]
  /\ open' = [open EXCEPT ![o] = @ + 1]

Close(o, address) ==
  /\ purse' = [purse EXCEPT ![address] = @ + Request(o).amount]
  /\ open' = [open EXCEPT ![o] = @ - 1]

\* A filler pays the address; with a hook, the executor that runs it.
Fill(o) == open[o] > 0 /\ Request(o).hook = None /\ Close(o, Paid(Request(o)))
FillWithHook(o, address) == open[o] > 0 /\ Request(o).hook # None /\ Close(o, address)

\* The destination's authority cancels, and the source's gets the tokens back.
Cancel(o, signer) ==
  /\ open[o] > 0
  /\ signer = Request(o).dstAuthority
  /\ Close(o, Refunded(Request(o)))

-----------------------------------------------------------------------------
\* Tokens on their way stay their owner's: they are where the person had them,
\* in one open order of the amount they wanted, or where they wanted them, and
\* nowhere else, whether the order is filled or cancelled and however its
\* transaction was sent.  An order into Solana can be taken back by the person
\* it pays, and by nobody else.
FundsStayTheirOwners ==
  \A o \in Orders :
    /\ open[o] > 0 /\ Want[o].way # "withdraw" => Request(o).dstAuthority = Want[o].owner
    /\ LET under_way == open[o] * Want[o].amount
           arrived == purse[Wanted(o)]
       IN /\ purse[Source(o)] + under_way + arrived = Savings
          /\ under_way + arrived <= Want[o].amount
=============================================================================
