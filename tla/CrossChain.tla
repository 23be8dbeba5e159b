------------------------------ MODULE CrossChain ------------------------------
(***************************************************************************)
(* Tokens and instructions between chains, put together: the orders of      *)
(* DebridgeOrders, of which a contribution carries the hook of              *)
(* DebridgeHook and is filled by whoever decodes it, and of which a          *)
(* withdrawal begins as a Solana transaction sent over ChainBridge, next to  *)
(* the releases and executions that the node keeps records of.              *)
(***************************************************************************)
EXTENDS Integers, Sequences

CONSTANTS
  U64, Hooks, Requests,
  Orders, Want, ProgramOf, MAINNET_SOLANA_STABLECOIN_MINTS, Savings,
  Jobs, Domain, Txs, For, Life,
  None

VARIABLES hook, own, wire, offset, decoded, status
VARIABLES open, purse
VARIABLES known, tx, latest, agreed, due, done, others, recorded

Hook == INSTANCE DebridgeHook
Deal == INSTANCE DebridgeOrders
Bridge == INSTANCE ChainBridge

hookVars == <<hook, own, wire, offset, decoded, status>>
orderVars == <<open, purse>>
bridgeVars == <<known, tx, latest, agreed, due, done, others, recorded>>
vars == <<hookVars, orderVars, bridgeVars>>

\* A withdrawal's transaction is the job of the same name.
Transfers == {j \in Jobs : Domain[j] = "transfer"}

ASSUME CrossChainAssumption ==
  /\ Hook!HookAssumption
  /\ Deal!OrdersAssumption
  /\ Bridge!BridgeAssumption
  /\ \A j \in Transfers :
       j \in Orders /\ Want[j].way = "withdraw" /\ Savings >= 2 * Want[j].amount
  \* A contribution's hook is made for the person who orders it.
  /\ \A o \in Orders, p \in Requests :
       Want[o].way = "contribution" => p.recipient = Want[o].owner

Init == Hook!Init /\ Deal!OrdersInit /\ Bridge!BridgeInit

-----------------------------------------------------------------------------
HookTravels == Hook!Next /\ UNCHANGED <<orderVars, bridgeVars>>

\* Signed on the other chain; a contribution goes with its hook.
OrderFromElsewhere(o) ==
  /\ Want[o].way # "withdraw"
  /\ open[o] = 0 /\ purse[Deal!Source(o)] = Savings
  /\ Want[o].way = "contribution" =>
       hook \in {<<Hook!DeliverContribution(p)>> : p \in Requests}
  /\ Deal!Create(o)
  /\ UNCHANGED <<hookVars, bridgeVars>>

\* Signed on Solana, and open once the transaction lands.
WithdrawalLands(t) ==
  /\ For[t] \in Transfers
  /\ Bridge!Land(t)
  /\ Deal!Create(For[t])
  /\ UNCHANGED hookVars

BridgeRuns ==
  /\ Bridge!BridgeNext
  /\ \A j \in Transfers : done'[j] = done[j]
  /\ UNCHANGED <<hookVars, orderVars>>

\* The executor hands the contribution to the recipient the hook names, once
\* it has the whole hook.
Filled(o) ==
  /\ \/ Deal!Fill(o)
     \/ /\ status = "returned"
        /\ decoded # <<>>
        /\ Deal!FillWithHook(o, <<decoded[1].data[2], "contributed">>)
  /\ UNCHANGED <<hookVars, bridgeVars>>

Cancelled(o) ==
  /\ \E signer \in {Want[o].owner, Want[o].wallet} : Deal!Cancel(o, signer)
  /\ UNCHANGED <<hookVars, bridgeVars>>

Next ==
  \/ HookTravels
  \/ \E o \in Orders : OrderFromElsewhere(o) \/ Filled(o) \/ Cancelled(o)
  \/ \E t \in Txs : WithdrawalLands(t)
  \/ BridgeRuns

Spec == Init /\ [][Next]_vars /\ Bridge!BridgeFairness

-----------------------------------------------------------------------------
(* What the components promise holds of them together; each is explained    *)
(* where it is defined.                                                    *)

\* Nothing is decoded that was not encoded, whole hooks are decoded whole, and
\* a cut one of the SDK's own is refused.
OnlyWhatWasEncoded == Hook!OnlyWhatWasEncoded

\* Tokens are at their source, in one order, or where they were wanted.
FundsStayTheirOwners == Deal!FundsStayTheirOwners

\* A record names a job of the node's own clients that really succeeded, and
\* nothing that was sent twice happened twice.
RecordFollowsTheChain == Bridge!RecordFollowsTheChain

\* Approved settlements and decided disputes are completed in the records.
ApprovedIsCompleted == Bridge!ApprovedIsCompleted
=============================================================================
