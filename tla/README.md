# TLA+ specifications of the OpenFiat SDKs

Specifications, model-checking configurations and machine-checked proofs for the
client SDKs in this repository: `typescript/src` and its mirror `rust/src`. Paths
below are relative to the repository's root. `PROJECT.json` lists the components,
the runs, the mapping of every definition to the lines it stands for, the hazards
and the theorems.

The SDKs are libraries: they keep little state and mostly turn calls into signed
events, JSON-RPC requests and Solana instructions. What is hard to get right is
at the edges: an `await` between reading something and using it, an answer that
never comes, an event that takes effect after its sender gave up, an instruction
anybody may submit, a byte string without field names. The specifications put
each part of the SDK into the surroundings its comments describe, let those
surroundings do everything they may do, and state what has to hold all the same.

## The system

| Component | State it keeps | Operations | Modules |
| --- | --- | --- | --- |
| JSON-RPC client (`client.ts`, `client.rs`, `error.*`) | next id, a timer per call | `call`, `sendSigned` | `OneShotCall`, `RpcClient`, `RpcClient_proofs` |
| Wallet proofs (`methods/wallet.ts`, the `getMy*` reads, earnings) | none beyond a pending read | challenge, sign, present | `WalletProof`, `Methods_proofs` |
| Advertisement paging (`methods/advertisements.ts`) | the generator's cursor | `eachAdvertisement` | `AdvertisementWalk`, `Methods_proofs` |
| Trade lifecycle (`methods/reservations.ts`, `settlement.ts`, `trade.ts`) | none; the node's two records | eight events, `getMyTrades`, `tradeStatus` | `TradeLifecycle`, `Methods_proofs` |
| Signed events and keyfiles (`domain.ts`, `tags.ts`, `crypto.ts`, `wallet.ts`, send methods) | a keyfile, a keypair in memory | save, load, ten events | `SignedEvents`, `Keys_proofs` |
| Channel encryption (`seal.ts`, `encryption-key.ts`) and its base58 texts (`base58.ts`) | a derived key pair | derive, publish, seal, open; spell and read | `ChannelKeys`, `Base58`, `Keys_proofs` |
| On-chain instructions (`onchain/*`) | none; the program's accounts | some forty builders | `OnchainCodec`, `StakingInstructions`, `EscrowInstructions`, `GovernanceInstructions`, the three `*Chain` modules, `EscrowPromise`, `StakingChain_proofs`, `EscrowChain_proofs`, `GovernanceChain_proofs` |
| Chain bridge (`methods/chain.*`) | none; the node's queue and records | blockhash, status, `sendTransaction` with its correlation | `ChainBridge`, `CrossChain_proofs` |
| deBridge hooks (`debridge/hook.ts`) | a decoding cursor | encode, decode, build a contribution | `DebridgeHook`, `CrossChain_proofs` |
| deBridge orders (`debridge/stablecoin.ts`) | none; the orders and wallets | deposit, withdraw, the mint tables | `DebridgeOrders`, `CrossChain_proofs` |
| the last three together | | a contribution with its hook, a withdrawal sent over the bridge | `CrossChain`, `CrossChain_proofs` |
| reference data, the Rust-only events, thin reads, other languages | none | | not modelled, see below |

How they interact. Every typed method is one call of the client, and nothing
retries: `TradeLifecycle` takes its calls from `OneShotCall`, which `RpcClient` is
proved to implement. The generator of `AdvertisementWalk` relies on the same
client for a call that always comes back. Gated reads and signed events use the
same key pair for two kinds of signature, under separate domains. The escrow
builders read addresses that belong to staking (the ban record, the stake
account), which is why `EscrowInstructions` and `GovernanceInstructions` build on
`StakingInstructions`. The trade of `TradeLifecycle` and the escrow of
`EscrowChain` are two records of one trade that no code in the SDK links; what
carries a release or an execution from the second to the first is the
correlation of `sendTransaction`, which `ChainBridge` is about. `CrossChain` puts
hooks, orders and the bridge side by side: a contribution carries the hook and is
paid where the decoded hook says, and a withdrawal opens its order when its
Solana transaction lands.

External and modelled from what the SDK says of them: the node, the network and
gateways in front of it, the three Solana programs, deBridge and its Solidity
encoder, wallet software, replicas, and the application that calls the SDK.

## Modules and the code

**OneShotCall** is what callers may rely on: a call is sent once, the node decides
it at most once, possibly after the caller was told nothing, and a report of
success or refusal is the node's decision.

**RpcClient** is `Client.call`. `Call` takes an id, starts the timer and sends;
`HeadArrives` is `fetch` resolving; `TextArrives` is the parsing and classification
of the body; `Timeout` and `ConnectionFails` are the two ways into `catch`; all of
them leave through `finally`, which clears the timer. `ReadTs` and `ReadRust` are
the two SDKs' classification of one body, selected by the variable `sdk`. The
network loses requests and answers, a gateway answers in the node's place with
pages, `null` and bare protocol errors, and bodies stall behind their headers.

**WalletProof** runs `walletProof` and the earnings read with their two `await`s
as separate steps, so several reads interleave there. Nonces expire, are spent
before the signature is verified (as `methods/wallet.ts` and `wallet_auth.rs`
describe), calls fail, and a proof seen on the wire may be presented again on
any surface.

**AdvertisementWalk** is the `async function*` with its suspension points: `Ask`,
`YieldRow`, `TurnPage`. The node's order is any order, its pages may be empty,
its cursor may have nothing behind it or be missing, rows come and go meanwhile,
and the consumer may stop at any row.

**TradeLifecycle** has one action per send method, and `getMyTrades` for reading the
trade back through `tradeStatus`. Either party sends anything at any time, calls
report late or nothing. The buyer follows the advice in `settlement.ts`: declare
first, wire after reading the declaration back, never take "I paid" back once
the money is under way, and do not wire while a reversal of theirs is under way
or ended without an answer. That discipline is part of the model (`WireFiat`,
`sendPaymentReversed`, `unsure`) because the code cannot enforce it; without it
`MoneyIsSafe` is false.

**SignedEvents** follows a wallet from `wallet.json` to a record at a node. A
keyfile is emptied, then written in three parts (half of the seed, the other
half, the public key), so that two saves or a crash can leave any mixture; a
seed is two halves so that a mixture of two is nobody's. `Send` takes the bytes
to sign before the signature is awaited, `EditPayload` is the caller who keeps
editing the object, `Submit` serialises it afterwards. A payload is laid out as
the node declares it or it is not (a key moved, an optional field left out),
which is all of JSON the signature can tell apart. Signatures are symbolic.

**Base58** is `base58.ts` digit by digit, carries and leading zeros included; a
character is its value, and one outside the alphabet is `NotInAlphabet`.
**ChannelKeys** is key derivation, the published claim and the sealed box. A claim's
value is the base58 text of the key, served by replicas that may have lost, added or
changed a character (`Altered`), and parsed by whoever seals. The rest is
symbolic cryptography: a shared secret is the unordered pair of its two keys, a
small-order point gives everybody's secret, a ciphertext opens under its own key
and nonce only. Signing twice and comparing before publishing is what the
comments of `encryption-key.ts` ask of the application; it is modelled as external.
`KeyBytesAssumption` is what is assumed of the curve: keys are of one length, no two
secrets have the same one, and none is all zeros.

**OnchainCodec, StakingInstructions, EscrowInstructions, GovernanceInstructions**
translate every builder: the account list in order with its signer and writable
flags, and the arguments, integers modulo the width `setBigUint64` keeps. An
address is named by its seeds. **StakingChain, EscrowChain, GovernanceChain**
execute what was built. The programs are not in this repository; they are modelled
as trusting the account list, moving tokens between positions of it, so that where
money goes is decided by the builders alone. The deployed programs refuse more,
and what holds here holds there for every instruction the SDK builds. Any
instruction that could have been built may land at any time, in any order, more
than once. The Rust builders construct the same lists; they lack only
`fundRewardsVaultIx`.

**EscrowPromise** is what a party of a trade may count on without reading any of
that: the tokens leave the seller's vault once, lie untouched while the trade is
open and leave as a whole, to the buyer once approved, either way once disputed,
home otherwise. `EscrowChain` maps its records to stages and its accounts to
amounts (`Stages`, `Held`, `Home`, `Purse`) and implements it, as checked by the run
and proved.

**ChainBridge** is the client that asks for a blockhash, signs and sends
(`getLatestBlockhash`, `sendTransaction`), with the node's queue and polls and the
chain as the comments and the Rust conformance tests describe them. A transaction
carries the correlation it was sent with; requests are lost, blockhashes die,
clients sign again, and anybody may send what needs nobody's signature. That the
node records a confirmation only when its own half is agreed is
`conformance_dispute.rs:17`. That a transfer is signed again only when the one
before can no longer land is the application's to see to (`MaySign`, external):
without it a withdrawal can be paid twice, since the answer to `sendTransaction`
says only that the bytes are queued.

**DebridgeOrders** is the two order builders, the mint tables and the derivation of
a token account, against a deBridge that pays, refunds and cancels as the order
says and does not look at whose address that is. `OrdersAssumption` is what the
surroundings of an order are: amounts are not negative, the other end is another chain,
a mint table the caller passes names the token that is meant under its own program,
and no two orders move the same account (a run gives each its own, so that what moved
can be told apart).

**DebridgeHook** is the binary layout: one cell per field whatever its width, byte
strings as their bytes. `DecodeOne`, `DecodeThrows` and `DecodeReturns` are the
rounds of `decodeSolanaHook`; a payload arrives cut off anywhere, and may have been
written by deBridge's own encoder, which lays out empty vectors differently. The types
`ExternalInstruction` and `DeliverContributionParams` are those of `hook.ts`, and
`HookAssumption` says that what is encoded has them.

**CrossChain** composes the last three by `INSTANCE`, each with its own variables:
`HookTravels`, `BridgeRuns` and the orders leave one another alone, `Filled` pays a
contribution to the recipient found in the decoded hook, and `WithdrawalLands` is
`Land` of the bridge and `Create` of the order in one step.

## Runs

Each run names its question; the bounds are in its `.cfg`, those of more than a
line in its `MC` module.

| Run | Shows | Bounds and why they are enough |
| --- | --- | --- |
| `client` | reports are honest (`ReportsAreHonest`), the two SDKs read alike (`SdksAgree`), every call settles, the client implements `OneShotCall` | two calls, either SDK; calls share only the id counter, and one pair shows every interleaving of it |
| `client_failure_class` | violation: a body of JSON `null` rejects with a `TypeError` | one call |
| `wallet_proof` | records are disclosed only where their holder asked (`DisclosedWhereAsked`); a refusal has a reason (`RefusedForAReason`) | two reads by two wallets on three surfaces, one with an issuer of its own: a read can meet another of the same wallet, of another, on the same surface or not |
| `advertisement_walk` | no row twice, none skipped, the walk ends | three rows in every order, pages of two, one change: a boundary with rows on both sides of it |
| `trade_lifecycle` | money that left is not cancelled away (`MoneyIsSafe`); a status was brought about by its event (`StatusHasItsEvent`) | four calls from a new trade or a declared one: a reversal sent again needs four to do harm; symmetric calls |
| `trade_status_comment` | violation: "no settlement followed" is not so | the same module, two calls |
| `signed_events` | no wallet but a generated one (`TypeOK`), events taken as meant, signatures refused for a reason | two processes, the fewest whose saves can mix; one call on its way at a time (`OneThingAtATime`), since calls share nothing but the record |
| `channel_keys` | a claim's text is one key and short byte strings are read back from theirs (`TextIsTheKey`), a box opens to what was sealed, no key and nonce twice, no box under everybody's key, a wallet's history stays readable | two wallets, a gateway, three boxes: parts of three can be mixed; keys of two bytes, some beginning with a zero byte, some that carry to the top, and every string of up to three bytes from the digits around 0, 58 and 256; a box to a misread claim is the only one (`MisreadAlone`) |
| `escrow` | each trade keeps `EscrowPromise` (`ImplementsEscrow`), nobody else pays (`NobodyElsePays`), nobody and nothing is locked in (`NobodyIsHeldHostage`) | two people who sell to each other; the second trade exists under one config only (`SecondSellerMeetsOneConfig`) |
| `stakes` | stakes are backed, the config is the one that was meant, stakers can leave | two owners, two roles; arrays of the right length, one short and one long |
| `governance` | one vote each, deposits go where decided, an exclusion spends the vote that decided it, readmission is open | two voters, one staked twice, two proposals of one kind (`OneKindOfProposal`) |
| `cross_chain` | nothing decoded that was not encoded and a cut hook is refused (`OnlyWhatWasEncoded`), tokens on their way are their owner's (`FundsStayTheirOwners`), records say what the chain did (`RecordFollowsTheChain`), what is approved gets recorded (`ApprovedIsCompleted`) | every combination of a hook's optional parts, one and two instructions, every cut; deposits on two clusters, two the builder refuses, a withdrawal, a contribution; a settlement and a dispute with two and one transactions at a time, a blockhash of one slot (`Life`), twice the amount in every source (`Savings`), so that a second payment would be seen; one piece of business at a time, of those that share no state (`OneAtATime`) |

The two violation runs are disagreements between the code and its documentation:
`typescript/README.md:103` promises three classes of failure and a `null` body
produces a fourth; `methods/trade.ts` says of a reservation that is no longer
locked that "no settlement followed", and the two records are not linked.
Reading turned up others that are not runs: `hook.ts:479` says an omitted
expense defaults to zero and it is encoded as absent; `rust/src/error.rs:11`
describes `Transport` as "never responded" although a body that fails to arrive
is one too; the off-chain vote is called `Invalid` and the on-chain outcome
`InvalidDispute`.

Deadlock is not checked where a system may rest: settled calls and reads, finished walks,
ended trades, processes that lost their wallets. It is checked in the three
on-chain runs, in `channel_keys` and in `cross_chain`.

Five bounds are guards of an `MC` module's next step rather than constants
(`SecondSellerMeetsOneConfig`, `OneKindOfProposal`, `OneThingAtATime`, `MisreadAlone`,
`OneAtATime`). Each keeps apart questions that share no state; each names what it
leaves out.

### Fairness

`RpcClient` assumes weak fairness of `Timeout` alone: an event loop, or the async
runtime, runs a timer that is due. Nothing is assumed of the network or the node,
so `EveryCallSettles` holds by the timer. `AdvertisementWalk` assumes that the
generator runs when it can, and that a call that is out comes back with an answer
or an error, which is what `EveryCallSettles` gives it.

`ChainBridge` (`BridgeFairness`) assumes that slots pass, that a node goes on hearing
of blockhashes, and that it forgets a transaction that can no longer land and looks
for one that did: weak fairness, as these stay possible until they happen. Signing,
arriving, being submitted and landing are each possible only while a blockhash lives,
and stop being so when it dies, so for them it assumes strong fairness, for each job
whose client retries: the node polls every ten seconds
(`rust/tests/conformance_dispute.rs:496`) and a blockhash on Solana lives several
polls long, so of the transactions of a client that tries again and again some are
in time at every stage. Both are properties of the surroundings, not of the SDK; what
the SDK adds is the correlation. Transfers, which
nobody sends again as they like, are assumed nothing of. No other property is a
liveness property.

## Proofs

Eight modules hold proofs: one for each of the three on-chain programs, one for the
client, one for the composition over the bridge, one for the three methods that
talk to the node (`Methods_proofs`), one for keys, signatures and boxes
(`Keys_proofs`), and `Induction`, which the others use. Each theorem is about its
specification for every value of the constants, and each theorem of a safety
property follows from an inductive invariant, named below.

`Induction` is what the proofs about sums, folds and digits stand on. The induction theorems of the
library take the formula to prove as a parameter, which the provers here cannot
instantiate. Its theorem that a well-founded relation has minimal elements
(`WFMin`) takes none, and gives a least number of every set of numbers
(`LeastNumber`), induction on a *set* of numbers (`NumberInduction`), and induction
over the subsets of a finite set (`SubsetInduction`). `SumFunction` of the community modules adds
up in the order of a `CHOOSE`: `SumsExist` shows that there is such a recursive
function at all, and `SumIsASum` that its value does not depend on the order;
`SumChangesBy` then says that a change at one place changes the sum by as much,
`SumOfZeros` and `SumOfAmounts` that sums of nothing and of numbers are what they
should be.

`RpcClient_proofs`, for every set of calls and for either SDK, from no assumption:

- `TypeCorrect`: the type invariant;
- `ClientBookkeeping`: ids are never shared, and a timer runs exactly while its
  call waits (`IdsDistinct`, `TimerCoversTheWait`), which the `finally` of
  `client.ts` is there for;
- `Honesty`: `ReportsAreHonest`;
- `SdksReadAlike`: `SdksAgree`, from `IInv` and from what can be on a connection at all
  (`ReplyIsAnswer`): of bodies nobody writes the property would be false;
- `Refinement`: every behaviour is one of `OneShotCall`.

Honesty is not inductive: a report is read off a body, so one must know that bodies
tell the truth. `IInv` therefore adds that a call which is idle left no trace
(`IdleIsUntouched`), that ids handed out are below the counter (`IdsBelowNext`), that
a request in flight is undecided and unanswered (`InFlightIsUndecided`), that the
body on the way agrees with the node's decision as either SDK would read it
(`ReplyTellsDecision`), that only a reply that exists is read (`ReadingHasReply`), and
that an outcome is there exactly when the call settled (`OutcomeWhenSettled`). The
refinement maps a phase to a stage and an outcome to a report, and needs `IInv` for
the steps that decide and report.

`Methods_proofs`, of `WalletProof`, for any reads and wallets and any of the five
surfaces (`SurfacesAssumption`): `ProofTypeCorrect`, and `DisclosureIsAsked` for
`DisclosedWhereAsked`. A proof on the wire stays the one its read made, because
a read that has presented is never given another challenge (`SeenIsMade`); the lemma
`AdmittedIsAsked` then compares the signature the node expects with the one the
proof carries, part by part, and needs that no two surfaces share a domain
(`DomainsDiffer`) and that the signature covers the subject. `RefusalsAreExplained`, for
the action property `RefusedForAReason`, adds `RInv`: a challenge is for what its read
asked, in the read's hands and in the ledger (`ChallengeIsOwn`); no two reads hold one
nonce (`NoncesDiffer`); and nothing spends a nonce before the proof of its read but a
replay of that proof (`SpentByItsRead`). An open nonce then admits the proof
(`OpenNonceAdmits`).

`Methods_proofs`, of `AdvertisementWalk`, for any finite set of advertisements that are not the
absent cursor (`AdsAssumption`), any ceiling and any number of changes
(`BoundsAssumption`): `WalkTypeCorrect`; `RowsComeOnce` for `NoRowTwice`; `WalkIsComplete`
for `NothingSkipped`. What was yielded lies behind the cursor, or before the page
at hand (`YieldedIsBehind`); what is due and lies behind the cursor, or on the
page, is accounted for (`DueIsCovered`). `PageKeeps` shows both for any page a
node may return, whole or cut short.

`Methods_proofs`, of `TradeLifecycle`, for any number of calls, from no assumption:
`TradeTypeCorrect`;
`MoneyStaysSafe` for `MoneyIsSafe`; `StatusIsEarned` for `StatusHasItsEvent`. A
reversal that may still land is either on an open call or known to be unaccounted
for (`StrayReversalIsKnown`); so a declaration that was read with neither about is
still on file (`ReadIsFresh`), and once the money left there is no reversal at all
(`WiredIsDeclared`). `OnlyReversalUndeclares` is why that is enough. The calls are
those of `OneShotCall`, so this theorem rests on `Refinement`: a client that sent a
call twice would break it, as the mutant of the property shows.

`CrossChain_proofs`, for any jobs, transactions and life of a blockhash
(`BridgeAssumption`, and `CrossChainAssumption` for the composition):
`BridgeRecordsAreTrue`, of `ChainBridge` alone; `CompositionIsABridge`, every behaviour of
the composition is one of `ChainBridge`; and so `RecordsAreTrue` for
`RecordFollowsTheChain`. The invariant `BridgeInv` says that a transaction carries the
correlation of its own job (`TagIsItsJob`), that what landed is done and was done by it
(`LandedIsDone`, `OthersAreDone`), and, for the transfers, that a waiting transaction is
no younger than the one signed last (`WaitingIsOlder`), so that at most one can still
land (`OneAlive`) and none once the transfer has happened (`DoneMeansDead`). Ages only
grow and keep their order, which is what the lemmas about `Older` are for. Liveness
does not carry over: it is checked on the composition itself.

`CrossChain_proofs`, of the hooks: `HooksSurviveTheirJourney` for `OnlyWhatWasEncoded`, for
hooks of any number of instructions with any optional parts, either encoder and every
cut. `HookInv` says that what arrived is the beginning of what was sent
(`WireIsABeginning`), and that a decoder which has not thrown has read some of the
instructions, whole, and stands at the end of the last (`ReadSoFar`). So the proof
is about one instruction at a place in a payload: each part of the layout (a number, a
string, an optional, a vector, a variant) has a lemma that says where reading it ends
and what it yields if all of it arrived, and that it throws if it was cut. A vector is
read by a fold, so its lemma is an induction over its elements; a cut one fails at the
first element that is not all there, and stays failed. The two encoders differ in an
empty vector, and the decoder reads either layout as the same. `OnlyWhatWasEncoded`
says more than that a round trip works: a cut payload of the SDK's own encoder is
refused wherever the cut is, except between two instructions.

`CrossChain_proofs`, of the orders: `FundsStay` for `FundsStayTheirOwners`, for any orders,
whichever of the builders makes them. `OrdersInv` says of each order (`Kept`)
that what is at its source, under way and where it was wanted is what there was; that
no more than its amount is under way or arrived; that an open contribution still has the
hook it was made with beside it; and that a withdrawal whose transaction has not
happened has moved nothing. `OrdersGoWhereWanted` reads the addresses off the builders.
The last two parts tie the components together. A contribution is filled where the *decoded* hook
says, and `HookNamesItsOwner` concludes from `HookInv` that this is the person who
ordered it. A withdrawal moves tokens when its transaction lands, and
`TransfersLandOnce` concludes from `BridgeInv` that it lands once, however often it was
sent. Neither holds of the orders alone.

`Keys_proofs`, of `SignedEvents`, for any number of processes, from no assumption: `TypeCorrect`;
`TakenAsMeant` for `AcceptedAsMeant`; `RefusedForItsReason` for
`SignatureRefusedForAReason`. `TypeOK` is not inductive: a keypair in memory was read off
a file that several writers may have left in pieces. `EventInv` therefore says of the
file that each part in it is that same part of somebody's text (`FileIsOfTexts`), so
that a whole file whose key fits its seed has one owner and a load yields a wallet
somebody generated; that who writes has something to write (`WalletsAreOwn`); that what
is being sent differs from what was meant at most by an edit, names the wallet's own
key and was signed over what was meant (`CallsAreMeant`); and that the node files keys
(`FiledUnderKeys`). The lemma `VerifiesWhatWasMeant` then says that a signature verifies
exactly when the payload is still what was meant, from which both action properties
follow.

`Keys_proofs`, of `Base58`: `TextsAreReadBack`, for byte strings of any length, from no
assumption. `encodeBase58` never handles the number a byte string is: it multiplies a
list of digits by 256 and adds a byte, again and again, with a carry that runs along
the list, and `decodeBase58` does the same by 58. `CarriedCounts` and `TimesPlusCounts`
show that one such round makes, of digits worth some number, digits worth the number
meant, each below the base and with no zero left over at the top; `ConvertedCounts` carries
this through all rounds by induction over the length. `ProperDigitsAreOne` is that a
number has one such list of digits, so a conversion there and back can only arrive at
the digits it started from; the zeros at the front, which count for nothing, travel
beside them (`LeadingZeros`, `ZerosInFront`). The text read back is thus the one text of
its bytes (`TextsAreOne`). Folds of the community modules take elements out of a set of indices in the order of
a `CHOOSE`; `RunsInSteps` and its kin say that this is one after the other.

`Keys_proofs`, of `ChannelKeys`: `TextsSpellTheirKeys` for `TextIsTheKey`, with keys of any
length (`KeysAssumption`, `KeyBytesAssumption`). `TextInv` says that a published claim is
the text of a key its wallet derived from a whole signature (`ClaimSpells`) and that a key
in hand is one whose text is the published one (`HeldIsPublished`). That the text is then parsed
as that key, and no other text is, is the round trip: two texts read as the same bytes
are the same text, and bytes that name a point name one.

`Keys_proofs`, of `ChannelKeys`, for any wallets, any kinds of wallet software and any
number of boxes: `BoxesOpenWhole` for `OpensToWhatWasSealed`;
`KeyStreamsAreNew` for `NoKeyStreamTwice`; `BoxesAreForOne` for `SealedForOne`;
`BoxesStayReadable` for `HistoryStaysReadable`. `KeysInv` says that every box was
made by `sealTo`, to a point that is not of small order, with a secret numbered below
the number of boxes, and that no two boxes share the public half of theirs
(`BoxesAreTheirOwn`); and that a key in hand was derived from a signature
(`KeysAreDerived`). A box that replicas put together opens only if the key derived
from its parts is the one its ciphertext was made with. The proof unfolds that key:
it hashes both public points and the shared secret, so equal keys mean one
ephemeral point, hence one box, hence that box's text. That a secret drawn for a
box is no derived key of a wallet (`EphemeralsAreApart`) is what symbolic
cryptography assumes.

`StakingChain_proofs`, for any finite set of owners, any roles and any arrays in a
config (`StakingAssumption`: numbers in an array fit the signed and the unsigned
field alike; authorities and the treasury's accounts are nobody's stake):
`StakingTypeCorrect`; `StakesStayBacked` for `StakesAreBacked`; `ConfigStaysAsAgreed`
for `ConfigIsWhatWasAgreed`; `StakersMayLeave` for `StakersCanLeave`. `StakingInv` says
that the record at a stake's address is that owner's in full or none
(`RecordsAreOwn`), that accounts hold numbers (`TokensAreNumbers`), and the two
properties themselves. An instruction changes one record, whatever the number of
owners, and by `SumChangesBy` the sum moves with it (`OneStakeKeeps`): each lemma then compares
that with what the token program moves between the positions of the account list.
`ConfigIsReadBack` takes the argument bytes apart again: every array the builder lets through
has the length the program reads, so the arrays that were joined without lengths
fall apart where they were joined (`FieldsAreFound`, `ArraysArriveAsSent`). That rests
on the check in `roleArrayBytes`, and dropping it is the property's mutant.

`EscrowChain_proofs`, for any people, mints, treasuries and trades
(`ChainAssumption`: a trade's parties differ, its amount fits 64 bits and covers the
fee, reservation ids fit 64 bits): `EscrowIsWhatWasAgreed`, the invariant itself;
`KeepsThePromise` for `ImplementsEscrow`; `OwnersPayForThemselves` for `NobodyElsePays`.
`EscrowInv` says that a record is what was agreed (`RecordsAreAgreed`), that its token
account holds the amount exactly while it is funded, approved or disputed
(`HeldIsAgreed`), that a case is about a disputed trade and an undecided one about a
trade that still is (`CasesAreDisputes`), and that no vault is overdrawn
(`VaultsAreNumbers`). Without `CasesAreDisputes` an execution could pay a trade a second
time; without `VaultsAreNumbers` a dispute's deposit, the lesser of the fee and what
the vault holds, could be negative, and giving it back would take from the vault. Each instruction is
first reduced to the addresses its builder lists, which is where the order of the
keys enters the proof; addresses of two trades differ because 64 bits keep their ids
apart (`TradesAreApart`). `NobodyIsLockedIn`, for `NobodyIsHeldHostage`, needs a second
invariant, `WaysOut`: what the way out is asked to present is there. The config's
treasuries are a list somebody passed (`TreasuriesAreListed`), so that a list read
back from the config, between the accounts before and after it, is that list
(`ReadBack`); a trade's record means its seller's vault and the pool exist
(`RecordsHaveVaults`); tokens lie in vaults that exist, and a deposit that may go back
came out of one (`TokensHaveVaults`).

`AccountsAreNeverOverdrawn`, for `TypeOK`, is about the one account of the escrow that many
trades share: the arbitration pool takes the deposit of every case, gives it back when
the case is dismissed and pays it out in shares otherwise. That no amount goes below
zero is not inductive, and for the pool it is not a fact about one case. `PoolInv` adds
that the pool covers all cases together (`PoolCoversCases`): a case is owed its deposit
while undecided and the shares not yet claimed once paid, each share being the deposit
divided by those who revealed, rounded down (`SharesFit`). The cases are finite in number
because their ids fit 64 bits, and an instruction changes what one of them is owed, so
`SumChangesBy` compares the sum with what moved. `PoolCoversItsCases` states that part by
itself: it is what makes every claim and every refund payable.

`GovernanceChain_proofs`, for any voters, roles and proposals
(`GovernanceAssumption`): `RecordsAgree`, the invariant; `VotesCountOnce` for
`OneVoteEach`; `BansAreVoted` for `ExclusionSpendsItsVote`; `ReadmissionStaysOpen` for
`ReadmissionIsOpen`. `GovernanceInv` says that what a proposal's action record holds is
what its voters were told (`ActionsAreAgreed`) and that a vote was counted exactly
where there is a record of it (`BallotsAreVotes`); the address of that record names
the proposal and the voter and not the role, so `BallotsAreApart` closes the first.
`DepositsAreAccountedFor`, for `DepositsGoWhereDecided`, and `TypeCorrect` need a second
invariant, `DepositInv`: a proposal's record has all its fields or is none
(`RecordsAreFull`), and the config names a forfeit destination before there is anything
to forfeit (`ForfeitIsKnown`). The sum is a cardinality, since every deposit is the same:
a step leaves each record its proposer and its deposit, or pays one in (`PaysIn`), or
settles one (`Settles`), and moves as much between the accounts. That needs the
proposals to be finite and a forfeit destination to be neither a voter's wallet nor the
vault, which `GovernanceAssumption` says.

Only model-checked: the liveness properties `EveryCallSettles`, `WalkEnds` and
`ApprovedIsCompleted`, since fairness and `ENABLED` are out of reach of the prover. Every
other property that a passing run checks is stated by a theorem.

## Not modelled

- The reference table of other chains' token addresses in `debridge/stablecoin.ts`,
  which no code reads.
- `methods/reference.*`, `reference-data/validate.py`, node and thin reads:
  one call and no state. Their behaviour is the client's.
- The off-chain dispute events, and the session, identity, reputation, risk and
  snapshot methods, of the Rust SDK: they pass events of `openfiat-core` through, whose rules and
  signatures are that repository's.
- Discriminators, seed bytes and widths of the on-chain codec below the integers:
  compared with fixtures by the unit tests.
- `redaction.rs`: shape checks. The Python stub, the placeholders for other
  languages, examples, packaging and CI.
- A keyfile that is lost: a crash between the truncation and the last write of
  `saveWalletFile` leaves no loadable wallet. `SignedEvents` reaches that state; no
  document promises otherwise, so no property forbids it.

## Plan

Done, in this order: `OneShotCall` and `RpcClient`; `WalletProof`; `AdvertisementWalk`;
`TradeLifecycle` over `OneShotCall`; the on-chain builders and chains; `ChannelKeys`;
`DebridgeHook`; `SignedEvents`; the proofs of the first four. Then `EscrowPromise` and
its refinement; `Base58` under the claims of `ChannelKeys`; `ChainBridge`,
`DebridgeOrders` and their composition in `CrossChain`; the proofs of `ChainBridge`,
`CrossChain`, `EscrowChain`, `GovernanceChain` and `SignedEvents`. Then `Induction`, and with
it the proofs of `StakingChain`, of `ChannelKeys`, of the pool of `EscrowChain`, of
`DebridgeHook`'s codec, of the orders, and of `Base58`.

Next:

1. An abstract order book that `AdvertisementWalk` implements.
2. The escrow of `EscrowChain` as the program behind `ChainBridge`, so that the two
   records of a trade are checked against each other.
