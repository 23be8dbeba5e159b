---------------------------- MODULE GovernanceChain ----------------------------
(***************************************************************************)
(* What the instructions of GovernanceInstructions decide.  As in           *)
(* EscrowChain the program, openfiat-governance, is not in the repository:  *)
(* it is modelled from what the SDK says of it, and as one that trusts the  *)
(* account list it is handed.  Any instruction that can be built may land   *)
(* at any time, for any proposal and with any argument.                     *)
(***************************************************************************)
EXTENDS GovernanceInstructions, FiniteSetsExt

CONSTANTS
  Voters,      \* they also propose, submit and get banned
  Admin,
  StakeOf,     \* voter -> role -> what the stake account holds
  Proposals,   \* proposal ids
  Categories,  \* of ProposalCategory
  Actions,     \* the actions proposed
  Forfeits,    \* token accounts a config may name
  Open,        \* the OPEN mint
  Deposit,     \* what a proposal costs
  Savings,     \* OPEN each voter starts with
  Digests      \* SHA-256 digests, and other byte strings

Roles == 0 .. ROLE_COUNT - 1
WalletTokens(owner) == <<"wallet tokens", owner>>
ZeroDigest == [length |-> 32, bytes |-> <<0>>]

ASSUME GovernanceAssumption ==
  /\ Proposals \subseteq 0 .. U64 - 1
  /\ IsFiniteSet(Proposals)
  /\ Deposit \in 0 .. U64 - 1 /\ Savings \in Nat
  /\ Forfeits \cap ({WalletTokens(v) : v \in Voters} \cup {depositVaultPda}) = {}

VARIABLES
  config,    \* GovernanceConfig
  emergency, \* addresses of emergency authorities that exist
  proposals, \* the record at each proposal address
  agreed,    \* what each proposal's voters were told it would do
  actions,   \* the record at each proposal-action address
  records,   \* addresses of vote records that exist
  votes,     \* how often each voter's stake was counted: [proposal, voter] -> Nat
  tokens,    \* what every token account holds
  banned     \* addresses of ban records that exist

vars == <<config, emergency, proposals, agreed, actions, records, votes, tokens, banned>>

NoConfig == [forfeit |-> <<"nowhere">>]
NoProposal == [state |-> "none"]
Addresses == {proposalPda(id) : id \in Proposals}

\* A fresh deployment, or one whose config is older than the authority.
Init ==
  /\ config \in {NoConfig} \cup [forfeit : Forfeits]
  /\ emergency = {}
  /\ proposals = [a \in Addresses |-> NoProposal]
  /\ agreed = [id \in Proposals |-> noAction]
  /\ actions = [a \in {proposalActionPda(p) : p \in Addresses} |-> noAction]
  /\ records = {}
  /\ votes = [id \in Proposals |-> [v \in Voters |-> 0]]
  /\ tokens = [a \in {WalletTokens(v) : v \in Voters} \cup Forfeits \cup {depositVaultPda} |->
                 IF \E v \in Voters : a = WalletTokens(v) THEN Savings ELSE 0]
  /\ banned = {}

-----------------------------------------------------------------------------
(* openfiat-governance.                                                    *)

Move(from, to, amount) ==
  tokens' = [tokens EXCEPT ![from] = @ - amount, ![to] = @ + amount]

InitializeGovernanceConfig(ix) ==
  /\ config = NoConfig
  /\ Key(ix, 5) \notin emergency
  /\ MayWrite(ix, {3, 4, 5})
  /\ config' = [forfeit |-> ix.args[2]]
  /\ emergency' = emergency \cup {Key(ix, 5)}
  /\ UNCHANGED <<proposals, agreed, actions, records, votes, tokens, banned>>

UpdateGovernanceConfig(ix) ==
  /\ config # NoConfig
  /\ MayWrite(ix, {2})
  /\ config' = [forfeit |-> Key(ix, 4)]
  /\ UNCHANGED <<emergency, proposals, agreed, actions, records, votes, tokens, banned>>

InitializeEmergencyAuthority(ix) ==
  /\ Key(ix, 2) \notin emergency
  /\ MayWrite(ix, {2})
  /\ emergency' = emergency \cup {Key(ix, 2)}
  /\ UNCHANGED <<config, proposals, agreed, actions, records, votes, tokens, banned>>

\* An action on the ban list is filed under Standards.
CreateProposal(ix) ==
  /\ config # NoConfig
  /\ Key(ix, 2) \notin banned
  /\ proposals[Key(ix, 7)] = NoProposal
  /\ ix.args[3] # noAction => ix.args[2] = "Standards"
  /\ tokens[Key(ix, 6)] >= Deposit
  /\ MayWrite(ix, {5, 6, 7, 8})
  /\ Move(Key(ix, 6), Key(ix, 5), Deposit)
  /\ proposals' = [proposals EXCEPT ![Key(ix, 7)] =
                     [state |-> "voting", proposer |-> Key(ix, 1), category |-> ix.args[2],
                      yes |-> 0, no |-> 0, over |-> FALSE, ripe |-> FALSE,
                      executed |-> FALSE, deposit |-> "held", link |-> ZeroDigest]]
  /\ actions' = [actions EXCEPT ![Key(ix, 8)] = ix.args[3]]
  /\ UNCHANGED <<config, emergency, records, votes, banned>>

\* The record is created, which it can be once.
CastVote(ix) ==
  LET proposal == proposals[Key(ix, 3)]
      weight == StakeOf[Key(ix, 5)[2]][Key(ix, 5)[3]]
  IN
  /\ proposal.state = "voting" /\ ~proposal.over
  /\ Key(ix, 5)[2] = Key(ix, 1)
  /\ weight > 0
  /\ Key(ix, 6) \notin records
  /\ MayWrite(ix, {3, 6})
  /\ records' = records \cup {Key(ix, 6)}
  /\ proposals' = IF ix.args[1] THEN [proposals EXCEPT ![Key(ix, 3)].yes = @ + weight]
                  ELSE [proposals EXCEPT ![Key(ix, 3)].no = @ + weight]
  /\ UNCHANGED <<config, emergency, agreed, actions, tokens, banned>>

\* Quorum and thresholds are data here: a majority.
TallyAndFinalize(ix) ==
  LET proposal == proposals[Key(ix, 1)] IN
  /\ proposal.state = "voting" /\ proposal.over
  /\ MayWrite(ix, {1})
  /\ proposals' = [proposals EXCEPT ![Key(ix, 1)].state =
                     IF proposal.yes > proposal.no THEN "accepted" ELSE "rejected"]
  /\ UNCHANGED <<config, emergency, agreed, actions, records, votes, tokens, banned>>

\* Which of the two a rejected proposal meets is up to its quorum.
RefundOrForfeitDeposit(ix) ==
  /\ proposals[Key(ix, 4)].state \in {"accepted", "rejected"}
  /\ proposals[Key(ix, 4)].deposit = "held"
  /\ MayWrite(ix, {3, 4, 5, 6})
  /\ \E how \in {"refunded", "forfeited"} :
       /\ how = "forfeited" => proposals[Key(ix, 4)].state = "rejected"
       /\ Move(Key(ix, 3), Key(ix, IF how = "refunded" THEN 5 ELSE 6), Deposit)
       /\ proposals' = [proposals EXCEPT ![Key(ix, 4)].deposit = how]
  /\ UNCHANGED <<config, emergency, agreed, actions, records, votes, banned>>

\* A passed proposal of its category is executed once.
Executes(address, category) ==
  /\ proposals[address].state = "accepted"
  /\ proposals[address].category = category
  /\ ~proposals[address].executed
  /\ proposals' = [proposals EXCEPT ![address].executed = TRUE]

RecordDecision(ix, category) ==
  /\ MayWrite(ix, {1})
  /\ Executes(Key(ix, 1), category)
  /\ UNCHANGED <<config, emergency, agreed, actions, records, votes, tokens, banned>>

\* Past its timelock, and naming this wallet.
Entitled(ix, kind) ==
  /\ proposals[Key(ix, 3)].state = "accepted"
  /\ proposals[Key(ix, 3)].ripe /\ ~proposals[Key(ix, 3)].executed
  /\ actions[Key(ix, 4)].kind = kind
  /\ actions[Key(ix, 4)].wallet = ix.args[1]
  /\ MayWrite(ix, {3, 5})

ListWallet(ix) ==
  /\ Entitled(ix, "listWallet")
  /\ Key(ix, 5) \notin banned
  /\ Executes(Key(ix, 3), "Standards")
  /\ banned' = banned \cup {Key(ix, 5)}
  /\ UNCHANGED <<config, emergency, agreed, actions, records, votes, tokens>>

CanDelist(ix) == Entitled(ix, "delistWallet") /\ Key(ix, 5) \in banned

DelistWallet(ix) ==
  /\ CanDelist(ix)
  /\ Executes(Key(ix, 3), "Standards")
  /\ banned' = banned \ {Key(ix, 5)}
  /\ UNCHANGED <<config, emergency, agreed, actions, records, votes, tokens>>

\* The proposer's, while voting, once, and never the sentinel.
LinkOffchainProposal(ix) ==
  LET proposal == proposals[Key(ix, 2)] IN
  /\ proposal.state = "voting"
  /\ Key(ix, 1) = proposal.proposer
  /\ proposal.link = ZeroDigest /\ ix.args[1] # ZeroDigest
  /\ MayWrite(ix, {2})
  /\ proposals' = [proposals EXCEPT ![Key(ix, 2)].link = ix.args[1]]
  /\ UNCHANGED <<config, emergency, agreed, actions, records, votes, tokens, banned>>

EndVoting(address) ==
  /\ proposals[address].state = "voting"
  /\ ~proposals[address].over
  /\ proposals' = [proposals EXCEPT ![address].over = TRUE]
  /\ UNCHANGED <<config, emergency, agreed, actions, records, votes, tokens, banned>>

TimelockPasses(address) ==
  /\ proposals[address].state = "accepted"
  /\ ~proposals[address].ripe
  /\ proposals' = [proposals EXCEPT ![address].ripe = TRUE]
  /\ UNCHANGED <<config, emergency, agreed, actions, records, votes, tokens, banned>>

-----------------------------------------------------------------------------
(* What callers build.  The emergency authority is started by hand only on  *)
(* a deployment that has a config already.                                  *)

Lands(ix, signers, Handler(_)) == Handler(ix) /\ Signed(ix, signers)

AdminStep ==
  \/ \E destination \in Forfeits :
       \/ Lands(initializeGovernanceConfigIx(Admin, Open, destination, Deposit), {Admin},
                InitializeGovernanceConfig)
       \/ Lands(updateGovernanceConfigIx(Admin, Open, destination, Deposit), {Admin},
                UpdateGovernanceConfig)
  \/ \E payer \in Voters :
       /\ config # NoConfig
       /\ Lands(initializeEmergencyAuthorityIx(payer), {payer}, InitializeEmergencyAuthority)

ProposeStep(id, proposer) ==
  \E category \in Categories, action \in Actions :
    /\ Lands(createProposalIx(proposer, Open, WalletTokens(proposer), id, category, action),
             {proposer}, CreateProposal)
    /\ agreed' = [agreed EXCEPT ![id] = action]

VoteStep(id, voter) ==
  \E inFavor \in BOOLEAN, role \in Roles :
    /\ Lands(castVoteIx(voter, id, inFavor, role), {voter}, CastVote)
    /\ votes' = [votes EXCEPT ![id][voter] = @ + 1]

LinkStep(id, proposer) ==
  \E digest \in Digests :
    /\ CanBuildLink(digest)
    /\ Lands(linkOffchainProposalIx(proposer, id, digest), {proposer}, LinkOffchainProposal)

DelistOf(submitter, id, wallet) == delistWalletIx(submitter, id, wallet)

\* Permissionless, all of it.  The deposit goes back to the account it came
\* from, or to the config's.
AftermathStep(id) ==
  \/ Lands(tallyAndFinalizeIx(id), {}, TallyAndFinalize)
  \/ /\ proposals[proposalPda(id)] # NoProposal
     /\ Lands(refundOrForfeitDepositIx(Open, id,
                WalletTokens(proposals[proposalPda(id)].proposer), config.forfeit),
              {}, RefundOrForfeitDeposit)
  \/ Lands(updateConfigParameterIx(id, "program", "key", 1), {},
           LAMBDA ix : RecordDecision(ix, "Parameter"))
  \/ Lands(authorizeTreasurySpendIx(id, "destination", 1), {},
           LAMBDA ix : RecordDecision(ix, "Treasury"))
  \/ \E submitter, wallet \in Voters :
       \/ Lands(listWalletIx(submitter, id, wallet), {submitter}, ListWallet)
       \/ Lands(DelistOf(submitter, id, wallet), {submitter}, DelistWallet)

Next ==
  \/ AdminStep
  \/ \E id \in Proposals :
       \/ \E v \in Voters : ProposeStep(id, v) \/ VoteStep(id, v) \/ LinkStep(id, v)
       \/ AftermathStep(id)
       \/ EndVoting(proposalPda(id))
       \/ TimelockPasses(proposalPda(id))

Spec == Init /\ [][Next]_vars

-----------------------------------------------------------------------------
(* Properties.                                                             *)

\* Balances are numbers, states are known, and there is one emergency
\* authority at most, whoever starts its clock.
TypeOK ==
  /\ \A a \in DOMAIN tokens : tokens[a] \in Nat
  /\ \A a \in Addresses : proposals[a].state \in {"none", "voting", "accepted", "rejected"}
  /\ Cardinality(emergency) <= 1

Spends(id, kind, wallet) ==
  /\ agreed[id].kind = kind /\ agreed[id].wallet = wallet
  /\ proposals[proposalPda(id)].state = "accepted"
  /\ ~proposals[proposalPda(id)].executed
  /\ proposals'[proposalPda(id)].executed

BansAreSpentVotes ==
  \A wallet \in Voters :
    /\ banRecordPda(wallet) \in banned' \ banned =>
         \E id \in Proposals : Spends(id, "listWallet", wallet)
    /\ banRecordPda(wallet) \in banned \ banned' =>
         \E id \in Proposals : Spends(id, "delistWallet", wallet)

\* A wallet's exclusion spends the vote that decided it: a ban record appears
\* for exactly the wallet an accepted proposal named when it was put to the
\* vote, and disappears likewise, and that proposal can do no more.
ExclusionSpendsItsVote == [][BansAreSpentVotes]_vars

\* A wallet has one vote on a proposal, however many roles it is staked in.
OneVoteEach == \A id \in Proposals, v \in Voters : votes[id][v] <= 1

\* A refunded deposit is the proposer's and a forfeited one the treasury's,
\* and the vault holds the deposits of all the others.
DepositsGoWhereDecided ==
  /\ tokens[depositVaultPda] =
       Deposit * Cardinality({a \in Addresses :
                   proposals[a] # NoProposal /\ proposals[a].deposit = "held"})
  /\ \A v \in Voters :
       tokens[WalletTokens(v)] =
         Savings - Deposit * Cardinality({a \in Addresses :
                     /\ proposals[a] # NoProposal /\ proposals[a].proposer = v
                     /\ proposals[a].deposit # "refunded"})

\* The way back is as open as the way out: a banned wallet that a passed
\* proposal readmits can be delisted by anyone, itself included.
ReadmissionIsOpen ==
  \A id \in Proposals, wallet \in Voters :
    LET proposal == proposals[proposalPda(id)] IN
      /\ banRecordPda(wallet) \in banned
      /\ proposal.state = "accepted" /\ proposal.ripe /\ ~proposal.executed
      /\ agreed[id] = DelistWalletAction(wallet)
      => \A submitter \in Voters :
           LET ix == DelistOf(submitter, id, wallet)
           IN Signed(ix, {submitter}) /\ CanDelist(ix)
=============================================================================
