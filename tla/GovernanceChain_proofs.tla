------------------------ MODULE GovernanceChain_proofs ------------------------
(***************************************************************************)
(* Proofs about GovernanceChain, for any number of voters, roles and        *)
(* proposals: one vote each, a ban spends the vote that decided it, the way *)
(* back is open, and every deposit is accounted for.  As in                 *)
(* EscrowChain_proofs each instruction is first reduced to the addresses    *)
(* its builder lists.                                                       *)
(***************************************************************************)
EXTENDS GovernanceChain, FiniteSetTheorems, TLAPS

ActionOf(id) == proposalActionPda(proposalPda(id))
Ballot(id, v) == voteRecordPda(proposalPda(id), v)

(* There is a record for each proposal.                                    *)
RecordsExist ==
  /\ DOMAIN proposals = Addresses
  /\ \A id \in Proposals :
       proposals[proposalPda(id)].state # "none" =>
         {"state", "executed"} \subseteq DOMAIN proposals[proposalPda(id)]

(* What a proposal would do is what its voters were told.                   *)
ActionsAreAgreed ==
  /\ DOMAIN agreed = Proposals
  /\ DOMAIN actions = {proposalActionPda(a) : a \in Addresses}
  /\ \A id \in Proposals : actions[ActionOf(id)] = agreed[id]

(* A vote was counted if and only if it left its record.                    *)
BallotsAreVotes ==
  /\ DOMAIN votes = Proposals
  /\ \A id \in Proposals :
       /\ DOMAIN votes[id] = Voters
       /\ \A v \in Voters :
            votes[id][v] = IF Ballot(id, v) \in records THEN 1 ELSE 0

GovernanceInv ==
  /\ RecordsExist
  /\ ActionsAreAgreed
  /\ BallotsAreVotes

-----------------------------------------------------------------------------
(* Addresses.                                                              *)

LEMMA ProposalsAreApart ==
  ASSUME NEW i \in Proposals, NEW j \in Proposals, i # j
  PROVE  proposalPda(i) # proposalPda(j) /\ ActionOf(i) # ActionOf(j)
<1>1. u64LE(i) = i /\ u64LE(j) = j
  BY GovernanceAssumption, U64Assumption DEF u64LE
<1> QED  BY <1>1 DEF proposalPda, proposalActionPda, ActionOf

LEMMA BallotsAreApart ==
  ASSUME NEW i \in Proposals, NEW j \in Proposals, NEW v, NEW w,
         Ballot(i, v) = Ballot(j, w)
  PROVE  i = j /\ v = w
<1>1. proposalPda(i) = proposalPda(j) /\ v = w
  BY DEF Ballot, voteRecordPda
<1> QED  BY <1>1, ProposalsAreApart

LEMMA AddressesOfAProposal ==
  ASSUME NEW id \in Proposals
  PROVE  /\ proposalPda(id) \in Addresses
         /\ ActionOf(id) \in {proposalActionPda(a) : a \in Addresses}
BY DEF Addresses, ActionOf

LEMMA GovernanceStarts ==
  ASSUME Init
  PROVE  GovernanceInv
<1> USE DEF Init
<1>1. RecordsExist
  BY AddressesOfAProposal DEF RecordsExist, NoProposal
<1>2. ActionsAreAgreed
  BY AddressesOfAProposal DEF ActionsAreAgreed
<1>3. BallotsAreVotes
  BY DEF BallotsAreVotes
<1> QED  BY <1>1, <1>2, <1>3 DEF GovernanceInv

-----------------------------------------------------------------------------
(* Classes of steps.                                                       *)

(* A field of a proposal's record changes, and its state to a known one.     *)
Marks(id) ==
  \E record :
    /\ proposals' = [proposals EXCEPT ![proposalPda(id)] = record]
    /\ {"state", "executed"} \subseteq DOMAIN record

LEMMA MarksKeeps ==
  ASSUME GovernanceInv, NEW id \in Proposals, Marks(id)
  PROVE  RecordsExist'
<1>1. PICK record :
        /\ proposals' = [proposals EXCEPT ![proposalPda(id)] = record]
        /\ {"state", "executed"} \subseteq DOMAIN record
  BY DEF Marks
<1>2. /\ DOMAIN proposals' = Addresses /\ proposals'[proposalPda(id)] = record
      /\ \A j \in Proposals \ {id} : proposals'[proposalPda(j)] = proposals[proposalPda(j)]
  BY <1>1, AddressesOfAProposal, ProposalsAreApart DEF GovernanceInv, RecordsExist
<1> QED  BY <1>1, <1>2 DEF GovernanceInv, RecordsExist

LEMMA OnceProposed ==
  ASSUME GovernanceInv, NEW id \in Proposals, proposals[proposalPda(id)].state # "none"
  PROVE  {"state", "executed"} \subseteq DOMAIN proposals[proposalPda(id)]
BY DEF GovernanceInv, RecordsExist

(* Most steps touch neither actions nor ballots.                            *)
Quiet == UNCHANGED <<agreed, actions, records, votes>>

LEMMA QuietKeeps ==
  ASSUME GovernanceInv, Quiet, RecordsExist'
  PROVE  GovernanceInv'
BY DEF GovernanceInv, Quiet, ActionsAreAgreed, BallotsAreVotes

LEMMA UntouchedKeeps ==
  ASSUME GovernanceInv, Quiet, UNCHANGED proposals
  PROVE  GovernanceInv'
<1>1. RecordsExist'
  BY DEF GovernanceInv, RecordsExist
<1> QED  BY <1>1, QuietKeeps

-----------------------------------------------------------------------------
(* The steps one by one.                                                   *)

LEMMA AdminKeeps ==
  ASSUME GovernanceInv, AdminStep, UNCHANGED <<agreed, votes>>
  PROVE  GovernanceInv' /\ UNCHANGED banned
<1>1. Quiet /\ UNCHANGED <<proposals, banned>>
  BY DEF AdminStep, Lands, InitializeGovernanceConfig, UpdateGovernanceConfig,
         InitializeEmergencyAuthority, Quiet
<1> QED  BY <1>1, UntouchedKeeps

LEMMA ProposeKeeps ==
  ASSUME GovernanceInv, NEW id \in Proposals, NEW proposer, ProposeStep(id, proposer)
  PROVE  GovernanceInv' /\ UNCHANGED banned
<1>1. PICK category \in Categories, action \in Actions :
        /\ CreateProposal(createProposalIx(proposer, Open, WalletTokens(proposer), id,
                                           category, action))
        /\ agreed' = [agreed EXCEPT ![id] = action]
  BY DEF ProposeStep, Lands
<1> DEFINE ix == createProposalIx(proposer, Open, WalletTokens(proposer), id, category, action)
<1>2. Key(ix, 7) = proposalPda(id) /\ Key(ix, 8) = ActionOf(id) /\ ix.args[3] = action
  BY DEF createProposalIx, ActionOf, Key, Instruction, Payer, Writable, ReadOnly, meta
<1>3. CreateProposal(ix)
  BY <1>1
<1> HIDE DEF ix
<1>4. /\ actions' = [actions EXCEPT ![ActionOf(id)] = action]
      /\ UNCHANGED <<records, votes, banned>>
  BY <1>2, <1>3 DEF CreateProposal
<1>5. Marks(id)
  <2> DEFINE new == [state |-> "voting", proposer |-> Key(ix, 1), category |-> ix.args[2],
                     yes |-> 0, no |-> 0, over |-> FALSE, ripe |-> FALSE,
                     executed |-> FALSE, deposit |-> "held", link |-> ZeroDigest]
  <2>1. proposals' = [proposals EXCEPT ![proposalPda(id)] = new]
    BY <1>2, <1>3 DEF CreateProposal
  <2>2. {"state", "executed"} \subseteq DOMAIN new
    OBVIOUS
  <2> HIDE DEF new
  <2> QED  BY <2>1, <2>2 DEF Marks
<1>6. ActionsAreAgreed'
  <2>1. /\ DOMAIN agreed' = Proposals /\ agreed'[id] = action
        /\ \A j \in Proposals \ {id} : agreed'[j] = agreed[j]
    BY <1>1 DEF GovernanceInv, ActionsAreAgreed
  <2>2. /\ DOMAIN actions' = {proposalActionPda(a) : a \in Addresses}
        /\ actions'[ActionOf(id)] = action
        /\ \A j \in Proposals \ {id} : actions'[ActionOf(j)] = actions[ActionOf(j)]
    BY <1>4, AddressesOfAProposal, ProposalsAreApart DEF GovernanceInv, ActionsAreAgreed
  <2> QED  BY <2>1, <2>2 DEF GovernanceInv, ActionsAreAgreed
<1>7. BallotsAreVotes'
  BY <1>4 DEF GovernanceInv, BallotsAreVotes
<1> QED  BY <1>4, <1>5, <1>6, <1>7, MarksKeeps DEF GovernanceInv

(* A vote is counted where no record of one was, and leaves it.             *)
LEMMA VoteKeeps ==
  ASSUME GovernanceInv, NEW id \in Proposals, NEW voter \in Voters, VoteStep(id, voter)
  PROVE  GovernanceInv' /\ UNCHANGED banned
<1>1. PICK inFavor \in BOOLEAN, role \in Roles :
        /\ CastVote(castVoteIx(voter, id, inFavor, role))
        /\ votes' = [votes EXCEPT ![id][voter] = @ + 1]
  BY DEF VoteStep, Lands
<1> DEFINE ix == castVoteIx(voter, id, inFavor, role)
           record == proposals[proposalPda(id)]
<1>2. Key(ix, 3) = proposalPda(id) /\ Key(ix, 6) = Ballot(id, voter)
  BY DEF castVoteIx, Ballot, Key, Instruction, Payer, Writable, ReadOnly, meta
<1>3. CastVote(ix)
  BY <1>1
<1> HIDE DEF ix
<1>4. /\ record.state = "voting"
      /\ Ballot(id, voter) \notin records
      /\ records' = records \cup {Ballot(id, voter)}
      /\ UNCHANGED <<agreed, actions, banned>>
  BY <1>2, <1>3 DEF CastVote
<1>5. Marks(id)
  <2> DEFINE weight == StakeOf[Key(ix, 5)[2]][Key(ix, 5)[3]]
  <2>1. \/ proposals' = [proposals EXCEPT ![proposalPda(id)] = [record EXCEPT !.yes = @ + weight]]
        \/ proposals' = [proposals EXCEPT ![proposalPda(id)] = [record EXCEPT !.no = @ + weight]]
    BY <1>2, <1>3 DEF CastVote
  <2>2. {"state", "executed"} \subseteq DOMAIN record
    BY <1>4, OnceProposed
  <2> HIDE DEF weight
  <2> QED  BY <2>1, <2>2 DEF Marks
<1>6. ActionsAreAgreed'
  BY <1>4 DEF GovernanceInv, ActionsAreAgreed
<1>7. BallotsAreVotes'
  <2>1. votes[id][voter] = 0
    BY <1>4 DEF GovernanceInv, BallotsAreVotes
  <2>2. /\ DOMAIN votes' = Proposals
        /\ votes'[id] = [votes[id] EXCEPT ![voter] = 1]
        /\ \A j \in Proposals \ {id} : votes'[j] = votes[j]
    BY <1>1, <2>1 DEF GovernanceInv, BallotsAreVotes
  <2>3. DOMAIN votes[id] = Voters
    BY DEF GovernanceInv, BallotsAreVotes
  <2>4. \A j \in Proposals, w \in Voters :
          Ballot(j, w) \in records' <=> Ballot(j, w) \in records \/ (j = id /\ w = voter)
    BY <1>4, BallotsAreApart
  <2>5. ASSUME NEW j \in Proposals
        PROVE  /\ DOMAIN votes'[j] = Voters
               /\ \A w \in Voters : votes'[j][w] = IF Ballot(j, w) \in records' THEN 1 ELSE 0
    <3>1. CASE j = id
      BY <3>1, <2>2, <2>3, <2>4 DEF GovernanceInv, BallotsAreVotes
    <3>2. CASE j # id
      BY <3>2, <2>2, <2>4 DEF GovernanceInv, BallotsAreVotes
    <3> QED  BY <3>1, <3>2
  <2> QED  BY <2>2, <2>5 DEF BallotsAreVotes, Ballot
<1> QED  BY <1>4, <1>5, <1>6, <1>7, MarksKeeps DEF GovernanceInv

(* A field of a proposal's record is set, and nothing else.                 *)
LEMMA FieldSet ==
  ASSUME GovernanceInv, NEW id \in Proposals, NEW field, NEW value, Quiet,
         proposals[proposalPda(id)].state # "none",
         proposals' = [proposals EXCEPT ![proposalPda(id)] = [@ EXCEPT ![field] = value]]
  PROVE  GovernanceInv'
<1> DEFINE new == [proposals[proposalPda(id)] EXCEPT ![field] = value]
<1>1. proposals' = [proposals EXCEPT ![proposalPda(id)] = new]
  OBVIOUS
<1>2. {"state", "executed"} \subseteq DOMAIN new
  BY OnceProposed
<1> HIDE DEF new
<1>3. Marks(id)
  BY <1>1, <1>2 DEF Marks
<1> QED  BY <1>3, MarksKeeps, QuietKeeps

LEMMA LinkKeeps ==
  ASSUME GovernanceInv, NEW id \in Proposals, NEW proposer, LinkStep(id, proposer)
  PROVE  GovernanceInv' /\ UNCHANGED banned
<1>1. PICK digest : LinkOffchainProposal(linkOffchainProposalIx(proposer, id, digest))
  BY DEF LinkStep, Lands
<1>2. Key(linkOffchainProposalIx(proposer, id, digest), 2) = proposalPda(id)
  BY DEF linkOffchainProposalIx, Key, Instruction, Signer, Writable, meta
<1>3. PICK value :
        proposals' = [proposals EXCEPT ![proposalPda(id)] = [@ EXCEPT !["link"] = value]]
  BY <1>1, <1>2 DEF LinkOffchainProposal
<1>4. Quiet /\ UNCHANGED banned /\ proposals[proposalPda(id)].state = "voting"
  BY <1>1, <1>2 DEF LinkOffchainProposal, Quiet
<1> QED  BY <1>3, <1>4, FieldSet

LEMMA TimeKeeps ==
  ASSUME GovernanceInv, NEW id \in Proposals,
         EndVoting(proposalPda(id)) \/ TimelockPasses(proposalPda(id))
  PROVE  GovernanceInv' /\ UNCHANGED banned
<1>1. PICK field \in {"over", "ripe"} :
        proposals' = [proposals EXCEPT ![proposalPda(id)] = [@ EXCEPT ![field] = TRUE]]
  BY DEF EndVoting, TimelockPasses
<1>2. /\ Quiet /\ UNCHANGED banned
      /\ proposals[proposalPda(id)].state \in {"voting", "accepted"}
  BY DEF EndVoting, TimelockPasses, Quiet
<1> QED  BY <1>1, <1>2, FieldSet

LEMMA ExecutionKeeps ==
  ASSUME GovernanceInv, NEW id \in Proposals, NEW category, Quiet,
         Executes(proposalPda(id), category)
  PROVE  /\ GovernanceInv'
         /\ proposals[proposalPda(id)].state = "accepted"
         /\ ~proposals[proposalPda(id)].executed
         /\ proposals'[proposalPda(id)].executed
<1>1. /\ proposals[proposalPda(id)].state = "accepted"
      /\ ~proposals[proposalPda(id)].executed
      /\ proposals' = [proposals EXCEPT ![proposalPda(id)] = [@ EXCEPT !["executed"] = TRUE]]
  BY DEF Executes
<1>2. proposals'[proposalPda(id)].executed
  BY <1>1, OnceProposed, AddressesOfAProposal DEF GovernanceInv, RecordsExist
<1> QED  BY <1>1, <1>2, FieldSet

LEMMA TallyKeeps ==
  ASSUME GovernanceInv, NEW id \in Proposals, TallyAndFinalize(tallyAndFinalizeIx(id))
  PROVE  GovernanceInv' /\ UNCHANGED banned
<1>1. Key(tallyAndFinalizeIx(id), 1) = proposalPda(id)
  BY DEF tallyAndFinalizeIx, Key, Instruction, Writable, meta
<1>2. PICK value :
        proposals' = [proposals EXCEPT ![proposalPda(id)] = [@ EXCEPT !["state"] = value]]
  BY <1>1 DEF TallyAndFinalize
<1>3. Quiet /\ UNCHANGED banned /\ proposals[proposalPda(id)].state = "voting"
  BY <1>1 DEF TallyAndFinalize, Quiet
<1> QED  BY <1>2, <1>3, FieldSet

LEMMA RefundKeeps ==
  ASSUME GovernanceInv, NEW id \in Proposals, NEW to, NEW forfeit,
         RefundOrForfeitDeposit(refundOrForfeitDepositIx(Open, id, to, forfeit))
  PROVE  GovernanceInv' /\ UNCHANGED banned
<1>1. Key(refundOrForfeitDepositIx(Open, id, to, forfeit), 4) = proposalPda(id)
  BY DEF refundOrForfeitDepositIx, Key, Instruction, Writable, ReadOnly, meta
<1>2. PICK how \in {"refunded", "forfeited"} :
        proposals' = [proposals EXCEPT ![proposalPda(id)] = [@ EXCEPT !["deposit"] = how]]
  BY <1>1 DEF RefundOrForfeitDeposit
<1>3. /\ Quiet /\ UNCHANGED banned
      /\ proposals[proposalPda(id)].state \in {"accepted", "rejected"}
  BY <1>1 DEF RefundOrForfeitDeposit, Quiet
<1> QED  BY <1>2, <1>3, FieldSet

LEMMA DecisionKeeps ==
  ASSUME GovernanceInv, NEW id \in Proposals, NEW ix, NEW category,
         Key(ix, 1) = proposalPda(id), RecordDecision(ix, category)
  PROVE  GovernanceInv' /\ UNCHANGED banned
<1>1. Quiet /\ UNCHANGED banned /\ Executes(proposalPda(id), category)
  BY DEF RecordDecision, Quiet
<1> QED  BY <1>1, ExecutionKeeps

LEMMA ListEffect ==
  ASSUME GovernanceInv, NEW id \in Proposals, NEW submitter, NEW wallet,
         ListWallet(listWalletIx(submitter, id, wallet))
  PROVE  /\ GovernanceInv' /\ Spends(id, "listWallet", wallet)
         /\ banned' = banned \cup {banRecordPda(wallet)}
<1> DEFINE ix == listWalletIx(submitter, id, wallet)
<1>1. /\ Key(ix, 3) = proposalPda(id) /\ Key(ix, 4) = ActionOf(id)
      /\ Key(ix, 5) = banRecordPda(wallet) /\ ix.args[1] = wallet
  BY DEF listWalletIx, ActionOf, Key, Instruction, Payer, Writable, ReadOnly, meta
<1>2. ListWallet(ix)
  OBVIOUS
<1> HIDE DEF ix
<1>3. /\ Quiet /\ Executes(proposalPda(id), "Standards")
      /\ banned' = banned \cup {banRecordPda(wallet)}
      /\ actions[ActionOf(id)].kind = "listWallet" /\ actions[ActionOf(id)].wallet = wallet
  BY <1>1, <1>2 DEF ListWallet, Entitled, Quiet
<1>4. agreed[id].kind = "listWallet" /\ agreed[id].wallet = wallet
  BY <1>3 DEF GovernanceInv, ActionsAreAgreed
<1> QED  BY <1>3, <1>4, ExecutionKeeps DEF Spends

LEMMA DelistEffect ==
  ASSUME GovernanceInv, NEW id \in Proposals, NEW submitter, NEW wallet,
         DelistWallet(DelistOf(submitter, id, wallet))
  PROVE  /\ GovernanceInv' /\ Spends(id, "delistWallet", wallet)
         /\ banned' = banned \ {banRecordPda(wallet)}
<1> DEFINE ix == DelistOf(submitter, id, wallet)
<1>1. /\ Key(ix, 3) = proposalPda(id) /\ Key(ix, 4) = ActionOf(id)
      /\ Key(ix, 5) = banRecordPda(wallet) /\ ix.args[1] = wallet
  BY DEF DelistOf, delistWalletIx, ActionOf, Key, Instruction, Payer, Writable, ReadOnly, meta
<1>2. DelistWallet(ix)
  OBVIOUS
<1> HIDE DEF ix
<1>3. /\ Quiet /\ Executes(proposalPda(id), "Standards")
      /\ banned' = banned \ {banRecordPda(wallet)}
      /\ actions[ActionOf(id)].kind = "delistWallet" /\ actions[ActionOf(id)].wallet = wallet
  BY <1>1, <1>2 DEF DelistWallet, CanDelist, Entitled, Quiet
<1>4. agreed[id].kind = "delistWallet" /\ agreed[id].wallet = wallet
  BY <1>3 DEF GovernanceInv, ActionsAreAgreed
<1> QED  BY <1>3, <1>4, ExecutionKeeps DEF Spends

(* Every step, and what it does to the ban list.                            *)
LEMMA GovernanceStep ==
  ASSUME GovernanceInv, [Next]_vars
  PROVE  /\ GovernanceInv'
         /\ \/ UNCHANGED banned
            \/ \E id \in Proposals, wallet \in Voters :
                 /\ Spends(id, "listWallet", wallet)
                 /\ banned' = banned \cup {banRecordPda(wallet)}
            \/ \E id \in Proposals, wallet \in Voters :
                 /\ Spends(id, "delistWallet", wallet)
                 /\ banned' = banned \ {banRecordPda(wallet)}
<1>1. CASE AdminStep
  <2>1. UNCHANGED <<agreed, votes>>
    BY <1>1 DEF AdminStep, Lands, InitializeGovernanceConfig, UpdateGovernanceConfig,
                InitializeEmergencyAuthority
  <2> QED  BY <1>1, <2>1, AdminKeeps
<1>2. ASSUME NEW id \in Proposals, AftermathStep(id)
      PROVE  \/ GovernanceInv' /\ UNCHANGED banned
             \/ \E submitter \in Voters, wallet \in Voters :
                  \/ ListWallet(listWalletIx(submitter, id, wallet))
                  \/ DelistWallet(DelistOf(submitter, id, wallet))
  <2>1. CASE Lands(tallyAndFinalizeIx(id), {}, TallyAndFinalize)
    BY <2>1, TallyKeeps DEF Lands
  <2>2. CASE RefundOrForfeitDeposit(refundOrForfeitDepositIx(Open, id,
               WalletTokens(proposals[proposalPda(id)].proposer), config.forfeit))
    BY <2>2, RefundKeeps
  <2>3. CASE RecordDecision(updateConfigParameterIx(id, "program", "key", 1), "Parameter")
    <3>1. Key(updateConfigParameterIx(id, "program", "key", 1), 1) = proposalPda(id)
      BY DEF updateConfigParameterIx, Key, Instruction, Writable, meta
    <3> QED  BY <2>3, <3>1, DecisionKeeps
  <2>4. CASE RecordDecision(authorizeTreasurySpendIx(id, "destination", 1), "Treasury")
    <3>1. Key(authorizeTreasurySpendIx(id, "destination", 1), 1) = proposalPda(id)
      BY DEF authorizeTreasurySpendIx, Key, Instruction, Writable, meta
    <3> QED  BY <2>4, <3>1, DecisionKeeps
  <2> QED  BY <1>2, <2>1, <2>2, <2>3, <2>4 DEF AftermathStep, Lands
<1>3. CASE UNCHANGED vars
  BY <1>3, UntouchedKeeps DEF vars, Quiet
<1> QED
  BY <1>1, <1>2, <1>3, ProposeKeeps, VoteKeeps, LinkKeeps, TimeKeeps, ListEffect, DelistEffect
  DEF Next

(* What votes, actions and records say of a proposal agrees, whatever lands.  *)
THEOREM RecordsAgree == Spec => []GovernanceInv
<1>1. Init => GovernanceInv
  BY GovernanceStarts
<1>2. GovernanceInv /\ [Next]_vars => GovernanceInv'
  BY GovernanceStep
<1> QED  BY <1>1, <1>2, PTL DEF Spec

(* A wallet has one vote on a proposal, for any number of roles it is staked *)
(* in.                                                                     *)
THEOREM VotesCountOnce == Spec => []OneVoteEach
<1>1. GovernanceInv => OneVoteEach
  BY DEF GovernanceInv, BallotsAreVotes, OneVoteEach
<1> QED  BY <1>1, RecordsAgree, PTL

(* A ban record comes and goes only with the vote that decided it, which is  *)
(* spent in the same step.                                                 *)
THEOREM BansAreVoted == Spec => ExclusionSpendsItsVote
<1>1. GovernanceInv /\ [Next]_vars => BansAreSpentVotes
  <2>1. \A v, w : banRecordPda(v) = banRecordPda(w) => v = w
    BY DEF banRecordPda
  <2> QED  BY <2>1, GovernanceStep DEF BansAreSpentVotes
<1> QED  BY <1>1, RecordsAgree, PTL DEF Spec, ExclusionSpendsItsVote

(* Anyone can carry out a readmission that was voted and is due.            *)
THEOREM ReadmissionStaysOpen == Spec => []ReadmissionIsOpen
<1>1. GovernanceInv => ReadmissionIsOpen
  <2>1. SUFFICES ASSUME GovernanceInv, NEW id \in Proposals, NEW wallet \in Voters,
                        banRecordPda(wallet) \in banned,
                        proposals[proposalPda(id)].state = "accepted",
                        proposals[proposalPda(id)].ripe, ~proposals[proposalPda(id)].executed,
                        agreed[id] = DelistWalletAction(wallet),
                        NEW submitter \in Voters
                 PROVE  /\ Signed(DelistOf(submitter, id, wallet), {submitter})
                        /\ CanDelist(DelistOf(submitter, id, wallet))
    BY DEF ReadmissionIsOpen
  <2> DEFINE ix == DelistOf(submitter, id, wallet)
  <2>2. /\ Key(ix, 3) = proposalPda(id) /\ Key(ix, 4) = ActionOf(id)
        /\ Key(ix, 5) = banRecordPda(wallet) /\ ix.args[1] = wallet
        /\ MayWrite(ix, {3, 5}) /\ Signed(ix, {submitter})
    BY DEF DelistOf, delistWalletIx, ActionOf, Key, Instruction, Payer, Writable, ReadOnly, meta,
           MayWrite, Signed
  <2> HIDE DEF ix
  <2>3. actions[ActionOf(id)].kind = "delistWallet" /\ actions[ActionOf(id)].wallet = wallet
    BY <2>1 DEF GovernanceInv, ActionsAreAgreed, DelistWalletAction
  <2>4. CanDelist(ix)
    BY <2>1, <2>2, <2>3 DEF CanDelist, Entitled
  <2> QED  BY <2>2, <2>4 DEF ix
<1> QED  BY <1>1, RecordsAgree, PTL

-----------------------------------------------------------------------------
(* Deposits.  A record has all its fields or is none; the config names a     *)
(* forfeit destination before there is anything to forfeit.                 *)

Full(record) ==
  /\ {"state", "proposer", "deposit", "executed"} \subseteq DOMAIN record
  /\ record.state \in {"voting", "accepted", "rejected"}
  /\ record.proposer \in Voters
  /\ record.deposit \in {"held", "refunded", "forfeited"}

RecordsAreFull ==
  /\ DOMAIN proposals = Addresses
  /\ \A a \in Addresses : proposals[a] = NoProposal \/ Full(proposals[a])

ForfeitIsKnown ==
  /\ config = NoConfig \/ config.forfeit \in Forfeits
  /\ (\E a \in Addresses : proposals[a] # NoProposal) => config.forfeit \in Forfeits

TokensAreNumbers ==
  tokens \in [{WalletTokens(v) : v \in Voters} \cup Forfeits \cup {depositVaultPda} -> Nat]

Held == {a \in Addresses : proposals[a] # NoProposal /\ proposals[a].deposit = "held"}
Owed(v) ==
  {a \in Addresses : /\ proposals[a] # NoProposal /\ proposals[a].proposer = v
                     /\ proposals[a].deposit # "refunded"}

DepositInv ==
  /\ RecordsAreFull
  /\ ForfeitIsKnown
  /\ TokensAreNumbers
  /\ emergency \subseteq {emergencyAuthorityPda}
  /\ DepositsGoWhereDecided

-----------------------------------------------------------------------------
LEMMA FullIsSomething ==
  ASSUME NEW record, Full(record)
  PROVE  record # NoProposal /\ record.state # "none"
BY DEF Full, NoProposal

LEMMA AddressesAreFinite == IsFiniteSet(Addresses)
<1> DEFINE f == [id \in Proposals |-> proposalPda(id)]
<1>1. f \in Surjection(Proposals, Addresses)
  BY DEF Surjection, Addresses
<1> QED  BY <1>1, FS_Surjection, GovernanceAssumption

LEMMA DepositSetsAreFinite == IsFiniteSet(Held) /\ \A v : IsFiniteSet(Owed(v))
BY AddressesAreFinite, FS_Subset DEF Held, Owed

LEMMA OneLess ==
  ASSUME NEW S, IsFiniteSet(S), NEW x \in S
  PROVE  Cardinality(S) = Cardinality(S \ {x}) + 1 /\ Cardinality(S \ {x}) \in Nat
<1>1. Cardinality(S \ {x}) = Cardinality(S) - 1 /\ IsFiniteSet(S \ {x})
  BY FS_RemoveElement
<1>2. Cardinality(S) \in Nat /\ Cardinality(S \ {x}) \in Nat
  BY <1>1, FS_CardinalityType
<1> QED  BY <1>1, <1>2

(* Accounts are apart.                                                     *)
LEMMA AccountsAreApart ==
  /\ \A v \in Voters : WalletTokens(v) # depositVaultPda /\ WalletTokens(v) \notin Forfeits
  /\ \A v, w : WalletTokens(v) = WalletTokens(w) => v = w
  /\ depositVaultPda \notin Forfeits
<1>1. \A v, w : WalletTokens(v) = WalletTokens(w) => v = w
  BY DEF WalletTokens
<1>2. \A v : WalletTokens(v) # depositVaultPda
  BY DEF WalletTokens, depositVaultPda
<1> QED  BY <1>1, <1>2, GovernanceAssumption

LEMMA DepositsStart == Init => DepositInv
<1> SUFFICES ASSUME Init PROVE DepositInv
  OBVIOUS
<1>1. RecordsAreFull /\ Held = {} /\ \A v : Owed(v) = {}
  BY DEF Init, RecordsAreFull, Held, Owed
<1>2. ForfeitIsKnown
  BY DEF Init, ForfeitIsKnown
<1>3. /\ TokensAreNumbers /\ tokens[depositVaultPda] = 0
      /\ \A v \in Voters : tokens[WalletTokens(v)] = Savings
  BY AccountsAreApart, GovernanceAssumption DEF Init, TokensAreNumbers
<1>4. Deposit \in Nat /\ Savings \in Nat
  BY GovernanceAssumption, U64Assumption
<1>5. DepositsGoWhereDecided
  <2>1. Cardinality(Held) = 0 /\ \A v : Cardinality(Owed(v)) = 0
    BY <1>1, FS_EmptySet
  <2>2. /\ tokens[depositVaultPda] = Deposit * Cardinality(Held)
        /\ \A v \in Voters : tokens[WalletTokens(v)] = Savings - Deposit * Cardinality(Owed(v))
    BY <2>1, <1>3, <1>4
  <2> QED  BY <2>2 DEF DepositsGoWhereDecided, Held, Owed
<1> QED  BY <1>1, <1>2, <1>3, <1>5 DEF Init, DepositInv

-----------------------------------------------------------------------------
(* A step that leaves every record its proposer and what became of the       *)
(* deposit.                                                                *)
SameDeposits ==
  /\ DOMAIN proposals' = Addresses
  /\ \A a \in Addresses :
       \/ proposals[a] = NoProposal /\ proposals'[a] = NoProposal
       \/ /\ Full(proposals[a]) /\ Full(proposals'[a])
          /\ proposals'[a].proposer = proposals[a].proposer
          /\ proposals'[a].deposit = proposals[a].deposit

LEMMA SameDepositsKeep ==
  ASSUME DepositInv, SameDeposits, UNCHANGED tokens
  PROVE  RecordsAreFull' /\ TokensAreNumbers' /\ DepositsGoWhereDecided'
<1>1. RecordsAreFull'
  BY DEF SameDeposits, RecordsAreFull
<1>2. \A a \in Addresses : proposals'[a] # NoProposal <=> proposals[a] # NoProposal
  BY FullIsSomething DEF SameDeposits
<1>3. Held' = Held
  BY <1>2 DEF SameDeposits, Held
<1>4. \A v : Owed(v)' = Owed(v)
  BY <1>2 DEF SameDeposits, Owed
<1>5. DepositsGoWhereDecided'
  BY <1>3, <1>4 DEF DepositInv, DepositsGoWhereDecided, Held, Owed
<1> QED  BY <1>1, <1>5 DEF DepositInv, TokensAreNumbers

(* One of the other fields is set, or a state that a decision leads to.      *)
LEMMA FieldIsNoDeposit ==
  ASSUME DepositInv, NEW a \in Addresses, proposals[a] # NoProposal, NEW field, NEW value,
         field \in {"yes", "no", "over", "ripe", "executed", "link"}
           \/ (field = "state" /\ value \in {"accepted", "rejected"}),
         proposals' = [proposals EXCEPT ![a] = [@ EXCEPT ![field] = value]]
  PROVE  SameDeposits
<1>1. Full(proposals[a])
  BY DEF DepositInv, RecordsAreFull
<1>2. /\ Full([proposals[a] EXCEPT ![field] = value])
      /\ [proposals[a] EXCEPT ![field] = value].proposer = proposals[a].proposer
      /\ [proposals[a] EXCEPT ![field] = value].deposit = proposals[a].deposit
  BY <1>1 DEF Full
<1> DEFINE new == [proposals[a] EXCEPT ![field] = value]
<1>3. proposals' = [proposals EXCEPT ![a] = new]
  OBVIOUS
<1> HIDE DEF new
<1>4. DOMAIN proposals' = Addresses /\ proposals'[a] = new
      /\ \A b \in Addresses \ {a} : proposals'[b] = proposals[b]
  BY <1>3 DEF DepositInv, RecordsAreFull
<1> QED  BY <1>1, <1>2, <1>4 DEF SameDeposits, DepositInv, RecordsAreFull, new

(* A deposit is paid in.                                                   *)
PaysIn(id, v) ==
  /\ proposals[proposalPda(id)] = NoProposal
  /\ \E record :
       /\ Full(record) /\ record.proposer = v /\ record.deposit = "held"
       /\ proposals' = [proposals EXCEPT ![proposalPda(id)] = record]
  /\ tokens[WalletTokens(v)] >= Deposit
  /\ Move(WalletTokens(v), depositVaultPda, Deposit)

LEMMA OneMore ==
  ASSUME NEW n \in Nat
  PROVE  Deposit * (n + 1) = Deposit * n + Deposit /\ Deposit \in Nat /\ Deposit * n \in Nat
<1>1. Deposit \in Nat
  BY GovernanceAssumption, U64Assumption
<1> QED  BY <1>1

LEMMA PaysInKeeps ==
  ASSUME DepositInv, NEW id \in Proposals, NEW v \in Voters, PaysIn(id, v)
  PROVE  RecordsAreFull' /\ TokensAreNumbers' /\ DepositsGoWhereDecided'
<1> DEFINE a == proposalPda(id)
<1>1. PICK record :
        /\ Full(record) /\ record.proposer = v /\ record.deposit = "held"
        /\ proposals' = [proposals EXCEPT ![a] = record]
  BY DEF PaysIn
<1>2. a \in Addresses /\ proposals[a] = NoProposal
  BY AddressesOfAProposal DEF PaysIn
<1> HIDE DEF a
<1>3. /\ DOMAIN proposals' = Addresses /\ proposals'[a] = record
      /\ \A b \in Addresses \ {a} : proposals'[b] = proposals[b]
  BY <1>1, <1>2 DEF DepositInv, RecordsAreFull
<1>4. RecordsAreFull'
  BY <1>1, <1>3 DEF DepositInv, RecordsAreFull
<1>5. record # NoProposal
  BY <1>1, FullIsSomething
<1>6. Held' = Held \cup {a} /\ a \notin Held
  BY <1>1, <1>2, <1>3, <1>5 DEF Held
<1>7. Owed(v)' = Owed(v) \cup {a} /\ a \notin Owed(v)
  BY <1>1, <1>2, <1>3, <1>5 DEF Owed
<1>8. \A w \in Voters \ {v} : Owed(w)' = Owed(w)
  BY <1>1, <1>2, <1>3 DEF Owed
<1>9. /\ Cardinality(Held') = Cardinality(Held) + 1 /\ Cardinality(Held) \in Nat
      /\ Cardinality(Owed(v)') = Cardinality(Owed(v)) + 1 /\ Cardinality(Owed(v)) \in Nat
  BY <1>6, <1>7, DepositSetsAreFinite, FS_AddElement, FS_CardinalityType
<1>10. /\ TokensAreNumbers'
       /\ tokens'[depositVaultPda] = tokens[depositVaultPda] + Deposit
       /\ tokens'[WalletTokens(v)] = tokens[WalletTokens(v)] - Deposit
       /\ \A w \in Voters \ {v} : tokens'[WalletTokens(w)] = tokens[WalletTokens(w)]
  BY AccountsAreApart, GovernanceAssumption, U64Assumption
  DEF PaysIn, Move, DepositInv, TokensAreNumbers
<1>11. /\ tokens[depositVaultPda] = Deposit * Cardinality(Held)
       /\ \A w \in Voters : tokens[WalletTokens(w)] = Savings - Deposit * Cardinality(Owed(w))
  BY DEF DepositInv, DepositsGoWhereDecided, Held, Owed
<1>12. tokens'[depositVaultPda] = Deposit * Cardinality(Held')
  BY <1>9, <1>10, <1>11, OneMore
<1>13. tokens'[WalletTokens(v)] = Savings - Deposit * Cardinality(Owed(v)')
  <2>1. Savings \in Nat
    BY GovernanceAssumption
  <2>2. /\ Deposit * Cardinality(Owed(v)') = Deposit * Cardinality(Owed(v)) + Deposit
        /\ Deposit \in Nat /\ Deposit * Cardinality(Owed(v)) \in Nat
    BY <1>9, OneMore
  <2> QED  BY <1>10, <1>11, <2>1, <2>2
<1>14. DepositsGoWhereDecided'
  BY <1>8, <1>10, <1>11, <1>12, <1>13 DEF DepositsGoWhereDecided, Held, Owed
<1> QED  BY <1>4, <1>10, <1>14

(* A deposit goes back, or is forfeited.                                   *)
Settles(id) ==
  LET record == proposals[proposalPda(id)] IN
  /\ record # NoProposal /\ record.deposit = "held"
  /\ \E how \in {"refunded", "forfeited"} :
       /\ Move(depositVaultPda,
               IF how = "refunded" THEN WalletTokens(record.proposer) ELSE config.forfeit,
               Deposit)
       /\ proposals' = [proposals EXCEPT ![proposalPda(id)] = [@ EXCEPT !["deposit"] = how]]

LEMMA SettlesKeeps ==
  ASSUME DepositInv, NEW id \in Proposals, Settles(id)
  PROVE  RecordsAreFull' /\ TokensAreNumbers' /\ DepositsGoWhereDecided'
<1> DEFINE a == proposalPda(id)
           record == proposals[a]
<1>0. /\ a \in Addresses /\ record # NoProposal /\ record.deposit = "held"
      /\ Full(record) /\ record.proposer \in Voters /\ config.forfeit \in Forfeits
  BY AddressesOfAProposal DEF Settles, DepositInv, RecordsAreFull, ForfeitIsKnown, Full
<1>1. PICK how \in {"refunded", "forfeited"}, v \in Voters :
        /\ v = record.proposer
        /\ Move(depositVaultPda, IF how = "refunded" THEN WalletTokens(v) ELSE config.forfeit,
                Deposit)
        /\ proposals' = [proposals EXCEPT ![a] = [@ EXCEPT !["deposit"] = how]]
  BY <1>0 DEF Settles
<1>2. /\ a \in Addresses /\ record # NoProposal /\ record.deposit = "held"
      /\ Full(record) /\ v \in Voters /\ config.forfeit \in Forfeits
  BY <1>0, <1>1
<1> HIDE DEF a
<1>3. /\ DOMAIN proposals' = Addresses
      /\ proposals'[a] = [record EXCEPT !["deposit"] = how]
      /\ \A b \in Addresses \ {a} : proposals'[b] = proposals[b]
  BY <1>1, <1>2 DEF DepositInv, RecordsAreFull
<1>4. Full(proposals'[a]) /\ proposals'[a].proposer = v /\ proposals'[a].deposit = how
  BY <1>1, <1>2, <1>3 DEF Full
<1>5. proposals'[a] # NoProposal
  BY <1>4, FullIsSomething
<1>6. RecordsAreFull'
  BY <1>3, <1>4 DEF DepositInv, RecordsAreFull
<1>7. Held' = Held \ {a} /\ a \in Held
  BY <1>2, <1>3, <1>4, <1>5 DEF Held
<1>8. /\ how = "refunded" => Owed(v)' = Owed(v) \ {a}
      /\ how = "forfeited" => Owed(v)' = Owed(v)
      /\ a \in Owed(v)
  BY <1>1, <1>2, <1>3, <1>4, <1>5 DEF Owed
<1>9. \A w \in Voters \ {v} : Owed(w)' = Owed(w)
  BY <1>1, <1>2, <1>3, <1>4 DEF Owed
<1>10. /\ Cardinality(Held) = Cardinality(Held') + 1 /\ Cardinality(Held') \in Nat
       /\ how = "refunded" => Cardinality(Owed(v)) = Cardinality(Owed(v)') + 1
                              /\ Cardinality(Owed(v)') \in Nat
  <2>1. IsFiniteSet(Held) /\ IsFiniteSet(Owed(v))
    BY DepositSetsAreFinite
  <2>2. Cardinality(Held) = Cardinality(Held') + 1 /\ Cardinality(Held') \in Nat
    BY <1>7, <2>1, OneLess
  <2>3. /\ Cardinality(Owed(v)) = Cardinality(Owed(v) \ {a}) + 1
        /\ Cardinality(Owed(v) \ {a}) \in Nat
    BY <1>8, <2>1, OneLess
  <2> QED  BY <1>8, <2>2, <2>3
<1>11. /\ tokens[depositVaultPda] = Deposit * Cardinality(Held)
       /\ \A w \in Voters : tokens[WalletTokens(w)] = Savings - Deposit * Cardinality(Owed(w))
  BY DEF DepositInv, DepositsGoWhereDecided, Held, Owed
<1>12. /\ tokens[depositVaultPda] = Deposit * Cardinality(Held') + Deposit
       /\ tokens[depositVaultPda] >= Deposit
       /\ Deposit \in Nat /\ Deposit * Cardinality(Held') \in Nat
  BY <1>10, <1>11, OneMore
<1>13. /\ TokensAreNumbers'
       /\ tokens'[depositVaultPda] = tokens[depositVaultPda] - Deposit
       /\ how = "refunded" => tokens'[WalletTokens(v)] = tokens[WalletTokens(v)] + Deposit
       /\ how = "forfeited" => tokens'[WalletTokens(v)] = tokens[WalletTokens(v)]
       /\ \A w \in Voters \ {v} : tokens'[WalletTokens(w)] = tokens[WalletTokens(w)]
  <2>1. CASE how = "refunded"
    BY <2>1, <1>1, <1>2, <1>12, AccountsAreApart DEF Move, DepositInv, TokensAreNumbers
  <2>2. CASE how = "forfeited"
    BY <2>2, <1>1, <1>2, <1>12, AccountsAreApart DEF Move, DepositInv, TokensAreNumbers
  <2> QED  BY <2>1, <2>2
<1>14. tokens'[depositVaultPda] = Deposit * Cardinality(Held')
  BY <1>12, <1>13
<1>15. tokens'[WalletTokens(v)] = Savings - Deposit * Cardinality(Owed(v)')
  <2>1. Savings \in Nat
    BY GovernanceAssumption
  <2>2. CASE how = "refunded"
    <3>1. /\ Deposit * Cardinality(Owed(v)) = Deposit * Cardinality(Owed(v)') + Deposit
          /\ Deposit * Cardinality(Owed(v)') \in Nat
      BY <2>2, <1>10, OneMore
    <3> QED  BY <2>1, <2>2, <3>1, <1>2, <1>11, <1>12, <1>13
  <2>3. CASE how = "forfeited"
    BY <2>3, <1>2, <1>8, <1>11, <1>13
  <2> QED  BY <2>2, <2>3
<1>16. DepositsGoWhereDecided'
  <2>1. ASSUME NEW w \in Voters
        PROVE  tokens'[WalletTokens(w)] = Savings - Deposit * Cardinality(Owed(w)')
    <3>1. CASE w = v
      BY <3>1, <1>15
    <3>2. CASE w # v
      <4>1. Owed(w)' = Owed(w) /\ tokens'[WalletTokens(w)] = tokens[WalletTokens(w)]
        BY <3>2, <1>9, <1>13
      <4> QED  BY <4>1, <1>11
    <3> QED  BY <3>1, <3>2
  <2> QED  BY <1>14, <2>1 DEF DepositsGoWhereDecided, Held, Owed
<1> QED  BY <1>6, <1>13, <1>16

-----------------------------------------------------------------------------
(* The steps, by what they do to deposits.                                  *)

LEMMA AdminMovesNoDeposit ==
  ASSUME DepositInv, AdminStep
  PROVE  /\ ForfeitIsKnown' /\ emergency' \subseteq {emergencyAuthorityPda}
         /\ UNCHANGED <<proposals, tokens>>
<1>1. UNCHANGED <<proposals, tokens>>
  BY DEF AdminStep, Lands, InitializeGovernanceConfig, UpdateGovernanceConfig,
         InitializeEmergencyAuthority
<1>2. emergency' \subseteq {emergencyAuthorityPda} /\ (config' = config \/ config'.forfeit \in Forfeits)
  <2>1. ASSUME NEW destination \in Forfeits,
               InitializeGovernanceConfig(
                 initializeGovernanceConfigIx(Admin, Open, destination, Deposit))
        PROVE  /\ emergency' \subseteq {emergencyAuthorityPda}
               /\ config'.forfeit \in Forfeits
    BY <2>1
    DEF InitializeGovernanceConfig, initializeGovernanceConfigIx, Key, Instruction, Payer,
        Writable, ReadOnly, meta, DepositInv
  <2>2. ASSUME NEW destination \in Forfeits,
               UpdateGovernanceConfig(
                 updateGovernanceConfigIx(Admin, Open, destination, Deposit))
        PROVE  emergency' = emergency /\ config'.forfeit \in Forfeits
    BY <2>2
    DEF UpdateGovernanceConfig, updateGovernanceConfigIx, Key, Instruction, Signer,
        Writable, ReadOnly, meta
  <2>3. ASSUME NEW payer \in Voters,
               InitializeEmergencyAuthority(initializeEmergencyAuthorityIx(payer))
        PROVE  emergency' \subseteq {emergencyAuthorityPda} /\ config' = config
    BY <2>3
    DEF InitializeEmergencyAuthority, initializeEmergencyAuthorityIx, Key, Instruction,
        Payer, Writable, ReadOnly, meta, DepositInv
  <2> QED  BY <2>1, <2>2, <2>3 DEF AdminStep, Lands, DepositInv
<1> QED  BY <1>1, <1>2 DEF ForfeitIsKnown, DepositInv

LEMMA ProposalPaysIn ==
  ASSUME DepositInv, NEW id \in Proposals, NEW v \in Voters, ProposeStep(id, v)
  PROVE  PaysIn(id, v) /\ UNCHANGED <<config, emergency>> /\ config # NoConfig
<1>1. PICK category \in Categories, action \in Actions :
        CreateProposal(createProposalIx(v, Open, WalletTokens(v), id, category, action))
  BY DEF ProposeStep, Lands
<1> DEFINE ix == createProposalIx(v, Open, WalletTokens(v), id, category, action)
<1>2. /\ Key(ix, 1) = v /\ Key(ix, 5) = depositVaultPda /\ Key(ix, 6) = WalletTokens(v)
      /\ Key(ix, 7) = proposalPda(id)
  BY DEF createProposalIx, Key, Instruction, Payer, Writable, ReadOnly, meta
<1>3. CreateProposal(ix)
  BY <1>1
<1> HIDE DEF ix
<1>4. /\ config # NoConfig /\ UNCHANGED <<config, emergency>>
      /\ proposals[proposalPda(id)] = NoProposal
      /\ tokens[WalletTokens(v)] >= Deposit
      /\ Move(WalletTokens(v), depositVaultPda, Deposit)
  BY <1>2, <1>3 DEF CreateProposal
<1> DEFINE new == [state |-> "voting", proposer |-> v, category |-> ix.args[2],
                   yes |-> 0, no |-> 0, over |-> FALSE, ripe |-> FALSE,
                   executed |-> FALSE, deposit |-> "held", link |-> ZeroDigest]
<1>5. proposals' = [proposals EXCEPT ![proposalPda(id)] = new]
  BY <1>2, <1>3 DEF CreateProposal
<1>6. Full(new) /\ new.proposer = v /\ new.deposit = "held"
  BY DEF Full
<1> HIDE DEF new
<1> QED  BY <1>4, <1>5, <1>6 DEF PaysIn

(* Every other step but one sets a field that is none of the deposit's.      *)
SetsAField(id) ==
  /\ proposals[proposalPda(id)] # NoProposal
  /\ \E value : \E field \in {"yes", "no", "over", "ripe", "executed", "link", "state"} :
       /\ field = "state" => value \in {"accepted", "rejected"}
       /\ proposals' = [proposals EXCEPT ![proposalPda(id)] = [@ EXCEPT ![field] = value]]
  /\ UNCHANGED <<tokens, config, emergency>>

LEMMA SetsAFieldKeeps ==
  ASSUME DepositInv, NEW id \in Proposals, SetsAField(id)
  PROVE  SameDeposits
<1>0. PICK value : \E field \in {"yes", "no", "over", "ripe", "executed", "link", "state"} :
        /\ field = "state" => value \in {"accepted", "rejected"}
        /\ proposals' = [proposals EXCEPT ![proposalPda(id)] = [@ EXCEPT ![field] = value]]
  BY DEF SetsAField
<1>1. PICK field \in {"yes", "no", "over", "ripe", "executed", "link", "state"} :
        /\ field = "state" => value \in {"accepted", "rejected"}
        /\ proposals' = [proposals EXCEPT ![proposalPda(id)] = [@ EXCEPT ![field] = value]]
  BY <1>0
<1>2. proposalPda(id) \in Addresses /\ proposals[proposalPda(id)] # NoProposal
  BY AddressesOfAProposal DEF SetsAField
<1> QED  BY <1>1, <1>2, FieldIsNoDeposit

LEMMA VoteSetsAField ==
  ASSUME NEW id \in Proposals, NEW v \in Voters, VoteStep(id, v)
  PROVE  SetsAField(id)
<1>1. PICK inFavor \in BOOLEAN, role \in Roles : CastVote(castVoteIx(v, id, inFavor, role))
  BY DEF VoteStep, Lands
<1> DEFINE ix == castVoteIx(v, id, inFavor, role)
           record == proposals[proposalPda(id)]
<1>2. Key(ix, 3) = proposalPda(id)
  BY DEF castVoteIx, Key, Instruction, Payer, Writable, ReadOnly, meta
<1>3. CastVote(ix)
  BY <1>1
<1> HIDE DEF ix
<1> DEFINE weight == StakeOf[Key(ix, 5)[2]][Key(ix, 5)[3]]
<1>4. /\ record.state = "voting" /\ UNCHANGED <<tokens, config, emergency>>
      /\ \/ proposals' = [proposals EXCEPT ![proposalPda(id)] =
                            [@ EXCEPT !["yes"] = record.yes + weight]]
         \/ proposals' = [proposals EXCEPT ![proposalPda(id)] =
                            [@ EXCEPT !["no"] = record.no + weight]]
  BY <1>2, <1>3 DEF CastVote
<1> HIDE DEF weight
<1> QED  BY <1>4 DEF SetsAField, NoProposal

LEMMA LinkSetsAField ==
  ASSUME NEW id \in Proposals, NEW v, LinkStep(id, v)
  PROVE  SetsAField(id)
<1>1. PICK digest : LinkOffchainProposal(linkOffchainProposalIx(v, id, digest))
  BY DEF LinkStep, Lands
<1>2. Key(linkOffchainProposalIx(v, id, digest), 2) = proposalPda(id)
  BY DEF linkOffchainProposalIx, Key, Instruction, Signer, Writable, meta
<1>3. /\ proposals[proposalPda(id)].state = "voting" /\ UNCHANGED <<tokens, config, emergency>>
      /\ \E value : proposals' = [proposals EXCEPT ![proposalPda(id)] = [@ EXCEPT !["link"] = value]]
  BY <1>1, <1>2 DEF LinkOffchainProposal
<1>4. proposals[proposalPda(id)] # NoProposal
  BY <1>3 DEF NoProposal
<1> QED  BY <1>3, <1>4 DEF SetsAField

LEMMA TimeSetsAField ==
  ASSUME NEW id \in Proposals, EndVoting(proposalPda(id)) \/ TimelockPasses(proposalPda(id))
  PROVE  SetsAField(id)
<1>1. \E field \in {"over", "ripe"} :
        proposals' = [proposals EXCEPT ![proposalPda(id)] = [@ EXCEPT ![field] = TRUE]]
  BY DEF EndVoting, TimelockPasses
<1>2. /\ proposals[proposalPda(id)].state \in {"voting", "accepted"}
      /\ UNCHANGED <<tokens, config, emergency>>
  BY DEF EndVoting, TimelockPasses
<1>3. proposals[proposalPda(id)] # NoProposal
  BY <1>2 DEF NoProposal
<1> QED  BY <1>1, <1>2, <1>3 DEF SetsAField

LEMMA ExecutionSetsAField ==
  ASSUME NEW id \in Proposals, NEW category, Executes(proposalPda(id), category),
         UNCHANGED <<tokens, config, emergency>>
  PROVE  SetsAField(id)
<1>1. /\ proposals[proposalPda(id)].state = "accepted"
      /\ proposals' = [proposals EXCEPT ![proposalPda(id)] = [@ EXCEPT !["executed"] = TRUE]]
  BY DEF Executes
<1>2. proposals[proposalPda(id)] # NoProposal
  BY <1>1 DEF NoProposal
<1> QED  BY <1>1, <1>2 DEF SetsAField

LEMMA AftermathSettlesOrSets ==
  ASSUME DepositInv, NEW id \in Proposals, AftermathStep(id)
  PROVE  SetsAField(id) \/ (Settles(id) /\ UNCHANGED <<config, emergency>>)
<1>1. CASE TallyAndFinalize(tallyAndFinalizeIx(id))
  <2>1. Key(tallyAndFinalizeIx(id), 1) = proposalPda(id)
    BY DEF tallyAndFinalizeIx, Key, Instruction, Writable, meta
  <2>2. /\ proposals[proposalPda(id)].state = "voting" /\ UNCHANGED <<tokens, config, emergency>>
        /\ \E value \in {"accepted", "rejected"} :
             proposals' = [proposals EXCEPT ![proposalPda(id)] = [@ EXCEPT !["state"] = value]]
    BY <1>1, <2>1 DEF TallyAndFinalize
  <2>3. proposals[proposalPda(id)] # NoProposal
    BY <2>2 DEF NoProposal
  <2> QED  BY <2>2, <2>3 DEF SetsAField
<1>2. CASE /\ proposals[proposalPda(id)] # NoProposal
           /\ RefundOrForfeitDeposit(refundOrForfeitDepositIx(Open, id,
                WalletTokens(proposals[proposalPda(id)].proposer), config.forfeit))
  <2> DEFINE to == WalletTokens(proposals[proposalPda(id)].proposer)
             ix == refundOrForfeitDepositIx(Open, id, to, config.forfeit)
  <2>1. /\ Key(ix, 3) = depositVaultPda /\ Key(ix, 4) = proposalPda(id)
        /\ Key(ix, 5) = to /\ Key(ix, 6) = config.forfeit
    BY DEF refundOrForfeitDepositIx, Key, Instruction, Writable, ReadOnly, meta
  <2>2. RefundOrForfeitDeposit(ix)
    BY <1>2
  <2> HIDE DEF ix
  <2>3. /\ proposals[proposalPda(id)].deposit = "held" /\ UNCHANGED <<config, emergency>>
        /\ \E how \in {"refunded", "forfeited"} :
             /\ Move(depositVaultPda, IF how = "refunded" THEN to ELSE config.forfeit, Deposit)
             /\ proposals' = [proposals EXCEPT ![proposalPda(id)] = [@ EXCEPT !["deposit"] = how]]
    BY <2>1, <2>2 DEF RefundOrForfeitDeposit
  <2> QED  BY <1>2, <2>3 DEF Settles
<1>3. CASE RecordDecision(updateConfigParameterIx(id, "program", "key", 1), "Parameter")
  <2>1. Key(updateConfigParameterIx(id, "program", "key", 1), 1) = proposalPda(id)
    BY DEF updateConfigParameterIx, Key, Instruction, Writable, meta
  <2> QED  BY <1>3, <2>1, ExecutionSetsAField DEF RecordDecision
<1>4. CASE RecordDecision(authorizeTreasurySpendIx(id, "destination", 1), "Treasury")
  <2>1. Key(authorizeTreasurySpendIx(id, "destination", 1), 1) = proposalPda(id)
    BY DEF authorizeTreasurySpendIx, Key, Instruction, Writable, meta
  <2> QED  BY <1>4, <2>1, ExecutionSetsAField DEF RecordDecision
<1>5. ASSUME NEW submitter \in Voters, NEW wallet \in Voters,
             ListWallet(listWalletIx(submitter, id, wallet))
      PROVE  SetsAField(id)
  <2>1. Key(listWalletIx(submitter, id, wallet), 3) = proposalPda(id)
    BY DEF listWalletIx, Key, Instruction, Payer, Writable, ReadOnly, meta
  <2> QED  BY <1>5, <2>1, ExecutionSetsAField DEF ListWallet
<1>6. ASSUME NEW submitter \in Voters, NEW wallet \in Voters,
             DelistWallet(DelistOf(submitter, id, wallet))
      PROVE  SetsAField(id)
  <2>1. Key(DelistOf(submitter, id, wallet), 3) = proposalPda(id)
    BY DEF DelistOf, delistWalletIx, Key, Instruction, Payer, Writable, ReadOnly, meta
  <2> QED  BY <1>6, <2>1, ExecutionSetsAField DEF DelistWallet
<1> QED  BY <1>1, <1>2, <1>3, <1>4, <1>5, <1>6 DEF AftermathStep, Lands

LEMMA DepositsStep ==
  ASSUME DepositInv, [Next]_vars
  PROVE  DepositInv'
<1>1. CASE AdminStep \/ UNCHANGED vars
  <2>1. UNCHANGED <<proposals, tokens>>
    BY <1>1, AdminMovesNoDeposit DEF vars
  <2>2. SameDeposits
    BY <2>1 DEF SameDeposits, DepositInv, RecordsAreFull
  <2>3. ForfeitIsKnown' /\ emergency' \subseteq {emergencyAuthorityPda}
    BY <1>1, AdminMovesNoDeposit DEF vars, DepositInv, ForfeitIsKnown
  <2> QED  BY <2>1, <2>2, <2>3, SameDepositsKeep DEF DepositInv
<1>2. ASSUME NEW id \in Proposals, SetsAField(id)
      PROVE  DepositInv'
  <2>1. SameDeposits /\ UNCHANGED <<tokens, config, emergency>>
    BY <1>2, SetsAFieldKeeps DEF SetsAField
  <2>2. ForfeitIsKnown'
    BY <2>1, FullIsSomething DEF SameDeposits, ForfeitIsKnown, DepositInv
  <2> QED  BY <2>1, <2>2, SameDepositsKeep DEF DepositInv
<1>3. ASSUME NEW id \in Proposals, NEW v \in Voters, ProposeStep(id, v)
      PROVE  DepositInv'
  <2>1. PaysIn(id, v) /\ UNCHANGED <<config, emergency>> /\ config # NoConfig
    BY <1>3, ProposalPaysIn
  <2>2. ForfeitIsKnown'
    BY <2>1 DEF ForfeitIsKnown, DepositInv
  <2> QED  BY <2>1, <2>2, PaysInKeeps DEF DepositInv
<1>4. ASSUME NEW id \in Proposals, Settles(id), UNCHANGED <<config, emergency>>
      PROVE  DepositInv'
  <2>1. config.forfeit \in Forfeits
    BY <1>4, AddressesOfAProposal DEF Settles, DepositInv, ForfeitIsKnown
  <2>2. ForfeitIsKnown'
    BY <1>4, <2>1 DEF ForfeitIsKnown, DepositInv
  <2> QED  BY <1>4, <2>2, SettlesKeeps DEF DepositInv
<1> QED
  BY <1>1, <1>2, <1>3, <1>4, VoteSetsAField, LinkSetsAField, TimeSetsAField,
     AftermathSettlesOrSets
  DEF Next

LEMMA DepositInvAlways == Spec => []DepositInv
BY DepositsStart, DepositsStep, PTL DEF Spec

(* A refunded deposit is the proposer's, a forfeited one the treasury's, and *)
(* the vault holds the rest, for any number of proposals.                   *)
THEOREM DepositsAreAccountedFor == Spec => []DepositsGoWhereDecided
<1>1. DepositInv => DepositsGoWhereDecided
  BY DEF DepositInv
<1> QED  BY <1>1, DepositInvAlways, PTL

(* Balances are numbers, states are known, one emergency authority at most.  *)
THEOREM TypeCorrect == Spec => []TypeOK
<1>1. ASSUME DepositInv PROVE TypeOK
  <2>1. Cardinality(emergency) <= 1
    <3>1. emergency = {} \/ emergency = {emergencyAuthorityPda}
      BY <1>1 DEF DepositInv
    <3>2. Cardinality({}) = 0 /\ Cardinality({emergencyAuthorityPda}) = 1
      BY FS_EmptySet, FS_Singleton
    <3> QED  BY <3>1, <3>2
  <2>2. \A a \in Addresses : proposals[a].state \in {"none", "voting", "accepted", "rejected"}
    BY <1>1 DEF DepositInv, RecordsAreFull, Full, NoProposal
  <2>3. \A a \in DOMAIN tokens : tokens[a] \in Nat
    BY <1>1 DEF DepositInv, TokensAreNumbers
  <2> QED  BY <2>1, <2>2, <2>3 DEF TypeOK
<1> QED  BY <1>1, DepositInvAlways, PTL
=============================================================================
