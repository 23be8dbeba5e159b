--------------------------- MODULE MCGovernanceChain ---------------------------
(***************************************************************************)
(* Two voters, one of them staked in two roles, and two proposals: enough   *)
(* for a listing and the delisting after it, and for one vote to be taken   *)
(* for another.  A proposal without an action on the ban list is filed      *)
(* alone, and only such a one gets a link to its discussion.                *)
(***************************************************************************)
EXTENDS GovernanceChain

CONSTANTS v1, v2

MCVoters == {v1, v2}
MCStakes == [v \in MCVoters |-> IF v = v1 THEN <<1, 1>> ELSE <<1, 0>>]
MCStakeOf == [v \in MCVoters |-> [r \in Roles |-> MCStakes[v][r + 1]]]
MCActions ==
  {noAction, ListWalletAction(v1, "scam", "evidence"), DelistWalletAction(v1)}
MCForfeits == {<<"treasury">>}
MCDigests ==
  {[length |-> 32, bytes |-> <<0>>], [length |-> 32, bytes |-> <<1>>],
   [length |-> 31, bytes |-> <<1>>]}

\* The bound that keeps the two questions apart: what a proposal of any
\* category goes through, and what two actions on the ban list do together.
OneKindOfProposal ==
  LET filed == {id \in Proposals : proposals[proposalPda(id)] # NoProposal}
  IN \/ \E id \in Proposals : filed \subseteq {id} /\ agreed[id] = noAction
     \/ \A id \in filed :
          agreed[id] # noAction /\ proposals[proposalPda(id)].link = ZeroDigest

MCNext == Next /\ OneKindOfProposal'
MCSpec == Init /\ [][MCNext]_vars
=============================================================================
