---------------------------- MODULE MCEscrowChain ----------------------------
(***************************************************************************)
(* Two people who sell to each other once, so that every vault is the one's *)
(* own and the other's counterparty's, and one arbitrator.  The config, the *)
(* allowlist and the ban list change under the first trade; the second     *)
(* person's vaults and the second trade exist under one config only.       *)
(***************************************************************************)
EXTENDS EscrowChain

CONSTANTS p1, p2, usd, eur

MCPeople == {p1, p2}
MCTrades ==
  [id \in {1, 2} |->
     IF id = 1
     THEN [seller |-> p1, buyer |-> p2, mint |-> usd, amount |-> 1]
     ELSE [seller |-> p2, buyer |-> p1, mint |-> usd, amount |-> 1]]
FirstTreasuries == <<"dev", "ecosystem", "infra", "emergency">>
MCTreasuries == {FirstTreasuries, <<"dev2", "ecosystem", "infra", "emergency">>}

\* The bound that keeps the two questions apart.
SecondSellerMeetsOneConfig ==
  (\E m \in Mints : liquidityVaultPda(p2, m) \in vaults) =>
    /\ config.treasuries = FirstTreasuries
    /\ config.mints = {usd}
    /\ banned = {}
    /\ liquidityVaultPda(p1, eur) \notin vaults

MCNext == Next /\ SecondSellerMeetsOneConfig'
MCSpec == Init /\ [][MCNext]_vars
=============================================================================
