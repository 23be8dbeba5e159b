---------------------------- MODULE MCStakingChain ----------------------------
(***************************************************************************)
(* Two wallets with stakes in two roles each; arrays of the right length,   *)
(* one short and one long, so that two wrong ones may make up for each      *)
(* other.                                                                   *)
(***************************************************************************)
EXTENDS StakingChain

MCArrays == {<<1>>, <<1, 2>>, <<1, 2, 3>>}
MCTreasury == {<<"slashed">>}
=============================================================================
