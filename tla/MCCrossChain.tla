---------------------------- MODULE MCCrossChain -----------------------------
(***************************************************************************)
(* Hooks of one instruction with every combination of optional parts, and   *)
(* of two with the most different ones behind each other; presale requests  *)
(* with and without the optional amounts, ordered from another chain;        *)
(* deposits on mainnet and on a cluster of one's own, and two that the       *)
(* builder refuses; a withdrawal to a wallet, a settlement and a dispute.   *)
(***************************************************************************)
EXTENDS CrossChain, FiniteSets

Wallet == [kind |-> "submissionAuthWallet", accountIndex |-> 2, tokenMint |-> 5]
BySeeds(seeds, bump) ==
  [kind |-> "bySeeds", accountIndex |-> 1, programId |-> 6, seeds |-> seeds,
   bump |-> bump]
Amount ==
  [kind |-> "submissionAuthWalletAmount", accountIndex |-> 1, offset |-> 3,
   isBigEndian |-> TRUE, subtraction |-> 1]
Seed == [kind |-> "arbitrary", bytes |-> <<1, 0>>]

Instructions(expenses, pubkeySubs, dataSubs, keys, data) ==
  [reward : {2}, expense : expenses, executePolicy : {"empty", "mandatoryBlock"},
   pubkeySubstitutions : pubkeySubs, dataSubstitutions : dataSubs,
   programId : {7}, keys : keys, data : data]

Key1 == [pubkey |-> 3, isSigner |-> TRUE, isWritable |-> FALSE]

Assorted ==
  Instructions({None, 0, 1},
    {<<>>, <<Wallet>>, <<BySeeds(<<>>, None)>>,
     <<BySeeds(<<Seed, [kind |-> "submissionAuth"]>>, 4), Wallet>>},
    {<<>>, <<Amount>>}, {<<>>, <<Key1>>}, {<<>>, <<1>>})

Few ==
  Instructions({None, 1}, {<<>>, <<BySeeds(<<Seed>>, 4)>>}, {<<>>}, {<<Key1>>}, {<<1>>})

MCHooks == {<<>>} \cup {<<ei>> : ei \in Assorted} \cup {<<a, b>> : a \in Few, b \in Few}

MCRequests ==
  [reward : {None, 1}, expense : {None, 1}, programId : {2}, banRecord : {3},
   saleConfig : {4}, usdcMint : {5}, usdcVault : {6}, openMint : {7},
   presaleVaultAuthority : {8}, presaleVault : {9}, recipient : {10},
   recipientOpen : {11}, contribution : {12}, programs : {<<13, 13, 14, 15>>},
   saleNonce : {1}, usdcAmount : {2}]

MCMainnet == [USDC |-> [mint |-> "usdc", tokenProgram |-> "Token"],
              USDT |-> [mint |-> "usdt", tokenProgram |-> "Token"]]
MCProgramOf == [mint \in {"usdc", "usdt", "test"} |->
                  IF mint = "test" THEN "Token2022" ELSE "Token"]
OwnCluster == [USDC |-> [mint |-> "test", tokenProgram |-> "Token2022"]]

\* The presale's recipient is the person's wallet.
Deposit(owner, stablecoin, amount, table, mint) ==
  [way |-> "deposit", owner |-> owner, wallet |-> 100 + owner, chain |-> 1,
   token |-> "token", stablecoin |-> stablecoin, amount |-> amount,
   solanaMints |-> table, mint |-> mint]

MCWant ==
  [o \in Orders |->
     CASE o = "mainnet" -> Deposit(20, "USDC", 1, None, "usdc")
       [] o = "own" -> Deposit(21, "USDC", 2, OwnCluster, "test")
       [] o = "unknown" -> Deposit(22, "USDT", 1, OwnCluster, "test")
       [] o = "nothing" -> Deposit(23, "USDC", 0, None, "usdc")
       [] o = "w" -> [Deposit(24, "USDT", 1, None, "usdt") EXCEPT !.way = "withdraw"]
       [] o = "presale" -> [way |-> "contribution", owner |-> 10, wallet |-> 110, chain |-> 1,
                            token |-> "token", amount |-> 1, mint |-> "usdc",
                            hook |-> "dlnHook"]]

MCDomain == [j \in Jobs |-> IF j = "s" THEN "settlement"
                            ELSE IF j = "d" THEN "dispute" ELSE "transfer"]
MCTxs == {<<"s", 1>>, <<"s", 2>>, <<"d", 1>>, <<"w", 1>>, <<"w", 2>>}
MCFor == [t \in MCTxs |-> t[1]]

\* The bound: one piece of business at a time, of those that cannot touch each
\* other; two jobs side by side send one transaction each.
OneAtATime ==
  LET begun == {o \in Orders : purse[Deal!Source(o)] # Savings}
      coming == agreed \cup due \cup {j \in Jobs : latest[j] # None}
  IN \/ known = None /\ coming = {} /\ hook # <<>> /\ begun \subseteq {"presale"}
     \/ known = None /\ coming = {} /\ hook = <<>> /\ Cardinality(begun) <= 1
     \/ /\ hook = <<>> /\ own /\ status = "reading"
        /\ begun \subseteq {"w"}
        /\ \/ Cardinality(coming) <= 1
           \/ coming = {"s", "d"} /\ tx[<<"s", 2>>] = None

MCNext == Next /\ OneAtATime'
MCSpec == Init /\ [][MCNext]_vars /\ Bridge!BridgeFairness
=============================================================================
