--------------------------- MODULE CrossChain_proofs ---------------------------
(***************************************************************************)
(* Proofs about the bridge, and about it beside orders and hooks, for any    *)
(* jobs, transactions and life of a blockhash: a node's record names a job   *)
(* only if a transaction of its own client carried it out, nothing that is   *)
(* sent again is done again, and what else goes between the chains takes     *)
(* nothing from that.  And about the hooks, for any hook either encoder can   *)
(* be given: it is read back as it was written, as far as it arrived.        *)
(***************************************************************************)
EXTENDS CrossChain, Induction, SequenceTheorems

Places == {"wire", "queued", "submitted", "landed", "failed"}
Transaction == [age : Nat, tag : Jobs \cup {None}, at : Places]

BridgeTypeOK ==
  /\ known \in Nat \cup {None}
  /\ tx \in [Txs -> Transaction \cup {None}]
  /\ latest \in [Jobs -> Nat \cup {None}]
  /\ agreed \subseteq Bridge!Tagged
  /\ due \subseteq Bridge!Tagged
  /\ done \in [Jobs -> 0 .. 1]
  /\ others \subseteq Bridge!Tagged

Waiting(t) == Bridge!At(t, {"wire", "queued", "submitted"})

(* A transaction carries the correlation of its own job and of no other.    *)
TagIsItsJob ==
  \A t \in Txs : tx[t] # None =>
    tx[t].tag = IF For[t] \in Bridge!Tagged THEN For[t] ELSE None

(* What landed is done, and was done by it.                                *)
LandedIsDone ==
  \A t \in Txs : Bridge!At(t, {"landed"}) => done[For[t]] = 1 /\ For[t] \notin others

(* So is what somebody else did.                                           *)
OthersAreDone == \A j \in others : done[j] = 1

(* A transfer under way is at least as old as the one signed last.          *)
WaitingIsOlder ==
  \A t \in Txs : For[t] \notin Bridge!Tagged /\ Waiting(t) =>
    latest[For[t]] \in Nat /\ tx[t].age >= latest[For[t]]

(* A transfer that has happened, or was signed again, has at most one       *)
(* transaction that can still land.                                        *)
DoneMeansDead ==
  \A t \in Txs : For[t] \notin Bridge!Tagged /\ Waiting(t) /\ done[For[t]] = 1 =>
    tx[t].age > Life

OneAlive ==
  \A t, u \in Txs :
    /\ For[t] \notin Bridge!Tagged /\ For[t] = For[u]
    /\ Waiting(t) /\ Waiting(u)
    /\ tx[t].age <= Life /\ tx[u].age <= Life
    => t = u

(* Nothing was done before it was signed.                                  *)
UnsignedIsUndone ==
  \A j \in Jobs \ Bridge!Tagged : latest[j] = None => done[j] = 0

BridgeInv ==
  /\ BridgeTypeOK
  /\ TagIsItsJob
  /\ LandedIsDone
  /\ OthersAreDone
  /\ WaitingIsOlder
  /\ DoneMeansDead
  /\ OneAlive
  /\ UnsignedIsUndone
  /\ Bridge!RecordFollowsTheChain

-----------------------------------------------------------------------------
(* Ages only grow, and keep their order.                                   *)
LEMMA OlderKeepsOrder ==
  ASSUME NEW a \in Nat, NEW b \in Nat, Life \in Nat
  PROVE  /\ Bridge!Older(a) \in Nat
         /\ Bridge!Older(a) >= a
         /\ a >= b => Bridge!Older(a) >= Bridge!Older(b)
BY DEF Bridge!Older

LEMMA OlderThanNone ==
  ASSUME Bridge!BridgeAssumption
  PROVE  Bridge!Older(None) = None
BY DEF Bridge!Older, Bridge!BridgeAssumption

LEMMA BridgeStarts ==
  ASSUME Bridge!BridgeAssumption, Bridge!BridgeInit
  PROVE  BridgeInv
BY DEF Bridge!BridgeAssumption, Bridge!BridgeInit, BridgeInv,
       BridgeTypeOK, TagIsItsJob, LandedIsDone,
       OthersAreDone, WaitingIsOlder, DoneMeansDead, OneAlive, UnsignedIsUndone,
       Bridge!RecordFollowsTheChain, Waiting, Bridge!At

-----------------------------------------------------------------------------
(* Signing: a transfer is signed again only when the transactions it has are *)
(* all too old to land, and then the new one is the only one that can.      *)
LEMMA SignKeeps ==
  ASSUME Bridge!BridgeAssumption, BridgeInv, NEW t \in Txs, Bridge!Sign(t)
  PROVE  BridgeInv'
<1> DEFINE j == For[t]
<1> USE DEF BridgeInv
<1>1. /\ j \in Jobs /\ tx[t] = None
      /\ known \in Nat /\ known <= Life /\ Life \in Nat
      /\ tx' = [tx EXCEPT ![t] = [age |-> known, at |-> "wire",
                                   tag |-> IF j \in Bridge!Tagged THEN j ELSE None]]
      /\ latest' = [latest EXCEPT ![j] = known]
      /\ UNCHANGED <<known, agreed, due, done, others, recorded>>
  BY DEF Bridge!Sign, Bridge!MaySign, Bridge!getLatestBlockhash,
         Bridge!getChainStatus, Bridge!sendTransaction,
         Bridge!BridgeAssumption, BridgeTypeOK
<1>2. tx'[t] = [age |-> known, at |-> "wire", tag |-> IF j \in Bridge!Tagged THEN j ELSE None]
  BY <1>1 DEF BridgeTypeOK
<1>3. \A u \in Txs \ {t} : tx'[u] = tx[u]
  BY <1>1 DEF BridgeTypeOK
<1>4. /\ latest'[j] = known
      /\ \A i \in Jobs \ {j} : latest'[i] = latest[i]
  BY <1>1 DEF BridgeTypeOK
<1>5. tx'[t] \in Transaction
  BY <1>1, <1>2 DEF Transaction, Places
<1>6. j \notin Bridge!Tagged => /\ latest[j] = None \/ latest[j] - known > Life
                         /\ done[j] = 0
  BY <1>1 DEF Bridge!Sign, Bridge!MaySign, Bridge!getLatestBlockhash, UnsignedIsUndone
<1>7. ASSUME NEW u \in Txs, u # t, For[u] = j, j \notin Bridge!Tagged, Waiting(u)'
      PROVE  tx'[u] = tx[u] /\ tx[u].age \in Nat /\ tx[u].age > Life + known
  <2>1. tx[u] \in Transaction /\ Waiting(u) /\ tx'[u] = tx[u]
    BY <1>3, <1>7 DEF BridgeTypeOK, Waiting, Bridge!At
  <2>2. latest[j] \in Nat /\ tx[u].age \in Nat /\ tx[u].age >= latest[j]
    BY <1>7, <2>1 DEF WaitingIsOlder, Transaction
  <2> QED  BY <1>1, <1>6, <1>7, <2>1, <2>2 DEF Bridge!BridgeAssumption
<1>8. BridgeTypeOK'
  BY <1>1, <1>3, <1>5 DEF BridgeTypeOK
<1>9. TagIsItsJob' /\ LandedIsDone'
  BY <1>1, <1>2, <1>3 DEF TagIsItsJob, LandedIsDone, Bridge!Tagged, Bridge!At
<1>10. OthersAreDone' /\ UnsignedIsUndone' /\ Bridge!RecordFollowsTheChain'
  BY <1>1, <1>4, <1>6
  DEF OthersAreDone, UnsignedIsUndone, Bridge!RecordFollowsTheChain, Bridge!Tagged
<1>11. WaitingIsOlder'
  <2> SUFFICES ASSUME NEW u \in Txs, For[u] \notin Bridge!Tagged, Waiting(u)'
               PROVE  latest'[For[u]] \in Nat /\ tx'[u].age >= latest'[For[u]]
    BY DEF WaitingIsOlder, Bridge!Tagged
  <2>1. CASE u = t
    BY <2>1, <1>1, <1>2, <1>4
  <2>2. CASE u # t /\ For[u] = j
    BY <2>2, <1>1, <1>4, <1>7
  <2>3. CASE u # t /\ For[u] # j
    BY <2>3, <1>3, <1>4 DEF WaitingIsOlder, Waiting, Bridge!At, Bridge!BridgeAssumption
  <2> QED  BY <2>1, <2>2, <2>3
<1>12. DoneMeansDead'
  BY <1>1, <1>3, <1>6 DEF DoneMeansDead, Waiting, Bridge!At, Bridge!Tagged
<1>13. OneAlive'
  <2> SUFFICES ASSUME NEW u \in Txs, NEW v \in Txs,
                      For[u] \notin Bridge!Tagged, For[u] = For[v], Waiting(u)', Waiting(v)',
                      tx'[u].age <= Life, tx'[v].age <= Life, u # v
               PROVE  FALSE
    BY DEF OneAlive, Bridge!Tagged
  <2>1. CASE For[u] = j
    <3>1. CASE u # t
      BY <2>1, <3>1, <1>1, <1>7 DEF Waiting, Bridge!At
    <3>2. CASE v # t
      <4>1. For[v] = j /\ j \notin Bridge!Tagged
        BY <2>1
      <4>2. tx'[v] = tx[v] /\ tx[v].age \in Nat /\ tx[v].age > Life + known
        BY <3>2, <4>1, <1>7
      <4> QED  BY <4>2, <1>1
    <3> QED  BY <3>1, <3>2
  <2>2. CASE For[u] # j
    BY <2>2, <1>3 DEF OneAlive, Waiting, Bridge!At
  <2> QED  BY <2>1, <2>2
<1> QED  BY <1>8, <1>9, <1>10, <1>11, <1>12, <1>13

(* A transaction that goes on, or goes away, leaves everything else alone.  *)
LEMMA MoveKeeps ==
  ASSUME BridgeInv, NEW t \in Txs, NEW from \in {"wire", "queued"},
         NEW to \in {"queued", "submitted"}, Bridge!Moves(t, from, to)
  PROVE  BridgeInv'
<1> USE DEF BridgeInv
<1>1. /\ tx[t] # None /\ tx[t].at = from
      /\ tx' = [tx EXCEPT ![t].at = to]
      /\ UNCHANGED <<known, latest, agreed, due, done, others, recorded>>
  BY DEF Bridge!Moves, Bridge!At
<1>2. tx[t] \in Transaction
  BY <1>1 DEF BridgeTypeOK
<1>3. tx'[t] = [tx[t] EXCEPT !.at = to] /\ \A u \in Txs \ {t} : tx'[u] = tx[u]
  BY <1>1 DEF BridgeTypeOK
<1>4. tx'[t] \in Transaction /\ tx'[t].age = tx[t].age /\ tx'[t].tag = tx[t].tag /\ tx'[t].at = to
  BY <1>2, <1>3 DEF Transaction, Places
<1>5. BridgeTypeOK'
  BY <1>1, <1>3, <1>4 DEF BridgeTypeOK
<1>6. \A u \in Txs : Waiting(u)' => Waiting(u) /\ tx'[u].age = tx[u].age
  BY <1>1, <1>3, <1>4 DEF Waiting, Bridge!At
<1>7. TagIsItsJob' /\ LandedIsDone'
  BY <1>1, <1>3, <1>4 DEF TagIsItsJob, LandedIsDone, Bridge!At, Bridge!Tagged
<1>8. WaitingIsOlder' /\ DoneMeansDead' /\ OneAlive'
  BY <1>1, <1>6 DEF WaitingIsOlder, DoneMeansDead, OneAlive, Bridge!Tagged
<1> QED
  BY <1>1, <1>5, <1>7, <1>8
  DEF OthersAreDone, UnsignedIsUndone, Bridge!RecordFollowsTheChain, Bridge!Tagged

LEMMA GoneKeeps ==
  ASSUME BridgeInv, NEW t \in Txs, Bridge!Gone(t)
  PROVE  BridgeInv'
<1> USE DEF BridgeInv
<1>1. /\ tx' = [tx EXCEPT ![t] = None]
      /\ UNCHANGED <<known, latest, agreed, due, done, others, recorded>>
  BY DEF Bridge!Gone
<1>2. \A u \in Txs : tx'[u] = None \/ tx'[u] = tx[u]
  BY <1>1 DEF BridgeTypeOK
<1>3. BridgeTypeOK'
  BY <1>1 DEF BridgeTypeOK
<1>4. \A u \in Txs : Waiting(u)' => Waiting(u) /\ tx'[u].age = tx[u].age
  BY <1>2 DEF Waiting, Bridge!At
<1>5. TagIsItsJob' /\ LandedIsDone'
  BY <1>1, <1>2 DEF TagIsItsJob, LandedIsDone, Bridge!At, Bridge!Tagged
<1>6. WaitingIsOlder' /\ DoneMeansDead' /\ OneAlive'
  BY <1>1, <1>4 DEF WaitingIsOlder, DoneMeansDead, OneAlive, Bridge!Tagged
<1> QED
  BY <1>1, <1>3, <1>5, <1>6
  DEF OthersAreDone, UnsignedIsUndone, Bridge!RecordFollowsTheChain, Bridge!Tagged

(* Landing: a release or an execution succeeds the first time; a transfer    *)
(* that can land is the only one of its job, and the job was not done.      *)
LEMMA LandKeeps ==
  ASSUME Bridge!BridgeAssumption, BridgeInv, NEW t \in Txs, Bridge!Land(t)
  PROVE  BridgeInv'
<1> DEFINE j == For[t]
           well == Bridge!Succeeds(j)
<1> USE DEF BridgeInv
<1>1. /\ Waiting(t) /\ tx[t] # None /\ tx[t].age <= Life
      /\ tx' = [tx EXCEPT ![t].at = IF well THEN "landed" ELSE "failed"]
      /\ done' = [done EXCEPT ![j] = IF well THEN @ + 1 ELSE @]
      /\ UNCHANGED <<known, latest, agreed, due, others, recorded>>
  BY DEF Bridge!Land, Waiting, Bridge!At
<1>2. tx[t] \in Transaction /\ j \in Jobs /\ done[j] \in 0 .. 1 /\ Life \in Nat
  BY <1>1 DEF BridgeTypeOK, Bridge!BridgeAssumption
<1>3. well => done[j] = 0
  BY <1>1, <1>2 DEF Bridge!Succeeds, DoneMeansDead, Transaction
<1>4. /\ done'[j] = IF well THEN 1 ELSE done[j]
      /\ \A i \in Jobs \ {j} : done'[i] = done[i]
  BY <1>1, <1>2, <1>3 DEF BridgeTypeOK
<1>5. /\ tx'[t] = [tx[t] EXCEPT !.at = IF well THEN "landed" ELSE "failed"]
      /\ \A u \in Txs \ {t} : tx'[u] = tx[u]
  BY <1>1 DEF BridgeTypeOK
<1>6. /\ tx'[t] \in Transaction /\ tx'[t].tag = tx[t].tag
      /\ tx'[t].at = IF well THEN "landed" ELSE "failed"
  BY <1>2, <1>5 DEF Transaction, Places
<1>7. j \in others => ~well
  BY <1>2, <1>3 DEF OthersAreDone
<1>8. BridgeTypeOK'
  BY <1>1, <1>2, <1>4, <1>5, <1>6 DEF BridgeTypeOK
<1>9. TagIsItsJob'
  BY <1>1, <1>5, <1>6 DEF TagIsItsJob, Bridge!Tagged
<1>10. LandedIsDone'
  BY <1>1, <1>2, <1>3, <1>4, <1>5, <1>6, <1>7
  DEF LandedIsDone, Bridge!At, Bridge!BridgeAssumption
<1>11. \A u \in Txs : Waiting(u)' => u # t /\ Waiting(u) /\ tx'[u] = tx[u]
  BY <1>5, <1>6 DEF Waiting, Bridge!At
<1>12. WaitingIsOlder' /\ OneAlive'
  BY <1>1, <1>11 DEF WaitingIsOlder, OneAlive, Bridge!Tagged
<1>13. DoneMeansDead'
  <2> SUFFICES ASSUME NEW u \in Txs, For[u] \notin Bridge!Tagged, Waiting(u)', done'[For[u]] = 1
               PROVE  tx'[u].age > Life
    BY DEF DoneMeansDead, Bridge!Tagged
  <2>1. u # t /\ Waiting(u) /\ tx'[u] = tx[u] /\ tx[u] \in Transaction
    BY <1>11 DEF BridgeTypeOK, Waiting, Bridge!At
  <2>2. CASE For[u] = j
    BY <2>1, <2>2, <1>1, <1>2 DEF OneAlive, Transaction
  <2>3. CASE For[u] # j
    BY <2>1, <2>3, <1>4 DEF DoneMeansDead, Bridge!BridgeAssumption
  <2> QED  BY <2>2, <2>3
<1>14. OthersAreDone' /\ Bridge!RecordFollowsTheChain'
  BY <1>1, <1>2, <1>3, <1>4, <1>7, <1>8
  DEF OthersAreDone, Bridge!RecordFollowsTheChain, BridgeTypeOK, Bridge!Tagged
<1>15. UnsignedIsUndone'
  <2>1. j \notin Bridge!Tagged => latest[j] \in Nat
    BY <1>1 DEF WaitingIsOlder
  <2> QED  BY <2>1, <1>1, <1>4 DEF UnsignedIsUndone, Bridge!Tagged, Bridge!BridgeAssumption
<1> QED  BY <1>8, <1>9, <1>10, <1>12, <1>13, <1>14, <1>15

(* The node records what landed under its tag, which is its own job.        *)
LEMMA ObserveKeeps ==
  ASSUME Bridge!BridgeAssumption, BridgeInv, NEW t \in Txs, Bridge!Observe(t)
  PROVE  BridgeInv'
<1> USE DEF BridgeInv
<1>1. /\ tx[t] # None
      /\ tx' = [tx EXCEPT ![t] = None]
      /\ recorded' = IF tx[t].at = "landed" THEN recorded \cup ({tx[t].tag} \cap agreed)
                     ELSE recorded
      /\ UNCHANGED <<known, latest, agreed, due, done, others>>
  BY DEF Bridge!Observe, Bridge!At
<1>2. \A u \in Txs : tx'[u] = None \/ tx'[u] = tx[u]
  BY <1>1 DEF BridgeTypeOK
<1>3. BridgeTypeOK'
  BY <1>1 DEF BridgeTypeOK
<1>4. \A u \in Txs : Waiting(u)' => Waiting(u) /\ tx'[u].age = tx[u].age
  BY <1>2 DEF Waiting, Bridge!At
<1>5. TagIsItsJob' /\ LandedIsDone'
  BY <1>1, <1>2 DEF TagIsItsJob, LandedIsDone, Bridge!At, Bridge!Tagged
<1>6. WaitingIsOlder' /\ DoneMeansDead' /\ OneAlive'
  BY <1>1, <1>4 DEF WaitingIsOlder, DoneMeansDead, OneAlive, Bridge!Tagged
<1>7. Bridge!RecordFollowsTheChain'
  <2>1. tx[t].at = "landed" /\ tx[t].tag \in agreed =>
          tx[t].tag = For[t] /\ done[For[t]] = 1 /\ For[t] \notin others
    <3>1. None \notin agreed
      BY DEF BridgeTypeOK, Bridge!BridgeAssumption, Bridge!Tagged
    <3> QED  BY <3>1, <1>1 DEF TagIsItsJob, LandedIsDone, Bridge!At
  <2> QED  BY <2>1, <1>1 DEF Bridge!RecordFollowsTheChain
<1> QED
  BY <1>1, <1>3, <1>5, <1>6, <1>7 DEF OthersAreDone, UnsignedIsUndone, Bridge!Tagged

(* Somebody else is in time only if nobody was before.                     *)
LEMMA OthersKeep ==
  ASSUME Bridge!BridgeAssumption, BridgeInv, NEW j \in Jobs, Bridge!SentByOthers(j)
  PROVE  BridgeInv'
<1> USE DEF BridgeInv
<1>1. /\ j \in Bridge!Tagged /\ done[j] = 0
      /\ done' = [done EXCEPT ![j] = 1]
      /\ others' = others \cup {j}
      /\ UNCHANGED <<known, tx, latest, agreed, due, recorded>>
  BY DEF Bridge!SentByOthers, BridgeTypeOK
<1>2. done'[j] = 1 /\ \A i \in Jobs \ {j} : done'[i] = done[i]
  BY <1>1 DEF BridgeTypeOK
<1>3. BridgeTypeOK'
  BY <1>1 DEF BridgeTypeOK, Bridge!Tagged
<1>4. TagIsItsJob' /\ WaitingIsOlder' /\ OneAlive'
  BY <1>1 DEF TagIsItsJob, WaitingIsOlder, OneAlive, Waiting, Bridge!At, Bridge!Tagged
<1>5. LandedIsDone'
  BY <1>1, <1>2 DEF LandedIsDone, Bridge!At, Bridge!BridgeAssumption
<1>6. DoneMeansDead' /\ UnsignedIsUndone'
  BY <1>1, <1>2
  DEF DoneMeansDead, UnsignedIsUndone, Waiting, Bridge!At, Bridge!Tagged, Bridge!BridgeAssumption
<1>7. OthersAreDone' /\ Bridge!RecordFollowsTheChain'
  BY <1>1, <1>2, <1>3
  DEF OthersAreDone, Bridge!RecordFollowsTheChain, BridgeTypeOK, Bridge!Tagged
<1> QED  BY <1>3, <1>4, <1>5, <1>6, <1>7

(* Ages grow together, so their order stays.                               *)
LEMMA SlotKeeps ==
  ASSUME Bridge!BridgeAssumption, BridgeInv, Bridge!Slot
  PROVE  BridgeInv'
<1> USE DEF BridgeInv
<1>1. /\ known' = IF known = Life + 1 THEN known ELSE Bridge!Older(known)
      /\ tx' = [t \in Txs |->
                  IF tx[t] = None THEN None ELSE [tx[t] EXCEPT !.age = Bridge!Older(@)]]
      /\ latest' = [j \in Jobs |-> Bridge!Older(latest[j])]
      /\ UNCHANGED <<agreed, due, done, others, recorded>>
      /\ Life \in Nat
  BY DEF Bridge!Slot, Bridge!BridgeAssumption
<1>2. Bridge!Older(None) = None /\ \A a \in Nat : Bridge!Older(a) \in Nat /\ Bridge!Older(a) >= a
  BY <1>1, OlderKeepsOrder, OlderThanNone
<1>3. \A t \in Txs : tx[t] # None => tx[t] \in Transaction
  BY DEF BridgeTypeOK
<1>4. \A t \in Txs : tx[t] # None =>
        /\ tx'[t] \in Transaction
        /\ tx'[t].age = Bridge!Older(tx[t].age)
        /\ tx'[t].tag = tx[t].tag /\ tx'[t].at = tx[t].at
  BY <1>1, <1>2, <1>3 DEF Transaction
<1>5. \A t \in Txs : tx[t] = None => tx'[t] = None
  BY <1>1
<1>6. BridgeTypeOK'
  BY <1>1, <1>2, <1>4, <1>5 DEF BridgeTypeOK
<1>7. \A t \in Txs : /\ Waiting(t)' => Waiting(t) /\ tx'[t].age = Bridge!Older(tx[t].age)
                     /\ Bridge!At(t, {"landed"})' => Bridge!At(t, {"landed"})
  BY <1>4, <1>5 DEF Waiting, Bridge!At
<1>8. TagIsItsJob' /\ LandedIsDone'
  BY <1>1, <1>4, <1>5, <1>7 DEF TagIsItsJob, LandedIsDone, Bridge!Tagged
<1>9. ASSUME NEW t \in Txs, Waiting(t)
      PROVE  tx[t].age \in Nat /\ Bridge!Older(tx[t].age) >= tx[t].age
  BY <1>2, <1>3, <1>9 DEF Waiting, Bridge!At, Transaction
<1>10. WaitingIsOlder'
  <2> SUFFICES ASSUME NEW t \in Txs, For[t] \notin Bridge!Tagged, Waiting(t)'
               PROVE  latest'[For[t]] \in Nat /\ tx'[t].age >= latest'[For[t]]
    BY DEF WaitingIsOlder, Bridge!Tagged
  <2>1. /\ latest[For[t]] \in Nat /\ tx[t].age \in Nat /\ tx[t].age >= latest[For[t]]
        /\ tx'[t].age = Bridge!Older(tx[t].age)
    BY <1>7, <1>9 DEF WaitingIsOlder
  <2>2. latest'[For[t]] = Bridge!Older(latest[For[t]])
    BY <1>1 DEF Bridge!BridgeAssumption
  <2> QED  BY <2>1, <2>2, <1>1, OlderKeepsOrder
<1>11. DoneMeansDead' /\ OneAlive'
  <2>1. \A t \in Txs : Waiting(t)' =>
          /\ Waiting(t)
          /\ tx[t].age > Life => tx'[t].age > Life
          /\ tx'[t].age <= Life => tx[t].age <= Life
    BY <1>1, <1>2, <1>3, <1>7 DEF Waiting, Bridge!At, Transaction
  <2> QED  BY <2>1, <1>1 DEF DoneMeansDead, OneAlive, Bridge!Tagged
<1>12. UnsignedIsUndone'
  BY <1>1, <1>2, <1>6
  DEF UnsignedIsUndone, Bridge!Tagged, BridgeTypeOK, Bridge!BridgeAssumption
<1> QED
  BY <1>1, <1>6, <1>8, <1>10, <1>11, <1>12
  DEF OthersAreDone, Bridge!RecordFollowsTheChain, Bridge!Tagged

(* The node's records, and the blockhash it knows.                         *)
LEMMA RestKeeps ==
  ASSUME BridgeInv,
         (\E j \in Jobs : Bridge!Agree(j) \/ Bridge!BecomesDue(j)) \/ Bridge!LearnBlockhash
  PROVE  BridgeInv'
<1> USE DEF BridgeInv
<1>1. /\ UNCHANGED <<tx, latest, done, others, recorded>>
      /\ agreed \subseteq agreed' /\ agreed' \subseteq Bridge!Tagged
      /\ due' \subseteq Bridge!Tagged
      /\ known' \in Nat \cup {None}
  BY DEF Bridge!Agree, Bridge!BecomesDue, Bridge!LearnBlockhash, BridgeTypeOK
<1>2. BridgeTypeOK'
  BY <1>1 DEF BridgeTypeOK, Bridge!Tagged
<1> QED
  BY <1>1, <1>2
  DEF TagIsItsJob, LandedIsDone, OthersAreDone, WaitingIsOlder, DoneMeansDead, OneAlive,
      UnsignedIsUndone, Bridge!RecordFollowsTheChain, Waiting, Bridge!At, Bridge!Tagged

LEMMA BridgeStutters ==
  ASSUME BridgeInv, UNCHANGED Bridge!bridgeVars
  PROVE  BridgeInv'
BY DEF Bridge!bridgeVars, BridgeInv, BridgeTypeOK, TagIsItsJob, LandedIsDone, OthersAreDone,
       WaitingIsOlder, DoneMeansDead, OneAlive, UnsignedIsUndone, Bridge!RecordFollowsTheChain,
       Waiting, Bridge!At, Bridge!Tagged

-----------------------------------------------------------------------------
LEMMA BridgeInvHolds ==
  ASSUME Bridge!BridgeAssumption, BridgeInv, [Bridge!BridgeNext]_(Bridge!bridgeVars)
  PROVE  BridgeInv'
<1>1. CASE \E j \in Jobs : Bridge!Agree(j) \/ Bridge!BecomesDue(j)
  BY <1>1, RestKeeps
<1>2. CASE \E j \in Jobs : Bridge!SentByOthers(j)
  BY <1>2, OthersKeep
<1>3. CASE \E t \in Txs : Bridge!Sign(t)
  BY <1>3, SignKeeps
<1>4. CASE \E t \in Txs : Bridge!Arrive(t) \/ Bridge!Submit(t)
  BY <1>4, MoveKeeps DEF Bridge!Arrive, Bridge!Submit
<1>5. CASE \E t \in Txs : Bridge!Lose(t) \/ Bridge!Expire(t)
  BY <1>5, GoneKeeps DEF Bridge!Lose, Bridge!Expire
<1>6. CASE \E t \in Txs : Bridge!Land(t)
  BY <1>6, LandKeeps
<1>7. CASE \E t \in Txs : Bridge!Observe(t)
  BY <1>7, ObserveKeeps
<1>8. CASE Bridge!LearnBlockhash
  BY <1>8, RestKeeps
<1>9. CASE Bridge!Slot
  BY <1>9, SlotKeeps
<1>10. CASE UNCHANGED Bridge!bridgeVars
  BY <1>10, BridgeStutters
<1> QED
  BY <1>1, <1>2, <1>3, <1>4, <1>5, <1>6, <1>7, <1>8, <1>9, <1>10 DEF Bridge!BridgeNext

(* The node's record is what happened, whatever was lost, delayed or sent    *)
(* again: chain.ts, sendTransaction and what its comment says of the node.  *)
THEOREM BridgeRecordsAreTrue ==
  ASSUME Bridge!BridgeAssumption
  PROVE  Bridge!BridgeSpec => []Bridge!RecordFollowsTheChain
<1>1. Bridge!BridgeInit => BridgeInv
  BY BridgeStarts
<1>2. BridgeInv /\ [Bridge!BridgeNext]_(Bridge!bridgeVars) => BridgeInv'
  BY BridgeInvHolds
<1>3. BridgeInv => Bridge!RecordFollowsTheChain
  BY DEF BridgeInv
<1> QED  BY <1>1, <1>2, <1>3, PTL DEF Bridge!BridgeSpec

-----------------------------------------------------------------------------
(* A withdrawal that lands is a step of the bridge, and every other order    *)
(* and every hook leaves the bridge alone.                                  *)
THEOREM CompositionIsABridge == Spec => Bridge!BridgeSpec
<1>1. Init => Bridge!BridgeInit
  BY DEF Init
<1>2. ASSUME [Next]_vars
      PROVE  [Bridge!BridgeNext]_(Bridge!bridgeVars)
  <2>1. (\E t \in Txs : Bridge!Land(t)) => Bridge!BridgeNext
    BY DEF Bridge!BridgeNext
  <2>2. UNCHANGED bridgeVars => UNCHANGED Bridge!bridgeVars
    BY DEF bridgeVars, Bridge!bridgeVars
  <2>3. CASE \E t \in Txs : WithdrawalLands(t)
    BY <2>1, <2>3 DEF WithdrawalLands
  <2>4. CASE BridgeRuns
    BY <2>4 DEF BridgeRuns
  <2>5. CASE HookTravels \/ \E o \in Orders : OrderFromElsewhere(o) \/ Filled(o) \/ Cancelled(o)
    BY <2>2, <2>5 DEF HookTravels, OrderFromElsewhere, Filled, Cancelled
  <2>6. CASE UNCHANGED vars
    BY <2>2, <2>6 DEF vars
  <2> QED  BY <1>2, <2>3, <2>4, <2>5, <2>6 DEF Next
<1> QED  BY <1>1, <1>2, PTL DEF Spec, Bridge!BridgeSpec

(* The node's record names what its own clients had carried out, whatever    *)
(* is ordered and relayed beside it.                                        *)
THEOREM RecordsAreTrue == Spec => []RecordFollowsTheChain
<1>1. Bridge!BridgeSpec => []Bridge!RecordFollowsTheChain
  BY CrossChainAssumption, BridgeRecordsAreTrue
<1>2. Bridge!RecordFollowsTheChain <=> RecordFollowsTheChain
  BY DEF RecordFollowsTheChain
<1> QED  BY <1>1, <1>2, CompositionIsABridge, PTL

-----------------------------------------------------------------------------
(* Reading a hook, until OnlyWhatWasEncoded.  A cursor stands where it should, *)
(* or has thrown because what it should have read did not arrive; what it reads *)
(* while it stands is what was written there.                               *)

Cells == Seq(Nat)
Cursor == [at : Nat, ok : BOOLEAN]

(* A cursor that has thrown stays so.                                      *)
Safe(c, r) == r.c \in Cursor /\ (~ c.ok => ~ r.c.ok)

(* A cursor has come to p, or it has thrown since p is behind what arrived. *)
Stands(c, p) ==
  /\ c \in Cursor
  /\ p <= Len(wire) => c = Hook!Reading(p)
  /\ p > Len(wire) => ~ c.ok

(* Reading gave v and comes to q.                                          *)
Gives(r, v, q) == Stands(r.c, q) /\ (q <= Len(wire) => r.value = v)

(* Behind p, as far as it arrived, are these cells.                        *)
Arrived(p, cells) ==
  \A i \in 1 .. Len(cells) : p + i <= Len(wire) => wire[p + i] = cells[i]

(* Of two encodings after each other each has arrived where it begins.     *)
LEMMA PartsArrive ==
  ASSUME NEW p \in Nat, NEW a \in Cells, NEW b \in Cells, Arrived(p, a \o b)
  PROVE  /\ Arrived(p, a) /\ Arrived(p + Len(a), b)
         /\ Len(a \o b) = Len(a) + Len(b) /\ a \o b \in Cells
<1>1. /\ Len(a \o b) = Len(a) + Len(b) /\ a \o b \in Cells
      /\ \A i \in 1 .. Len(a) + Len(b) :
           (a \o b)[i] = IF i <= Len(a) THEN a[i] ELSE b[i - Len(a)]
  BY ConcatProperties DEF Cells
<1>2. Len(a) \in Nat /\ Len(b) \in Nat
  BY LenProperties DEF Cells
<1>3. Arrived(p, a)
  BY <1>1, <1>2 DEF Arrived
<1>4. ASSUME NEW i \in 1 .. Len(b), p + Len(a) + i <= Len(wire)
      PROVE  wire[p + Len(a) + i] = b[i]
  <2>1. Len(a) + i \in 1 .. Len(a \o b) /\ p + (Len(a) + i) = p + Len(a) + i
    BY <1>1, <1>2
  <2>2. (a \o b)[Len(a) + i] = b[i]
    BY <1>1, <1>2, <2>1
  <2> QED  BY <1>4, <2>1, <2>2 DEF Arrived
<1>5. Arrived(p + Len(a), b)
  BY <1>4 DEF Arrived
<1> QED  BY <1>1, <1>3, <1>5

LEMMA BytesAreSafe ==
  ASSUME wire \in Cells, NEW c \in Cursor, NEW n \in Nat
  PROVE  Safe(c, Hook!bytesAt(c, n)) /\ Hook!bytesAt(c, n).value \in Cells
<1>1. Len(wire) \in Nat /\ \A i \in 1 .. Len(wire) : wire[i] \in Nat
  BY LenProperties DEF Cells
<1>2. CASE c.ok /\ c.at + n <= Len(wire)
  <2>1. Hook!bytesAt(c, n).value = SubSeq(wire, c.at + 1, c.at + n)
    BY <1>2 DEF Hook!bytesAt, Hook!Read
  <2>2. \A i \in c.at + 1 .. c.at + n : wire[i] \in Nat
    BY <1>1, <1>2 DEF Cursor
  <2>3. SubSeq(wire, c.at + 1, c.at + n) \in Seq(Nat)
    BY <2>2, SubSeqProperties DEF Cursor
  <2>4. Hook!bytesAt(c, n).c = [c EXCEPT !.at = @ + n]
    BY <1>2 DEF Hook!bytesAt, Hook!Read
  <2>5. [c EXCEPT !.at = @ + n] \in Cursor
    BY DEF Cursor
  <2> QED  BY <1>2, <2>1, <2>3, <2>4, <2>5 DEF Safe, Cells
<1>3. CASE ~ (c.ok /\ c.at + n <= Len(wire))
  <2>1. /\ Hook!bytesAt(c, n).c = [c EXCEPT !.ok = FALSE]
        /\ Hook!bytesAt(c, n).value = <<>>
    BY <1>3 DEF Hook!bytesAt, Hook!Read
  <2>2. [c EXCEPT !.ok = FALSE] \in Cursor /\ ~ [c EXCEPT !.ok = FALSE].ok
    BY DEF Cursor
  <2> QED  BY <2>1, <2>2, EmptySeq DEF Safe, Cells
<1> QED  BY <1>2, <1>3

LEMMA BytesComeBack ==
  ASSUME wire \in Cells, NEW p \in Nat, NEW c, Stands(c, p),
         NEW b \in Cells, Arrived(p, b)
  PROVE  Gives(Hook!bytesAt(c, Len(b)), b, p + Len(b))
<1>1. Len(wire) \in Nat /\ (\A i \in 1 .. Len(wire) : wire[i] \in Nat) /\ Len(b) \in Nat
      /\ DOMAIN b = 1 .. Len(b) /\ \A i \in 1 .. Len(b) : b[i] \in Nat
  BY LenProperties DEF Cells
<1>2. CASE p + Len(b) <= Len(wire)
  <2>1. c = [at |-> p, ok |-> TRUE]
    BY <1>1, <1>2 DEF Stands, Hook!Reading
  <2>2. Hook!bytesAt(c, Len(b)) = [value |-> SubSeq(wire, p + 1, p + Len(b)),
                                  c |-> [at |-> p + Len(b), ok |-> TRUE]]
    BY <1>2, <2>1 DEF Hook!bytesAt, Hook!Read
  <2>3. \A i \in p + 1 .. p + Len(b) : wire[i] \in Nat
    BY <1>1, <1>2
  <2>4. /\ SubSeq(wire, p + 1, p + Len(b)) \in Seq(Nat)
        /\ Len(SubSeq(wire, p + 1, p + Len(b)))
             = IF p + 1 <= p + Len(b) THEN p + Len(b) - (p + 1) + 1 ELSE 0
        /\ \A i \in 1 .. p + Len(b) - (p + 1) + 1 :
             SubSeq(wire, p + 1, p + Len(b))[i] = wire[p + 1 + i - 1]
    <3>1. p + 1 \in Int /\ p + Len(b) \in Int
      BY <1>1
    <3> QED  BY <3>1, <2>3, SubSeqProperties
  <2>5. Len(SubSeq(wire, p + 1, p + Len(b))) = Len(b)
    BY <1>1, <2>4
  <2>6. \A i \in 1 .. Len(b) : SubSeq(wire, p + 1, p + Len(b))[i] = b[i]
    BY <1>1, <1>2, <2>4 DEF Arrived
  <2>7. SubSeq(wire, p + 1, p + Len(b)) = b
    BY <2>4, <2>5, <2>6, SeqEqual DEF Cells
  <2> QED  BY <1>1, <1>2, <2>2, <2>7 DEF Gives, Stands, Hook!Reading, Cursor
<1>3. CASE ~ (p + Len(b) <= Len(wire))
  <2>1. ~ (c.ok /\ c.at + Len(b) <= Len(wire))
    BY <1>1, <1>3 DEF Stands, Hook!Reading
  <2>2. ~ Hook!bytesAt(c, Len(b)).c.ok /\ Hook!bytesAt(c, Len(b)).c \in Cursor
    BY <2>1 DEF Hook!bytesAt, Hook!Read, Stands, Cursor
  <2> QED  BY <1>1, <1>3, <2>2 DEF Gives, Stands
<1> QED  BY <1>2, <1>3

LEMMA CellIsSafe ==
  ASSUME wire \in Cells, NEW c \in Cursor
  PROVE  Safe(c, Hook!Cell(c)) /\ Hook!Cell(c).value \in Nat
<1>1. Safe(c, Hook!bytesAt(c, 1)) /\ Hook!bytesAt(c, 1).value \in Cells
  BY BytesAreSafe
<1>2. Hook!bytesAt(c, 1).value # <<>> => Hook!bytesAt(c, 1).value[1] \in Nat
  <2>1. ASSUME NEW s \in Seq(Nat), s # <<>> PROVE s[1] \in Nat
    BY <2>1, EmptySeq, ElementOfSeq
  <2> QED  BY <1>1, <2>1 DEF Cells
<1> QED  BY <1>1, <1>2 DEF Hook!Cell, Hook!Read, Safe

LEMMA CellComesBack ==
  ASSUME wire \in Cells, NEW p \in Nat, NEW c, Stands(c, p),
         NEW v \in Nat, Arrived(p, <<v>>)
  PROVE  Gives(Hook!Cell(c), v, p + 1)
<1>1. <<v>> \in Cells /\ Len(<<v>>) = 1
  BY DEF Cells
<1>2. Gives(Hook!bytesAt(c, 1), <<v>>, p + 1)
  BY <1>1, BytesComeBack
<1>3. Hook!Cell(c).c = Hook!bytesAt(c, 1).c
  BY DEF Hook!Cell, Hook!Read
<1>4. Hook!bytesAt(c, 1).value = <<v>> => Hook!Cell(c).value = v
  BY DEF Hook!Cell, Hook!Read
<1> QED  BY <1>2, <1>3, <1>4 DEF Gives

-----------------------------------------------------------------------------
(* A vector's loop is a fold, which takes its numbers out largest first.    *)

(* A largest member of a set of numbers up to n.                           *)
LEMMA LargestIsAMember ==
  ASSUME NEW n \in Nat, NEW s \in SUBSET (1 .. n), s # {}
  PROVE  Hook!Max(s) \in s /\ \A y \in s : Hook!Max(s) >= y
<1> DEFINE T == {m \in Nat : \A y \in s : m >= y}
<1>1. T # {}
  <2>1. n \in T
    OBVIOUS
  <2> QED  BY <2>1
<1>2. PICK m \in T : \A k \in T : m <= k
  BY <1>1, LeastNumber
<1>3. m \in s
  <2> SUFFICES ASSUME m \notin s PROVE FALSE
    OBVIOUS
  <2>1. PICK y \in s : TRUE
    OBVIOUS
  <2>2. m >= 1 /\ m - 1 \in Nat
    BY <2>1
  <2>3. \A z \in s : m - 1 >= z
    OBVIOUS
  <2> QED  BY <1>2, <2>2, <2>3
<1>4. \E x \in s : \A y \in s : x >= y
  BY <1>3
<1> QED  BY <1>4 DEF Hook!Max

LEMMA LargestUpTo ==
  ASSUME NEW k \in Nat, k # 0
  PROVE  Hook!Max(1 .. k) = k /\ (1 .. k) \ {k} = 1 .. k - 1
<1>1. 1 .. k \in SUBSET (1 .. k) /\ 1 .. k # {} /\ k \in 1 .. k
  OBVIOUS
<1>2. Hook!Max(1 .. k) \in 1 .. k /\ \A y \in 1 .. k : Hook!Max(1 .. k) >= y
  BY <1>1, LargestIsAMember
<1>3. Hook!Max(1 .. k) >= k
  BY <1>1, <1>2
<1>4. Hook!Max(1 .. k) = k
  BY <1>2, <1>3
<1> QED  BY <1>4

(* What a vector's loop has after k items, when it[c] is an item's read at c. *)
Steps(h, it, first, n) ==
  /\ h[0] = Hook!Read(<<>>, first)
  /\ \A k \in 1 .. n :
       h[k] = Hook!Read(Append(h[k - 1].value, it[h[k - 1].c].value), it[h[k - 1].c].c)

\* The same as FoldLeft defines it, over sets of the indices.
Folds(g, it, first, n) ==
  g = [s \in SUBSET (1 .. n) |->
         IF s = {} THEN Hook!Read(<<>>, first)
         ELSE Hook!Read(Append(g[s \ {Hook!Max(s)}].value,
                               it[g[s \ {Hook!Max(s)}].c].value),
                        it[g[s \ {Hook!Max(s)}].c].c)]

LEMMA StepsExist ==
  ASSUME NEW it, \A c \in Cursor : it[c].c \in Cursor, NEW first \in Cursor, NEW n \in Nat
  PROVE  \E h : Steps(h, it, first, n) /\ \A k \in 0 .. n : h[k].c \in Cursor
<1> DEFINE T == {m \in Nat : \E h : Steps(h, it, first, m) /\ \A k \in 0 .. m : h[k].c \in Cursor}
<1>1. 0 \in T
  <2> DEFINE h == [k \in {0} |-> Hook!Read(<<>>, first)]
  <2>1. h[0] = Hook!Read(<<>>, first) /\ h[0].c = first
    BY DEF Hook!Read
  <2>2. Steps(h, it, first, 0)
    BY <2>1 DEF Steps
  <2>3. \A k \in 0 .. 0 : k = 0
    OBVIOUS
  <2> HIDE DEF h
  <2> QED  BY <2>1, <2>2, <2>3
<1>2. ASSUME NEW m \in T PROVE m + 1 \in T
  <2>1. PICK h : Steps(h, it, first, m) /\ \A k \in 0 .. m : h[k].c \in Cursor
    OBVIOUS
  <2> DEFINE next == Hook!Read(Append(h[m].value, it[h[m].c].value), it[h[m].c].c)
             f == [k \in 0 .. m + 1 |-> IF k = m + 1 THEN next ELSE h[k]]
  <2>2. /\ m \in Nat /\ m \in 0 .. m /\ m + 1 \in 0 .. m + 1
        /\ \A k \in 0 .. m : k \in 0 .. m + 1 /\ k # m + 1
        /\ \A k \in 0 .. m + 1 : k = m + 1 \/ k \in 0 .. m
        /\ \A k \in 1 .. m + 1 : k - 1 \in 0 .. m /\ (k = m + 1 \/ k \in 1 .. m)
        /\ m + 1 - 1 = m /\ \A k \in 1 .. m : k \in 0 .. m
    OBVIOUS
  <2>3. next.c \in Cursor
    <3>1. next.c = it[h[m].c].c
      BY DEF Hook!Read
    <3> QED  BY <2>1, <2>2, <3>1
  <2>4. f[m + 1] = next /\ \A k \in 0 .. m : f[k] = h[k]
    BY <2>2
  <2> HIDE DEF f
  <2>5. \A k \in 0 .. m + 1 : f[k].c \in Cursor
    <3> HIDE DEF next
    <3> QED  BY <2>1, <2>2, <2>3, <2>4
  <2>6. \A k \in 1 .. m + 1 :
          f[k] = Hook!Read(Append(f[k - 1].value, it[f[k - 1].c].value), it[f[k - 1].c].c)
    <3> TAKE k \in 1 .. m + 1
    <3>1. CASE k = m + 1
      BY <3>1, <2>2, <2>4
    <3>2. CASE k \in 1 .. m
      BY <3>2, <2>1, <2>2, <2>4 DEF Steps
    <3> QED  BY <3>1, <3>2, <2>2
  <2>7. f[0] = h[0]
    BY <2>2, <2>4
  <2>8. Steps(f, it, first, m + 1)
    BY <2>1, <2>6, <2>7 DEF Steps
  <2> QED  BY <2>2, <2>5, <2>8
<1>3. T = Nat
  <2> HIDE DEF T
  <2>1. T \in SUBSET Nat
    BY DEF T
  <2> QED  BY <1>1, <1>2, <2>1, NumberInduction
<1> QED  BY <1>3

LEMMA FoldExists ==
  ASSUME NEW it, NEW first, NEW n \in Nat, NEW h, Steps(h, it, first, n),
         \A k \in 0 .. n : h[k].c \in Cursor
  PROVE  \E g : Folds(g, it, first, n) /\ \A s \in SUBSET (1 .. n) : g[s].c \in Cursor
<1> DEFINE g == [s \in SUBSET (1 .. n) |-> h[Cardinality(s)]]
<1>1. \A s \in SUBSET (1 .. n) : IsFiniteSet(s) /\ Cardinality(s) \in 0 .. n
  <2> TAKE s \in SUBSET (1 .. n)
  <2>1. IsFiniteSet(1 .. n) /\ Cardinality(1 .. n) = n
    <3>1. IsFiniteSet(1 .. n) /\ Cardinality(1 .. n) = IF 1 > n THEN 0 ELSE n - 1 + 1
      BY FS_Interval
    <3> QED  BY <3>1
  <2>2. IsFiniteSet(s) /\ Cardinality(s) <= n
    BY <2>1, FS_Subset
  <2>3. Cardinality(s) \in Nat
    BY <2>2, FS_CardinalityType
  <2> QED  BY <2>2, <2>3
<1>2. ASSUME NEW s \in SUBSET (1 .. n), s # {}
      PROVE  /\ s \ {Hook!Max(s)} \in SUBSET (1 .. n)
             /\ Cardinality(s) \in 1 .. n
             /\ Cardinality(s \ {Hook!Max(s)}) = Cardinality(s) - 1
  <2>1. Hook!Max(s) \in s
    BY <1>2, LargestIsAMember
  <2>2. Cardinality(s \ {Hook!Max(s)}) = Cardinality(s) - 1 /\ Cardinality(s) # 0
    BY <1>1, <1>2, <2>1, FS_RemoveElement, FS_EmptySet
  <2>3. Cardinality(s) \in 0 .. n
    BY <1>1
  <2>4. Cardinality(s) \in 1 .. n
    BY <2>2, <2>3
  <2>5. s \ {Hook!Max(s)} \in SUBSET (1 .. n)
    OBVIOUS
  <2> QED  BY <2>2, <2>4, <2>5
<1>3. g[{}] = h[0]
  BY FS_EmptySet
<1>4. \A s \in SUBSET (1 .. n) : g[s] = h[Cardinality(s)]
  OBVIOUS
<1>5. g = [s \in SUBSET (1 .. n) |-> g[s]]
  OBVIOUS
<1> HIDE DEF g
<1>6. \A s \in SUBSET (1 .. n) :
        g[s] = IF s = {} THEN Hook!Read(<<>>, first)
               ELSE Hook!Read(Append(g[s \ {Hook!Max(s)}].value,
                                     it[g[s \ {Hook!Max(s)}].c].value),
                              it[g[s \ {Hook!Max(s)}].c].c)
  <2> TAKE s \in SUBSET (1 .. n)
  <2>1. CASE s = {}
    BY <2>1, <1>3 DEF Steps
  <2>2. CASE s # {}
    BY <2>2, <1>2, <1>4 DEF Steps
  <2> QED  BY <2>1, <2>2
<1>7. Folds(g, it, first, n)
  BY <1>5, <1>6 DEF Folds
<1> QED  BY <1>1, <1>4, <1>7

(* A fold over the first indices follows the steps.                        *)
LEMMA FoldFollows ==
  ASSUME NEW n \in Nat, NEW g, NEW h, g[{}] = h[0],
         \A k \in 1 .. n : g[1 .. k - 1] = h[k - 1] => g[1 .. k] = h[k]
  PROVE  g[1 .. n] = h[n]
<1> DEFINE T == {m \in Nat : m <= n => g[1 .. m] = h[m]}
<1>1. 0 \in T
  <2>1. 1 .. 0 = {}
    OBVIOUS
  <2> QED  BY <2>1
<1>2. ASSUME NEW m \in T PROVE m + 1 \in T
  <2>1. CASE m + 1 <= n
    <3>1. m + 1 \in 1 .. n /\ m + 1 - 1 = m /\ m <= n /\ m \in Nat
      BY <2>1
    <3>2. g[1 .. m] = h[m]
      BY <3>1
    <3>3. g[1 .. m + 1] = h[m + 1]
      BY <3>1, <3>2
    <3> QED  BY <3>1, <3>3
  <2> QED  BY <2>1
<1>3. T = Nat
  <2> HIDE DEF T
  <2>1. T \in SUBSET Nat
    BY DEF T
  <2> QED  BY <1>1, <1>2, <2>1, NumberInduction
<1> QED  BY <1>3

-----------------------------------------------------------------------------
(* Encodings after each other: a run.                                       *)

LEMMA StepsAreSafe ==
  ASSUME NEW it, \A c \in Cursor : Safe(c, it[c]), NEW first \in Cursor,
         NEW n \in Nat, NEW h, Steps(h, it, first, n)
  PROVE  Safe(first, h[n])
<1> DEFINE T == {m \in Nat : m <= n => Safe(first, h[m])}
<1>1. 0 \in T
  BY DEF Steps, Safe, Hook!Read
<1>2. ASSUME NEW m \in T PROVE m + 1 \in T
  <2>1. CASE m + 1 <= n
    <3>1. m + 1 \in 1 .. n /\ m + 1 - 1 = m /\ m <= n /\ m \in Nat
      BY <2>1
    <3>2. Safe(first, h[m]) /\ Safe(h[m].c, it[h[m].c])
      BY <3>1 DEF Safe
    <3>3. h[m + 1].c = it[h[m].c].c
      <4>1. \A k \in 1 .. n : h[k].c = it[h[k - 1].c].c
        <5> TAKE k \in 1 .. n
        <5>1. h[k] = Hook!Read(Append(h[k - 1].value, it[h[k - 1].c].value), it[h[k - 1].c].c)
          BY DEF Steps
        <5>2. \A v, c : Hook!Read(v, c).c = c
          BY DEF Hook!Read
        <5> QED  BY <5>1, <5>2
      <4>2. \A k \in 1 .. n : k - 1 = m => h[k].c = it[h[m].c].c
        BY <4>1
      <4> QED  BY <3>1, <4>2
    <3>4. Safe(first, h[m + 1])
      BY <3>2, <3>3 DEF Safe
    <3> QED  BY <3>1, <3>4
  <2> QED  BY <2>1
<1>3. T = Nat
  <2> HIDE DEF T
  <2>1. T \in SUBSET Nat
    BY DEF T
  <2> QED  BY <1>1, <1>2, <2>1, NumberInduction
<1> QED  BY <1>3

\* The steps that Vector(c, Item) takes, when item[d] = Item(d).
VectorTakes(h, item, c, r) ==
  /\ Steps(h, item, Hook!Cell(c).c, Hook!Cell(c).value)
  /\ r = h[Hook!Cell(c).value]

(* The encodings of items after each other, and how they add up.           *)
Runs(f, es) ==
  /\ f[0] = <<>>
  /\ \A k \in 0 .. Len(es) : f[k] \in Cells
  /\ \A k \in 1 .. Len(es) : f[k] = f[k - 1] \o es[k]

LEMMA RunsExist ==
  ASSUME NEW es \in Seq(Cells)
  PROVE  \E f : Runs(f, es)
<1> DEFINE n == Len(es)
<1>1. n \in Nat /\ \A k \in 1 .. n : es[k] \in Cells
  BY LenProperties, ElementOfSeq
<1> HIDE DEF n
<1> DEFINE Good(f, m) == /\ f[0] = <<>> /\ \A k \in 0 .. m : f[k] \in Cells
                         /\ \A k \in 1 .. m : f[k] = f[k - 1] \o es[k]
           T == {m \in Nat : m <= n => \E f : Good(f, m)}
<1>2. 0 \in T
  <2> DEFINE f == [k \in {0} |-> <<>>]
  <2>1. f[0] = <<>> /\ <<>> \in Cells
    BY EmptySeq DEF Cells
  <2> HIDE DEF f
  <2>2. Good(f, 0)
    BY <2>1 DEF Good
  <2> QED  BY <2>2
<1> HIDE DEF Good
<1>3. ASSUME NEW m \in T PROVE m + 1 \in T
  <2> SUFFICES ASSUME m + 1 <= n PROVE \E f : Good(f, m + 1)
    OBVIOUS
  <2>1. m \in Nat /\ m <= n /\ m + 1 \in 1 .. n
    BY <1>1
  <2>0. PICK f : Good(f, m)
    BY <2>1
  <2>2. /\ f[0] = <<>> /\ \A k \in 0 .. m : f[k] \in Cells
        /\ \A k \in 1 .. m : f[k] = f[k - 1] \o es[k]
    BY <2>0 DEF Good
  <2> DEFINE g == [k \in 0 .. m + 1 |-> IF k = m + 1 THEN f[m] \o es[m + 1] ELSE f[k]]
  <2>3. f[m] \o es[m + 1] \in Cells
    <3>1. f[m] \in Cells /\ es[m + 1] \in Cells
      BY <1>1, <2>1, <2>2
    <3> QED  BY <3>1, ConcatProperties DEF Cells
  <2>4. /\ m + 1 \in 0 .. m + 1 /\ m + 1 - 1 = m /\ m \in 0 .. m
        /\ \A k \in 0 .. m : k \in 0 .. m + 1 /\ k # m + 1
        /\ \A k \in 0 .. m + 1 : k = m + 1 \/ k \in 0 .. m
        /\ \A k \in 1 .. m + 1 : k - 1 \in 0 .. m /\ (k = m + 1 \/ k \in 1 .. m)
        /\ \A k \in 1 .. m : k \in 0 .. m
        /\ 0 \in 0 .. m
    BY <2>1
  <2>5. g[m + 1] = f[m] \o es[m + 1] /\ \A k \in 0 .. m : g[k] = f[k]
    BY <2>4
  <2> HIDE DEF g
  <2>6. \A k \in 0 .. m + 1 : g[k] \in Cells
    BY <2>2, <2>3, <2>4, <2>5
  <2>7. \A k \in 1 .. m + 1 : g[k] = g[k - 1] \o es[k]
    <3> TAKE k \in 1 .. m + 1
    <3>1. CASE k = m + 1
      <4>1. k - 1 = m /\ g[m] = f[m]
        BY <3>1, <2>4, <2>5
      <4> QED  BY <4>1, <3>1, <2>5
    <3>2. CASE k \in 1 .. m
      BY <3>2, <2>2, <2>4, <2>5
    <3> QED  BY <3>1, <3>2, <2>4
  <2>8. Good(g, m + 1)
    BY <2>2, <2>4, <2>5, <2>6, <2>7 DEF Good
  <2> QED  BY <2>8
<1>4. T = Nat
  <2> HIDE DEF T
  <2>1. T \in SUBSET Nat
    BY DEF T
  <2> QED  BY <1>2, <1>3, <2>1, NumberInduction
<1>5. \E f : Good(f, n)
  <2>1. n \in T
    BY <1>1, <1>4
  <2> QED  BY <1>1, <2>1
<1> QED  BY <1>5 DEF Runs, n, Good

Flattens(f, es, m) == f = [i \in 1 .. m |-> IF i = 1 THEN es[i] ELSE f[i - 1] \o es[i]]

(* What the first m encodings make is what the run has after m.            *)
LEMMA RunsFlatten ==
  ASSUME NEW es \in Seq(Cells), NEW f, Runs(f, es), NEW m \in 0 .. Len(es)
  PROVE  Hook!FlattenSeq(SubSeq(es, 1, m)) = f[m]
<1> DEFINE s == SubSeq(es, 1, m)
<1>1. Len(es) \in Nat /\ \A i \in 1 .. Len(es) : es[i] \in Cells
  BY LenProperties, ElementOfSeq
<1>2. Len(s) = m /\ \A i \in 1 .. m : s[i] = es[i] /\ es[i] \in Cells
  <2>1. 1 \in Int /\ m \in Int /\ \A i \in 1 .. m : es[i] \in Cells
    BY <1>1
  <2>2. /\ Len(s) = IF 1 <= m THEN m - 1 + 1 ELSE 0
        /\ \A i \in 1 .. m - 1 + 1 : s[i] = es[1 + i - 1]
    BY <2>1, SubSeqProperties
  <2> QED  BY <2>1, <2>2
<1>3. CASE m = 0
  <2>1. s = <<>>
    BY <1>3, SubSeqEmpty
  <2> QED  BY <2>1, <1>2, <1>3 DEF Hook!FlattenSeq, Runs
<1>4. CASE m # 0
  <2> HIDE DEF s
  <2>1. \A i \in 1 .. m : f[i] = IF i = 1 THEN s[i] ELSE f[i - 1] \o s[i]
    <3> TAKE i \in 1 .. m
    <3>0. i \in 1 .. Len(es)
      BY <1>1
    <3>1. f[i] = f[i - 1] \o es[i] /\ s[i] = es[i] /\ es[i] \in Cells
      BY <1>2, <3>0 DEF Runs
    <3>2. CASE i = 1
      <4>0. i - 1 = 0 /\ f[0] = <<>>
        BY <3>2 DEF Runs
      <4>1. f[i] = <<>> \o es[i]
        BY <3>1, <4>0
      <4> QED  BY <4>1, <3>1, <3>2, ConcatEmptySeq DEF Cells
    <3> QED  BY <3>1, <3>2
  <2> DEFINE g == [i \in 1 .. m |-> f[i]]
             F == CHOOSE x : Flattens(x, s, m)
  <2>2. Flattens(g, s, m)
    <3>1. \A i \in 1 .. m : g[i] = f[i]
      OBVIOUS
    <3>2. \A i \in 1 .. m : i # 1 => i - 1 \in 1 .. m
      BY <1>1
    <3>3. g = [i \in 1 .. m |-> g[i]]
      OBVIOUS
    <3> HIDE DEF g
    <3>4. \A i \in 1 .. m : g[i] = IF i = 1 THEN s[i] ELSE g[i - 1] \o s[i]
      BY <2>1, <3>1, <3>2
    <3> QED  BY <3>3, <3>4 DEF Flattens
  <2>3. Flattens(F, s, m)
    BY <2>2
  <2> HIDE DEF F
  <2> DEFINE T == {k \in Nat : k + 1 <= m => F[k + 1] = f[k + 1]}
  <2>4. \A i \in 1 .. m : F[i] = IF i = 1 THEN s[i] ELSE F[i - 1] \o s[i]
    BY <2>3 DEF Flattens
  <2>5. 0 \in T
    <3>1. 1 \in 1 .. m
      BY <1>1, <1>4
    <3> QED  BY <3>1, <2>1, <2>4
  <2>6. ASSUME NEW k \in T PROVE k + 1 \in T
    <3> SUFFICES ASSUME k + 1 + 1 <= m PROVE F[k + 1 + 1] = f[k + 1 + 1]
      OBVIOUS
    <3>1. k + 1 + 1 \in 1 .. m /\ k + 1 + 1 # 1 /\ k + 1 + 1 - 1 = k + 1 /\ k + 1 <= m
      BY <1>1
    <3>2. F[k + 1] = f[k + 1]
      BY <3>1
    <3> QED  BY <3>1, <3>2, <2>1, <2>4
  <2>7. T = Nat
    <3> HIDE DEF T
    <3>1. T \in SUBSET Nat
      BY DEF T
    <3> QED  BY <2>5, <2>6, <3>1, NumberInduction
  <2>8. F[m] = f[m]
    <3>1. m - 1 \in Nat /\ m - 1 + 1 = m
      BY <1>1, <1>4
    <3>2. m - 1 \in T
      BY <3>1, <2>7
    <3>3. F[m - 1 + 1] = f[m - 1 + 1]
      BY <3>1, <3>2
    <3> QED  BY <3>1, <3>3
  <2>9. Hook!FlattenSeq(s) = F[m]
    BY <1>2, <1>4 DEF Hook!FlattenSeq, F, Flattens
  <2> QED  BY <2>8, <2>9 DEF s
<1> QED  BY <1>3, <1>4

-----------------------------------------------------------------------------
(* Items that read back one by one read back as a vector.                   *)

(* Each of a run's encodings has arrived where the ones before it end.     *)
LEMMA RunArrives ==
  ASSUME NEW es \in Seq(Cells), NEW f, Runs(f, es), NEW p \in Nat,
         Arrived(p, f[Len(es)])
  PROVE  \A k \in 1 .. Len(es) :
           /\ Arrived(p + Len(f[k - 1]), es[k])
           /\ Len(f[k]) = Len(f[k - 1]) + Len(es[k])
<1> DEFINE n == Len(es)
           T == {j \in Nat : j <= n => Arrived(p, f[n - j])}
<1>1. n \in Nat /\ \A k \in 1 .. n : es[k] \in Cells
  BY LenProperties, ElementOfSeq
<1>2. \A k \in 0 .. n : f[k] \in Cells
  BY DEF Runs
<1>3. \A k \in 1 .. n : f[k] = f[k - 1] \o es[k] /\ k - 1 \in 0 .. n
  <2>1. \A k \in 1 .. n : f[k] = f[k - 1] \o es[k]
    BY DEF Runs
  <2>2. \A k \in 1 .. n : k - 1 \in 0 .. n
    BY <1>1
  <2> QED  BY <2>1, <2>2
<1>4. ASSUME NEW k \in 1 .. n, Arrived(p, f[k])
      PROVE  /\ Arrived(p, f[k - 1]) /\ Arrived(p + Len(f[k - 1]), es[k])
             /\ Len(f[k]) = Len(f[k - 1]) + Len(es[k])
  <2>1. f[k - 1] \in Cells /\ es[k] \in Cells /\ f[k] = f[k - 1] \o es[k]
    BY <1>1, <1>2, <1>3
  <2>2. Arrived(p, f[k - 1] \o es[k])
    BY <1>4, <2>1
  <2> HIDE DEF n
  <2>3. \A a \in Cells, b \in Cells :
          Arrived(p, a \o b) => /\ Arrived(p, a) /\ Arrived(p + Len(a), b)
                                /\ Len(a \o b) = Len(a) + Len(b)
    BY PartsArrive
  <2>4. /\ Arrived(p, f[k - 1]) /\ Arrived(p + Len(f[k - 1]), es[k])
        /\ Len(f[k - 1] \o es[k]) = Len(f[k - 1]) + Len(es[k])
    BY <2>1, <2>2, <2>3
  <2> QED  BY <2>1, <2>4
<1> HIDE DEF n
<1>5. 0 \in T
  <2>1. n - 0 = n
    BY <1>1
  <2> QED  BY <2>1 DEF n
<1>6. ASSUME NEW j \in T PROVE j + 1 \in T
  <2> SUFFICES ASSUME j + 1 <= n PROVE Arrived(p, f[n - (j + 1)])
    OBVIOUS
  <2>1. j \in Nat /\ j <= n /\ n - j \in 1 .. n /\ n - j - 1 = n - (j + 1)
    BY <1>1
  <2>2. Arrived(p, f[n - j])
    BY <2>1
  <2>3. Arrived(p, f[n - j - 1])
    BY <1>4, <2>1, <2>2
  <2> QED  BY <2>1, <2>3
<1>7. T = Nat
  <2> HIDE DEF T
  <2>1. T \in SUBSET Nat
    BY DEF T
  <2> QED  BY <1>5, <1>6, <2>1, NumberInduction
<1>8. \A k \in 1 .. n : Arrived(p, f[k])
  <2> TAKE k \in 1 .. n
  <2>0. n - k \in Nat /\ n - (n - k) = k /\ n - k <= n
    BY <1>1
  <2>1. n - k \in T /\ n - (n - k) = k /\ n - k <= n
    <3> HIDE DEF T
    <3> QED  BY <2>0, <1>7
  <2>2. Arrived(p, f[n - (n - k)])
    BY <2>1
  <2> QED  BY <2>1, <2>2
<1> QED  BY <1>4, <1>8 DEF n

LEMMA LongerByOne ==
  ASSUME NEW S, NEW xs \in Seq(S), NEW k \in 1 .. Len(xs)
  PROVE  Append(SubSeq(xs, 1, k - 1), xs[k]) = SubSeq(xs, 1, k)
<1>1. Len(xs) \in Nat /\ \A i \in 1 .. Len(xs) : xs[i] \in S
  BY LenProperties, ElementOfSeq
<1>2. 1 \in 1 .. Len(xs) /\ k \in 1 .. Len(xs) /\ k \in 1 .. k
  BY <1>1
<1>3. SubSeq(xs, 1, k) = SubSeq(xs, 1, k - 1) \o <<xs[k]>>
  BY <1>2, SubSeqRecursiveSecond
<1>4. SubSeq(xs, 1, k - 1) \in Seq(S)
  <2>1. 1 \in Int /\ k - 1 \in Int /\ \A i \in 1 .. k - 1 : xs[i] \in S
    BY <1>1
  <2> QED  BY <2>1, SubSeqProperties
<1>5. xs[k] \in S
  BY <1>1
<1> QED  BY <1>3, <1>4, <1>5, AppendIsConcat

(* A vector whose items come back comes back, if only as far as it arrived. *)
LEMMA VectorComesBack ==
  ASSUME wire \in Cells, NEW item, \A d \in Cursor : Safe(d, item[d]),
         NEW X, NEW xs \in Seq(X), NEW es \in Seq(Cells), Len(es) = Len(xs),
         \A k \in 1 .. Len(xs) : \A q \in Nat : \A d \in Cursor :
           Stands(d, q) /\ Arrived(q, es[k]) => Gives(item[d], xs[k], q + Len(es[k])),
         NEW p \in Nat, NEW c, Stands(c, p),
         Arrived(p, <<Len(xs)>>), Arrived(p + 1, Hook!FlattenSeq(es)),
         NEW h, NEW r, VectorTakes(h, item, c, r)
  PROVE  Gives(r, xs, p + 1 + Len(Hook!FlattenSeq(es)))
<1> DEFINE n == Len(xs)
<1>0. n \in Nat /\ Len(wire) \in Nat /\ c \in Cursor
  BY LenProperties DEF Cells, Stands
<1>1. PICK f : Runs(f, es)
  BY RunsExist
<1>2. Hook!FlattenSeq(es) = f[n] /\ f[n] \in Cells /\ f[0] = <<>>
  <2>1. n \in 0 .. Len(es) /\ SubSeq(es, 1, n) = es
    BY <1>0, SubSeqFull
  <2> QED  BY <1>1, <2>1, RunsFlatten DEF Runs
<1>4. Arrived(p, <<n>>) /\ Arrived(p + 1, f[n])
  BY <1>2
<1> DEFINE pos(k) == p + 1 + Len(f[k])
<1>5. \A k \in 0 .. n : Len(f[k]) \in Nat /\ pos(k) \in Nat
  <2>1. \A k \in 0 .. n : f[k] \in Cells
    BY <1>1 DEF Runs
  <2> TAKE k \in 0 .. n
  <2>2. f[k] \in Seq(Nat)
    BY <2>1 DEF Cells
  <2>3. Len(f[k]) \in Nat
    BY <2>2, LenProperties
  <2>4. \A a \in Nat : p + 1 + a \in Nat
    OBVIOUS
  <2> QED  BY <2>3, <2>4
<1>6. \A k \in 1 .. n : /\ Arrived(pos(k - 1), es[k])
                        /\ pos(k) = pos(k - 1) + Len(es[k])
                        /\ Len(es[k]) \in Nat
  <2>1. p + 1 \in Nat /\ Len(es) = n
    OBVIOUS
  <2>2. \A k \in 1 .. n : /\ Arrived(p + 1 + Len(f[k - 1]), es[k])
                          /\ Len(f[k]) = Len(f[k - 1]) + Len(es[k])
    <3>1. Arrived(p + 1, f[Len(es)])
      BY <1>4
    <3> QED  BY <1>1, <2>1, <3>1, RunArrives
  <2>3. \A k \in 1 .. n : Len(es[k]) \in Nat
    <3>1. \A k \in 1 .. n : es[k] \in Cells
      BY ElementOfSeq
    <3> QED  BY <3>1, LenProperties DEF Cells
  <2>4. \A k \in 1 .. n : k - 1 \in 0 .. n
    BY <1>0
  <2> TAKE k \in 1 .. n
  <2>5. /\ Len(f[k]) = Len(f[k - 1]) + Len(es[k]) /\ Len(es[k]) \in Nat
        /\ Len(f[k - 1]) \in Nat /\ Arrived(p + 1 + Len(f[k - 1]), es[k])
    BY <1>5, <2>2, <2>3, <2>4
  <2>6. \A a \in Nat, b \in Nat : p + 1 + (a + b) = p + 1 + a + b
    OBVIOUS
  <2>7. pos(k) = pos(k - 1) + Len(es[k])
    BY <2>5, <2>6
  <2> QED  BY <2>5, <2>7
<1> DEFINE first == Hook!Cell(c)
<1>7. /\ Gives(first, n, p + 1) /\ first.c \in Cursor /\ first.value \in Nat
  BY <1>0, <1>4, CellComesBack, CellIsSafe DEF Safe
<1>8. Steps(h, item, first.c, first.value) /\ r = h[first.value]
  BY DEF VectorTakes
<1> HIDE DEF first
<1>9. CASE p + 1 > Len(wire)
  <2>1. ~ first.c.ok
    BY <1>7, <1>9 DEF Gives, Stands
  <2>2. Safe(first.c, r)
    BY <1>7, <1>8, StepsAreSafe
  <2>3. pos(n) \in Nat /\ pos(n) > Len(wire)
    <3>1. n \in 0 .. n /\ Len(f[n]) \in Nat
      BY <1>0, <1>5
    <3>2. \A a \in Nat : p + 1 + a > Len(wire) /\ p + 1 + a \in Nat
      BY <1>0, <1>9
    <3> QED  BY <3>1, <3>2
  <2>4. Stands(r.c, pos(n)) /\ ~ (pos(n) <= Len(wire))
    <3> HIDE DEF pos
    <3> QED  BY <1>0, <2>1, <2>2, <2>3 DEF Stands, Safe
  <2> QED  BY <1>2, <2>4 DEF Gives
<1>10. CASE ~ (p + 1 > Len(wire))
  <2>1. first.value = n
    BY <1>0, <1>7, <1>10 DEF Gives
  <2> DEFINE T == {k \in Nat : k <= n => Gives(h[k], SubSeq(xs, 1, k), pos(k))}
  <2>2. \A v, d : Hook!Read(v, d).c = d /\ Hook!Read(v, d).value = v
    BY DEF Hook!Read
  <2>3. 0 \in T
    <3>1. h[0].c = first.c /\ h[0].value = <<>>
      BY <1>8, <2>2 DEF Steps
    <3>2. SubSeq(xs, 1, 0) = <<>>
      BY SubSeqEmpty
    <3>3. pos(0) = p + 1
      BY <1>2
    <3>4. Gives(h[0], SubSeq(xs, 1, 0), pos(0))
      BY <1>7, <3>1, <3>2, <3>3 DEF Gives
    <3> QED  BY <3>4
  <2>4. ASSUME NEW k \in T PROVE k + 1 \in T
    <3> SUFFICES ASSUME k + 1 <= n PROVE Gives(h[k + 1], SubSeq(xs, 1, k + 1), pos(k + 1))
      <4>1. k + 1 \in Nat
        OBVIOUS
      <4> QED  BY <4>1
    <3> DEFINE m == k + 1
    <3>1. k \in Nat /\ k <= n /\ m \in 1 .. n /\ m - 1 = k /\ k \in 0 .. n /\ m \in 0 .. n
      BY <1>0
    <3>2. Gives(h[k], SubSeq(xs, 1, k), pos(k))
      BY <3>1
    <3> HIDE DEF m, pos
    <3>3. h[k].c \in Cursor /\ Stands(h[k].c, pos(k))
      BY <3>2 DEF Gives, Stands
    <3>4. Arrived(pos(k), es[m]) /\ pos(m) = pos(k) + Len(es[m]) /\ Len(es[m]) \in Nat
      BY <1>6, <3>1
    <3>5. pos(k) \in Nat /\ pos(m) \in Nat
      BY <1>5, <3>1
    <3>6. Gives(item[h[k].c], xs[m], pos(m))
      BY <3>1, <3>3, <3>4, <3>5
    <3>7. h[m].c = item[h[k].c].c /\ h[m].value = Append(h[k].value, item[h[k].c].value)
      <4>1. \A i \in 1 .. n : h[i] = Hook!Read(Append(h[i - 1].value, item[h[i - 1].c].value),
                                              item[h[i - 1].c].c)
        BY <1>8, <2>1 DEF Steps
      <4>2. h[m] = Hook!Read(Append(h[m - 1].value, item[h[m - 1].c].value),
                              item[h[m - 1].c].c)
        BY <4>1, <3>1
      <4>3. h[m] = Hook!Read(Append(h[k].value, item[h[k].c].value), item[h[k].c].c)
        BY <4>2, <3>1
      <4> HIDE DEF T, n
      <4> QED  BY <4>3 DEF Hook!Read
    <3>8. Append(SubSeq(xs, 1, k), xs[m]) = SubSeq(xs, 1, m)
      BY <3>1, LongerByOne
    <3>9. pos(m) <= Len(wire) => h[m].value = SubSeq(xs, 1, m)
      <4>1. pos(m) <= Len(wire) => pos(k) <= Len(wire)
        BY <1>0, <3>4, <3>5
      <4> QED  BY <4>1, <3>2, <3>6, <3>7, <3>8 DEF Gives
    <3> QED  BY <3>6, <3>7, <3>9 DEF Gives, m
  <2>5. T = Nat
    <3> HIDE DEF T
    <3>1. T \in SUBSET Nat
      BY DEF T
    <3> QED  BY <2>3, <2>4, <3>1, NumberInduction
  <2>6. Gives(h[n], SubSeq(xs, 1, n), pos(n))
    <3>1. n \in T /\ n <= n
      <4> HIDE DEF T
      <4> QED  BY <1>0, <2>5
    <3> QED  BY <3>1
  <2>7. SubSeq(xs, 1, n) = xs
    BY SubSeqFull
  <2> QED  BY <1>2, <1>8, <2>1, <2>6, <2>7
<1> QED  BY <1>9, <1>10

(* The same of encodings that are made one by one.                         *)
LEMMA EachArrives ==
  ASSUME NEW S, NEW xs \in Seq(S), NEW es, es = [i \in DOMAIN xs |-> es[i]],
         \A i \in DOMAIN xs : es[i] \in Cells
  PROVE  es \in Seq(Cells) /\ Len(es) = Len(xs) /\ DOMAIN xs = 1 .. Len(xs)
<1>1. DOMAIN xs = 1 .. Len(xs) /\ Len(xs) \in Nat
  BY LenProperties
<1>2. es \in [1 .. Len(xs) -> Cells]
  BY <1>1
<1> QED  BY <1>1, <1>2

LEMMA FlatIsCells ==
  ASSUME NEW es \in Seq(Cells)
  PROVE  Hook!FlattenSeq(es) \in Cells
<1>1. PICK f : Runs(f, es)
  BY RunsExist
<1>2. Len(es) \in 0 .. Len(es) /\ SubSeq(es, 1, Len(es)) = es
  BY LenProperties, SubSeqFull
<1> QED  BY <1>1, <1>2, RunsFlatten DEF Runs

LEMMA CellArrives ==
  ASSUME NEW p \in Nat, NEW t \in Cells, Arrived(p, t), NEW i \in 1 .. Len(t)
  PROVE  Arrived(p + (i - 1), <<t[i]>>) /\ t[i] \in Nat
<1>1. Len(t) \in Nat /\ t[i] \in Nat
  BY LenProperties, ElementOfSeq DEF Cells
<1>2. Len(<<t[i]>>) = 1 /\ <<t[i]>>[1] = t[i]
  OBVIOUS
<1>3. \A j \in 1 .. 1 : j = 1
  OBVIOUS
<1>4. p + (i - 1) + 1 = p + i
  OBVIOUS
<1>5. p + i <= Len(wire) => wire[p + i] = t[i]
  BY DEF Arrived
<1> QED  BY <1>1, <1>2, <1>3, <1>4, <1>5 DEF Arrived

-----------------------------------------------------------------------------
(* Account metas.                                                           *)

LEMMA BoolIsSafe ==
  ASSUME wire \in Cells, NEW c \in Cursor
  PROVE  Safe(c, Hook!Bool(c))
<1>1. Hook!Bool(c).c = Hook!Cell(c).c
  BY DEF Hook!Bool, Hook!Read
<1> QED  BY <1>1, CellIsSafe DEF Safe

LEMMA BoolComesBack ==
  ASSUME wire \in Cells, NEW p \in Nat, NEW c, Stands(c, p),
         NEW v \in BOOLEAN, Arrived(p, <<Hook!boolByte(v)>>)
  PROVE  Gives(Hook!Bool(c), v, p + 1)
<1>1. Hook!boolByte(v) \in Nat /\ (v <=> Hook!boolByte(v) # 0)
  BY DEF Hook!boolByte
<1>2. Gives(Hook!Cell(c), Hook!boolByte(v), p + 1)
  BY <1>1, CellComesBack
<1>3. Hook!Bool(c).c = Hook!Cell(c).c /\ Hook!Bool(c).value = (Hook!Cell(c).value # 0)
  BY DEF Hook!Bool, Hook!Read
<1> QED  BY <1>1, <1>2, <1>3 DEF Gives

(* The keys.                                                               *)
LEMMA MetaIsSafe ==
  ASSUME wire \in Cells, NEW c \in Cursor
  PROVE  Safe(c, Hook!AccountMeta(c))
<1> DEFINE key == Hook!Cell(c)
           signer == Hook!Bool(key.c)
           writable == Hook!Bool(signer.c)
<1>1. Hook!AccountMeta(c).c = writable.c
  BY DEF Hook!AccountMeta, Hook!Read
<1>2. Safe(c, key) /\ key.c \in Cursor
  BY CellIsSafe DEF Safe
<1> HIDE DEF key
<1>3. Safe(key.c, signer) /\ signer.c \in Cursor
  BY <1>2, BoolIsSafe DEF Safe
<1> HIDE DEF signer
<1>4. Safe(signer.c, writable)
  BY <1>3, BoolIsSafe
<1> QED  BY <1>1, <1>2, <1>3, <1>4 DEF Safe

LEMMA MetaComesBack ==
  ASSUME wire \in Cells, NEW p \in Nat, NEW c, Stands(c, p),
         NEW m \in Hook!Meta, Arrived(p, Hook!encodeAccountMeta(m))
  PROVE  Gives(Hook!AccountMeta(c), m, p + Len(Hook!encodeAccountMeta(m)))
<1> DEFINE key == Hook!Cell(c)
           signer == Hook!Bool(key.c)
           writable == Hook!Bool(signer.c)
<1>1. /\ Hook!AccountMeta(c).c = writable.c
      /\ Hook!AccountMeta(c).value
           = [pubkey |-> key.value, isSigner |-> signer.value, isWritable |-> writable.value]
  BY DEF Hook!AccountMeta, Hook!Read
<1>2. /\ m.pubkey \in Nat /\ m.isSigner \in BOOLEAN /\ m.isWritable \in BOOLEAN
      /\ m = [pubkey |-> m.pubkey, isSigner |-> m.isSigner, isWritable |-> m.isWritable]
  BY DEF Hook!Meta
<1> DEFINE e == Hook!encodeAccountMeta(m)
<1>3. /\ e \in Cells /\ Len(e) = 3
      /\ e[1] = m.pubkey /\ e[2] = Hook!boolByte(m.isSigner)
      /\ e[3] = Hook!boolByte(m.isWritable)
  BY <1>2 DEF Hook!encodeAccountMeta, Hook!boolByte, Cells
<1> HIDE DEF e
<1>4. /\ Arrived(p, <<e[1]>>) /\ Arrived(p + 1, <<e[2]>>) /\ Arrived(p + 2, <<e[3]>>)
  <2>1. \A i \in 1 .. 3 : Arrived(p + (i - 1), <<e[i]>>)
    BY <1>3, CellArrives DEF e
  <2>2. p + (1 - 1) = p /\ p + (2 - 1) = p + 1 /\ p + (3 - 1) = p + 2
    OBVIOUS
  <2>3. 1 \in 1 .. 3 /\ 2 \in 1 .. 3 /\ 3 \in 1 .. 3
    OBVIOUS
  <2> QED  BY <2>1, <2>2, <2>3
<1>5. Gives(key, m.pubkey, p + 1)
  BY <1>2, <1>3, <1>4, CellComesBack
<1> HIDE DEF key
<1>6. Gives(signer, m.isSigner, p + 1 + 1)
  BY <1>2, <1>3, <1>4, <1>5, BoolComesBack DEF Gives
<1> HIDE DEF signer
<1>7. Gives(writable, m.isWritable, p + 2 + 1)
  <2>1. Stands(signer.c, p + 2) /\ p + 2 \in Nat
    BY <1>6 DEF Gives
  <2> QED  BY <1>2, <1>3, <1>4, <2>1, BoolComesBack
<1> HIDE DEF writable
<1>8. Len(wire) \in Nat
  BY LenProperties DEF Cells
<1>9. p + 3 <= Len(wire) => Hook!AccountMeta(c).value = m
  BY <1>1, <1>2, <1>5, <1>6, <1>7, <1>8 DEF Gives
<1>10. Stands(writable.c, p + 3)
  BY <1>7 DEF Gives
<1> QED  BY <1>1, <1>3, <1>9, <1>10 DEF Gives, e

MetaAt == [d \in Cursor |-> Hook!AccountMeta(d)]

MetaFold(g, c) ==
  LET first == Hook!Cell(c).c
      n == Hook!Cell(c).value
  IN g = [s \in SUBSET (1 .. n) |->
            IF s = {} THEN Hook!Read(<<>>, first)
            ELSE Hook!Read(Append(g[s \ {Hook!Max(s)}].value,
                                  Hook!AccountMeta(g[s \ {Hook!Max(s)}].c).value),
                           Hook!AccountMeta(g[s \ {Hook!Max(s)}].c).c)]

LEMMA MetasAreSteps ==
  ASSUME wire \in Cells, NEW c \in Cursor
  PROVE  \E h : VectorTakes(h, MetaAt, c, Hook!Vector(c, Hook!AccountMeta))
<1> DEFINE first == Hook!Cell(c).c
           n == Hook!Cell(c).value
<1>1. first \in Cursor /\ n \in Nat
  BY CellIsSafe DEF Safe
<1>2. \A d \in Cursor : MetaAt[d] = Hook!AccountMeta(d) /\ MetaAt[d].c \in Cursor
  BY MetaIsSafe DEF MetaAt, Safe
<1>3. PICK h : Steps(h, MetaAt, first, n) /\ \A k \in 0 .. n : h[k].c \in Cursor
  <2> HIDE DEF first, n
  <2> QED  BY <1>1, <1>2, StepsExist
<1>4. PICK g0 : Folds(g0, MetaAt, first, n) /\ \A s \in SUBSET (1 .. n) : g0[s].c \in Cursor
  <2> HIDE DEF first, n
  <2> QED  BY <1>1, <1>3, FoldExists
<1>5. MetaFold(g0, c)
  <2>1. \A s \in SUBSET (1 .. n) : s \ {Hook!Max(s)} \in SUBSET (1 .. n)
    OBVIOUS
  <2> QED  BY <1>2, <1>4, <2>1 DEF Folds, MetaFold
<1> DEFINE g == CHOOSE x : MetaFold(x, c)
<1>6. MetaFold(g, c)
  BY <1>5
<1>7. Hook!Vector(c, Hook!AccountMeta) = g[1 .. n]
  BY DEF Hook!Vector, Hook!FoldLeft, Hook!MapThenFoldSet, MetaFold
<1> HIDE DEF g
<1>8. g[{}] = h[0]
  BY <1>3, <1>6 DEF MetaFold, Steps
<1>9. ASSUME NEW k \in 1 .. n, g[1 .. k - 1] = h[k - 1] PROVE g[1 .. k] = h[k]
  <2>1. /\ 1 .. k \in SUBSET (1 .. n) /\ 1 .. k # {} /\ (1 .. k) \ {Hook!Max(1 .. k)} = 1 .. k - 1
        /\ k - 1 \in 0 .. n
    BY <1>1, LargestUpTo
  <2>2. g[1 .. k] = Hook!Read(Append(g[1 .. k - 1].value, Hook!AccountMeta(g[1 .. k - 1].c).value),
                             Hook!AccountMeta(g[1 .. k - 1].c).c)
    BY <1>6, <2>1 DEF MetaFold
  <2>3. h[k] = Hook!Read(Append(h[k - 1].value, MetaAt[h[k - 1].c].value), MetaAt[h[k - 1].c].c)
    BY <1>3 DEF Steps
  <2>4. MetaAt[h[k - 1].c] = Hook!AccountMeta(h[k - 1].c)
    BY <1>2, <1>3, <2>1
  <2> QED  BY <1>9, <2>2, <2>3, <2>4
<1>10. g[1 .. n] = h[n]
  <2> HIDE DEF first, n
  <2> QED  BY <1>1, <1>8, <1>9, FoldFollows
<1> QED  BY <1>3, <1>7, <1>10 DEF VectorTakes

-----------------------------------------------------------------------------
(* Byte strings and seeds.                                                  *)

LEMMA StringIsSafe ==
  ASSUME wire \in Cells, NEW c \in Cursor
  PROVE  Safe(c, Hook!String(c)) /\ Hook!String(c).value \in Cells
<1>1. Safe(c, Hook!Cell(c)) /\ Hook!Cell(c).value \in Nat /\ Hook!Cell(c).c \in Cursor
  BY CellIsSafe DEF Safe
<1>2. /\ Safe(Hook!Cell(c).c, Hook!bytesAt(Hook!Cell(c).c, Hook!Cell(c).value))
      /\ Hook!bytesAt(Hook!Cell(c).c, Hook!Cell(c).value).value \in Cells
  BY <1>1, BytesAreSafe
<1>3. Hook!String(c) = Hook!bytesAt(Hook!Cell(c).c, Hook!Cell(c).value)
  BY DEF Hook!String
<1> QED  BY <1>1, <1>2, <1>3 DEF Safe

LEMMA StringComesBack ==
  ASSUME wire \in Cells, NEW p \in Nat, NEW c, Stands(c, p),
         NEW b \in Cells, Arrived(p, <<Len(b)>>), Arrived(p + 1, b)
  PROVE  Gives(Hook!String(c), b, p + 1 + Len(b))
<1> DEFINE len == Hook!Cell(c)
<1>1. Len(b) \in Nat /\ Len(wire) \in Nat
  BY LenProperties DEF Cells
<1>2. Gives(len, Len(b), p + 1)
  BY <1>1, CellComesBack
<1>3. len.c \in Cursor /\ len.value \in Nat
  BY CellIsSafe DEF Safe, Stands
<1>4. Hook!String(c) = Hook!bytesAt(len.c, len.value)
  BY DEF Hook!String
<1> HIDE DEF len
<1>5. CASE p + 1 <= Len(wire)
  <2>1. len.value = Len(b) /\ Stands(len.c, p + 1)
    BY <1>2, <1>5 DEF Gives
  <2> QED  BY <1>4, <2>1, BytesComeBack
<1>6. CASE ~ (p + 1 <= Len(wire))
  <2>1. ~ len.c.ok
    BY <1>1, <1>2, <1>6 DEF Gives, Stands
  <2>2. Safe(len.c, Hook!bytesAt(len.c, len.value))
    BY <1>3, BytesAreSafe
  <2>3. ~ (p + 1 + Len(b) <= Len(wire))
    BY <1>1, <1>6
  <2> QED  BY <1>1, <1>4, <2>1, <2>2, <2>3 DEF Gives, Stands, Safe
<1> QED  BY <1>5, <1>6

(* The seeds.                                                              *)
LEMMA SeedIsSafe ==
  ASSUME wire \in Cells, NEW c \in Cursor
  PROVE  Safe(c, Hook!decodeSeedVariant(c)) /\ Safe(Hook!Cell(c).c, Hook!decodeSeedVariant(c))
<1> DEFINE tag == Hook!Cell(c)
           s == Hook!String(tag.c)
<1>1. Safe(c, tag) /\ tag.c \in Cursor
  BY CellIsSafe DEF Safe
<1>2. Safe(tag.c, s)
  BY <1>1, StringIsSafe
<1>3. \/ Hook!decodeSeedVariant(c).c = tag.c
      \/ Hook!decodeSeedVariant(c).c = s.c
      \/ Hook!decodeSeedVariant(c).c = [tag.c EXCEPT !.ok = FALSE]
  BY DEF Hook!decodeSeedVariant, Hook!Read, Hook!Throw
<1> HIDE DEF tag, s
<1>4. [tag.c EXCEPT !.ok = FALSE] \in Cursor /\ ~ [tag.c EXCEPT !.ok = FALSE].ok
  BY <1>1 DEF Cursor
<1>5. Safe(c, Hook!decodeSeedVariant(c)) /\ Safe(tag.c, Hook!decodeSeedVariant(c))
  BY <1>1, <1>2, <1>3, <1>4 DEF Safe
<1> QED  BY <1>5 DEF tag

LEMMA SeedComesBack ==
  ASSUME wire \in Cells, NEW p \in Nat, NEW c, Stands(c, p),
         NEW seed \in Hook!SeedVariant, Arrived(p, Hook!encodeSeedVariant(seed))
  PROVE  /\ Gives(Hook!decodeSeedVariant(c), seed, p + Len(Hook!encodeSeedVariant(seed)))
         /\ Hook!encodeSeedVariant(seed) \in Cells
<1> DEFINE tag == Hook!Cell(c)
           s == Hook!String(tag.c)
<1>0. Len(wire) \in Nat
  BY LenProperties DEF Cells
<1>1. tag.value = 1 => /\ Hook!decodeSeedVariant(c).c = tag.c
                       /\ Hook!decodeSeedVariant(c).value = [kind |-> "submissionAuth"]
  BY DEF Hook!decodeSeedVariant, Hook!Read
<1>2. tag.value = 0 => /\ Hook!decodeSeedVariant(c).c = s.c
                       /\ Hook!decodeSeedVariant(c).value = [kind |-> "arbitrary", bytes |-> s.value]
  BY DEF Hook!decodeSeedVariant, Hook!Read
<1>4. Safe(tag.c, Hook!decodeSeedVariant(c))
  BY SeedIsSafe DEF Stands
<1> HIDE DEF tag
<1>3. CASE seed.kind = "submissionAuth"
  <2>1. seed = [kind |-> "submissionAuth"]
    BY <1>3 DEF Hook!SeedVariant
  <2>2. /\ Hook!encodeSeedVariant(seed) = <<1>> /\ <<1>> \in Cells /\ Len(<<1>>) = 1
        /\ Arrived(p, <<1>>)
    BY <1>3 DEF Hook!encodeSeedVariant, Cells
  <2>3. Gives(tag, 1, p + 1)
    BY <2>2, CellComesBack DEF tag
  <2>4. CASE p + 1 <= Len(wire)
    <3>1. tag.value = 1
      BY <2>3, <2>4 DEF Gives
    <3> QED  BY <1>1, <2>1, <2>2, <2>3, <3>1 DEF Gives
  <2>5. CASE ~ (p + 1 <= Len(wire))
    <3>1. ~ tag.c.ok
      BY <1>0, <2>3, <2>5 DEF Gives, Stands
    <3>2. Stands(Hook!decodeSeedVariant(c).c, p + 1)
      BY <1>0, <1>4, <2>5, <3>1 DEF Stands, Safe
    <3> QED  BY <2>2, <2>5, <3>2 DEF Gives
  <2> QED  BY <2>2, <2>4, <2>5
<1>5. CASE seed.kind = "arbitrary"
  <2> DEFINE b == seed.bytes
             n == Len(b)
             q == p + 1 + 1 + n
  <2>1. seed = [kind |-> "arbitrary", bytes |-> b] /\ b \in Cells /\ n \in Nat
    BY <1>5, LenProperties DEF Hook!SeedVariant, Cells
  <2>2. Hook!encodeSeedVariant(seed) = <<0, n>> \o b
    BY <1>5 DEF Hook!encodeSeedVariant
  <2> HIDE DEF b, n
  <2>3. <<0, n>> \in Cells /\ Len(<<0, n>>) = 2 /\ <<0, n>>[1] = 0 /\ <<0, n>>[2] = n
    BY <2>1 DEF Cells
  <2>4. /\ Arrived(p, <<0, n>>) /\ Arrived(p + 2, b) /\ <<0, n>> \o b \in Cells
        /\ Len(<<0, n>> \o b) = 2 + n
    <3>1. Arrived(p, <<0, n>> \o b)
      BY <2>2
    <3>2. /\ Arrived(p, <<0, n>>) /\ Arrived(p + Len(<<0, n>>), b) /\ <<0, n>> \o b \in Cells
          /\ Len(<<0, n>> \o b) = Len(<<0, n>>) + Len(b)
      BY <2>1, <2>3, <3>1, PartsArrive
    <3>3. Len(b) = n
      BY DEF n
    <3> QED  BY <2>3, <3>2, <3>3
  <2>5. Arrived(p, <<0>>) /\ Arrived(p + 1, <<n>>)
    <3>1. p + (1 - 1) = p /\ p + (2 - 1) = p + 1 /\ 1 \in 1 .. 2 /\ 2 \in 1 .. 2
      OBVIOUS
    <3> QED  BY <2>3, <2>4, <3>1, CellArrives
  <2>6. Gives(tag, 0, p + 1)
    BY <2>5, CellComesBack DEF tag
  <2>7. Gives(s, b, q)
    <3>1. p + 1 \in Nat /\ p + 1 + 1 = p + 2 /\ Stands(tag.c, p + 1)
      BY <2>6 DEF Gives
    <3> QED  BY <2>1, <2>4, <2>5, <3>1, StringComesBack DEF n
  <2>8. q = p + Len(<<0, n>> \o b) /\ q \in Nat
    BY <2>1, <2>4
  <2> HIDE DEF q
  <2>9. Gives(Hook!decodeSeedVariant(c), seed, q)
    <3>1. CASE p + 1 <= Len(wire)
      <4>1. tag.value = 0
        BY <2>6, <3>1 DEF Gives
      <4> HIDE DEF s
      <4> QED  BY <1>2, <2>1, <2>7, <4>1 DEF Gives
    <3>2. CASE ~ (p + 1 <= Len(wire))
      <4>1. ~ tag.c.ok
        BY <1>0, <2>6, <3>2 DEF Gives, Stands
      <4>2. ~ (q <= Len(wire))
        BY <1>0, <2>1, <3>2 DEF q
      <4> QED  BY <1>0, <1>4, <2>8, <4>1, <4>2 DEF Gives, Stands, Safe
    <3> QED  BY <3>1, <3>2
  <2> QED  BY <2>2, <2>4, <2>8, <2>9
<1> QED  BY <1>3, <1>5 DEF Hook!SeedVariant

SeedAt == [d \in Cursor |-> Hook!decodeSeedVariant(d)]

SeedFold(g, c) ==
  LET first == Hook!Cell(c).c
      n == Hook!Cell(c).value
  IN g = [s \in SUBSET (1 .. n) |->
            IF s = {} THEN Hook!Read(<<>>, first)
            ELSE Hook!Read(Append(g[s \ {Hook!Max(s)}].value,
                                  Hook!decodeSeedVariant(g[s \ {Hook!Max(s)}].c).value),
                           Hook!decodeSeedVariant(g[s \ {Hook!Max(s)}].c).c)]

LEMMA SeedsAreSteps ==
  ASSUME wire \in Cells, NEW c \in Cursor
  PROVE  \E h : VectorTakes(h, SeedAt, c, Hook!Vector(c, Hook!decodeSeedVariant))
<1> DEFINE first == Hook!Cell(c).c
           n == Hook!Cell(c).value
<1>1. first \in Cursor /\ n \in Nat
  BY CellIsSafe DEF Safe
<1>2. \A d \in Cursor : SeedAt[d] = Hook!decodeSeedVariant(d) /\ SeedAt[d].c \in Cursor
  BY SeedIsSafe DEF SeedAt, Safe
<1>3. PICK h : Steps(h, SeedAt, first, n) /\ \A k \in 0 .. n : h[k].c \in Cursor
  <2> HIDE DEF first, n
  <2> QED  BY <1>1, <1>2, StepsExist
<1>4. PICK g0 : Folds(g0, SeedAt, first, n) /\ \A s \in SUBSET (1 .. n) : g0[s].c \in Cursor
  <2> HIDE DEF first, n
  <2> QED  BY <1>1, <1>3, FoldExists
<1>5. SeedFold(g0, c)
  <2>1. \A s \in SUBSET (1 .. n) : s \ {Hook!Max(s)} \in SUBSET (1 .. n)
    OBVIOUS
  <2> QED  BY <1>2, <1>4, <2>1 DEF Folds, SeedFold
<1> DEFINE g == CHOOSE x : SeedFold(x, c)
<1>6. SeedFold(g, c)
  BY <1>5
<1>7. Hook!Vector(c, Hook!decodeSeedVariant) = g[1 .. n]
  BY DEF Hook!Vector, Hook!FoldLeft, Hook!MapThenFoldSet, SeedFold
<1> HIDE DEF g
<1>8. g[{}] = h[0]
  BY <1>3, <1>6 DEF SeedFold, Steps
<1>9. ASSUME NEW k \in 1 .. n, g[1 .. k - 1] = h[k - 1] PROVE g[1 .. k] = h[k]
  <2>1. /\ 1 .. k \in SUBSET (1 .. n) /\ 1 .. k # {} /\ (1 .. k) \ {Hook!Max(1 .. k)} = 1 .. k - 1
        /\ k - 1 \in 0 .. n
    BY <1>1, LargestUpTo
  <2>2. g[1 .. k] = Hook!Read(Append(g[1 .. k - 1].value, Hook!decodeSeedVariant(g[1 .. k - 1].c).value),
                             Hook!decodeSeedVariant(g[1 .. k - 1].c).c)
    BY <1>6, <2>1 DEF SeedFold
  <2>3. h[k] = Hook!Read(Append(h[k - 1].value, SeedAt[h[k - 1].c].value), SeedAt[h[k - 1].c].c)
    BY <1>3 DEF Steps
  <2>4. SeedAt[h[k - 1].c] = Hook!decodeSeedVariant(h[k - 1].c)
    BY <1>2, <1>3, <2>1
  <2> QED  BY <1>9, <2>2, <2>3, <2>4
<1>10. g[1 .. n] = h[n]
  <2> HIDE DEF first, n
  <2> QED  BY <1>1, <1>8, <1>9, FoldFollows
<1> QED  BY <1>3, <1>7, <1>10 DEF VectorTakes

-----------------------------------------------------------------------------
(* Numbers that fit their width, and the substitutions of data.             *)

LEMMA U64IsItself ==
  ASSUME NEW v \in Hook!u64
  PROVE  Hook!u64LE(v) = v /\ v \in Nat
<1>1. U64 \in Nat \ {0}
  BY CrossChainAssumption DEF Hook!HookAssumption
<1> QED  BY <1>1 DEF Hook!u64, Hook!u64LE

LEMMA ThrowIsSafe ==
  ASSUME NEW c \in Cursor
  PROVE  Safe(c, Hook!Throw(c)) /\ ~ Hook!Throw(c).c.ok
<1>1. Hook!Throw(c).c = [c EXCEPT !.ok = FALSE]
  BY DEF Hook!Throw, Hook!Read
<1>2. [c EXCEPT !.ok = FALSE] \in Cursor /\ ~ [c EXCEPT !.ok = FALSE].ok
  BY DEF Cursor
<1> QED  BY <1>1, <1>2 DEF Safe

(* The data substitutions.                                                 *)
LEMMA DataSubIsSafe ==
  ASSUME wire \in Cells, NEW c \in Cursor
  PROVE  /\ Safe(c, Hook!decodeDataSubstitution(c))
         /\ Hook!Cell(c).value # 0 => ~ Hook!decodeDataSubstitution(c).c.ok
<1> DEFINE variant == Hook!Cell(c)
           index == Hook!Cell(variant.c)
           at == Hook!Cell(index.c)
           big == Hook!Bool(at.c)
           less == Hook!Cell(big.c)
<1>1. /\ variant.value # 0 => Hook!decodeDataSubstitution(c) = Hook!Throw(variant.c)
      /\ variant.value = 0 => Hook!decodeDataSubstitution(c).c = less.c
  BY DEF Hook!decodeDataSubstitution, Hook!Read
<1>2. Safe(c, variant) /\ variant.c \in Cursor
  BY CellIsSafe DEF Safe
<1>3. Safe(variant.c, index) /\ index.c \in Cursor
  BY <1>2, CellIsSafe DEF Safe
<1>4. Safe(index.c, at) /\ at.c \in Cursor
  BY <1>3, CellIsSafe DEF Safe
<1>5. Safe(at.c, big) /\ big.c \in Cursor
  BY <1>4, BoolIsSafe DEF Safe
<1>6. Safe(big.c, less)
  BY <1>5, CellIsSafe
<1> HIDE DEF variant, index, at, big, less
<1>7. Safe(variant.c, Hook!Throw(variant.c)) /\ ~ Hook!Throw(variant.c).c.ok
  BY <1>2, ThrowIsSafe
<1>8. Safe(c, Hook!decodeDataSubstitution(c))
  BY <1>1, <1>2, <1>3, <1>4, <1>5, <1>6, <1>7 DEF Safe
<1>9. variant.value # 0 => ~ Hook!decodeDataSubstitution(c).c.ok
  BY <1>1, <1>7
<1> QED  BY <1>8, <1>9 DEF variant

LEMMA DataSubComesBack ==
  ASSUME wire \in Cells, NEW p \in Nat, NEW c, Stands(c, p),
         NEW sub \in Hook!DataSubstitution, Arrived(p, Hook!encodeDataSubstitution(sub))
  PROVE  /\ Gives(Hook!decodeDataSubstitution(c), sub, p + Len(Hook!encodeDataSubstitution(sub)))
         /\ Hook!encodeDataSubstitution(sub) \in Cells
<1> DEFINE variant == Hook!Cell(c)
           index == Hook!Cell(variant.c)
           at == Hook!Cell(index.c)
           big == Hook!Bool(at.c)
           less == Hook!Cell(big.c)
           e == Hook!encodeDataSubstitution(sub)
<1>0. Len(wire) \in Nat
  BY LenProperties DEF Cells
<1>1. /\ Safe(c, Hook!decodeDataSubstitution(c))
      /\ variant.value # 0 => ~ Hook!decodeDataSubstitution(c).c.ok
  BY DataSubIsSafe DEF Stands
<1>2. variant.value = 0 =>
        /\ Hook!decodeDataSubstitution(c).c = less.c
        /\ Hook!decodeDataSubstitution(c).value
             = [kind |-> "submissionAuthWalletAmount", accountIndex |-> index.value,
                offset |-> at.value, isBigEndian |-> big.value, subtraction |-> less.value]
  BY DEF Hook!decodeDataSubstitution, Hook!Read
<1>3. /\ sub.accountIndex \in Hook!u64 /\ sub.offset \in Hook!u64
      /\ sub.isBigEndian \in BOOLEAN /\ sub.subtraction \in Hook!u64
      /\ sub = [kind |-> "submissionAuthWalletAmount", accountIndex |-> sub.accountIndex,
                offset |-> sub.offset, isBigEndian |-> sub.isBigEndian,
                subtraction |-> sub.subtraction]
  BY DEF Hook!DataSubstitution
<1>4. /\ e = <<0, sub.accountIndex, sub.offset, Hook!boolByte(sub.isBigEndian), sub.subtraction>>
      /\ sub.accountIndex \in Nat /\ sub.offset \in Nat /\ sub.subtraction \in Nat
      /\ Hook!boolByte(sub.isBigEndian) \in Nat
  BY <1>3, U64IsItself DEF Hook!encodeDataSubstitution, Hook!boolByte
<1>5. /\ e \in Cells /\ Len(e) = 5 /\ e[1] = 0 /\ e[2] = sub.accountIndex
      /\ e[3] = sub.offset /\ e[4] = Hook!boolByte(sub.isBigEndian) /\ e[5] = sub.subtraction
  <2> HIDE DEF e
  <2> QED  BY <1>4 DEF Cells
<1> HIDE DEF e
<1>6. /\ Arrived(p, <<0>>) /\ Arrived(p + 1, <<sub.accountIndex>>)
      /\ Arrived(p + 2, <<sub.offset>>) /\ Arrived(p + 3, <<Hook!boolByte(sub.isBigEndian)>>)
      /\ Arrived(p + 4, <<sub.subtraction>>)
  <2>1. \A i \in 1 .. 5 : Arrived(p + (i - 1), <<e[i]>>)
    BY <1>5, CellArrives DEF e
  <2>2. /\ p + (1 - 1) = p /\ p + (2 - 1) = p + 1 /\ p + (3 - 1) = p + 2
        /\ p + (4 - 1) = p + 3 /\ p + (5 - 1) = p + 4
    OBVIOUS
  <2>3. 1 \in 1 .. 5 /\ 2 \in 1 .. 5 /\ 3 \in 1 .. 5 /\ 4 \in 1 .. 5 /\ 5 \in 1 .. 5
    OBVIOUS
  <2> QED  BY <1>5, <2>1, <2>2, <2>3
<1>7. /\ p + 1 + 1 = p + 2 /\ p + 2 + 1 = p + 3 /\ p + 3 + 1 = p + 4 /\ p + 4 + 1 = p + 5
      /\ p + 1 \in Nat /\ p + 2 \in Nat /\ p + 3 \in Nat /\ p + 4 \in Nat /\ p + 5 \in Nat
  OBVIOUS
<1>8. Gives(variant, 0, p + 1) /\ Stands(variant.c, p + 1)
  BY <1>6, CellComesBack DEF Gives
<1> HIDE DEF variant
<1>9. Gives(index, sub.accountIndex, p + 2) /\ Stands(index.c, p + 2)
  BY <1>4, <1>6, <1>7, <1>8, CellComesBack DEF Gives
<1> HIDE DEF index
<1>10. Gives(at, sub.offset, p + 3) /\ Stands(at.c, p + 3)
  BY <1>4, <1>6, <1>7, <1>9, CellComesBack DEF Gives
<1> HIDE DEF at
<1>11. Gives(big, sub.isBigEndian, p + 4) /\ Stands(big.c, p + 4)
  BY <1>3, <1>6, <1>7, <1>10, BoolComesBack DEF Gives
<1> HIDE DEF big
<1>12. Gives(less, sub.subtraction, p + 5) /\ Stands(less.c, p + 5)
  BY <1>4, <1>6, <1>7, <1>11, CellComesBack DEF Gives
<1> HIDE DEF less
<1>13. CASE variant.value = 0
  <2>1. p + 5 <= Len(wire) => Hook!decodeDataSubstitution(c).value = sub
    BY <1>0, <1>2, <1>3, <1>9, <1>10, <1>11, <1>12, <1>13 DEF Gives
  <2> QED  BY <1>2, <1>5, <1>12, <1>13, <2>1 DEF Gives, e
<1>14. CASE variant.value # 0
  <2>1. ~ (p + 5 <= Len(wire)) /\ p + 5 > Len(wire)
    BY <1>0, <1>8, <1>14 DEF Gives
  <2> QED  BY <1>1, <1>5, <1>7, <1>14, <2>1 DEF Gives, Stands, Safe, e
<1> QED  BY <1>13, <1>14

DataSubAt == [d \in Cursor |-> Hook!decodeDataSubstitution(d)]

DataSubFold(g, c) ==
  LET first == Hook!Cell(c).c
      n == Hook!Cell(c).value
  IN g = [s \in SUBSET (1 .. n) |->
            IF s = {} THEN Hook!Read(<<>>, first)
            ELSE Hook!Read(Append(g[s \ {Hook!Max(s)}].value,
                                  Hook!decodeDataSubstitution(g[s \ {Hook!Max(s)}].c).value),
                           Hook!decodeDataSubstitution(g[s \ {Hook!Max(s)}].c).c)]

LEMMA DataSubsAreSteps ==
  ASSUME wire \in Cells, NEW c \in Cursor
  PROVE  \E h : VectorTakes(h, DataSubAt, c, Hook!Vector(c, Hook!decodeDataSubstitution))
<1> DEFINE first == Hook!Cell(c).c
           n == Hook!Cell(c).value
<1>1. first \in Cursor /\ n \in Nat
  BY CellIsSafe DEF Safe
<1>2. \A d \in Cursor : DataSubAt[d] = Hook!decodeDataSubstitution(d) /\ DataSubAt[d].c \in Cursor
  BY DataSubIsSafe DEF DataSubAt, Safe
<1>3. PICK h : Steps(h, DataSubAt, first, n) /\ \A k \in 0 .. n : h[k].c \in Cursor
  <2> HIDE DEF first, n
  <2> QED  BY <1>1, <1>2, StepsExist
<1>4. PICK g0 : Folds(g0, DataSubAt, first, n) /\ \A s \in SUBSET (1 .. n) : g0[s].c \in Cursor
  <2> HIDE DEF first, n
  <2> QED  BY <1>1, <1>3, FoldExists
<1>5. DataSubFold(g0, c)
  <2>1. \A s \in SUBSET (1 .. n) : s \ {Hook!Max(s)} \in SUBSET (1 .. n)
    OBVIOUS
  <2> QED  BY <1>2, <1>4, <2>1 DEF Folds, DataSubFold
<1> DEFINE g == CHOOSE x : DataSubFold(x, c)
<1>6. DataSubFold(g, c)
  BY <1>5
<1>7. Hook!Vector(c, Hook!decodeDataSubstitution) = g[1 .. n]
  BY DEF Hook!Vector, Hook!FoldLeft, Hook!MapThenFoldSet, DataSubFold
<1> HIDE DEF g
<1>8. g[{}] = h[0]
  BY <1>3, <1>6 DEF DataSubFold, Steps
<1>9. ASSUME NEW k \in 1 .. n, g[1 .. k - 1] = h[k - 1] PROVE g[1 .. k] = h[k]
  <2>1. /\ 1 .. k \in SUBSET (1 .. n) /\ 1 .. k # {} /\ (1 .. k) \ {Hook!Max(1 .. k)} = 1 .. k - 1
        /\ k - 1 \in 0 .. n
    BY <1>1, LargestUpTo
  <2>2. g[1 .. k] = Hook!Read(Append(g[1 .. k - 1].value, Hook!decodeDataSubstitution(g[1 .. k - 1].c).value),
                             Hook!decodeDataSubstitution(g[1 .. k - 1].c).c)
    BY <1>6, <2>1 DEF DataSubFold
  <2>3. h[k] = Hook!Read(Append(h[k - 1].value, DataSubAt[h[k - 1].c].value), DataSubAt[h[k - 1].c].c)
    BY <1>3 DEF Steps
  <2>4. DataSubAt[h[k - 1].c] = Hook!decodeDataSubstitution(h[k - 1].c)
    BY <1>2, <1>3, <2>1
  <2> QED  BY <1>9, <2>2, <2>3, <2>4
<1>10. g[1 .. n] = h[n]
  <2> HIDE DEF first, n
  <2> QED  BY <1>1, <1>8, <1>9, FoldFollows
<1> QED  BY <1>3, <1>7, <1>10 DEF VectorTakes

-----------------------------------------------------------------------------
(* A vector's cells, and a value that may be absent.                        *)

LEMMA VectorIsSafe ==
  ASSUME wire \in Cells, NEW item, \A d \in Cursor : Safe(d, item[d]),
         NEW c \in Cursor, NEW h, NEW r, VectorTakes(h, item, c, r)
  PROVE  Safe(c, r)
<1>1. Safe(c, Hook!Cell(c)) /\ Hook!Cell(c).c \in Cursor /\ Hook!Cell(c).value \in Nat
  BY CellIsSafe DEF Safe
<1>2. Safe(Hook!Cell(c).c, r)
  BY <1>1, StepsAreSafe DEF VectorTakes
<1> QED  BY <1>1, <1>2 DEF Safe

(* What is written is cells.                                               *)
LEMMA SeedIsCells ==
  ASSUME NEW seed \in Hook!SeedVariant
  PROVE  Hook!encodeSeedVariant(seed) \in Cells
<1>1. CASE seed.kind = "submissionAuth"
  BY <1>1 DEF Hook!encodeSeedVariant, Cells
<1>2. CASE seed.kind = "arbitrary"
  <2> DEFINE n == Len(seed.bytes)
  <2>1. seed.bytes \in Cells /\ n \in Nat
    BY <1>2, LenProperties DEF Hook!SeedVariant, Cells
  <2>2. Hook!encodeSeedVariant(seed) = <<0, n>> \o seed.bytes
    BY <1>2 DEF Hook!encodeSeedVariant
  <2> HIDE DEF n
  <2>3. <<0, n>> \in Cells
    BY <2>1 DEF Cells
  <2> QED  BY <2>1, <2>2, <2>3, ConcatProperties DEF Cells
<1> QED  BY <1>1, <1>2 DEF Hook!SeedVariant

LEMMA DataSubIsCells ==
  ASSUME NEW sub \in Hook!DataSubstitution
  PROVE  Hook!encodeDataSubstitution(sub) \in Cells
<1>1. /\ sub.accountIndex \in Hook!u64 /\ sub.offset \in Hook!u64
      /\ sub.isBigEndian \in BOOLEAN /\ sub.subtraction \in Hook!u64
  BY DEF Hook!DataSubstitution
<1> QED  BY <1>1, U64IsItself DEF Hook!encodeDataSubstitution, Hook!boolByte, Cells

LEMMA MetaIsCells ==
  ASSUME NEW m \in Hook!Meta
  PROVE  Hook!encodeAccountMeta(m) \in Cells
BY DEF Hook!Meta, Hook!encodeAccountMeta, Hook!boolByte, Cells

(* The vectors of them.                                                    *)
LEMMA SeedsComeBack ==
  ASSUME wire \in Cells, NEW p \in Nat, NEW c, Stands(c, p),
         NEW seeds \in Seq(Hook!SeedVariant), Arrived(p, <<Len(seeds)>>),
         Arrived(p + 1, Hook!Each(Hook!encodeSeedVariant, seeds))
  PROVE  Gives(Hook!Vector(c, Hook!decodeSeedVariant), seeds,
               p + 1 + Len(Hook!Each(Hook!encodeSeedVariant, seeds)))
<1> DEFINE es == [i \in DOMAIN seeds |-> Hook!encodeSeedVariant(seeds[i])]
<1>1. \A i \in DOMAIN seeds : seeds[i] \in Hook!SeedVariant
  BY LenProperties, ElementOfSeq
<1>2. /\ \A i \in DOMAIN seeds : es[i] = Hook!encodeSeedVariant(seeds[i]) /\ es[i] \in Cells
      /\ es = [i \in DOMAIN seeds |-> es[i]]
  BY <1>1, SeedIsCells
<1>3. Hook!Each(Hook!encodeSeedVariant, seeds) = Hook!FlattenSeq(es)
  BY DEF Hook!Each
<1> HIDE DEF es
<1>4. es \in Seq(Cells) /\ Len(es) = Len(seeds) /\ DOMAIN seeds = 1 .. Len(seeds)
  BY <1>2, EachArrives
<1>5. c \in Cursor /\ \A d \in Cursor : SeedAt[d] = Hook!decodeSeedVariant(d) /\ Safe(d, SeedAt[d])
  BY SeedIsSafe DEF SeedAt, Stands
<1>6. PICK h : VectorTakes(h, SeedAt, c, Hook!Vector(c, Hook!decodeSeedVariant))
  BY <1>5, SeedsAreSteps
<1>7. \A k \in 1 .. Len(seeds) : \A q \in Nat : \A d \in Cursor :
        Stands(d, q) /\ Arrived(q, es[k]) => Gives(SeedAt[d], seeds[k], q + Len(es[k]))
  <2> TAKE k \in 1 .. Len(seeds)
  <2> TAKE q \in Nat
  <2> TAKE d \in Cursor
  <2> HAVE Stands(d, q) /\ Arrived(q, es[k])
  <2>1. es[k] = Hook!encodeSeedVariant(seeds[k]) /\ seeds[k] \in Hook!SeedVariant
    BY <1>1, <1>2, <1>4
  <2> QED  BY <1>5, <2>1, SeedComesBack
<1>8. Arrived(p + 1, Hook!FlattenSeq(es))
  BY <1>3
<1>9. Gives(Hook!Vector(c, Hook!decodeSeedVariant), seeds, p + 1 + Len(Hook!FlattenSeq(es)))
  BY <1>4, <1>5, <1>6, <1>7, <1>8, VectorComesBack
<1> QED  BY <1>3, <1>9

(* A value that may be absent.                                             *)
Optional(v) == IF v = None THEN <<0>> ELSE <<1, v>>

LEMMA NoneIsNoNumber == None \notin Int
BY CrossChainAssumption DEF Hook!HookAssumption

LEMMA OptionIsSafe ==
  ASSUME wire \in Cells, NEW c \in Cursor
  PROVE  Safe(c, Hook!Option(c, Hook!Cell))
<1> DEFINE tag == Hook!Cell(c)
<1>1. \/ Hook!Option(c, Hook!Cell) = Hook!Cell(tag.c)
      \/ Hook!Option(c, Hook!Cell).c = tag.c
  BY DEF Hook!Option, Hook!Read
<1>2. Safe(c, tag) /\ tag.c \in Cursor
  BY CellIsSafe DEF Safe
<1> HIDE DEF tag
<1>3. Safe(tag.c, Hook!Cell(tag.c))
  BY <1>2, CellIsSafe
<1> QED  BY <1>1, <1>2, <1>3 DEF Safe

LEMMA OptionComesBack ==
  ASSUME wire \in Cells, NEW p \in Nat, NEW c, Stands(c, p),
         NEW v \in Nat \cup {None}, Arrived(p, Optional(v))
  PROVE  /\ Gives(Hook!Option(c, Hook!Cell), v, p + Len(Optional(v)))
         /\ Optional(v) \in Cells /\ Len(Optional(v)) \in Nat
<1> DEFINE tag == Hook!Cell(c)
<1>0. Len(wire) \in Nat /\ p + 1 \in Nat /\ c \in Cursor
  BY LenProperties DEF Cells, Stands
<1>1. /\ tag.value = 1 => Hook!Option(c, Hook!Cell) = Hook!Cell(tag.c)
      /\ tag.value # 1 => /\ Hook!Option(c, Hook!Cell).c = tag.c
                          /\ Hook!Option(c, Hook!Cell).value = None
  BY DEF Hook!Option, Hook!Read
<1>2. tag.c \in Cursor
  BY <1>0, CellIsSafe DEF Safe
<1>3. CASE v = None
  <2>1. Optional(v) = <<0>> /\ Len(<<0>>) = 1 /\ <<0>> \in Cells
    BY <1>3 DEF Optional, Cells
  <2>2. Gives(tag, 0, p + 1)
    BY <2>1, CellComesBack
  <2> HIDE DEF tag
  <2>3. CASE p + 1 <= Len(wire)
    <3>1. tag.value = 0
      BY <2>2, <2>3 DEF Gives
    <3> QED  BY <1>1, <1>3, <2>1, <2>2, <3>1 DEF Gives
  <2>4. CASE ~ (p + 1 <= Len(wire))
    <3>1. ~ tag.c.ok
      BY <1>0, <2>2, <2>4 DEF Gives, Stands
    <3>2. Safe(tag.c, Hook!Option(c, Hook!Cell))
      BY <1>1, <1>2, CellIsSafe DEF Safe
    <3>3. Stands(Hook!Option(c, Hook!Cell).c, p + 1)
      BY <1>0, <2>4, <3>1, <3>2 DEF Stands, Safe
    <3> QED  BY <2>1, <2>4, <3>3 DEF Gives
  <2> QED  BY <2>3, <2>4
<1>4. CASE v # None
  <2>1. /\ Optional(v) = <<1, v>> /\ Len(<<1, v>>) = 2 /\ <<1, v>> \in Cells /\ v \in Nat
        /\ <<1, v>>[1] = 1 /\ <<1, v>>[2] = v
    BY <1>4 DEF Optional, Cells
  <2>2. Arrived(p, <<1>>) /\ Arrived(p + 1, <<v>>)
    <3>1. p + (1 - 1) = p /\ p + (2 - 1) = p + 1 /\ 1 \in 1 .. 2 /\ 2 \in 1 .. 2
      OBVIOUS
    <3> QED  BY <2>1, <3>1, CellArrives
  <2>3. Gives(tag, 1, p + 1)
    BY <2>2, CellComesBack
  <2> HIDE DEF tag
  <2>4. Gives(Hook!Cell(tag.c), v, p + 2)
    <3>1. Stands(tag.c, p + 1) /\ p + 1 + 1 = p + 2
      BY <2>3 DEF Gives
    <3> QED  BY <1>0, <2>1, <2>2, <3>1, CellComesBack
  <2>5. CASE p + 1 <= Len(wire)
    <3>1. tag.value = 1
      BY <2>3, <2>5 DEF Gives
    <3> QED  BY <1>1, <2>1, <2>4, <3>1
  <2>6. CASE ~ (p + 1 <= Len(wire))
    <3>1. ~ tag.c.ok
      BY <1>0, <2>3, <2>6 DEF Gives, Stands
    <3>2. Safe(tag.c, Hook!Option(c, Hook!Cell))
      BY <1>1, <1>2, CellIsSafe DEF Safe
    <3>3. ~ (p + 2 <= Len(wire)) /\ p + 2 \in Nat
      BY <1>0, <2>6
    <3>4. Stands(Hook!Option(c, Hook!Cell).c, p + 2)
      BY <1>0, <3>1, <3>2, <3>3 DEF Stands, Safe
    <3> QED  BY <2>1, <3>3, <3>4 DEF Gives
  <2> QED  BY <2>5, <2>6
<1> QED  BY <1>3, <1>4

-----------------------------------------------------------------------------
(* The substitutions of keys.                                               *)

EncodedPubkeySub(s) == <<Hook!u64LE(s.accountIndex)>> \o Hook!encodePubkeySubstitutionPayload(s)

LEMMA SeedVectorIsSafe ==
  ASSUME wire \in Cells, NEW c \in Cursor
  PROVE  Safe(c, Hook!Vector(c, Hook!decodeSeedVariant))
<1>1. PICK h : VectorTakes(h, SeedAt, c, Hook!Vector(c, Hook!decodeSeedVariant))
  BY SeedsAreSteps
<1>2. \A d \in Cursor : Safe(d, SeedAt[d])
  BY SeedIsSafe DEF SeedAt
<1> QED  BY <1>1, <1>2, VectorIsSafe

LEMMA PubkeySubIsSafe ==
  ASSUME wire \in Cells, NEW c \in Cursor
  PROVE  /\ Safe(c, Hook!decodePubkeySubstitution(c))
         /\ Safe(Hook!Cell(Hook!Cell(c).c).c, Hook!decodePubkeySubstitution(c))
<1> DEFINE index == Hook!Cell(c)
           variant == Hook!Cell(index.c)
           key == Hook!Cell(variant.c)
           seeds == Hook!Vector(key.c, Hook!decodeSeedVariant)
           bump == Hook!Option(seeds.c, Hook!Cell)
           r == Hook!decodePubkeySubstitution(c)
<1>1. r.c = key.c \/ r.c = bump.c \/ r.c = Hook!Throw(variant.c).c
  <2>1. r = CASE variant.value = 0 ->
                 Hook!Read([kind |-> "submissionAuthWallet", accountIndex |-> index.value,
                            tokenMint |-> key.value], key.c)
            [] variant.value = 1 ->
                 Hook!Read([kind |-> "bySeeds", accountIndex |-> index.value,
                            programId |-> key.value, seeds |-> seeds.value,
                            bump |-> bump.value], bump.c)
            [] OTHER -> Hook!Throw(variant.c)
    BY DEF Hook!decodePubkeySubstitution
  <2> HIDE DEF index, variant, key, seeds, bump, r
  <2>2. \A v, d : Hook!Read(v, d).c = d /\ Hook!Read(v, d).value = v
    BY DEF Hook!Read
  <2> QED  BY <2>1, <2>2
<1>2. Safe(c, index) /\ index.c \in Cursor
  BY CellIsSafe DEF Safe
<1> HIDE DEF index
<1>3. Safe(index.c, variant) /\ variant.c \in Cursor
  BY <1>2, CellIsSafe DEF Safe
<1> HIDE DEF variant
<1>4. Safe(variant.c, key) /\ key.c \in Cursor
  BY <1>3, CellIsSafe DEF Safe
<1> HIDE DEF key
<1>5. Safe(key.c, seeds) /\ seeds.c \in Cursor
  BY <1>4, SeedVectorIsSafe DEF Safe
<1> HIDE DEF seeds
<1>6. Safe(seeds.c, bump)
  BY <1>5, OptionIsSafe
<1>7. Safe(variant.c, Hook!Throw(variant.c))
  BY <1>3, ThrowIsSafe
<1> HIDE DEF bump, r
<1>8. Safe(variant.c, r) /\ Safe(c, r)
  BY <1>1, <1>2, <1>3, <1>4, <1>5, <1>6, <1>7 DEF Safe
<1> QED  BY <1>8 DEF variant, index, r

LEMMA PubkeySubIsCells ==
  ASSUME NEW s \in Hook!PubkeySubstitution
  PROVE  EncodedPubkeySub(s) \in Cells
<1>1. Hook!u64LE(s.accountIndex) = s.accountIndex /\ s.accountIndex \in Nat
  BY U64IsItself DEF Hook!PubkeySubstitution
<1>2. <<s.accountIndex>> \in Seq(Nat)
  BY <1>1
<1>3. CASE s.kind = "submissionAuthWallet"
  <2>1. s.tokenMint \in Nat
    BY <1>3 DEF Hook!PubkeySubstitution
  <2>2. Hook!encodePubkeySubstitutionPayload(s) = <<0, s.tokenMint>>
    BY <1>3 DEF Hook!encodePubkeySubstitutionPayload
  <2>3. <<0, s.tokenMint>> \in Seq(Nat)
    BY <2>1
  <2> QED  BY <1>1, <1>2, <2>2, <2>3, ConcatProperties DEF EncodedPubkeySub, Cells
<1>4. CASE s.kind = "bySeeds"
  <2> DEFINE es == [i \in DOMAIN s.seeds |-> Hook!encodeSeedVariant(s.seeds[i])]
             flat == Hook!Each(Hook!encodeSeedVariant, s.seeds)
             n == Len(s.seeds)
             bump == IF s.bump = None THEN <<0>> ELSE <<1, s.bump>>
  <2>1. /\ s.programId \in Nat /\ s.seeds \in Seq(Hook!SeedVariant) /\ n \in Nat
        /\ s.bump \in Nat \cup {None}
    BY <1>4, LenProperties DEF Hook!PubkeySubstitution
  <2>2. \A i \in DOMAIN s.seeds : es[i] \in Cells
    <3>1. \A i \in DOMAIN s.seeds : s.seeds[i] \in Hook!SeedVariant
      BY <2>1, LenProperties, ElementOfSeq
    <3> QED  BY <3>1, SeedIsCells
  <2>3. es = [i \in DOMAIN s.seeds |-> es[i]]
    OBVIOUS
  <2>4. flat = Hook!FlattenSeq(es)
    BY DEF Hook!Each
  <2>5. Hook!encodePubkeySubstitutionPayload(s) = (<<1, s.programId, n>> \o flat) \o bump
    BY <1>4 DEF Hook!encodePubkeySubstitutionPayload
  <2> HIDE DEF es, flat, n, bump
  <2>6. flat \in Seq(Nat)
    <3>1. es \in Seq(Cells)
      BY <2>1, <2>2, <2>3, EachArrives
    <3> QED  BY <2>4, <3>1, FlatIsCells DEF Cells
  <2>7. bump \in Seq(Nat)
    BY <2>1 DEF bump
  <2>8. <<1, s.programId, n>> \in Seq(Nat)
    BY <2>1
  <2>9. (<<1, s.programId, n>> \o flat) \o bump \in Seq(Nat)
    BY <2>6, <2>7, <2>8, ConcatProperties
  <2> QED  BY <1>1, <1>2, <2>5, <2>9, ConcatProperties DEF EncodedPubkeySub, Cells
<1> QED  BY <1>3, <1>4 DEF Hook!PubkeySubstitution

LEMMA PubkeySubComesBack ==
  ASSUME wire \in Cells, NEW p \in Nat, NEW c, Stands(c, p),
         NEW s \in Hook!PubkeySubstitution, Arrived(p, EncodedPubkeySub(s))
  PROVE  Gives(Hook!decodePubkeySubstitution(c), s, p + Len(EncodedPubkeySub(s)))
<1> DEFINE index == Hook!Cell(c)
           variant == Hook!Cell(index.c)
           key == Hook!Cell(variant.c)
           seeds == Hook!Vector(key.c, Hook!decodeSeedVariant)
           bump == Hook!Option(seeds.c, Hook!Cell)
           r == Hook!decodePubkeySubstitution(c)
           e == EncodedPubkeySub(s)
           rest == Hook!encodePubkeySubstitutionPayload(s)
<1>0. /\ Len(wire) \in Nat /\ c \in Cursor
      /\ p + 1 \in Nat /\ p + 2 \in Nat /\ p + 1 + 1 = p + 2 /\ p + 2 + 1 = p + 3
      /\ p + 3 \in Nat /\ p + 3 + 1 = p + 4 /\ p + 4 \in Nat
  BY LenProperties DEF Cells, Stands
<1>1. /\ variant.value = 0 =>
           /\ r.c = key.c
           /\ r.value = [kind |-> "submissionAuthWallet", accountIndex |-> index.value,
                         tokenMint |-> key.value]
      /\ variant.value = 1 =>
           /\ r.c = bump.c
           /\ r.value = [kind |-> "bySeeds", accountIndex |-> index.value,
                         programId |-> key.value, seeds |-> seeds.value,
                         bump |-> bump.value]
  <2>1. r = CASE variant.value = 0 ->
                 Hook!Read([kind |-> "submissionAuthWallet", accountIndex |-> index.value,
                            tokenMint |-> key.value], key.c)
            [] variant.value = 1 ->
                 Hook!Read([kind |-> "bySeeds", accountIndex |-> index.value,
                            programId |-> key.value, seeds |-> seeds.value,
                            bump |-> bump.value], bump.c)
            [] OTHER -> Hook!Throw(variant.c)
    BY DEF Hook!decodePubkeySubstitution
  <2> HIDE DEF index, variant, key, seeds, bump, r
  <2>2. \A v, d : Hook!Read(v, d).c = d /\ Hook!Read(v, d).value = v
    BY DEF Hook!Read
  <2> QED  BY <2>1, <2>2
<1>2. Safe(variant.c, r)
  BY <1>0, PubkeySubIsSafe
<1>3. /\ s.accountIndex \in Nat /\ e = <<s.accountIndex>> \o rest
      /\ <<s.accountIndex>> \in Cells /\ Len(<<s.accountIndex>>) = 1
  BY U64IsItself DEF Hook!PubkeySubstitution, EncodedPubkeySub, Cells
<1> HIDE DEF e, r
<1>4. ASSUME rest \in Cells
      PROVE  /\ Arrived(p, <<s.accountIndex>>) /\ Arrived(p + 1, rest) /\ Len(e) = 1 + Len(rest)
  <2>1. Arrived(p, <<s.accountIndex>> \o rest)
    BY <1>3 DEF e
  <2> HIDE DEF rest
  <2>2. /\ Arrived(p, <<s.accountIndex>>) /\ Arrived(p + Len(<<s.accountIndex>>), rest)
        /\ Len(<<s.accountIndex>> \o rest) = Len(<<s.accountIndex>>) + Len(rest)
    BY <1>3, <1>4, <2>1, PartsArrive
  <2>3. e = <<s.accountIndex>> \o rest
    BY <1>3
  <2> QED  BY <1>3, <2>2, <2>3
<1>5. ASSUME Arrived(p, <<s.accountIndex>>)
      PROVE  Gives(index, s.accountIndex, p + 1) /\ Stands(index.c, p + 1)
  BY <1>3, <1>5, CellComesBack DEF Gives
<1> HIDE DEF index
<1>6. CASE s.kind = "submissionAuthWallet"
  <2>1. /\ s.tokenMint \in Nat
        /\ s = [kind |-> "submissionAuthWallet", accountIndex |-> s.accountIndex,
                tokenMint |-> s.tokenMint]
    BY <1>6 DEF Hook!PubkeySubstitution
  <2>2. /\ rest = <<0, s.tokenMint>> /\ rest \in Cells /\ Len(rest) = 2
        /\ rest[1] = 0 /\ rest[2] = s.tokenMint
    BY <1>6, <2>1 DEF Hook!encodePubkeySubstitutionPayload, Cells
  <2>3. /\ Arrived(p, <<s.accountIndex>>) /\ Arrived(p + 1, rest) /\ Len(e) = 3
    BY <1>4, <2>2
  <2> HIDE DEF rest
  <2>4. Arrived(p + 1, <<0>>) /\ Arrived(p + 2, <<s.tokenMint>>)
    <3>1. p + 1 + (1 - 1) = p + 1 /\ p + 1 + (2 - 1) = p + 2 /\ 1 \in 1 .. 2 /\ 2 \in 1 .. 2
      OBVIOUS
    <3> QED  BY <1>0, <2>2, <2>3, <3>1, CellArrives
  <2>5. Gives(index, s.accountIndex, p + 1) /\ Stands(index.c, p + 1)
    BY <1>5, <2>3
  <2>6. Gives(variant, 0, p + 2) /\ Stands(variant.c, p + 2)
    BY <1>0, <2>4, <2>5, CellComesBack DEF Gives
  <2> HIDE DEF variant
  <2>7. Gives(key, s.tokenMint, p + 3)
    BY <1>0, <2>1, <2>4, <2>6, CellComesBack
  <2> HIDE DEF key
  <2>8. CASE p + 2 <= Len(wire)
    <3>1. variant.value = 0
      BY <2>6, <2>8 DEF Gives
    <3>2. p + 3 <= Len(wire) => r.value = s
      BY <1>0, <1>1, <2>1, <2>5, <2>7, <3>1 DEF Gives
    <3> QED  BY <1>1, <2>3, <2>7, <3>1, <3>2 DEF Gives, e, r
  <2>9. CASE ~ (p + 2 <= Len(wire))
    <3>1. ~ variant.c.ok
      BY <1>0, <2>6, <2>9 DEF Stands
    <3>2. Stands(r.c, p + 3) /\ ~ (p + 3 <= Len(wire))
      BY <1>0, <1>2, <2>9, <3>1 DEF Stands, Safe
    <3> QED  BY <2>3, <3>2 DEF Gives, e, r
  <2> QED  BY <2>8, <2>9
<1>7. CASE s.kind = "bySeeds"
  <2> DEFINE es == [i \in DOMAIN s.seeds |-> Hook!encodeSeedVariant(s.seeds[i])]
             flat == Hook!Each(Hook!encodeSeedVariant, s.seeds)
             n == Len(s.seeds)
             head == <<1, s.programId, n>>
             tail == Optional(s.bump)
  <2>1. /\ s.programId \in Nat /\ s.seeds \in Seq(Hook!SeedVariant) /\ n \in Nat
        /\ s.bump \in Nat \cup {None}
        /\ s = [kind |-> "bySeeds", accountIndex |-> s.accountIndex,
                programId |-> s.programId, seeds |-> s.seeds, bump |-> s.bump]
    BY <1>7, LenProperties DEF Hook!PubkeySubstitution
  <2>2. \A i \in DOMAIN s.seeds : es[i] \in Cells
    <3>1. \A i \in DOMAIN s.seeds : s.seeds[i] \in Hook!SeedVariant
      BY <2>1, LenProperties, ElementOfSeq
    <3> QED  BY <3>1, SeedIsCells
  <2>3. es = [i \in DOMAIN s.seeds |-> es[i]]
    OBVIOUS
  <2>4. flat = Hook!FlattenSeq(es)
    BY DEF Hook!Each
  <2>5. rest = (head \o flat) \o tail
    BY <1>7 DEF Hook!encodePubkeySubstitutionPayload, Optional
  <2> HIDE DEF es
  <2>6. flat \in Cells /\ Len(flat) \in Nat
    <3>1. es \in Seq(Cells)
      BY <2>1, <2>2, <2>3, EachArrives
    <3>2. flat \in Cells
      BY <2>4, <3>1, FlatIsCells
    <3> HIDE DEF flat
    <3> QED  BY <3>2, LenProperties DEF Cells
  <2>7. tail \in Cells
    BY <2>1 DEF Optional, Cells
  <2> HIDE DEF n
  <2>8. /\ head \in Cells /\ Len(head) = 3 /\ head[1] = 1 /\ head[2] = s.programId
        /\ head[3] = n
    BY <2>1 DEF Cells
  <2> HIDE DEF flat, head, tail
  <2>9. head \o flat \in Cells /\ Len(head \o flat) = 3 + Len(flat) /\ rest \in Cells
        /\ Len(rest) = 3 + Len(flat) + Len(tail)
    <3>1. head \o flat \in Cells /\ Len(head \o flat) = Len(head) + Len(flat)
      BY <2>6, <2>8, ConcatProperties DEF Cells
    <3>2. (head \o flat) \o tail \in Cells
          /\ Len((head \o flat) \o tail) = Len(head \o flat) + Len(tail)
      BY <2>7, <3>1, ConcatProperties DEF Cells
    <3> QED  BY <2>5, <2>8, <3>1, <3>2
  <2>10. /\ Arrived(p, <<s.accountIndex>>) /\ Arrived(p + 1, rest) /\ Len(e) = 1 + Len(rest)
    BY <1>4, <2>9
  <2> HIDE DEF rest
  <2>11. /\ Arrived(p + 1, head) /\ Arrived(p + 4, flat) /\ Arrived(p + 4 + Len(flat), tail)
    <3>1. Arrived(p + 1, (head \o flat) \o tail)
      BY <2>5, <2>10
    <3>2. Arrived(p + 1, head \o flat) /\ Arrived(p + 1 + Len(head \o flat), tail)
      BY <1>0, <2>7, <2>9, <3>1, PartsArrive
    <3>3. Arrived(p + 1, head) /\ Arrived(p + 1 + Len(head), flat)
      BY <1>0, <2>6, <2>8, <3>2, PartsArrive
    <3>4. p + 1 + Len(head) = p + 4 /\ p + 1 + Len(head \o flat) = p + 4 + Len(flat)
      BY <2>6, <2>8, <2>9
    <3> QED  BY <3>2, <3>3, <3>4
  <2>12. Arrived(p + 1, <<1>>) /\ Arrived(p + 2, <<s.programId>>) /\ Arrived(p + 3, <<n>>)
    <3>1. \A i \in 1 .. 3 : Arrived(p + 1 + (i - 1), <<head[i]>>)
      BY <1>0, <2>8, <2>11, CellArrives
    <3>2. /\ p + 1 + (1 - 1) = p + 1 /\ p + 1 + (2 - 1) = p + 2 /\ p + 1 + (3 - 1) = p + 3
          /\ 1 \in 1 .. 3 /\ 2 \in 1 .. 3 /\ 3 \in 1 .. 3
      OBVIOUS
    <3> QED  BY <2>8, <3>1, <3>2
  <2>13. Gives(index, s.accountIndex, p + 1) /\ Stands(index.c, p + 1)
    BY <1>5, <2>10
  <2>14. Gives(variant, 1, p + 2) /\ Stands(variant.c, p + 2)
    BY <1>0, <2>12, <2>13, CellComesBack DEF Gives
  <2> HIDE DEF variant
  <2>15. Gives(key, s.programId, p + 3) /\ Stands(key.c, p + 3)
    BY <1>0, <2>1, <2>12, <2>14, CellComesBack DEF Gives
  <2> HIDE DEF key
  <2>16. Gives(seeds, s.seeds, p + 4 + Len(flat)) /\ Stands(seeds.c, p + 4 + Len(flat))
    <3>1. Arrived(p + 3, <<Len(s.seeds)>>)
          /\ Arrived(p + 3 + 1, Hook!Each(Hook!encodeSeedVariant, s.seeds))
      BY <1>0, <2>11, <2>12 DEF n, flat
    <3>2. Gives(seeds, s.seeds, p + 3 + 1 + Len(Hook!Each(Hook!encodeSeedVariant, s.seeds)))
      BY <1>0, <2>1, <2>15, <3>1, SeedsComeBack
    <3> HIDE DEF seeds
    <3> QED  BY <1>0, <3>2 DEF Gives, flat
  <2> HIDE DEF seeds
  <2> DEFINE q == p + 4 + Len(flat) + Len(tail)
  <2>17. p + 4 + Len(flat) \in Nat /\ Len(tail) \in Nat /\ q \in Nat /\ q = p + Len(e)
    <3>1. Len(tail) \in Nat
      BY <2>7, LenProperties DEF Cells
    <3> QED  BY <2>6, <2>9, <2>10, <3>1
  <2>18. Gives(bump, s.bump, q)
    <3>1. Arrived(p + 4 + Len(flat), Optional(s.bump))
      BY <2>11 DEF tail
    <3>2. Gives(bump, s.bump, p + 4 + Len(flat) + Len(Optional(s.bump)))
      BY <2>1, <2>16, <2>17, <3>1, OptionComesBack
    <3> QED  BY <3>2 DEF tail
  <2> HIDE DEF bump
  <2>19. CASE p + 2 <= Len(wire)
    <3>1. variant.value = 1
      BY <2>14, <2>19 DEF Gives
    <3>2. ASSUME q <= Len(wire) PROVE r.value = s
      <4>1. p + 1 <= Len(wire) /\ p + 3 <= Len(wire) /\ p + 4 + Len(flat) <= Len(wire)
        BY <1>0, <2>6, <2>17, <3>2
      <4> HIDE DEF q
      <4>2. /\ index.value = s.accountIndex /\ key.value = s.programId
            /\ seeds.value = s.seeds /\ bump.value = s.bump
        BY <2>13, <2>15, <2>16, <2>18, <3>2, <4>1 DEF Gives
      <4> QED  BY <1>1, <2>1, <3>1, <4>2
    <3>3. r.c = bump.c
      BY <1>1, <3>1
    <3> HIDE DEF q
    <3>4. Gives(r, s, q)
      BY <2>18, <3>2, <3>3 DEF Gives
    <3> QED  BY <2>17, <3>4 DEF e, r
  <2>20. CASE ~ (p + 2 <= Len(wire))
    <3>1. ~ variant.c.ok
      BY <1>0, <2>14, <2>20 DEF Stands
    <3>2. ~ (q <= Len(wire))
      BY <1>0, <2>6, <2>17, <2>20
    <3> HIDE DEF q
    <3>3. Gives(r, s, q)
      BY <1>0, <1>2, <2>17, <3>1, <3>2 DEF Gives, Stands, Safe
    <3> QED  BY <2>17, <3>3 DEF e, r
  <2> QED  BY <2>19, <2>20
<1> QED  BY <1>6, <1>7 DEF Hook!PubkeySubstitution

PubkeySubAt == [d \in Cursor |-> Hook!decodePubkeySubstitution(d)]

PubkeySubFold(g, c) ==
  LET first == Hook!Cell(c).c
      n == Hook!Cell(c).value
  IN g = [s \in SUBSET (1 .. n) |->
            IF s = {} THEN Hook!Read(<<>>, first)
            ELSE Hook!Read(Append(g[s \ {Hook!Max(s)}].value,
                                  Hook!decodePubkeySubstitution(g[s \ {Hook!Max(s)}].c).value),
                           Hook!decodePubkeySubstitution(g[s \ {Hook!Max(s)}].c).c)]

LEMMA PubkeySubsAreSteps ==
  ASSUME wire \in Cells, NEW c \in Cursor
  PROVE  \E h : VectorTakes(h, PubkeySubAt, c, Hook!Vector(c, Hook!decodePubkeySubstitution))
<1> DEFINE first == Hook!Cell(c).c
           n == Hook!Cell(c).value
<1>1. first \in Cursor /\ n \in Nat
  BY CellIsSafe DEF Safe
<1>2. \A d \in Cursor : PubkeySubAt[d] = Hook!decodePubkeySubstitution(d) /\ PubkeySubAt[d].c \in Cursor
  BY PubkeySubIsSafe DEF PubkeySubAt, Safe
<1>3. PICK h : Steps(h, PubkeySubAt, first, n) /\ \A k \in 0 .. n : h[k].c \in Cursor
  <2> HIDE DEF first, n
  <2> QED  BY <1>1, <1>2, StepsExist
<1>4. PICK g0 : Folds(g0, PubkeySubAt, first, n) /\ \A s \in SUBSET (1 .. n) : g0[s].c \in Cursor
  <2> HIDE DEF first, n
  <2> QED  BY <1>1, <1>3, FoldExists
<1>5. PubkeySubFold(g0, c)
  <2>1. \A s \in SUBSET (1 .. n) : s \ {Hook!Max(s)} \in SUBSET (1 .. n)
    OBVIOUS
  <2> QED  BY <1>2, <1>4, <2>1 DEF Folds, PubkeySubFold
<1> DEFINE g == CHOOSE x : PubkeySubFold(x, c)
<1>6. PubkeySubFold(g, c)
  BY <1>5
<1>7. Hook!Vector(c, Hook!decodePubkeySubstitution) = g[1 .. n]
  BY DEF Hook!Vector, Hook!FoldLeft, Hook!MapThenFoldSet, PubkeySubFold
<1> HIDE DEF g
<1>8. g[{}] = h[0]
  BY <1>3, <1>6 DEF PubkeySubFold, Steps
<1>9. ASSUME NEW k \in 1 .. n, g[1 .. k - 1] = h[k - 1] PROVE g[1 .. k] = h[k]
  <2>1. /\ 1 .. k \in SUBSET (1 .. n) /\ 1 .. k # {} /\ (1 .. k) \ {Hook!Max(1 .. k)} = 1 .. k - 1
        /\ k - 1 \in 0 .. n
    BY <1>1, LargestUpTo
  <2>2. g[1 .. k] = Hook!Read(Append(g[1 .. k - 1].value, Hook!decodePubkeySubstitution(g[1 .. k - 1].c).value),
                             Hook!decodePubkeySubstitution(g[1 .. k - 1].c).c)
    BY <1>6, <2>1 DEF PubkeySubFold
  <2>3. h[k] = Hook!Read(Append(h[k - 1].value, PubkeySubAt[h[k - 1].c].value), PubkeySubAt[h[k - 1].c].c)
    BY <1>3 DEF Steps
  <2>4. PubkeySubAt[h[k - 1].c] = Hook!decodePubkeySubstitution(h[k - 1].c)
    BY <1>2, <1>3, <2>1
  <2> QED  BY <1>9, <2>2, <2>3, <2>4
<1>10. g[1 .. n] = h[n]
  <2> HIDE DEF first, n
  <2> QED  BY <1>1, <1>8, <1>9, FoldFollows
<1> QED  BY <1>3, <1>7, <1>10 DEF VectorTakes

-----------------------------------------------------------------------------
(* The three vectors of an instruction.                                     *)

LEMMA PubkeySubsComeBack ==
  ASSUME wire \in Cells, NEW p \in Nat, NEW c, Stands(c, p),
         NEW subs \in Seq(Hook!PubkeySubstitution), Arrived(p, <<Len(subs)>>),
         Arrived(p + 1, Hook!Each(EncodedPubkeySub, subs))
  PROVE  Gives(Hook!Vector(c, Hook!decodePubkeySubstitution), subs,
               p + 1 + Len(Hook!Each(EncodedPubkeySub, subs)))
<1> DEFINE es == [i \in DOMAIN subs |-> EncodedPubkeySub(subs[i])]
<1>1. \A i \in DOMAIN subs : subs[i] \in Hook!PubkeySubstitution
  BY LenProperties, ElementOfSeq
<1>2. /\ \A i \in DOMAIN subs : es[i] = EncodedPubkeySub(subs[i]) /\ es[i] \in Cells
      /\ es = [i \in DOMAIN subs |-> es[i]]
  BY <1>1, PubkeySubIsCells
<1>3. Hook!Each(EncodedPubkeySub, subs) = Hook!FlattenSeq(es)
  BY DEF Hook!Each
<1> HIDE DEF es
<1>4. es \in Seq(Cells) /\ Len(es) = Len(subs) /\ DOMAIN subs = 1 .. Len(subs)
  BY <1>2, EachArrives
<1>5. c \in Cursor /\ \A d \in Cursor : PubkeySubAt[d] = Hook!decodePubkeySubstitution(d) /\ Safe(d, PubkeySubAt[d])
  BY PubkeySubIsSafe DEF PubkeySubAt, Stands
<1>6. PICK h : VectorTakes(h, PubkeySubAt, c, Hook!Vector(c, Hook!decodePubkeySubstitution))
  BY <1>5, PubkeySubsAreSteps
<1>7. \A k \in 1 .. Len(subs) : \A q \in Nat : \A d \in Cursor :
        Stands(d, q) /\ Arrived(q, es[k]) => Gives(PubkeySubAt[d], subs[k], q + Len(es[k]))
  <2> TAKE k \in 1 .. Len(subs)
  <2> TAKE q \in Nat
  <2> TAKE d \in Cursor
  <2> HAVE Stands(d, q) /\ Arrived(q, es[k])
  <2>1. es[k] = EncodedPubkeySub(subs[k]) /\ subs[k] \in Hook!PubkeySubstitution
    BY <1>1, <1>2, <1>4
  <2> QED  BY <1>5, <2>1, PubkeySubComesBack
<1>8. Arrived(p + 1, Hook!FlattenSeq(es))
  BY <1>3
<1>9. Gives(Hook!Vector(c, Hook!decodePubkeySubstitution), subs, p + 1 + Len(Hook!FlattenSeq(es)))
  BY <1>4, <1>5, <1>6, <1>7, <1>8, VectorComesBack
<1> QED  BY <1>3, <1>9

LEMMA DataSubsComeBack ==
  ASSUME wire \in Cells, NEW p \in Nat, NEW c, Stands(c, p),
         NEW subs \in Seq(Hook!DataSubstitution), Arrived(p, <<Len(subs)>>),
         Arrived(p + 1, Hook!Each(Hook!encodeDataSubstitution, subs))
  PROVE  Gives(Hook!Vector(c, Hook!decodeDataSubstitution), subs,
               p + 1 + Len(Hook!Each(Hook!encodeDataSubstitution, subs)))
<1> DEFINE es == [i \in DOMAIN subs |-> Hook!encodeDataSubstitution(subs[i])]
<1>1. \A i \in DOMAIN subs : subs[i] \in Hook!DataSubstitution
  BY LenProperties, ElementOfSeq
<1>2. /\ \A i \in DOMAIN subs : es[i] = Hook!encodeDataSubstitution(subs[i]) /\ es[i] \in Cells
      /\ es = [i \in DOMAIN subs |-> es[i]]
  BY <1>1, DataSubIsCells
<1>3. Hook!Each(Hook!encodeDataSubstitution, subs) = Hook!FlattenSeq(es)
  BY DEF Hook!Each
<1> HIDE DEF es
<1>4. es \in Seq(Cells) /\ Len(es) = Len(subs) /\ DOMAIN subs = 1 .. Len(subs)
  BY <1>2, EachArrives
<1>5. c \in Cursor /\ \A d \in Cursor : DataSubAt[d] = Hook!decodeDataSubstitution(d) /\ Safe(d, DataSubAt[d])
  BY DataSubIsSafe DEF DataSubAt, Stands
<1>6. PICK h : VectorTakes(h, DataSubAt, c, Hook!Vector(c, Hook!decodeDataSubstitution))
  BY <1>5, DataSubsAreSteps
<1>7. \A k \in 1 .. Len(subs) : \A q \in Nat : \A d \in Cursor :
        Stands(d, q) /\ Arrived(q, es[k]) => Gives(DataSubAt[d], subs[k], q + Len(es[k]))
  <2> TAKE k \in 1 .. Len(subs)
  <2> TAKE q \in Nat
  <2> TAKE d \in Cursor
  <2> HAVE Stands(d, q) /\ Arrived(q, es[k])
  <2>1. es[k] = Hook!encodeDataSubstitution(subs[k]) /\ subs[k] \in Hook!DataSubstitution
    BY <1>1, <1>2, <1>4
  <2> QED  BY <1>5, <2>1, DataSubComesBack
<1>8. Arrived(p + 1, Hook!FlattenSeq(es))
  BY <1>3
<1>9. Gives(Hook!Vector(c, Hook!decodeDataSubstitution), subs, p + 1 + Len(Hook!FlattenSeq(es)))
  BY <1>4, <1>5, <1>6, <1>7, <1>8, VectorComesBack
<1> QED  BY <1>3, <1>9

LEMMA MetasComeBack ==
  ASSUME wire \in Cells, NEW p \in Nat, NEW c, Stands(c, p),
         NEW keys \in Seq(Hook!Meta), Arrived(p, <<Len(keys)>>),
         Arrived(p + 1, Hook!Each(Hook!encodeAccountMeta, keys))
  PROVE  Gives(Hook!Vector(c, Hook!AccountMeta), keys,
               p + 1 + Len(Hook!Each(Hook!encodeAccountMeta, keys)))
<1> DEFINE es == [i \in DOMAIN keys |-> Hook!encodeAccountMeta(keys[i])]
<1>1. \A i \in DOMAIN keys : keys[i] \in Hook!Meta
  BY LenProperties, ElementOfSeq
<1>2. /\ \A i \in DOMAIN keys : es[i] = Hook!encodeAccountMeta(keys[i]) /\ es[i] \in Cells
      /\ es = [i \in DOMAIN keys |-> es[i]]
  BY <1>1, MetaIsCells
<1>3. Hook!Each(Hook!encodeAccountMeta, keys) = Hook!FlattenSeq(es)
  BY DEF Hook!Each
<1> HIDE DEF es
<1>4. es \in Seq(Cells) /\ Len(es) = Len(keys) /\ DOMAIN keys = 1 .. Len(keys)
  BY <1>2, EachArrives
<1>5. c \in Cursor /\ \A d \in Cursor : MetaAt[d] = Hook!AccountMeta(d) /\ Safe(d, MetaAt[d])
  BY MetaIsSafe DEF MetaAt, Stands
<1>6. PICK h : VectorTakes(h, MetaAt, c, Hook!Vector(c, Hook!AccountMeta))
  BY <1>5, MetasAreSteps
<1>7. \A k \in 1 .. Len(keys) : \A q \in Nat : \A d \in Cursor :
        Stands(d, q) /\ Arrived(q, es[k]) => Gives(MetaAt[d], keys[k], q + Len(es[k]))
  <2> TAKE k \in 1 .. Len(keys)
  <2> TAKE q \in Nat
  <2> TAKE d \in Cursor
  <2> HAVE Stands(d, q) /\ Arrived(q, es[k])
  <2>1. es[k] = Hook!encodeAccountMeta(keys[k]) /\ keys[k] \in Hook!Meta
    BY <1>1, <1>2, <1>4
  <2> QED  BY <1>5, <2>1, MetaComesBack
<1>8. Arrived(p + 1, Hook!FlattenSeq(es))
  BY <1>3
<1>9. Gives(Hook!Vector(c, Hook!AccountMeta), keys, p + 1 + Len(Hook!FlattenSeq(es)))
  BY <1>4, <1>5, <1>6, <1>7, <1>8, VectorComesBack
<1> QED  BY <1>3, <1>9

LEMMA PubkeySubVectorIsSafe ==
  ASSUME wire \in Cells, NEW c \in Cursor
  PROVE  Safe(c, Hook!Vector(c, Hook!decodePubkeySubstitution))
<1>1. PICK h : VectorTakes(h, PubkeySubAt, c, Hook!Vector(c, Hook!decodePubkeySubstitution))
  BY PubkeySubsAreSteps
<1>2. \A d \in Cursor : Safe(d, PubkeySubAt[d])
  BY PubkeySubIsSafe DEF PubkeySubAt
<1> QED  BY <1>1, <1>2, VectorIsSafe

LEMMA DataSubVectorIsSafe ==
  ASSUME wire \in Cells, NEW c \in Cursor
  PROVE  Safe(c, Hook!Vector(c, Hook!decodeDataSubstitution))
<1>1. PICK h : VectorTakes(h, DataSubAt, c, Hook!Vector(c, Hook!decodeDataSubstitution))
  BY DataSubsAreSteps
<1>2. \A d \in Cursor : Safe(d, DataSubAt[d])
  BY DataSubIsSafe DEF DataSubAt
<1> QED  BY <1>1, <1>2, VectorIsSafe

LEMMA MetaVectorIsSafe ==
  ASSUME wire \in Cells, NEW c \in Cursor
  PROVE  Safe(c, Hook!Vector(c, Hook!AccountMeta))
<1>1. PICK h : VectorTakes(h, MetaAt, c, Hook!Vector(c, Hook!AccountMeta))
  BY MetasAreSteps
<1>2. \A d \in Cursor : Safe(d, MetaAt[d])
  BY MetaIsSafe DEF MetaAt
<1> QED  BY <1>1, <1>2, VectorIsSafe

PubkeySubsAt(c) ==
  Hook!Absent(Hook!Option(c, LAMBDA d : Hook!Vector(d, Hook!decodePubkeySubstitution)))

LEMMA PubkeySubsAreRead ==
  ASSUME NEW c
  PROVE  LET tag == Hook!Cell(c)
             all == Hook!Vector(tag.c, Hook!decodePubkeySubstitution)
         IN /\ tag.value # 1 => PubkeySubsAt(c).c = tag.c /\ PubkeySubsAt(c).value = <<>>
            /\ tag.value = 1 => /\ PubkeySubsAt(c).c = all.c
                                /\ all.value # None => PubkeySubsAt(c).value = all.value
<1> DEFINE tag == Hook!Cell(c)
           all == Hook!Vector(tag.c, Hook!decodePubkeySubstitution)
<1>1. PubkeySubsAt(c) = Hook!Absent(IF tag.value = 1 THEN all ELSE Hook!Read(None, tag.c))
  BY DEF PubkeySubsAt, Hook!Option
<1> HIDE DEF tag, all
<1>2. \A v, d : Hook!Read(v, d).c = d /\ Hook!Read(v, d).value = v
  BY DEF Hook!Read
<1>3. \A r : Hook!Absent(r) = IF r.value = None THEN Hook!Read(<<>>, r.c) ELSE r
  BY DEF Hook!Absent
<1>4. /\ tag.value # 1 => PubkeySubsAt(c).c = tag.c /\ PubkeySubsAt(c).value = <<>>
      /\ tag.value = 1 => /\ PubkeySubsAt(c).c = all.c
                          /\ all.value # None => PubkeySubsAt(c).value = all.value
  BY <1>1, <1>2, <1>3
<1> QED  BY <1>4 DEF tag, all

LEMMA PubkeySubsAreSafe ==
  ASSUME wire \in Cells, NEW c \in Cursor
  PROVE  Safe(c, PubkeySubsAt(c)) /\ Safe(Hook!Cell(c).c, PubkeySubsAt(c))
<1> DEFINE tag == Hook!Cell(c)
           all == Hook!Vector(tag.c, Hook!decodePubkeySubstitution)
           r == PubkeySubsAt(c)
<1>1. r.c = tag.c \/ r.c = all.c
  BY PubkeySubsAreRead
<1>2. Safe(c, tag) /\ tag.c \in Cursor
  BY CellIsSafe DEF Safe
<1> HIDE DEF tag, r
<1>3. Safe(tag.c, all)
  BY <1>2, PubkeySubVectorIsSafe
<1> HIDE DEF all
<1>4. Safe(c, r) /\ Safe(tag.c, r)
  BY <1>1, <1>2, <1>3 DEF Safe
<1> QED  BY <1>4 DEF tag, r

\* Both encoders' ways of writing a vector that may be absent.
WrotePubkeySubs(code, subs) ==
  \/ code = <<0>> /\ subs = <<>>
  \/ code = <<1>> \o (<<Len(subs)>> \o Hook!Each(EncodedPubkeySub, subs))

LEMMA PubkeySubsReturn ==
  ASSUME wire \in Cells, NEW p \in Nat, NEW c, Stands(c, p),
         NEW subs \in Seq(Hook!PubkeySubstitution), NEW code, WrotePubkeySubs(code, subs),
         Arrived(p, code)
  PROVE  /\ Gives(PubkeySubsAt(c), subs, p + Len(code))
         /\ code \in Cells /\ Len(code) \in Nat
<1> DEFINE tag == Hook!Cell(c)
           all == Hook!Vector(tag.c, Hook!decodePubkeySubstitution)
           r == PubkeySubsAt(c)
<1>0. Len(wire) \in Nat /\ p + 1 \in Nat /\ c \in Cursor /\ p + 2 \in Nat /\ p + 1 + 1 = p + 2
  BY LenProperties DEF Cells, Stands
<1>1. /\ tag.value # 1 => r.c = tag.c /\ r.value = <<>>
      /\ tag.value = 1 => r.c = all.c /\ (all.value # None => r.value = all.value)
  BY PubkeySubsAreRead
<1>2. Safe(tag.c, r)
  BY <1>0, PubkeySubsAreSafe
<1> HIDE DEF r
<1>3. CASE code = <<0>> /\ subs = <<>>
  <2>1. Len(<<0>>) = 1 /\ <<0>> \in Cells /\ Arrived(p, <<0>>)
    BY <1>3 DEF Cells
  <2>2. Gives(tag, 0, p + 1)
    BY <2>1, CellComesBack
  <2> HIDE DEF tag
  <2>3. Gives(r, <<>>, p + 1)
    <3>1. CASE p + 1 <= Len(wire)
      <4>1. tag.value = 0
        BY <2>2, <3>1 DEF Gives
      <4> QED  BY <1>1, <2>2, <4>1 DEF Gives
    <3>2. CASE ~ (p + 1 <= Len(wire))
      <4>1. ~ tag.c.ok
        BY <1>0, <2>2, <3>2 DEF Gives, Stands
      <4>2. Stands(r.c, p + 1)
        BY <1>0, <1>2, <3>2, <4>1 DEF Stands, Safe
      <4> QED  BY <3>2, <4>2 DEF Gives
    <3> QED  BY <3>1, <3>2
  <2> QED  BY <1>3, <2>1, <2>3 DEF r
<1>4. CASE code = <<1>> \o (<<Len(subs)>> \o Hook!Each(EncodedPubkeySub, subs))
  <2> DEFINE es == [i \in DOMAIN subs |-> EncodedPubkeySub(subs[i])]
             flat == Hook!Each(EncodedPubkeySub, subs)
             n == Len(subs)
             q == p + 2 + Len(flat)
  <2>1. \A i \in DOMAIN subs : es[i] \in Cells
    <3>1. \A i \in DOMAIN subs : subs[i] \in Hook!PubkeySubstitution
      BY LenProperties, ElementOfSeq
    <3> QED  BY <3>1, PubkeySubIsCells
  <2>2. es = [i \in DOMAIN subs |-> es[i]] /\ flat = Hook!FlattenSeq(es) /\ n \in Nat
    BY LenProperties DEF Hook!Each
  <2>3. code = <<1>> \o (<<n>> \o flat)
    BY <1>4
  <2> HIDE DEF es, flat, n
  <2>4. flat \in Cells /\ Len(flat) \in Nat
    <3>1. es \in Seq(Cells)
      BY <2>1, <2>2, EachArrives
    <3>2. flat \in Cells
      BY <2>2, <3>1, FlatIsCells
    <3> QED  BY <3>2, LenProperties DEF Cells
  <2>5. <<n>> \in Cells /\ Len(<<n>>) = 1 /\ <<1>> \in Cells /\ Len(<<1>>) = 1
    BY <2>2 DEF Cells
  <2>6. <<n>> \o flat \in Cells /\ Len(<<n>> \o flat) = 1 + Len(flat)
    BY <2>4, <2>5, ConcatProperties DEF Cells
  <2>7. /\ Arrived(p, <<1>>) /\ Arrived(p + 1, <<n>> \o flat)
        /\ code \in Cells /\ Len(code) = 2 + Len(flat)
    <3>1. Arrived(p, <<1>> \o (<<n>> \o flat))
      BY <2>3
    <3>2. /\ Arrived(p, <<1>>) /\ Arrived(p + Len(<<1>>), <<n>> \o flat)
          /\ <<1>> \o (<<n>> \o flat) \in Cells
          /\ Len(<<1>> \o (<<n>> \o flat)) = Len(<<1>>) + Len(<<n>> \o flat)
      BY <2>5, <2>6, <3>1, PartsArrive
    <3> QED  BY <2>3, <2>4, <2>5, <2>6, <3>2
  <2>8. Arrived(p + 1, <<n>>) /\ Arrived(p + 2, flat)
    <3>1. Arrived(p + 1, <<n>>) /\ Arrived(p + 1 + Len(<<n>>), flat)
      BY <1>0, <2>4, <2>5, <2>7, PartsArrive
    <3> QED  BY <1>0, <2>5, <3>1
  <2>9. Gives(tag, 1, p + 1) /\ Stands(tag.c, p + 1)
    BY <2>7, CellComesBack DEF Gives
  <2> HIDE DEF tag
  <2>10. Gives(all, subs, q)
    <3>1. Arrived(p + 1, <<Len(subs)>>) /\ Arrived(p + 1 + 1, Hook!Each(EncodedPubkeySub, subs))
      BY <1>0, <2>8 DEF n, flat
    <3>2. Gives(all, subs, p + 1 + 1 + Len(Hook!Each(EncodedPubkeySub, subs)))
      BY <1>0, <2>9, <3>1, PubkeySubsComeBack
    <3> HIDE DEF all
    <3> QED  BY <1>0, <3>2 DEF flat
  <2> HIDE DEF all
  <2>11. q \in Nat /\ q = p + Len(code) /\ Len(code) \in Nat
    BY <2>4, <2>7
  <2>12. subs # None
    BY CrossChainAssumption DEF Hook!HookAssumption
  <2>13. Gives(r, subs, q)
    <3>1. CASE p + 1 <= Len(wire)
      <4>1. tag.value = 1
        BY <2>9, <3>1 DEF Gives
      <4> HIDE DEF q
      <4> QED  BY <1>1, <2>10, <2>12, <4>1 DEF Gives
    <3>2. CASE ~ (p + 1 <= Len(wire))
      <4>1. ~ tag.c.ok
        BY <1>0, <2>9, <3>2 DEF Stands
      <4>2. ~ (q <= Len(wire))
        BY <1>0, <2>4, <3>2
      <4> HIDE DEF q
      <4>3. Stands(r.c, q)
        BY <1>0, <1>2, <2>11, <4>1, <4>2 DEF Stands, Safe
      <4> QED  BY <4>2, <4>3 DEF Gives
    <3> QED  BY <3>1, <3>2
  <2> QED  BY <2>7, <2>11, <2>13 DEF r
<1> QED  BY <1>3, <1>4 DEF WrotePubkeySubs

DataSubsAt(c) ==
  Hook!Absent(Hook!Option(c, LAMBDA d : Hook!Vector(d, Hook!decodeDataSubstitution)))

LEMMA DataSubsAreRead ==
  ASSUME NEW c
  PROVE  LET tag == Hook!Cell(c)
             all == Hook!Vector(tag.c, Hook!decodeDataSubstitution)
         IN /\ tag.value # 1 => DataSubsAt(c).c = tag.c /\ DataSubsAt(c).value = <<>>
            /\ tag.value = 1 => /\ DataSubsAt(c).c = all.c
                                /\ all.value # None => DataSubsAt(c).value = all.value
<1> DEFINE tag == Hook!Cell(c)
           all == Hook!Vector(tag.c, Hook!decodeDataSubstitution)
<1>1. DataSubsAt(c) = Hook!Absent(IF tag.value = 1 THEN all ELSE Hook!Read(None, tag.c))
  BY DEF DataSubsAt, Hook!Option
<1> HIDE DEF tag, all
<1>2. \A v, d : Hook!Read(v, d).c = d /\ Hook!Read(v, d).value = v
  BY DEF Hook!Read
<1>3. \A r : Hook!Absent(r) = IF r.value = None THEN Hook!Read(<<>>, r.c) ELSE r
  BY DEF Hook!Absent
<1>4. /\ tag.value # 1 => DataSubsAt(c).c = tag.c /\ DataSubsAt(c).value = <<>>
      /\ tag.value = 1 => /\ DataSubsAt(c).c = all.c
                          /\ all.value # None => DataSubsAt(c).value = all.value
  BY <1>1, <1>2, <1>3
<1> QED  BY <1>4 DEF tag, all

LEMMA DataSubsAreSafe ==
  ASSUME wire \in Cells, NEW c \in Cursor
  PROVE  Safe(c, DataSubsAt(c)) /\ Safe(Hook!Cell(c).c, DataSubsAt(c))
<1> DEFINE tag == Hook!Cell(c)
           all == Hook!Vector(tag.c, Hook!decodeDataSubstitution)
           r == DataSubsAt(c)
<1>1. r.c = tag.c \/ r.c = all.c
  BY DataSubsAreRead
<1>2. Safe(c, tag) /\ tag.c \in Cursor
  BY CellIsSafe DEF Safe
<1> HIDE DEF tag, r
<1>3. Safe(tag.c, all)
  BY <1>2, DataSubVectorIsSafe
<1> HIDE DEF all
<1>4. Safe(c, r) /\ Safe(tag.c, r)
  BY <1>1, <1>2, <1>3 DEF Safe
<1> QED  BY <1>4 DEF tag, r

\* Both encoders' ways of writing a vector that may be absent.
WroteDataSubs(code, subs) ==
  \/ code = <<0>> /\ subs = <<>>
  \/ code = <<1>> \o (<<Len(subs)>> \o Hook!Each(Hook!encodeDataSubstitution, subs))

LEMMA DataSubsReturn ==
  ASSUME wire \in Cells, NEW p \in Nat, NEW c, Stands(c, p),
         NEW subs \in Seq(Hook!DataSubstitution), NEW code, WroteDataSubs(code, subs),
         Arrived(p, code)
  PROVE  /\ Gives(DataSubsAt(c), subs, p + Len(code))
         /\ code \in Cells /\ Len(code) \in Nat
<1> DEFINE tag == Hook!Cell(c)
           all == Hook!Vector(tag.c, Hook!decodeDataSubstitution)
           r == DataSubsAt(c)
<1>0. Len(wire) \in Nat /\ p + 1 \in Nat /\ c \in Cursor /\ p + 2 \in Nat /\ p + 1 + 1 = p + 2
  BY LenProperties DEF Cells, Stands
<1>1. /\ tag.value # 1 => r.c = tag.c /\ r.value = <<>>
      /\ tag.value = 1 => r.c = all.c /\ (all.value # None => r.value = all.value)
  BY DataSubsAreRead
<1>2. Safe(tag.c, r)
  BY <1>0, DataSubsAreSafe
<1> HIDE DEF r
<1>3. CASE code = <<0>> /\ subs = <<>>
  <2>1. Len(<<0>>) = 1 /\ <<0>> \in Cells /\ Arrived(p, <<0>>)
    BY <1>3 DEF Cells
  <2>2. Gives(tag, 0, p + 1)
    BY <2>1, CellComesBack
  <2> HIDE DEF tag
  <2>3. Gives(r, <<>>, p + 1)
    <3>1. CASE p + 1 <= Len(wire)
      <4>1. tag.value = 0
        BY <2>2, <3>1 DEF Gives
      <4> QED  BY <1>1, <2>2, <4>1 DEF Gives
    <3>2. CASE ~ (p + 1 <= Len(wire))
      <4>1. ~ tag.c.ok
        BY <1>0, <2>2, <3>2 DEF Gives, Stands
      <4>2. Stands(r.c, p + 1)
        BY <1>0, <1>2, <3>2, <4>1 DEF Stands, Safe
      <4> QED  BY <3>2, <4>2 DEF Gives
    <3> QED  BY <3>1, <3>2
  <2> QED  BY <1>3, <2>1, <2>3 DEF r
<1>4. CASE code = <<1>> \o (<<Len(subs)>> \o Hook!Each(Hook!encodeDataSubstitution, subs))
  <2> DEFINE es == [i \in DOMAIN subs |-> Hook!encodeDataSubstitution(subs[i])]
             flat == Hook!Each(Hook!encodeDataSubstitution, subs)
             n == Len(subs)
             q == p + 2 + Len(flat)
  <2>1. \A i \in DOMAIN subs : es[i] \in Cells
    <3>1. \A i \in DOMAIN subs : subs[i] \in Hook!DataSubstitution
      BY LenProperties, ElementOfSeq
    <3> QED  BY <3>1, DataSubIsCells
  <2>2. es = [i \in DOMAIN subs |-> es[i]] /\ flat = Hook!FlattenSeq(es) /\ n \in Nat
    BY LenProperties DEF Hook!Each
  <2>3. code = <<1>> \o (<<n>> \o flat)
    BY <1>4
  <2> HIDE DEF es, flat, n
  <2>4. flat \in Cells /\ Len(flat) \in Nat
    <3>1. es \in Seq(Cells)
      BY <2>1, <2>2, EachArrives
    <3>2. flat \in Cells
      BY <2>2, <3>1, FlatIsCells
    <3> QED  BY <3>2, LenProperties DEF Cells
  <2>5. <<n>> \in Cells /\ Len(<<n>>) = 1 /\ <<1>> \in Cells /\ Len(<<1>>) = 1
    BY <2>2 DEF Cells
  <2>6. <<n>> \o flat \in Cells /\ Len(<<n>> \o flat) = 1 + Len(flat)
    BY <2>4, <2>5, ConcatProperties DEF Cells
  <2>7. /\ Arrived(p, <<1>>) /\ Arrived(p + 1, <<n>> \o flat)
        /\ code \in Cells /\ Len(code) = 2 + Len(flat)
    <3>1. Arrived(p, <<1>> \o (<<n>> \o flat))
      BY <2>3
    <3>2. /\ Arrived(p, <<1>>) /\ Arrived(p + Len(<<1>>), <<n>> \o flat)
          /\ <<1>> \o (<<n>> \o flat) \in Cells
          /\ Len(<<1>> \o (<<n>> \o flat)) = Len(<<1>>) + Len(<<n>> \o flat)
      BY <2>5, <2>6, <3>1, PartsArrive
    <3> QED  BY <2>3, <2>4, <2>5, <2>6, <3>2
  <2>8. Arrived(p + 1, <<n>>) /\ Arrived(p + 2, flat)
    <3>1. Arrived(p + 1, <<n>>) /\ Arrived(p + 1 + Len(<<n>>), flat)
      BY <1>0, <2>4, <2>5, <2>7, PartsArrive
    <3> QED  BY <1>0, <2>5, <3>1
  <2>9. Gives(tag, 1, p + 1) /\ Stands(tag.c, p + 1)
    BY <2>7, CellComesBack DEF Gives
  <2> HIDE DEF tag
  <2>10. Gives(all, subs, q)
    <3>1. Arrived(p + 1, <<Len(subs)>>) /\ Arrived(p + 1 + 1, Hook!Each(Hook!encodeDataSubstitution, subs))
      BY <1>0, <2>8 DEF n, flat
    <3>2. Gives(all, subs, p + 1 + 1 + Len(Hook!Each(Hook!encodeDataSubstitution, subs)))
      BY <1>0, <2>9, <3>1, DataSubsComeBack
    <3> HIDE DEF all
    <3> QED  BY <1>0, <3>2 DEF flat
  <2> HIDE DEF all
  <2>11. q \in Nat /\ q = p + Len(code) /\ Len(code) \in Nat
    BY <2>4, <2>7
  <2>12. subs # None
    BY CrossChainAssumption DEF Hook!HookAssumption
  <2>13. Gives(r, subs, q)
    <3>1. CASE p + 1 <= Len(wire)
      <4>1. tag.value = 1
        BY <2>9, <3>1 DEF Gives
      <4> HIDE DEF q
      <4> QED  BY <1>1, <2>10, <2>12, <4>1 DEF Gives
    <3>2. CASE ~ (p + 1 <= Len(wire))
      <4>1. ~ tag.c.ok
        BY <1>0, <2>9, <3>2 DEF Stands
      <4>2. ~ (q <= Len(wire))
        BY <1>0, <2>4, <3>2
      <4> HIDE DEF q
      <4>3. Stands(r.c, q)
        BY <1>0, <1>2, <2>11, <4>1, <4>2 DEF Stands, Safe
      <4> QED  BY <4>2, <4>3 DEF Gives
    <3> QED  BY <3>1, <3>2
  <2> QED  BY <2>7, <2>11, <2>13 DEF r
<1> QED  BY <1>3, <1>4 DEF WroteDataSubs

-----------------------------------------------------------------------------
(* An instruction, part by part.                                            *)

LEMMA PubkeySubsAreCells ==
  ASSUME NEW subs \in Seq(Hook!PubkeySubstitution), NEW code, WrotePubkeySubs(code, subs)
  PROVE  code \in Cells
<1>1. CASE code = <<0>>
  BY <1>1 DEF Cells
<1>2. CASE code = <<1>> \o (<<Len(subs)>> \o Hook!Each(EncodedPubkeySub, subs))
  <2> DEFINE es == [i \in DOMAIN subs |-> EncodedPubkeySub(subs[i])]
             flat == Hook!Each(EncodedPubkeySub, subs)
             n == Len(subs)
  <2>1. \A i \in DOMAIN subs : es[i] \in Cells
    <3>1. \A i \in DOMAIN subs : subs[i] \in Hook!PubkeySubstitution
      BY LenProperties, ElementOfSeq
    <3> QED  BY <3>1, PubkeySubIsCells
  <2>2. es = [i \in DOMAIN subs |-> es[i]] /\ flat = Hook!FlattenSeq(es) /\ n \in Nat
    BY LenProperties DEF Hook!Each
  <2>3. code = <<1>> \o (<<n>> \o flat)
    BY <1>2
  <2> HIDE DEF es, flat, n
  <2>4. flat \in Seq(Nat)
    BY <2>1, <2>2, EachArrives, FlatIsCells DEF Cells
  <2>5. <<n>> \in Seq(Nat) /\ <<1>> \in Seq(Nat)
    BY <2>2
  <2>6. <<n>> \o flat \in Seq(Nat)
    BY <2>4, <2>5, ConcatProperties
  <2> QED  BY <2>3, <2>5, <2>6, ConcatProperties DEF Cells
<1> QED  BY <1>1, <1>2 DEF WrotePubkeySubs

LEMMA DataSubsAreCells ==
  ASSUME NEW subs \in Seq(Hook!DataSubstitution), NEW code, WroteDataSubs(code, subs)
  PROVE  code \in Cells
<1>1. CASE code = <<0>>
  BY <1>1 DEF Cells
<1>2. CASE code = <<1>> \o (<<Len(subs)>> \o Hook!Each(Hook!encodeDataSubstitution, subs))
  <2> DEFINE es == [i \in DOMAIN subs |-> Hook!encodeDataSubstitution(subs[i])]
             flat == Hook!Each(Hook!encodeDataSubstitution, subs)
             n == Len(subs)
  <2>1. \A i \in DOMAIN subs : es[i] \in Cells
    <3>1. \A i \in DOMAIN subs : subs[i] \in Hook!DataSubstitution
      BY LenProperties, ElementOfSeq
    <3> QED  BY <3>1, DataSubIsCells
  <2>2. es = [i \in DOMAIN subs |-> es[i]] /\ flat = Hook!FlattenSeq(es) /\ n \in Nat
    BY LenProperties DEF Hook!Each
  <2>3. code = <<1>> \o (<<n>> \o flat)
    BY <1>2
  <2> HIDE DEF es, flat, n
  <2>4. flat \in Seq(Nat)
    BY <2>1, <2>2, EachArrives, FlatIsCells DEF Cells
  <2>5. <<n>> \in Seq(Nat) /\ <<1>> \in Seq(Nat)
    BY <2>2
  <2>6. <<n>> \o flat \in Seq(Nat)
    BY <2>4, <2>5, ConcatProperties
  <2> QED  BY <2>3, <2>5, <2>6, ConcatProperties DEF Cells
<1> QED  BY <1>1, <1>2 DEF WroteDataSubs

(* These cells have arrived from p up to q.                                *)
Spans(p, cells, q) == q \in Nat /\ q = p + Len(cells) /\ Arrived(p, cells)

LEMMA PartsSpan ==
  ASSUME NEW p \in Nat, NEW a \in Cells, NEW b \in Cells, NEW q, Spans(p, a \o b, q)
  PROVE  \E m \in Nat : Spans(p, a, m) /\ Spans(m, b, q) /\ p <= m /\ m <= q
<1>1. Len(a) \in Nat /\ Len(b) \in Nat
  BY LenProperties DEF Cells
<1>2. /\ Arrived(p, a) /\ Arrived(p + Len(a), b)
      /\ Len(a \o b) = Len(a) + Len(b) /\ q = p + Len(a \o b) /\ q \in Nat
  BY PartsArrive DEF Spans
<1>3. p + Len(a) \in Nat /\ q = p + Len(a) + Len(b) /\ p <= p + Len(a) /\ p + Len(a) <= q
  BY <1>1, <1>2
<1> QED  BY <1>2, <1>3 DEF Spans

(* How either encoder wrote an instruction.                                *)
Wrote(code, ei) ==
  \E ps, ds : /\ WrotePubkeySubs(ps, ei.pubkeySubstitutions)
              /\ WroteDataSubs(ds, ei.dataSubstitutions)
              /\ code = Hook!Laid(ei, ps, ds)

EncodedKeys(ei) == Hook!Each(Hook!encodeAccountMeta, ei.keys)
Policy(ei) == IF ei.executePolicy = "mandatoryBlock" THEN 1 ELSE 0

LEMMA InstructionIsLaid ==
  ASSUME NEW ei \in Hook!ExternalInstruction, NEW ps, NEW ds,
         WrotePubkeySubs(ps, ei.pubkeySubstitutions),
         WroteDataSubs(ds, ei.dataSubstitutions)
  PROVE  /\ Hook!Laid(ei, ps, ds)
              = <<ei.reward>> \o Optional(ei.expense) \o <<Policy(ei)>> \o ps \o ds
                  \o <<ei.programId, Len(ei.keys)>> \o EncodedKeys(ei)
                  \o <<Len(ei.data)>> \o ei.data
         /\ <<ei.reward>> \in Cells /\ Optional(ei.expense) \in Cells
         /\ <<Policy(ei)>> \in Cells /\ ps \in Cells /\ ds \in Cells
         /\ <<ei.programId, Len(ei.keys)>> \in Cells /\ EncodedKeys(ei) \in Cells
         /\ <<Len(ei.data)>> \in Cells /\ ei.data \in Cells
         /\ ei.reward \in Nat /\ ei.expense \in Nat \cup {None} /\ Policy(ei) \in Nat
         /\ ei.programId \in Nat /\ ei.keys \in Seq(Hook!Meta) /\ Len(ei.keys) \in Nat
         /\ Len(ei.data) \in Nat
<1>1. /\ ei.reward \in Hook!u64 /\ ei.expense \in Hook!u64 \cup {None}
      /\ ei.pubkeySubstitutions \in Seq(Hook!PubkeySubstitution)
      /\ ei.dataSubstitutions \in Seq(Hook!DataSubstitution)
      /\ ei.programId \in Nat /\ ei.keys \in Seq(Hook!Meta) /\ ei.data \in Seq(Nat)
  BY DEF Hook!ExternalInstruction
<1>2. Hook!u64LE(ei.reward) = ei.reward /\ ei.reward \in Nat
  BY <1>1, U64IsItself
<1>3. Hook!optionU64(ei.expense) = Optional(ei.expense) /\ ei.expense \in Nat \cup {None}
  BY <1>1, U64IsItself DEF Hook!optionU64, Optional
<1>4. ps \in Cells /\ ds \in Cells
  BY <1>1, PubkeySubsAreCells, DataSubsAreCells
<1>5. Len(ei.keys) \in Nat /\ Len(ei.data) \in Nat
  BY <1>1, LenProperties
<1>6. EncodedKeys(ei) \in Cells
  <2> DEFINE es == [i \in DOMAIN ei.keys |-> Hook!encodeAccountMeta(ei.keys[i])]
  <2>1. \A i \in DOMAIN ei.keys : es[i] \in Cells
    <3>1. \A i \in DOMAIN ei.keys : ei.keys[i] \in Hook!Meta
      BY <1>1, LenProperties, ElementOfSeq
    <3> QED  BY <3>1, MetaIsCells
  <2>2. es = [i \in DOMAIN ei.keys |-> es[i]] /\ EncodedKeys(ei) = Hook!FlattenSeq(es)
    BY DEF EncodedKeys, Hook!Each
  <2> HIDE DEF es
  <2> QED  BY <1>1, <2>1, <2>2, EachArrives, FlatIsCells
<1>7. Policy(ei) \in Nat
  BY DEF Policy
<1>8. Optional(ei.expense) \in Cells
  BY <1>3 DEF Optional, Cells
<1>9. /\ <<ei.reward>> \in Cells /\ <<Policy(ei)>> \in Cells
      /\ <<ei.programId, Len(ei.keys)>> \in Cells /\ <<Len(ei.data)>> \in Cells
      /\ ei.data \in Cells
  BY <1>1, <1>2, <1>5, <1>7 DEF Cells
<1>10. Hook!Laid(ei, ps, ds)
         = <<ei.reward>> \o Optional(ei.expense) \o <<Policy(ei)>> \o ps \o ds
             \o <<ei.programId, Len(ei.keys)>> \o EncodedKeys(ei)
             \o <<Len(ei.data)>> \o ei.data
  BY <1>2, <1>3 DEF Hook!Laid, EncodedKeys, Policy
<1> QED  BY <1>1, <1>2, <1>3, <1>4, <1>5, <1>6, <1>7, <1>8, <1>9, <1>10

(* An instruction that arrived whole comes back, and none that did not.    *)
LEMMA InstructionComesBack ==
  ASSUME wire \in Cells, NEW p \in Nat, NEW c, Stands(c, p),
         NEW ei \in Hook!ExternalInstruction, NEW code, Wrote(code, ei), Arrived(p, code)
  PROVE  Gives(Hook!decodeOneExternalInstruction(c), ei, p + Len(code))
<1>1. PICK ps, ds : /\ WrotePubkeySubs(ps, ei.pubkeySubstitutions)
                    /\ WroteDataSubs(ds, ei.dataSubstitutions)
                    /\ code = Hook!Laid(ei, ps, ds)
  BY DEF Wrote
<1> DEFINE reward == Hook!Cell(c)
           expense == Hook!Option(reward.c, Hook!Cell)
           policy == Hook!Cell(expense.c)
           pubkeySubs == PubkeySubsAt(policy.c)
           dataSubs == DataSubsAt(pubkeySubs.c)
           programId == Hook!Cell(dataSubs.c)
           keys == Hook!Vector(programId.c, Hook!AccountMeta)
           data == Hook!String(keys.c)
           r == Hook!decodeOneExternalInstruction(c)
<1>2. /\ r.c = data.c
      /\ r.value = [reward |-> reward.value, expense |-> expense.value,
                    executePolicy |-> IF policy.value = 1 THEN "mandatoryBlock" ELSE "empty",
                    pubkeySubstitutions |-> pubkeySubs.value,
                    dataSubstitutions |-> dataSubs.value,
                    programId |-> programId.value, keys |-> keys.value,
                    data |-> data.value]
  <2>1. r = Hook!Read([reward |-> reward.value, expense |-> expense.value,
                       executePolicy |-> IF policy.value = 1 THEN "mandatoryBlock" ELSE "empty",
                       pubkeySubstitutions |-> pubkeySubs.value,
                       dataSubstitutions |-> dataSubs.value,
                       programId |-> programId.value, keys |-> keys.value,
                       data |-> data.value], data.c)
    BY DEF Hook!decodeOneExternalInstruction, PubkeySubsAt, DataSubsAt
  <2> HIDE DEF reward, expense, policy, pubkeySubs, dataSubs, programId, keys, data, r
  <2> QED  BY <2>1 DEF Hook!Read
<1> HIDE DEF r
<1> DEFINE a2 == Optional(ei.expense)
           a7 == EncodedKeys(ei)
<1>3. /\ code = <<ei.reward>> \o a2 \o <<Policy(ei)>> \o ps \o ds
                  \o <<ei.programId, Len(ei.keys)>> \o a7 \o <<Len(ei.data)>> \o ei.data
      /\ <<ei.reward>> \in Cells /\ a2 \in Cells
      /\ <<Policy(ei)>> \in Cells /\ ps \in Cells /\ ds \in Cells
      /\ <<ei.programId, Len(ei.keys)>> \in Cells /\ a7 \in Cells
      /\ <<Len(ei.data)>> \in Cells /\ ei.data \in Cells
      /\ ei.reward \in Nat /\ ei.expense \in Nat \cup {None} /\ Policy(ei) \in Nat
      /\ ei.programId \in Nat /\ ei.keys \in Seq(Hook!Meta) /\ Len(ei.keys) \in Nat
      /\ Len(ei.data) \in Nat
  BY <1>1, InstructionIsLaid
<1>4. /\ Len(<<ei.reward>>) = 1 /\ Len(<<Policy(ei)>>) = 1
      /\ Len(<<ei.programId, Len(ei.keys)>>) = 2 /\ Len(<<Len(ei.data)>>) = 1
  OBVIOUS
<1> HIDE DEF a2, a7
<1>5. PICK b2 : b2 = <<ei.reward>> \o a2
  OBVIOUS
<1>6. PICK b3 : b3 = b2 \o <<Policy(ei)>>
  OBVIOUS
<1>7. PICK b4 : b4 = b3 \o ps
  OBVIOUS
<1>8. PICK b5 : b5 = b4 \o ds
  OBVIOUS
<1>9. PICK b6 : b6 = b5 \o <<ei.programId, Len(ei.keys)>>
  OBVIOUS
<1>10. PICK b7 : b7 = b6 \o a7
  OBVIOUS
<1>11. PICK b8 : b8 = b7 \o <<Len(ei.data)>>
  OBVIOUS
<1>12. /\ b2 \in Cells /\ b3 \in Cells /\ b4 \in Cells /\ b5 \in Cells
       /\ b6 \in Cells /\ b7 \in Cells /\ b8 \in Cells
  <2>2. b2 \in Cells
    BY <1>3, <1>5, ConcatProperties DEF Cells
  <2>3. b3 \in Cells
    BY <1>3, <1>6, <2>2, ConcatProperties DEF Cells
  <2>4. b4 \in Cells
    BY <1>3, <1>7, <2>3, ConcatProperties DEF Cells
  <2>5. b5 \in Cells
    BY <1>3, <1>8, <2>4, ConcatProperties DEF Cells
  <2>6. b6 \in Cells
    BY <1>3, <1>9, <2>5, ConcatProperties DEF Cells
  <2>7. b7 \in Cells
    BY <1>3, <1>10, <2>6, ConcatProperties DEF Cells
  <2>8. b8 \in Cells
    BY <1>3, <1>11, <2>7, ConcatProperties DEF Cells
  <2> QED  BY <2>2, <2>3, <2>4, <2>5, <2>6, <2>7, <2>8
<1>13. code = b8 \o ei.data
  BY <1>3, <1>5, <1>6, <1>7, <1>8, <1>9, <1>10, <1>11
<1>14. PICK q : q = p + Len(code)
  OBVIOUS
<1>15. Spans(p, b8 \o ei.data, q)
  <2>1. code \in Cells
    BY <1>3, <1>12, <1>13, ConcatProperties DEF Cells
  <2>2. Len(code) \in Nat
    BY <2>1, LenProperties DEF Cells
  <2> QED  BY <2>2, <1>13, <1>14 DEF Spans
<1>16. PICK p9 \in Nat : /\ Spans(p, b8, p9) /\ Spans(p9, ei.data, q)
                        /\ p <= p9 /\ p9 <= q
  BY <1>3, <1>12, <1>15, PartsSpan
<1>17. PICK p8 \in Nat : /\ Spans(p, b7, p8) /\ Spans(p8, <<Len(ei.data)>>, p9)
                        /\ p <= p8 /\ p8 <= p9
  BY <1>3, <1>12, <1>16, <1>11, PartsSpan
<1>18. PICK p7 \in Nat : /\ Spans(p, b6, p7) /\ Spans(p7, a7, p8)
                        /\ p <= p7 /\ p7 <= p8
  BY <1>3, <1>12, <1>17, <1>10, PartsSpan
<1>19. PICK p6 \in Nat : /\ Spans(p, b5, p6) /\ Spans(p6, <<ei.programId, Len(ei.keys)>>, p7)
                        /\ p <= p6 /\ p6 <= p7
  BY <1>3, <1>12, <1>18, <1>9, PartsSpan
<1>20. PICK p5 \in Nat : /\ Spans(p, b4, p5) /\ Spans(p5, ds, p6)
                        /\ p <= p5 /\ p5 <= p6
  BY <1>3, <1>12, <1>19, <1>8, PartsSpan
<1>21. PICK p4 \in Nat : /\ Spans(p, b3, p4) /\ Spans(p4, ps, p5)
                        /\ p <= p4 /\ p4 <= p5
  BY <1>3, <1>12, <1>20, <1>7, PartsSpan
<1>22. PICK p3 \in Nat : /\ Spans(p, b2, p3) /\ Spans(p3, <<Policy(ei)>>, p4)
                        /\ p <= p3 /\ p3 <= p4
  BY <1>3, <1>12, <1>21, <1>6, PartsSpan
<1>23. PICK p2 \in Nat : /\ Spans(p, <<ei.reward>>, p2) /\ Spans(p2, a2, p3)
                        /\ p <= p2 /\ p2 <= p3
  BY <1>3, <1>12, <1>22, <1>5, PartsSpan
<1>24. /\ p2 = p + 1 /\ p3 = p2 + Len(a2) /\ p4 = p3 + 1
       /\ p5 = p4 + Len(ps) /\ p6 = p5 + Len(ds) /\ p7 = p6 + 2
       /\ p8 = p7 + Len(a7) /\ p9 = p8 + 1 /\ q = p9 + Len(ei.data)
       /\ q \in Nat
       /\ Arrived(p, <<ei.reward>>) /\ Arrived(p2, a2) /\ Arrived(p3, <<Policy(ei)>>)
       /\ Arrived(p4, ps) /\ Arrived(p5, ds) /\ Arrived(p6, <<ei.programId, Len(ei.keys)>>)
       /\ Arrived(p7, a7) /\ Arrived(p8, <<Len(ei.data)>>) /\ Arrived(p9, ei.data)
  BY <1>4, <1>15, <1>16, <1>17, <1>18, <1>19, <1>20, <1>21, <1>22, <1>23 DEF Spans
<1>25. /\ Len(a2) \in Nat /\ Len(ps) \in Nat /\ Len(ds) \in Nat /\ Len(a7) \in Nat
      /\ Len(wire) \in Nat
  BY <1>3, LenProperties DEF Cells
<1>26. /\ p6 + 1 \in Nat /\ p6 + 1 + 1 = p7 /\ p8 + 1 = p9 /\ p + 1 = p2 /\ p3 + 1 = p4
  BY <1>24
<1>27. /\ q <= Len(wire) =>
           /\ p2 <= Len(wire) /\ p3 <= Len(wire) /\ p4 <= Len(wire) /\ p5 <= Len(wire)
           /\ p6 <= Len(wire) /\ p6 + 1 <= Len(wire) /\ p8 <= Len(wire)
      /\ p6 + 1 + 1 = p7 /\ p8 + 1 = p9 /\ p + 1 = p2 /\ p3 + 1 = p4
  <2>1. /\ p2 <= p3 /\ p3 <= p4 /\ p4 <= p5 /\ p5 <= p6 /\ p6 <= p7 /\ p7 <= p8
        /\ p8 <= p9 /\ p9 <= q /\ q \in Nat
    BY <1>16, <1>17, <1>18, <1>19, <1>20, <1>21, <1>22, <1>23, <1>24
  <2>2. p6 + 1 <= p7
    BY <1>26
  <2>3. \A l \in Nat : q <= l =>
           /\ p2 <= l /\ p3 <= l /\ p4 <= l /\ p5 <= l /\ p6 <= l /\ p7 <= l /\ p8 <= l
    BY <2>1
  <2>4. \A l \in Nat : p7 <= l => p6 + 1 <= l
    BY <2>2, <1>26
  <2> QED  BY <1>25, <1>26, <2>3, <2>4
<1>28. Arrived(p6, <<ei.programId>>) /\ Arrived(p6 + 1, <<Len(ei.keys)>>)
  <2> DEFINE t == <<ei.programId, Len(ei.keys)>>
  <2>1. t \in Cells /\ Len(t) = 2 /\ t[1] = ei.programId /\ t[2] = Len(ei.keys) /\ Arrived(p6, t)
    BY <1>3, <1>24
  <2> HIDE DEF t
  <2>2. p6 + (1 - 1) = p6 /\ p6 + (2 - 1) = p6 + 1 /\ 1 \in 1 .. 2 /\ 2 \in 1 .. 2
    BY <1>26
  <2> QED  BY <1>26, <2>1, <2>2, CellArrives
<1>29. Gives(reward, ei.reward, p2) /\ Stands(reward.c, p2)
  <2>1. Gives(reward, ei.reward, p + 1)
    BY <1>3, <1>24, CellComesBack
  <2> QED  BY <2>1, <1>26 DEF Gives
<1> HIDE DEF reward
<1>30. Gives(expense, ei.expense, p3) /\ Stands(expense.c, p3)
  <2>1. Gives(expense, ei.expense, p2 + Len(a2))
    BY <1>3, <1>24, <1>26, <1>29, OptionComesBack DEF a2
  <2> QED  BY <2>1, <1>24 DEF Gives
<1> HIDE DEF expense
<1>31. Gives(policy, Policy(ei), p4) /\ Stands(policy.c, p4)
  <2>1. Gives(policy, Policy(ei), p3 + 1)
    BY <1>3, <1>24, <1>30, CellComesBack
  <2> QED  BY <2>1, <1>27 DEF Gives
<1> HIDE DEF policy
<1>32. Gives(pubkeySubs, ei.pubkeySubstitutions, p5) /\ Stands(pubkeySubs.c, p5)
  <2>1. ei.pubkeySubstitutions \in Seq(Hook!PubkeySubstitution)
    BY DEF Hook!ExternalInstruction
  <2>2. Gives(pubkeySubs, ei.pubkeySubstitutions, p4 + Len(ps))
    BY <1>1, <1>24, <1>26, <1>31, <2>1, PubkeySubsReturn
  <2> QED  BY <2>2, <1>24 DEF Gives
<1> HIDE DEF pubkeySubs
<1>33. Gives(dataSubs, ei.dataSubstitutions, p6) /\ Stands(dataSubs.c, p6)
  <2>1. ei.dataSubstitutions \in Seq(Hook!DataSubstitution)
    BY DEF Hook!ExternalInstruction
  <2>2. Gives(dataSubs, ei.dataSubstitutions, p5 + Len(ds))
    BY <1>1, <1>24, <1>26, <1>32, <2>1, DataSubsReturn
  <2> QED  BY <2>2, <1>24 DEF Gives
<1> HIDE DEF dataSubs
<1>34. Gives(programId, ei.programId, p6 + 1) /\ Stands(programId.c, p6 + 1)
  BY <1>3, <1>26, <1>28, <1>33, CellComesBack DEF Gives
<1> HIDE DEF programId
<1>35. Gives(keys, ei.keys, p8) /\ Stands(keys.c, p8)
  <2>1. Arrived(p6 + 1 + 1, Hook!Each(Hook!encodeAccountMeta, ei.keys))
    BY <1>24, <1>27 DEF a7, EncodedKeys
  <2>2. Gives(keys, ei.keys, p6 + 1 + 1 + Len(Hook!Each(Hook!encodeAccountMeta, ei.keys)))
    BY <1>3, <1>26, <1>28, <1>34, <2>1, MetasComeBack
  <2>3. p6 + 1 + 1 + Len(Hook!Each(Hook!encodeAccountMeta, ei.keys)) = p8
    BY <1>27, <1>24 DEF a7, EncodedKeys
  <2> HIDE DEF keys
  <2> QED  BY <2>2, <2>3 DEF Gives
<1> HIDE DEF keys
<1>36. Gives(data, ei.data, q)
  <2>1. Arrived(p8 + 1, ei.data)
    BY <1>24, <1>27
  <2>2. Gives(data, ei.data, p8 + 1 + Len(ei.data))
    BY <1>3, <1>24, <1>26, <1>35, <2>1, StringComesBack
  <2> QED  BY <1>27, <1>24, <2>2
<1> HIDE DEF data
<1>37. ASSUME q <= Len(wire) PROVE r.value = ei
  <2>1. /\ reward.value = ei.reward /\ expense.value = ei.expense
        /\ policy.value = Policy(ei) /\ pubkeySubs.value = ei.pubkeySubstitutions
        /\ dataSubs.value = ei.dataSubstitutions /\ programId.value = ei.programId
        /\ keys.value = ei.keys /\ data.value = ei.data
    BY <1>27, <1>29, <1>30, <1>31, <1>32, <1>33, <1>34, <1>35, <1>36, <1>37 DEF Gives
  <2>2. (IF Policy(ei) = 1 THEN "mandatoryBlock" ELSE "empty") = ei.executePolicy
    BY DEF Policy, Hook!ExternalInstruction
  <2>3. ei = [reward |-> ei.reward, expense |-> ei.expense,
              executePolicy |-> ei.executePolicy,
              pubkeySubstitutions |-> ei.pubkeySubstitutions,
              dataSubstitutions |-> ei.dataSubstitutions,
              programId |-> ei.programId, keys |-> ei.keys, data |-> ei.data]
    BY DEF Hook!ExternalInstruction
  <2> QED  BY <1>2, <2>1, <2>2, <2>3
<1>38. Gives(r, ei, q)
  BY <1>2, <1>36, <1>37 DEF Gives
<1> QED  BY <1>14, <1>38 DEF r

-----------------------------------------------------------------------------
(* A hook, instruction by instruction.                                      *)

(* What sends a hook, and what one instruction of it becomes.              *)
Code(ei) == IF own THEN Hook!encodeExternalInstruction(ei) ELSE Hook!encodeCollapsed(ei)
Encoding(h) == IF own THEN Hook!buildSolanaHook(h) ELSE Hook!Each(Hook!encodeCollapsed, h)

LEMMA CodeIsWritten ==
  ASSUME NEW ei \in Hook!ExternalInstruction
  PROVE  Wrote(Code(ei), ei)
<1> DEFINE P == ei.pubkeySubstitutions
           D == ei.dataSubstitutions
           ps == <<1>> \o Hook!PubkeySubs(ei)
           ds == <<1>> \o Hook!DataSubs(ei)
<1>1. WrotePubkeySubs(ps, P)
  BY DEF WrotePubkeySubs, Hook!PubkeySubs, Hook!Each, EncodedPubkeySub
<1>2. WroteDataSubs(ds, D)
  BY DEF WroteDataSubs, Hook!DataSubs
<1> HIDE DEF ps, ds
<1>3. Hook!encodeExternalInstruction(ei) = Hook!Laid(ei, ps, ds)
  BY DEF Hook!encodeExternalInstruction, ps, ds
<1>4. PICK cs : cs = IF P = <<>> THEN <<0>> ELSE ps
  OBVIOUS
<1>5. PICK es : es = IF D = <<>> THEN <<0>> ELSE ds
  OBVIOUS
<1>6. Hook!encodeCollapsed(ei) = Hook!Laid(ei, cs, es)
  BY <1>4, <1>5 DEF Hook!encodeCollapsed, ps, ds
<1>7. WrotePubkeySubs(cs, P) /\ WroteDataSubs(es, D)
  <2>1. WrotePubkeySubs(cs, P)
    BY <1>1, <1>4 DEF WrotePubkeySubs
  <2>2. WroteDataSubs(es, D)
    BY <1>2, <1>5 DEF WroteDataSubs
  <2> QED  BY <2>1, <2>2
<1>8. CASE own
  BY <1>8, <1>1, <1>2, <1>3 DEF Wrote, Code
<1>9. CASE ~ own
  BY <1>9, <1>6, <1>7 DEF Wrote, Code
<1> QED  BY <1>8, <1>9

(* Its length is no part of the layout, but it always has one.             *)
LEMMA CodeIsCells ==
  ASSUME NEW ei \in Hook!ExternalInstruction, NEW code, Wrote(code, ei)
  PROVE  code \in Cells /\ Len(code) \in Nat \ {0}
<1>1. PICK ps, ds : /\ WrotePubkeySubs(ps, ei.pubkeySubstitutions)
                    /\ WroteDataSubs(ds, ei.dataSubstitutions)
                    /\ code = Hook!Laid(ei, ps, ds)
  BY DEF Wrote
<1> DEFINE a1 == <<ei.reward>>
           a2 == Optional(ei.expense)
           a3 == <<Policy(ei)>>
           a6 == <<ei.programId, Len(ei.keys)>>
           a7 == EncodedKeys(ei)
           a8 == <<Len(ei.data)>>
           a9 == ei.data
<1>2. /\ code = a1 \o a2 \o a3 \o ps \o ds \o a6 \o a7 \o a8 \o a9
      /\ a1 \in Cells /\ a2 \in Cells /\ a3 \in Cells /\ ps \in Cells /\ ds \in Cells
      /\ a6 \in Cells /\ a7 \in Cells /\ a8 \in Cells /\ a9 \in Cells
  BY <1>1, InstructionIsLaid
<1>3. Len(a8) = 1
  OBVIOUS
<1> HIDE DEF a1, a2, a3, a6, a7, a8, a9
<1>4. \A s \in Cells, t \in Cells : s \o t \in Cells /\ Len(s \o t) = Len(s) + Len(t)
  BY ConcatProperties DEF Cells
<1>5. PICK b : b = a1 \o a2 \o a3 \o ps \o ds \o a6 \o a7
  OBVIOUS
<1>6. b \in Cells
  <2>1. a1 \o a2 \in Cells
    BY <1>2, <1>4
  <2>2. a1 \o a2 \o a3 \in Cells
    BY <1>2, <1>4, <2>1
  <2>3. a1 \o a2 \o a3 \o ps \in Cells
    BY <1>2, <1>4, <2>2
  <2>4. a1 \o a2 \o a3 \o ps \o ds \in Cells
    BY <1>2, <1>4, <2>3
  <2>5. a1 \o a2 \o a3 \o ps \o ds \o a6 \in Cells
    BY <1>2, <1>4, <2>4
  <2> QED  BY <1>2, <1>4, <1>5, <2>5
<1>7. code = (b \o a8) \o a9
  BY <1>2, <1>5
<1>8. b \o a8 \in Cells /\ Len(b \o a8) = Len(b) + 1
  BY <1>2, <1>3, <1>4, <1>6
<1>9. code \in Cells /\ Len(code) = Len(b) + 1 + Len(a9)
  BY <1>2, <1>4, <1>7, <1>8
<1>10. Len(b) \in Nat /\ Len(a9) \in Nat
  BY <1>2, <1>6, LenProperties DEF Cells
<1> QED  BY <1>9, <1>10

(* A hook is its instructions after each other: f[k] is what the first k    *)
(* make.                                                                   *)
Grows(f, h) ==
  /\ \A k \in 0 .. Len(h) : f[k] \in Cells /\ f[k] = Encoding(SubSeq(h, 1, k))
  /\ \A k \in 1 .. Len(h) : /\ f[k] = f[k - 1] \o Code(h[k])
                            /\ Code(h[k]) \in Cells /\ Len(Code(h[k])) \in Nat \ {0}
                            /\ Wrote(Code(h[k]), h[k])
  /\ f[0] = <<>>
  /\ f[Len(h)] = Encoding(h)

LEMMA HooksGrow ==
  ASSUME NEW h \in Seq(Hook!ExternalInstruction)
  PROVE  \E f : Grows(f, h)
<1> DEFINE es == [i \in DOMAIN h |-> Code(h[i])]
           n == Len(h)
<1>1. n \in Nat /\ DOMAIN h = 1 .. n /\ \A i \in 1 .. n : h[i] \in Hook!ExternalInstruction
  BY LenProperties, ElementOfSeq
<1>2. \A i \in 1 .. n : /\ Code(h[i]) \in Cells /\ Len(Code(h[i])) \in Nat \ {0}
                        /\ Wrote(Code(h[i]), h[i])
  BY <1>1, CodeIsWritten, CodeIsCells
<1>3. es = [i \in DOMAIN h |-> es[i]] /\ \A i \in 1 .. n : es[i] = Code(h[i])
  BY <1>1
<1>4. \A s : Encoding(s) = Hook!FlattenSeq([i \in DOMAIN s |-> Code(s[i])])
  BY DEF Encoding, Code, Hook!buildSolanaHook, Hook!Each
<1>5. Encoding(h) = Hook!FlattenSeq(es)
  BY <1>4
<1> HIDE DEF es
<1>6. es \in Seq(Cells) /\ Len(es) = n
  BY <1>1, <1>2, <1>3, EachArrives
<1>7. PICK f : Runs(f, es)
  BY <1>6, RunsExist
<1>8. \A k \in 0 .. n : f[k] = Encoding(SubSeq(h, 1, k))
  <2> TAKE k \in 0 .. n
  <2> DEFINE s == SubSeq(h, 1, k)
             t == SubSeq(es, 1, k)
             u == [i \in DOMAIN s |-> Code(s[i])]
  <2>1. \A i \in 1 .. k : i \in 1 .. n
    BY <1>1
  <2>2. s \in Seq(Hook!ExternalInstruction) /\ Len(s) = k /\ \A i \in 1 .. k : s[i] = h[i]
    <3>1. \A i \in 1 .. k : h[i] \in Hook!ExternalInstruction
      BY <1>1, <2>1
    <3>2. 1 \in Int /\ k \in Int
      OBVIOUS
    <3>3. /\ s \in Seq(Hook!ExternalInstruction) /\ Len(s) = (IF 1 <= k THEN k - 1 + 1 ELSE 0)
          /\ \A i \in 1 .. k - 1 + 1 : s[i] = h[1 + i - 1]
      BY <3>1, <3>2, SubSeqProperties
    <3> HIDE DEF s
    <3> QED  BY <3>3
  <2>3. t \in Seq(Cells) /\ Len(t) = k /\ \A i \in 1 .. k : t[i] = es[i]
    <3>1. \A i \in 1 .. k : es[i] \in Cells
      BY <1>2, <1>3, <2>1
    <3>2. 1 \in Int /\ k \in Int
      OBVIOUS
    <3>3. /\ t \in Seq(Cells) /\ Len(t) = (IF 1 <= k THEN k - 1 + 1 ELSE 0)
          /\ \A i \in 1 .. k - 1 + 1 : t[i] = es[1 + i - 1]
      BY <3>1, <3>2, SubSeqProperties
    <3> HIDE DEF t
    <3> QED  BY <3>3
  <2>4. Encoding(s) = Hook!FlattenSeq(u) /\ Hook!FlattenSeq(t) = f[k]
    BY <1>4, <1>6, <1>7, RunsFlatten
  <2>5. u = [i \in DOMAIN s |-> u[i]] /\ \A i \in DOMAIN s : u[i] = Code(s[i])
    OBVIOUS
  <2> HIDE DEF s, t, u
  <2>6. DOMAIN s = 1 .. k
    BY <2>2, LenProperties
  <2>7. \A i \in 1 .. k : u[i] = t[i] /\ u[i] \in Cells
    BY <1>2, <1>3, <2>1, <2>2, <2>3, <2>5, <2>6
  <2>8. u \in Seq(Cells) /\ Len(u) = k
    BY <2>2, <2>5, <2>6, <2>7, EachArrives
  <2>9. u = t
    BY <2>3, <2>7, <2>8, SeqEqual
  <2> QED  BY <2>4, <2>9 DEF s
<1>9. f[n] = Encoding(h)
  <2>1. n \in 0 .. n /\ SubSeq(h, 1, n) = h
    BY <1>1, SubSeqFull
  <2> QED  BY <2>1, <1>8
<1>10. f[0] = <<>> /\ (\A k \in 0 .. n : f[k] \in Cells)
       /\ \A k \in 1 .. n : f[k] = f[k - 1] \o Code(h[k])
  BY <1>3, <1>6, <1>7 DEF Runs
<1> QED  BY <1>2, <1>8, <1>9, <1>10 DEF Grows

(* Of a hook that has arrived every beginning has, and each instruction      *)
(* where the ones before it end; each is longer than the one before it.      *)
LEMMA BeginningsArrive ==
  ASSUME NEW h \in Seq(Hook!ExternalInstruction), NEW f, Grows(f, h),
         Arrived(0, Encoding(h)), NEW k \in 0 .. Len(h)
  PROVE  /\ Arrived(0, f[k])
         /\ k < Len(h) => Arrived(Len(f[k]), Code(h[k + 1]))
<1> DEFINE n == Len(h)
           T == {m \in Nat : m <= n => Arrived(0, f[n - m])}
<1>1. n \in Nat /\ k \in Nat /\ k <= n
  BY LenProperties
<1>2. 0 \in T
  <2>1. n - 0 = n
    BY <1>1
  <2> QED  BY <1>1, <2>1 DEF Grows
<1>3. \A j \in 1 .. n : Arrived(0, f[j]) =>
        Arrived(0, f[j - 1]) /\ Arrived(Len(f[j - 1]), Code(h[j]))
  <2> TAKE j \in 1 .. n
  <2> HAVE Arrived(0, f[j])
  <2>0. j - 1 \in 0 .. n
    BY <1>1
  <2>1. f[j] = f[j - 1] \o Code(h[j]) /\ Code(h[j]) \in Cells
    BY DEF Grows
  <2>2. f[j - 1] \in Cells
    BY <2>0 DEF Grows
  <2>3. PICK a : a = f[j - 1]
    OBVIOUS
  <2>4. a \in Cells /\ Arrived(0, a \o Code(h[j])) /\ Len(a) \in Nat
    BY <2>1, <2>2, <2>3, LenProperties DEF Cells
  <2>5. Arrived(0, a) /\ Arrived(0 + Len(a), Code(h[j]))
    BY <2>1, <2>4, PartsArrive
  <2>6. 0 + Len(a) = Len(a)
    BY <2>4
  <2> QED  BY <2>3, <2>5, <2>6
<1>4. ASSUME NEW m \in T PROVE m + 1 \in T
  <2> SUFFICES ASSUME m + 1 <= n PROVE Arrived(0, f[n - (m + 1)])
    OBVIOUS
  <2>1. m \in Nat /\ m <= n /\ n - m \in 1 .. n /\ n - m - 1 = n - (m + 1)
    BY <1>1
  <2>2. Arrived(0, f[n - m])
    BY <2>1
  <2> QED  BY <1>3, <2>1, <2>2
<1>5. T = Nat
  <2> HIDE DEF T
  <2>1. T \in SUBSET Nat
    BY DEF T
  <2> QED  BY <1>2, <1>4, <2>1, NumberInduction
<1>6. \A j \in 0 .. n : Arrived(0, f[j])
  <2> TAKE j \in 0 .. n
  <2>1. n - j \in Nat /\ n - (n - j) = j /\ n - j <= n
    BY <1>1
  <2>2. n - j \in T
    BY <1>5, <2>1
  <2>3. Arrived(0, f[n - (n - j)])
    BY <2>1, <2>2
  <2> QED  BY <2>1, <2>3
<1>7. ASSUME k < n PROVE Arrived(Len(f[k]), Code(h[k + 1]))
  <2>1. k + 1 \in 1 .. n /\ k + 1 \in 0 .. n /\ k + 1 - 1 = k
    BY <1>1, <1>7
  <2>2. \A j \in 1 .. n : j - 1 = k => Arrived(Len(f[k]), Code(h[j]))
    BY <1>3, <1>6
  <2> QED  BY <2>1, <2>2
<1> QED  BY <1>6, <1>7

LEMMA BeginningsAreShorter ==
  ASSUME NEW h \in Seq(Hook!ExternalInstruction), NEW f, Grows(f, h), NEW k \in 0 .. Len(h)
  PROVE  /\ Len(f[k]) \in Nat /\ Len(Encoding(h)) \in Nat
         /\ k < Len(h) => Len(f[k]) < Len(Encoding(h))
         /\ Len(f[k]) <= Len(Encoding(h))
<1> DEFINE n == Len(h)
           l == [j \in 0 .. n |-> Len(f[j])]
           T == {m \in Nat : k + m <= n => l[k] + m <= l[k + m]}
<1>1. n \in Nat /\ k \in Nat /\ k <= n
  BY LenProperties
<1>2. \A j \in 0 .. n : l[j] = Len(f[j]) /\ l[j] \in Nat
  <2> TAKE j \in 0 .. n
  <2>1. f[j] \in Cells
    BY DEF Grows
  <2> QED  BY <2>1, LenProperties DEF Cells
<1> HIDE DEF l
<1>3. \A j \in 1 .. n : l[j] >= l[j - 1] + 1
  <2> TAKE j \in 1 .. n
  <2>1. /\ f[j] = f[j - 1] \o Code(h[j]) /\ Code(h[j]) \in Cells
        /\ Len(Code(h[j])) \in Nat \ {0}
    BY DEF Grows
  <2>0. j - 1 \in 0 .. n /\ j \in 0 .. n
    BY <1>1
  <2>2. f[j - 1] \in Cells
    BY <2>0 DEF Grows
  <2>3. Len(f[j]) = Len(f[j - 1]) + Len(Code(h[j]))
    BY <2>1, <2>2, ConcatProperties DEF Cells
  <2>4. l[j] = Len(f[j]) /\ l[j - 1] = Len(f[j - 1]) /\ l[j - 1] \in Nat
    BY <1>2, <2>0
  <2>5. \A a, b \in Nat : \A c \in Nat \ {0} : b = a + c => b >= a + 1
    OBVIOUS
  <2>6. l[j] = l[j - 1] + Len(Code(h[j])) /\ l[j] \in Nat
    BY <1>2, <2>0, <2>3, <2>4
  <2> QED  BY <2>1, <2>4, <2>5, <2>6
<1>4. 0 \in T
  BY <1>1, <1>2
<1>5. ASSUME NEW m \in T PROVE m + 1 \in T
  <2> SUFFICES ASSUME k + (m + 1) <= n PROVE l[k] + (m + 1) <= l[k + (m + 1)]
    OBVIOUS
  <2>1. /\ m \in Nat /\ k + m <= n /\ k + m \in 0 .. n /\ k + (m + 1) \in 1 .. n
        /\ k + (m + 1) - 1 = k + m /\ k + (m + 1) \in 0 .. n
    BY <1>1
  <2>2. l[k] + m <= l[k + m] /\ l[k] \in Nat /\ l[k + m] \in Nat /\ l[k + (m + 1)] \in Nat
    BY <1>1, <1>2, <2>1
  <2>3. l[k + (m + 1)] >= l[k + m] + 1
    <3>1. \A j \in 1 .. n : j - 1 = k + m => l[j] >= l[k + m] + 1
      BY <1>3
    <3> QED  BY <2>1, <3>1
  <2> QED  BY <2>1, <2>2, <2>3
<1>6. T = Nat
  <2> HIDE DEF T
  <2>1. T \in SUBSET Nat
    BY DEF T
  <2> QED  BY <1>4, <1>5, <2>1, NumberInduction
<1>7. l[k] + (n - k) <= l[n]
  <2>1. n - k \in T /\ k + (n - k) = n /\ k + (n - k) <= n
    BY <1>1, <1>6
  <2>2. l[k] + (n - k) <= l[k + (n - k)]
    BY <2>1
  <2> QED  BY <2>1, <2>2
<1>8. l[n] = Len(Encoding(h)) /\ l[n] \in Nat /\ l[k] = Len(f[k]) /\ l[k] \in Nat
  BY <1>1, <1>2 DEF Grows
<1> QED  BY <1>1, <1>7, <1>8

-----------------------------------------------------------------------------
(* What arrived is the beginning of what was sent; the decoder has come to   *)
(* the end of one of its instructions and has the ones before, or it threw   *)
(* and has none; and it returns only at the end of what arrived.             *)
WireIsABeginning ==
  \E received \in 0 .. Len(Encoding(hook)) : wire = SubSeq(Encoding(hook), 1, received)

ReadSoFar ==
  \E k \in 0 .. Len(hook) :
    decoded = SubSeq(hook, 1, k) /\ offset = Len(Encoding(decoded))

HookInv ==
  /\ hook \in Seq(Hook!ExternalInstruction)
  /\ WireIsABeginning
  /\ offset \in 0 .. Len(wire)
  /\ status \in {"reading", "returned", "threw"}
  /\ IF status = "threw" THEN decoded = <<>> ELSE ReadSoFar
  /\ status = "returned" => offset = Len(wire)

LEMMA WireArrives ==
  ASSUME NEW h \in Seq(Hook!ExternalInstruction),
         \E received \in 0 .. Len(Encoding(h)) : wire = SubSeq(Encoding(h), 1, received)
  PROVE  /\ wire \in Cells /\ Arrived(0, Encoding(h)) /\ Len(wire) \in Nat
         /\ Encoding(h) \in Cells /\ Len(Encoding(h)) \in Nat
         /\ Len(wire) <= Len(Encoding(h))
<1> DEFINE e == Encoding(h)
<1>1. PICK f : Grows(f, h)
  BY HooksGrow
<1>2. e \in Seq(Nat)
  <2>1. Len(h) \in 0 .. Len(h)
    BY LenProperties
  <2> QED  BY <1>1, <2>1 DEF Grows, Cells
<1> HIDE DEF e
<1>3. Len(e) \in Nat /\ \A i \in 1 .. Len(e) : e[i] \in Nat
  BY <1>2, LenProperties
<1>4. PICK received \in 0 .. Len(e) : wire = SubSeq(e, 1, received)
  BY DEF e
<1>5. 1 \in Int /\ received \in Int /\ \A i \in 1 .. received : e[i] \in Nat
  BY <1>3
<1>6. /\ wire \in Seq(Nat)
      /\ Len(wire) = IF 1 <= received THEN received - 1 + 1 ELSE 0
      /\ \A i \in 1 .. received - 1 + 1 : wire[i] = e[1 + i - 1]
  BY <1>4, <1>5, SubSeqProperties
<1>7. Len(wire) = received /\ \A i \in 1 .. received : wire[i] = e[i]
  BY <1>6
<1>8. Arrived(0, e)
  BY <1>3, <1>7 DEF Arrived
<1> QED  BY <1>2, <1>3, <1>6, <1>7, <1>8 DEF e, Cells

LEMMA HookStarts ==
  ASSUME Hook!HookAssumption, Hook!Init
  PROVE  HookInv
<1>1. hook \in Seq(Hook!ExternalInstruction)
  <2>1. CASE hook \in Hooks
    BY <2>1 DEF Hook!HookAssumption
  <2>2. ASSUME NEW p \in Requests, hook = <<Hook!DeliverContribution(p)>>
        PROVE  hook \in Seq(Hook!ExternalInstruction)
    <3>1. p \in Hook!DeliverContributionParams /\ U64 \in Nat \ {0}
      BY DEF Hook!HookAssumption
    <3>2. Hook!DeliverContribution(p) \in Hook!ExternalInstruction
      <4> DEFINE d == Hook!DeliverContribution(p)
                 more == [i \in DOMAIN p.programs |->
                            [pubkey |-> p.programs[i], isSigner |-> FALSE, isWritable |-> FALSE]]
      <4>1. /\ p.programs \in Seq(Nat) /\ p.recipient \in Nat
            /\ p.saleNonce \in Nat /\ p.usdcAmount \in Nat /\ p.programId \in Nat
            /\ p.expense \in Hook!u64 \cup {None} /\ p.reward \in Hook!u64 \cup {None}
            /\ p.banRecord \in Nat /\ p.saleConfig \in Nat /\ p.usdcMint \in Nat
            /\ p.usdcVault \in Nat /\ p.openMint \in Nat /\ p.presaleVaultAuthority \in Nat
            /\ p.presaleVault \in Nat /\ p.recipientOpen \in Nat /\ p.contribution \in Nat
        BY <3>1 DEF Hook!DeliverContributionParams
      <4>2. more \in Seq(Hook!Meta)
        <5>1. DOMAIN p.programs = 1 .. Len(p.programs) /\ Len(p.programs) \in Nat
          BY <4>1, LenProperties
        <5>2. \A i \in 1 .. Len(p.programs) : p.programs[i] \in Nat
          BY <4>1, ElementOfSeq
        <5>3. more \in [1 .. Len(p.programs) -> Hook!Meta]
          BY <5>1, <5>2 DEF Hook!Meta
        <5> HIDE DEF more
        <5> QED  BY <5>1, <5>3, SeqDef
      <4>3. d.keys \in Seq(Hook!Meta)
        <5> DEFINE meta(key, s, w) == [pubkey |-> key, isSigner |-> s, isWritable |-> w]
                   first == <<meta(0, TRUE, TRUE), meta(p.banRecord, FALSE, FALSE),
                     meta(p.saleConfig, FALSE, TRUE), meta(p.usdcMint, FALSE, FALSE),
                     meta(1, FALSE, TRUE), meta(p.usdcVault, FALSE, TRUE),
                     meta(p.openMint, FALSE, FALSE), meta(p.presaleVaultAuthority, FALSE, FALSE),
                     meta(p.presaleVault, FALSE, TRUE), meta(p.recipient, FALSE, FALSE),
                     meta(p.recipientOpen, FALSE, TRUE), meta(p.contribution, FALSE, TRUE)>>
        <5>1. d.keys = first \o more
          BY DEF Hook!DeliverContribution, Hook!AUTHORITY_PLACEHOLDER, Hook!WALLET_PLACEHOLDER
        <5>2. \A key \in Nat, s \in BOOLEAN, w \in BOOLEAN : meta(key, s, w) \in Hook!Meta
          BY DEF Hook!Meta
        <5> HIDE DEF meta
        <5>3. first \in Seq(Hook!Meta)
          <6>1. /\ meta(0, TRUE, TRUE) \in Hook!Meta /\ meta(p.banRecord, FALSE, FALSE) \in Hook!Meta
                /\ meta(p.saleConfig, FALSE, TRUE) \in Hook!Meta
                /\ meta(p.usdcMint, FALSE, FALSE) \in Hook!Meta
                /\ meta(1, FALSE, TRUE) \in Hook!Meta /\ meta(p.usdcVault, FALSE, TRUE) \in Hook!Meta
                /\ meta(p.openMint, FALSE, FALSE) \in Hook!Meta
                /\ meta(p.presaleVaultAuthority, FALSE, FALSE) \in Hook!Meta
                /\ meta(p.presaleVault, FALSE, TRUE) \in Hook!Meta
                /\ meta(p.recipient, FALSE, FALSE) \in Hook!Meta
                /\ meta(p.recipientOpen, FALSE, TRUE) \in Hook!Meta
                /\ meta(p.contribution, FALSE, TRUE) \in Hook!Meta
            BY <4>1, <5>2
          <6>2. \A a1, a2, a3, a4, a5, a6, a7, a8, a9, b1, b2, b3 \in Hook!Meta :
                  <<a1, a2, a3, a4, a5, a6, a7, a8, a9, b1, b2, b3>> \in Seq(Hook!Meta)
            OBVIOUS
          <6> QED  BY <6>1, <6>2
        <5> HIDE DEF first, more, d
        <5> QED  BY <4>2, <5>1, <5>3, ConcatProperties
      <4>4. \A v \in Nat : Hook!u64LE(v) \in Nat
        BY <3>1 DEF Hook!u64LE
      <4>5. d.data \in Seq(Nat)
        <5>1. d.data = <<Hook!u64LE(p.saleNonce), p.recipient, Hook!u64LE(p.usdcAmount)>>
          BY DEF Hook!DeliverContribution
        <5>2. \A a, b, c \in Nat : <<a, b, c>> \in Seq(Nat)
          OBVIOUS
        <5>3. PICK a, b : a = Hook!u64LE(p.saleNonce) /\ b = Hook!u64LE(p.usdcAmount)
          OBVIOUS
        <5>4. a \in Nat /\ b \in Nat /\ p.recipient \in Nat
          BY <4>1, <4>4, <5>3
        <5>5. d.data = <<a, p.recipient, b>>
          BY <5>1, <5>3
        <5> HIDE DEF d
        <5> QED  BY <5>2, <5>4, <5>5
      <4>6. d = [reward |-> IF p.reward = None THEN 0 ELSE p.reward, expense |-> p.expense,
                 executePolicy |-> "empty", pubkeySubstitutions |-> <<>>,
                 dataSubstitutions |-> <<>>, programId |-> p.programId,
                 keys |-> d.keys, data |-> d.data]
        BY DEF Hook!DeliverContribution
      <4>7. (IF p.reward = None THEN 0 ELSE p.reward) \in Hook!u64
        BY <3>1, <4>1 DEF Hook!u64
      <4>8. <<>> \in Seq(Hook!PubkeySubstitution) /\ <<>> \in Seq(Hook!DataSubstitution)
        BY EmptySeq
      <4> HIDE DEF d
      <4>9. d \in Hook!ExternalInstruction
        <5>1. \A reward, expense, programId, keys, data :
                /\ reward \in Hook!u64 /\ expense \in Hook!u64 \cup {None} /\ programId \in Nat
                /\ keys \in Seq(Hook!Meta) /\ data \in Seq(Nat)
                => [reward |-> reward, expense |-> expense, executePolicy |-> "empty",
                    pubkeySubstitutions |-> <<>>, dataSubstitutions |-> <<>>,
                    programId |-> programId, keys |-> keys, data |-> data]
                     \in Hook!ExternalInstruction
          BY <4>8 DEF Hook!ExternalInstruction
        <5> QED  BY <4>1, <4>3, <4>5, <4>6, <4>7, <5>1
      <4> QED  BY <4>9 DEF d
    <3> QED  BY <2>2, <3>2
  <2> QED  BY <2>1, <2>2 DEF Hook!Init
<1>2. WireIsABeginning
  BY DEF Hook!Init, WireIsABeginning, Encoding
<1>3. /\ wire \in Cells /\ Len(wire) \in Nat
  BY <1>1, <1>2, WireArrives DEF WireIsABeginning
<1>4. ReadSoFar
  <2>1. PICK f : Grows(f, hook)
    BY <1>1, HooksGrow
  <2>2. Len(hook) \in Nat /\ 0 \in 0 .. Len(hook) /\ SubSeq(hook, 1, 0) = <<>>
    BY <1>1, LenProperties, SubSeqEmpty
  <2>3. Encoding(<<>>) = <<>>
    BY <2>1, <2>2 DEF Grows
  <2>4. decoded = <<>> /\ offset = 0 /\ Len(<<>>) = 0
    BY DEF Hook!Init
  <2> QED  BY <2>2, <2>3, <2>4 DEF ReadSoFar
<1> QED  BY <1>1, <1>2, <1>3, <1>4 DEF Hook!Init, HookInv

(* One instruction more is read when it has arrived whole.                  *)
LEMMA DecodeOneKeeps ==
  ASSUME HookInv, Hook!DecodeOne
  PROVE  HookInv'
<1> DEFINE c == Hook!Reading(offset)
           r == Hook!decodeOneExternalInstruction(c)
           n == Len(hook)
<1>1. /\ status = "reading" /\ offset < Len(wire) /\ r.c.ok
      /\ offset' = r.c.at /\ decoded' = Append(decoded, r.value)
      /\ UNCHANGED <<hook, own, wire, status>>
  BY DEF Hook!DecodeOne
<1>2. /\ hook \in Seq(Hook!ExternalInstruction) /\ WireIsABeginning
      /\ offset \in 0 .. Len(wire) /\ ReadSoFar
  BY <1>1 DEF HookInv
<1> HIDE DEF r
<1>3. /\ wire \in Cells /\ Arrived(0, Encoding(hook)) /\ Len(wire) \in Nat
      /\ Len(wire) <= Len(Encoding(hook))
  BY <1>2, WireArrives DEF WireIsABeginning
<1>4. PICK f : Grows(f, hook)
  BY <1>2, HooksGrow
<1>5. PICK k \in 0 .. n : decoded = SubSeq(hook, 1, k) /\ offset = Len(Encoding(decoded))
  BY <1>2 DEF ReadSoFar
<1>6. n \in Nat /\ k \in Nat /\ offset \in Nat
  BY <1>2, <1>3, LenProperties
<1>7. f[k] = Encoding(decoded) /\ f[k] \in Cells /\ offset = Len(f[k])
  BY <1>4, <1>5 DEF Grows
<1>8. k < n
  <2>1. k # n
    <3> SUFFICES ASSUME k = n PROVE FALSE
      OBVIOUS
    <3>1. f[k] = Encoding(hook)
      BY <1>4 DEF Grows
    <3> QED  BY <1>1, <1>3, <1>6, <1>7, <3>1
  <2> QED  BY <1>6, <2>1
<1> DEFINE ei == hook[k + 1]
           code == Code(ei)
<1>9. k + 1 \in 1 .. n /\ k + 1 \in 0 .. n /\ k + 1 - 1 = k
  BY <1>6, <1>8
<1>10. ei \in Hook!ExternalInstruction
  BY <1>2, <1>9, ElementOfSeq
<1>11. /\ \A j \in 1 .. n : j - 1 = k => f[j] = f[k] \o Code(hook[j])
       /\ \A j \in 1 .. n : Wrote(Code(hook[j]), hook[j]) /\ Code(hook[j]) \in Cells
  BY <1>4 DEF Grows
<1>12. f[k + 1] = f[k] \o code /\ Wrote(code, ei) /\ code \in Cells
  <2>1. f[k + 1] = f[k] \o code
    <3>1. PICK j \in 1 .. n : j = k + 1 /\ j - 1 = k
      BY <1>9
    <3>2. f[j] = f[k] \o Code(hook[j])
      BY <1>11, <3>1
    <3> QED  BY <3>1, <3>2
  <2>2. Wrote(code, ei) /\ code \in Cells
    BY <1>9, <1>11
  <2> QED  BY <2>1, <2>2
<1>13. Arrived(offset, code)
  BY <1>2, <1>3, <1>4, <1>7, <1>8, BeginningsArrive
<1> HIDE DEF ei, code
<1>14. Stands(c, offset)
  BY <1>1, <1>3, <1>6 DEF Stands, Cursor, Hook!Reading
<1> HIDE DEF c
<1>15. Gives(r, ei, offset + Len(code))
  BY <1>3, <1>6, <1>10, <1>12, <1>13, <1>14, InstructionComesBack DEF r
<1>16. Len(code) \in Nat /\ Len(f[k + 1]) = offset + Len(code)
  <2>1. Len(f[k] \o code) = Len(f[k]) + Len(code) /\ Len(code) \in Nat
    BY <1>7, <1>12, ConcatProperties, LenProperties DEF Cells
  <2> QED  BY <2>1, <1>7, <1>12
<1> DEFINE q == offset + Len(code)
<1>17. q \in Nat
  BY <1>6, <1>16
<1> HIDE DEF q
<1>18. Gives(r, ei, q)
  BY <1>15 DEF q
<1>19. q <= Len(wire) /\ r.c = Hook!Reading(q) /\ r.value = ei
  BY <1>1, <1>3, <1>17, <1>18 DEF Gives, Stands
<1>20. offset' = q /\ decoded' = Append(decoded, ei)
  BY <1>1, <1>19 DEF Hook!Reading
<1>21. decoded' = SubSeq(hook, 1, k + 1)
  <2>1. \A i \in 1 .. k + 1 : hook[i] \in Hook!ExternalInstruction
    <3>1. \A i \in 1 .. k + 1 : i \in 1 .. n
      BY <1>6, <1>9
    <3> QED  BY <1>2, <3>1, ElementOfSeq
  <2>2. \A i \in 1 .. k : hook[i] \in Hook!ExternalInstruction
    <3>1. \A i \in 1 .. k : i \in 1 .. k + 1
      BY <1>6
    <3> QED  BY <2>1, <3>1
  <2> DEFINE s == SubSeq(hook, 1, k)
             t == SubSeq(hook, 1, k + 1)
  <2>3. s \in Seq(Hook!ExternalInstruction) /\ Len(s) = k /\ \A i \in 1 .. k : s[i] = hook[i]
    <3>1. 1 \in Int /\ k \in Int
      BY <1>6
    <3>2. /\ s \in Seq(Hook!ExternalInstruction) /\ Len(s) = (IF 1 <= k THEN k - 1 + 1 ELSE 0)
          /\ \A i \in 1 .. k - 1 + 1 : s[i] = hook[1 + i - 1]
      BY <2>2, <3>1, SubSeqProperties
    <3> HIDE DEF s
    <3> QED  BY <1>6, <3>2
  <2>4. /\ t \in Seq(Hook!ExternalInstruction) /\ Len(t) = k + 1
        /\ \A i \in 1 .. k + 1 : t[i] = hook[i]
    <3>0. PICK m : m = k + 1
      OBVIOUS
    <3>1. 1 \in Int /\ m \in Int /\ m \in Nat /\ \A i \in 1 .. m : hook[i] \in Hook!ExternalInstruction
      BY <1>6, <2>1, <3>0
    <3>2. PICK u : u = SubSeq(hook, 1, m)
      OBVIOUS
    <3>3. /\ u \in Seq(Hook!ExternalInstruction) /\ Len(u) = (IF 1 <= m THEN m - 1 + 1 ELSE 0)
          /\ \A i \in 1 .. m - 1 + 1 : u[i] = hook[1 + i - 1]
      BY <3>1, <3>2, SubSeqProperties
    <3>4. Len(u) = m /\ \A i \in 1 .. m : u[i] = hook[i]
      BY <3>1, <3>3
    <3>5. t = u
      BY <3>0, <3>2
    <3> HIDE DEF t
    <3> QED  BY <3>0, <3>3, <3>4, <3>5
  <2> HIDE DEF s, t
  <2>5. /\ Append(s, ei) \in Seq(Hook!ExternalInstruction) /\ Len(Append(s, ei)) = k + 1
        /\ \A i \in 1 .. k : Append(s, ei)[i] = s[i]
        /\ Append(s, ei)[k + 1] = ei
    BY <1>10, <2>3, AppendProperties
  <2>6. \A i \in 1 .. k + 1 : Append(s, ei)[i] = t[i]
    <3> TAKE i \in 1 .. k + 1
    <3>1. CASE i = k + 1
      BY <3>1, <2>4, <2>5 DEF ei
    <3>2. CASE i # k + 1
      <4>1. i \in 1 .. k
        BY <1>6, <3>2
      <4> QED  BY <4>1, <2>3, <2>4, <2>5
    <3> QED  BY <3>1, <3>2
  <2>7. Append(s, ei) = t
    BY <2>4, <2>5, <2>6, SeqEqual
  <2> QED  BY <1>5, <1>20, <2>7 DEF s, t
<1>22. q = Len(Encoding(SubSeq(hook, 1, k + 1)))
  <2>1. f[k + 1] = Encoding(SubSeq(hook, 1, k + 1))
    BY <1>4, <1>9 DEF Grows
  <2> QED  BY <1>16, <2>1 DEF q
<1>23. \A s : Encoding(s)' = Encoding(s)
  <2> TAKE s
  <2> QED  BY <1>1 DEF Encoding, Hook!buildSolanaHook, Hook!Each
<1>24. ReadSoFar'
  BY <1>1, <1>9, <1>20, <1>21, <1>22, <1>23 DEF ReadSoFar, Encoding
<1>25. WireIsABeginning'
  BY <1>1, <1>2 DEF WireIsABeginning, Encoding
<1>26. offset' \in 0 .. Len(wire)
  BY <1>3, <1>17, <1>19, <1>20
<1> QED  BY <1>1, <1>2, <1>24, <1>25, <1>26 DEF HookInv

LEMMA HookStutters ==
  ASSUME HookInv, UNCHANGED hookVars
  PROVE  HookInv'
<1>1. \A s : Encoding(s)' = Encoding(s)
  <2> TAKE s
  <2> QED  BY DEF Encoding, Hook!buildSolanaHook, Hook!Each, hookVars
<1>2. ReadSoFar' = ReadSoFar /\ WireIsABeginning' = WireIsABeginning
  BY <1>1 DEF ReadSoFar, WireIsABeginning, Encoding, hookVars
<1> QED  BY <1>2 DEF HookInv, hookVars

LEMMA HookEndKeeps ==
  ASSUME HookInv, Hook!DecodeThrows \/ Hook!DecodeReturns
  PROVE  HookInv'
<1>1. UNCHANGED <<hook, own, wire, offset>>
  BY DEF Hook!DecodeThrows, Hook!DecodeReturns
<1>2. WireIsABeginning'
  BY <1>1 DEF HookInv, WireIsABeginning, Encoding
<1>3. CASE Hook!DecodeThrows
  BY <1>1, <1>2, <1>3 DEF HookInv, Hook!DecodeThrows
<1>4. CASE Hook!DecodeReturns
  <2>1. /\ status = "reading" /\ status' = "returned" /\ decoded' = decoded
        /\ offset \in 0 .. Len(wire) /\ offset >= Len(wire)
    BY <1>4 DEF HookInv, Hook!DecodeReturns
  <2>2. Len(wire) \in Nat
    <3>1. wire \in Cells
      BY WireArrives DEF HookInv, WireIsABeginning
    <3> QED  BY <3>1, LenProperties DEF Cells
  <2>3. offset' = Len(wire')
    BY <1>1, <2>1, <2>2
  <2>4. ReadSoFar'
    BY <1>1, <2>1 DEF HookInv, ReadSoFar, Encoding
  <2> QED  BY <1>1, <1>2, <2>1, <2>3, <2>4 DEF HookInv
<1> QED  BY <1>3, <1>4

LEMMA HookInvHolds ==
  Hook!HookAssumption => (Spec => []HookInv)
<1> SUFFICES ASSUME Hook!HookAssumption PROVE Spec => []HookInv
  OBVIOUS
<1>1. Init => HookInv
  BY HookStarts DEF Init
<1>2. HookInv /\ [Next]_vars => HookInv'
  <2> SUFFICES ASSUME HookInv, [Next]_vars PROVE HookInv'
    OBVIOUS
  <2>1. CASE HookTravels
    <3>1. Hook!DecodeOne \/ Hook!DecodeThrows \/ Hook!DecodeReturns
      BY <2>1 DEF HookTravels, Hook!Next
    <3> QED  BY <3>1, DecodeOneKeeps, HookEndKeeps
  <2>2. CASE ~ HookTravels
    <3>1. UNCHANGED hookVars
      BY <2>2 DEF Next, vars, OrderFromElsewhere, Filled, Cancelled, WithdrawalLands, BridgeRuns
    <3> QED  BY <3>1, HookStutters
  <2> QED  BY <2>1, <2>2
<1> QED  BY <1>1, <1>2, PTL DEF Spec

(* What the decoder has is what went in, as far as it is.                   *)
LEMMA ReadIsWritten ==
  ASSUME HookInv
  PROVE  OnlyWhatWasEncoded
<1> DEFINE n == Len(hook)
<1>0. hook \in Seq(Hook!ExternalInstruction) /\ offset \in 0 .. Len(wire)
  BY DEF HookInv
<1>1. /\ wire \in Cells /\ Arrived(0, Encoding(hook)) /\ Len(wire) \in Nat
      /\ Len(wire) <= Len(Encoding(hook)) /\ Len(Encoding(hook)) \in Nat
  BY WireArrives DEF HookInv, WireIsABeginning
<1>2. PICK f : Grows(f, hook)
  BY <1>0, HooksGrow
<1>3. n \in Nat
  BY <1>0, LenProperties
<1>4. \E k \in 0 .. n : /\ decoded = SubSeq(hook, 1, k)
                        /\ status # "threw" => offset = Len(Encoding(decoded))
  <2>1. CASE status = "threw"
    <3>1. decoded = SubSeq(hook, 1, 0) /\ 0 \in 0 .. n
      BY <1>3, <2>1, SubSeqEmpty DEF HookInv
    <3> QED  BY <2>1, <3>1
  <2>2. CASE status # "threw"
    BY <2>2 DEF HookInv, ReadSoFar
  <2> QED  BY <2>1, <2>2
<1>5. PICK k \in 0 .. n : /\ decoded = SubSeq(hook, 1, k)
                          /\ status # "threw" => offset = Len(Encoding(decoded))
  BY <1>4
<1>6. f[k] = Encoding(decoded) /\ f[k] \in Cells
  BY <1>2, <1>5 DEF Grows
<1>7. /\ Len(f[k]) \in Nat /\ Len(f[k]) <= Len(Encoding(hook))
      /\ k < n => Len(f[k]) < Len(Encoding(hook))
  BY <1>0, <1>2, BeginningsAreShorter
<1>8. Arrived(0, f[k])
  BY <1>0, <1>1, <1>2, BeginningsArrive
<1>9. Hook!IsPrefix(decoded, hook)
  <2>1. \A i \in 1 .. k : hook[i] \in Hook!ExternalInstruction
    <3>1. \A i \in 1 .. k : i \in 1 .. n
      BY <1>3
    <3> QED  BY <1>0, <3>1, ElementOfSeq
  <2>2. Len(decoded) = k
    <3>1. 1 \in Int /\ k \in Int
      BY <1>3
    <3>2. Len(SubSeq(hook, 1, k)) = IF 1 <= k THEN k - 1 + 1 ELSE 0
      BY <2>1, <3>1, SubSeqProperties
    <3> QED  BY <1>3, <1>5, <3>2
  <2>3. decoded \in Seq(Hook!ExternalInstruction) /\ SubSeq(decoded, 1, Len(decoded)) = decoded
    <3>1. 1 \in Int /\ k \in Int
      BY <1>3
    <3>2. SubSeq(hook, 1, k) \in Seq(Hook!ExternalInstruction)
      BY <2>1, <3>1, SubSeqProperties
    <3> QED  BY <1>5, <3>2, SubSeqFull
  <2> QED  BY <1>3, <1>5, <2>2, <2>3 DEF Hook!IsPrefix
<1>10. ASSUME status = "returned", Len(wire) = Len(Encoding(hook)) PROVE decoded = hook
  <2>1. offset = Len(wire) /\ offset = Len(f[k])
    BY <1>10, <1>5, <1>6 DEF HookInv
  <2>2. k = n
    BY <1>3, <1>7, <1>10, <2>1
  <2> QED  BY <1>0, <1>5, <2>2, SubSeqFull
<1>11. ASSUME own, status = "returned" PROVE Hook!buildSolanaHook(decoded) = wire
  <2>1. offset = Len(wire) /\ offset = Len(f[k]) /\ f[k] = Hook!buildSolanaHook(decoded)
    BY <1>11, <1>5, <1>6 DEF HookInv, Encoding
  <2>2. \A i \in 1 .. Len(wire) : wire[i] = f[k][i]
    <3> TAKE i \in 1 .. Len(wire)
    <3>1. i \in 1 .. Len(f[k]) /\ 0 + i <= Len(wire) /\ 0 + i = i
      BY <1>1, <2>1
    <3>2. wire[0 + i] = f[k][i]
      BY <1>8, <3>1 DEF Arrived
    <3> QED  BY <3>1, <3>2
  <2>3. f[k] = wire
    BY <1>1, <1>6, <2>1, <2>2, SeqEqual DEF Cells
  <2> QED  BY <2>1, <2>3
<1>12. Encoding(hook) = IF own THEN Hook!buildSolanaHook(hook) ELSE Hook!Each(Hook!encodeCollapsed, hook)
  BY DEF Encoding
<1> QED  BY <1>0, <1>9, <1>10, <1>11, <1>12 DEF OnlyWhatWasEncoded, Hook!OnlyWhatWasEncoded

(* Every hook either encoder can be given is read back as it was written, as   *)
(* far as it arrived, and nothing else is: hook.ts, decodeSolanaHook and the   *)
(* two layouts it is to read.                                               *)
THEOREM HooksSurviveTheirJourney == Spec => []OnlyWhatWasEncoded
<1>1. Hook!HookAssumption
  BY CrossChainAssumption
<1> QED  BY <1>1, HookInvHolds, ReadIsWritten, PTL

-----------------------------------------------------------------------------
(* The orders.  While an order is open its amount is with nobody; it opens   *)
(* at most once; a contribution is open only beside the hook made for it;    *)
(* and a withdrawal that has not landed has moved nothing.                  *)
Deliveries == {<<Hook!DeliverContribution(p)>> : p \in Requests}

UnderWay(o) == IF open[o] = 1 THEN Want[o].amount ELSE 0

Kept(o) ==
  /\ open[o] = 1 => Deal!Request(o) # None
  /\ purse[Deal!Source(o)] + UnderWay(o) + purse[Deal!Wanted(o)] = Savings
  /\ UnderWay(o) + purse[Deal!Wanted(o)] <= Want[o].amount
  /\ open[o] = 1 /\ Want[o].way = "contribution" => hook \in Deliveries
  /\ o \in Transfers /\ done[o] = 0 => open[o] = 0 /\ purse[Deal!Source(o)] = Savings

OrdersInv ==
  /\ open \in [Orders -> 0 .. 1]
  /\ purse \in [Deal!Addresses -> Nat]
  /\ \A o \in Orders : Kept(o)

(* An order takes from the wallet it should, gives back there, and pays       *)
(* where its person wants it, whichever of the builders made it.             *)
LEMMA OrdersGoWhereWanted ==
  ASSUME Deal!OrdersAssumption, NEW o \in Orders, Deal!Request(o) # None
  PROVE  /\ Deal!Spent(o) = Deal!Source(o)
         /\ Deal!Refunded(Deal!Request(o)) = Deal!Source(o)
         /\ Deal!Request(o).amount = Want[o].amount /\ Want[o].amount \in Nat
         /\ Want[o].way # "contribution" => /\ Deal!Paid(Deal!Request(o)) = Deal!Wanted(o)
                                            /\ Deal!Request(o).hook = None
         /\ Want[o].way = "contribution" => Deal!Request(o).hook # None
         /\ Want[o].way # "withdraw" => Deal!Request(o).dstAuthority = Want[o].owner
<1> DEFINE w == Want[o]
           r == Deal!Request(o)
           info == Deal!resolveSolanaMint(w.stablecoin, w.solanaMints)
<1>1. /\ w.way \in {"deposit", "withdraw", "contribution"} /\ w.amount \in Nat
      /\ w.chain # Deal!SOLANA_CHAIN_ID
      /\ w.way = "contribution" => w.hook # None
      /\ w.way # "contribution" /\ info # None =>
           info.mint = w.mint /\ info.tokenProgram = ProgramOf[w.mint]
  BY DEF Deal!OrdersAssumption
<1>2. CASE w.way = "deposit"
  <2>1. r = (LET built == Deal!buildStablecoinDepositOrder(w)
             IN IF built = None \/ built.srcChain = Deal!SOLANA_CHAIN_ID THEN built
                ELSE [built EXCEPT !.srcAuthority = w.wallet])
    BY <1>2 DEF Deal!Request
  <2>2. Deal!buildStablecoinDepositOrder(w) # None
    BY <2>1
  <2>3. /\ info # None
        /\ Deal!buildStablecoinDepositOrder(w)
             = [srcChain |-> w.chain, srcToken |-> w.token, amount |-> w.amount,
                dstChain |-> Deal!SOLANA_CHAIN_ID, dstToken |-> info.mint,
                recipient |->
                  Deal!deriveAssociatedTokenAddress(w.owner, info.mint, info.tokenProgram),
                srcAuthority |-> None, dstAuthority |-> w.owner, hook |-> None]
    BY <2>2 DEF Deal!buildStablecoinDepositOrder
  <2>4. Deal!deriveAssociatedTokenAddress(w.owner, info.mint, info.tokenProgram)
          = <<w.owner, ProgramOf[w.mint], w.mint>>
    BY <1>1, <1>2, <2>3 DEF Deal!deriveAssociatedTokenAddress
  <2>5. r = [srcChain |-> w.chain, srcToken |-> w.token, amount |-> w.amount,
             dstChain |-> Deal!SOLANA_CHAIN_ID, dstToken |-> w.mint,
             recipient |-> <<w.owner, ProgramOf[w.mint], w.mint>>,
             srcAuthority |-> w.wallet, dstAuthority |-> w.owner, hook |-> None]
    BY <1>1, <1>2, <2>1, <2>2, <2>3, <2>4
  <2> HIDE DEF r, info
  <2>6. Deal!Spent(o) = Deal!Source(o)
    BY <1>2, <2>5 DEF Deal!Spent, Deal!Source, r
  <2> QED  BY <1>1, <1>2, <2>5, <2>6
           DEF Deal!Source, Deal!Wanted, Deal!Refunded, Deal!Paid, Deal!TokensOf, r
<1>3. CASE w.way = "withdraw"
  <2>1. r = (LET built == Deal!buildStablecoinWithdrawOrder(w)
             IN IF built = None \/ built.srcChain = Deal!SOLANA_CHAIN_ID THEN built
                ELSE [built EXCEPT !.srcAuthority = w.wallet])
    BY <1>3 DEF Deal!Request
  <2>2. Deal!buildStablecoinWithdrawOrder(w) # None
    BY <2>1
  <2>3. /\ info # None
        /\ Deal!buildStablecoinWithdrawOrder(w)
             = [srcChain |-> Deal!SOLANA_CHAIN_ID, srcToken |-> info.mint, amount |-> w.amount,
                dstChain |-> w.chain, dstToken |-> w.token,
                recipient |-> w.wallet,
                srcAuthority |-> w.owner, dstAuthority |-> w.wallet, hook |-> None]
    BY <2>2 DEF Deal!buildStablecoinWithdrawOrder
  <2>4. r = [srcChain |-> Deal!SOLANA_CHAIN_ID, srcToken |-> w.mint, amount |-> w.amount,
             dstChain |-> w.chain, dstToken |-> w.token,
             recipient |-> w.wallet,
             srcAuthority |-> w.owner, dstAuthority |-> w.wallet, hook |-> None]
    BY <1>1, <1>3, <2>1, <2>3
  <2> HIDE DEF r, info
  <2>5. Deal!Spent(o) = Deal!Source(o)
    BY <1>3, <2>4 DEF Deal!Spent, Deal!Source, r
  <2> QED  BY <1>1, <1>3, <2>4, <2>5
           DEF Deal!Source, Deal!Wanted, Deal!Refunded, Deal!Paid, Deal!TokensOf, r
<1>4. CASE w.way = "contribution"
  <2>1. r = (LET built == Deal!ContributionOrder(w)
             IN IF built = None \/ built.srcChain = Deal!SOLANA_CHAIN_ID THEN built
                ELSE [built EXCEPT !.srcAuthority = w.wallet])
    BY <1>4 DEF Deal!Request
  <2>2. Deal!ContributionOrder(w)
          = [srcChain |-> w.chain, srcToken |-> w.token, amount |-> w.amount,
             dstChain |-> Deal!SOLANA_CHAIN_ID, dstToken |-> w.mint, recipient |-> None,
             srcAuthority |-> None, dstAuthority |-> w.owner, hook |-> w.hook]
    BY DEF Deal!ContributionOrder
  <2>3. r = [srcChain |-> w.chain, srcToken |-> w.token, amount |-> w.amount,
             dstChain |-> Deal!SOLANA_CHAIN_ID, dstToken |-> w.mint, recipient |-> None,
             srcAuthority |-> w.wallet, dstAuthority |-> w.owner, hook |-> w.hook]
    BY <1>1, <2>1, <2>2
  <2> HIDE DEF r, info
  <2>4. Deal!Spent(o) = Deal!Source(o)
    BY <1>4, <2>3 DEF Deal!Spent, Deal!Source, r
  <2> QED  BY <1>1, <1>4, <2>3, <2>4
           DEF Deal!Source, Deal!Refunded, Deal!TokensOf, r
<1> QED  BY <1>1, <1>2, <1>3, <1>4

LEMMA OrdersStart ==
  ASSUME Deal!OrdersAssumption, Deal!OrdersInit
  PROVE  OrdersInv
<1>1. open = [o \in Orders |-> 0] /\ Savings \in Nat
  BY DEF Deal!OrdersInit, Deal!OrdersAssumption
<1>2. purse = [a \in Deal!Addresses |->
                 IF \E o \in Orders : a = Deal!Source(o) THEN Savings ELSE 0]
  BY DEF Deal!OrdersInit
<1>3. purse \in [Deal!Addresses -> Nat]
  BY <1>1, <1>2
<1>4. ASSUME NEW o \in Orders
      PROVE  Kept(o)
  <2>1. /\ Deal!Source(o) \in Deal!Addresses /\ Deal!Wanted(o) \in Deal!Addresses
    BY DEF Deal!Addresses
  <2>2. \A p \in Orders : Deal!Wanted(o) # Deal!Source(p)
    BY DEF Deal!OrdersAssumption
  <2>3. purse[Deal!Source(o)] = Savings /\ purse[Deal!Wanted(o)] = 0
    BY <1>2, <2>1, <2>2
  <2>4. Want[o].amount \in Nat
    BY DEF Deal!OrdersAssumption
  <2> QED  BY <1>1, <2>3, <2>4 DEF Kept, UnderWay
<1> QED  BY <1>1, <1>3, <1>4 DEF OrdersInv

(* Money that comes to or leaves one order's own two accounts is none of    *)
(* the others' business.                                                   *)
LEMMA OthersAreKept ==
  ASSUME Deal!OrdersAssumption, OrdersInv, NEW o \in Orders,
         NEW a \in {Deal!Source(o), Deal!Wanted(o)}, NEW held \in Nat, NEW n \in 0 .. 1,
         purse' = [purse EXCEPT ![a] = held], open' = [open EXCEPT ![o] = n],
         hook' = hook, \A p \in Transfers \ {o} : done'[p] = done[p],
         Kept(o)'
  PROVE  OrdersInv'
<1>1. a \in Deal!Addresses
  BY DEF Deal!Addresses
<1>2. open' \in [Orders -> 0 .. 1] /\ purse' \in [Deal!Addresses -> Nat]
  BY <1>1 DEF OrdersInv
<1>3. ASSUME NEW p \in Orders, p # o
      PROVE  Kept(p)'
  <2>1. Deal!Source(p) # a /\ Deal!Wanted(p) # a
    BY <1>3 DEF Deal!OrdersAssumption
  <2>2. Deal!Source(p) \in Deal!Addresses /\ Deal!Wanted(p) \in Deal!Addresses
    BY DEF Deal!Addresses
  <2>3. /\ purse'[Deal!Source(p)] = purse[Deal!Source(p)]
        /\ purse'[Deal!Wanted(p)] = purse[Deal!Wanted(p)]
    BY <2>1, <2>2 DEF OrdersInv
  <2>4. open'[p] = open[p] /\ (p \in Transfers => done'[p] = done[p])
    BY <1>3 DEF OrdersInv
  <2>5. Kept(p)
    BY DEF OrdersInv
  <2> QED  BY <2>3, <2>4, <2>5 DEF Kept, UnderWay, Deliveries, Transfers
<1> QED  BY <1>2, <1>3 DEF OrdersInv

(* An order that opens has nothing on its way and nothing where it goes.     *)
LEMMA CreateKeeps ==
  ASSUME Deal!OrdersAssumption, OrdersInv, NEW o \in Orders, Deal!Create(o),
         open[o] = 0, purse[Deal!Source(o)] = Savings, hook' = hook,
         \A p \in Transfers \ {o} : done'[p] = done[p],
         Want[o].way = "contribution" => hook \in Deliveries,
         o \in Transfers => done'[o] # 0
  PROVE  OrdersInv'
<1> DEFINE s == Deal!Source(o)
           d == Deal!Wanted(o)
           n == Want[o].amount
<1>1. /\ Deal!Request(o) # None /\ purse[s] >= n /\ n \in Nat
      /\ purse' = [purse EXCEPT ![s] = @ - n]
      /\ open' = [open EXCEPT ![o] = @ + 1]
  <2>1. Deal!Request(o) # None
    BY DEF Deal!Create
  <2>2. Deal!Spent(o) = s /\ Deal!Request(o).amount = n /\ n \in Nat
    BY <2>1, OrdersGoWhereWanted
  <2> QED  BY <2>1, <2>2 DEF Deal!Create
<1>2. s \in Deal!Addresses /\ d \in Deal!Addresses /\ s # d
  BY DEF Deal!Addresses, Deal!OrdersAssumption
<1>3. purse[s] = Savings /\ purse[s] \in Nat /\ purse[d] \in Nat /\ Kept(o)
  BY <1>2 DEF OrdersInv
<1> HIDE DEF s, d, n
<1>4. purse[d] = 0
  BY <1>3 DEF Kept, UnderWay, s, d
<1>5. purse'[s] = Savings - n /\ purse'[d] = 0 /\ open'[o] = 1
  BY <1>1, <1>2, <1>3, <1>4 DEF OrdersInv
<1>6. Savings - n \in Nat /\ Savings - n + n + 0 = Savings
  BY <1>1, <1>3
<1>7. /\ purse' = [purse EXCEPT ![s] = Savings - n] /\ open' = [open EXCEPT ![o] = 1]
  BY <1>1, <1>3
<1>8. Kept(o)'
  <2>1. UnderWay(o)' = n
    BY <1>5 DEF UnderWay, n
  <2>2. Deal!Request(o)' = Deal!Request(o) /\ Deal!Source(o)' = s /\ Deal!Wanted(o)' = d
    BY DEF s, d
  <2>3. /\ open[o]' = 1 /\ purse[s]' = Savings - n /\ purse[d]' = 0 /\ (hook \in Deliveries)' = (hook \in Deliveries)
        /\ (o \in Transfers) => done[o]' # 0
    BY <1>5 DEF s, d, Deliveries
  <2> QED  BY <1>1, <1>6, <2>1, <2>3 DEF Kept, s, d, n, Transfers
<1>9. PICK a, held : a = s /\ held = Savings - n
  OBVIOUS
<1>10. /\ a \in {Deal!Source(o), Deal!Wanted(o)} /\ held \in Nat /\ 1 \in 0 .. 1
       /\ purse' = [purse EXCEPT ![a] = held] /\ open' = [open EXCEPT ![o] = 1]
  BY <1>6, <1>7, <1>9 DEF s
<1> QED  BY <1>8, <1>10, OthersAreKept

(* One that closes has its amount at its source again, or where it goes.     *)
LEMMA CloseKeeps ==
  ASSUME Deal!OrdersAssumption, OrdersInv, NEW o \in Orders, open[o] > 0,
         NEW a \in {Deal!Source(o), Deal!Wanted(o)}, Deal!Close(o, a),
         UNCHANGED <<hook, done>>
  PROVE  OrdersInv'
<1> DEFINE s == Deal!Source(o)
           d == Deal!Wanted(o)
           n == Want[o].amount
<1>1. open[o] = 1 /\ Kept(o)
  BY DEF OrdersInv
<1>2. Deal!Request(o).amount = n /\ n \in Nat
  BY <1>1, OrdersGoWhereWanted DEF Kept
<1>3. s \in Deal!Addresses /\ d \in Deal!Addresses /\ s # d
  BY DEF Deal!Addresses, Deal!OrdersAssumption
<1>4. purse[s] \in Nat /\ purse[d] \in Nat
  BY <1>3 DEF OrdersInv
<1>5. purse[s] + n + purse[d] = Savings /\ n + purse[d] <= n
  BY <1>1 DEF Kept, UnderWay
<1>6. purse' = [purse EXCEPT ![a] = purse[a] + n] /\ open' = [open EXCEPT ![o] = 0]
  BY <1>1, <1>2 DEF Deal!Close
<1> HIDE DEF s, d, n
<1>7. purse[d] = 0 /\ purse[s] + n = Savings /\ Savings \in Nat
  BY <1>2, <1>4, <1>5
<1>8. purse[a] + n \in Nat /\ a \in {s, d}
  BY <1>2, <1>4 DEF s, d
<1>9. /\ open'[o] = 0
      /\ \/ purse'[s] = Savings /\ purse'[d] = 0
         \/ purse'[s] = purse[s] /\ purse'[d] = n
  <2>1. open'[o] = 0
    BY <1>6 DEF OrdersInv
  <2>2. CASE a = s
    BY <2>1, <2>2, <1>3, <1>6, <1>7 DEF OrdersInv
  <2>3. CASE a = d
    BY <2>1, <2>3, <1>2, <1>3, <1>6, <1>7 DEF OrdersInv
  <2> QED  BY <1>8, <2>2, <2>3
<1>10. Kept(o)'
  <2>1. UnderWay(o)' = 0
    BY <1>9 DEF UnderWay
  <2>2. o \in Transfers => done[o] # 0
    BY <1>1 DEF Kept
  <2>3. /\ open[o]' = 0 /\ done[o]' = done[o]
        /\ \/ purse[s]' = Savings /\ purse[d]' = 0
           \/ purse[s]' = purse[s] /\ purse[d]' = n
    BY <1>9 DEF s, d
  <2> QED  BY <1>2, <1>4, <1>7, <2>1, <2>2, <2>3 DEF Kept, s, d, n, Transfers
<1>11. PICK held : held = purse[a] + n
  OBVIOUS
<1>12. /\ held \in Nat /\ 0 \in 0 .. 1
       /\ purse' = [purse EXCEPT ![a] = held] /\ open' = [open EXCEPT ![o] = 0]
       /\ hook' = hook /\ \A p \in Transfers \ {o} : done'[p] = done[p]
  BY <1>6, <1>8, <1>11
<1> QED  BY <1>10, <1>12, OthersAreKept

-----------------------------------------------------------------------------
(* A withdrawal's transaction lands once.                                   *)
LEMMA TransfersLandOnce ==
  ASSUME Bridge!BridgeAssumption, BridgeInv, NEW t \in Txs, For[t] \in Transfers,
         Bridge!Land(t)
  PROVE  /\ done[For[t]] = 0 /\ done'[For[t]] = 1
         /\ \A j \in Jobs \ {For[t]} : done'[j] = done[j]
<1> DEFINE j == For[t]
<1>1. j \in Jobs /\ j \notin Bridge!Tagged /\ Bridge!Succeeds(j)
  BY DEF Bridge!BridgeAssumption, Transfers, Bridge!Tagged, Bridge!Succeeds
<1>2. /\ Waiting(t) /\ tx[t] # None /\ tx[t].age <= Life
      /\ done' = [done EXCEPT ![j] = @ + 1]
  BY <1>1 DEF Bridge!Land, Waiting, Bridge!At
<1>3. tx[t] \in Transaction /\ done \in [Jobs -> 0 .. 1] /\ Life \in Nat
  BY <1>2 DEF BridgeInv, BridgeTypeOK, Bridge!BridgeAssumption
<1>4. done[j] = 0
  BY <1>1, <1>2, <1>3 DEF BridgeInv, DoneMeansDead, Transaction
<1> QED  BY <1>1, <1>2, <1>3, <1>4

OrdersStutter == UNCHANGED <<orderVars, hook>> /\ \A j \in Transfers : done'[j] = done[j]

LEMMA OrdersStutterKeeps ==
  ASSUME OrdersInv, OrdersStutter
  PROVE  OrdersInv'
BY DEF OrdersInv, OrdersStutter, orderVars, Kept, UnderWay, Deliveries, Transfers

(* What the executor reads first out of a contribution's hook names the      *)
(* person who ordered it.                                                   *)
LEMMA HookNamesItsOwner ==
  ASSUME HookInv, OrdersInv, NEW o \in Orders,
         open[o] > 0, Want[o].way = "contribution", decoded # <<>>
  PROVE  <<decoded[1].data[2], "contributed">> = Deal!Wanted(o)
<1>1. PICK p \in Requests : hook = <<Hook!DeliverContribution(p)>>
  BY DEF OrdersInv, Kept, Deliveries
<1>2. p.recipient = Want[o].owner
  BY CrossChainAssumption
<1>3. Hook!IsPrefix(decoded, hook)
  BY ReadIsWritten DEF OnlyWhatWasEncoded, Hook!OnlyWhatWasEncoded
<1>4. decoded[1] = hook[1]
  <2>1. PICK k \in 0 .. Len(hook) : decoded = SubSeq(hook, 1, k)
    <3>1. hook \in Seq(Hook!ExternalInstruction)
      BY DEF HookInv
    <3>2. status # "threw"
      BY DEF HookInv
    <3> QED  BY <3>2 DEF HookInv, ReadSoFar
  <2>2. Len(hook) = 1 /\ hook \in Seq(Hook!ExternalInstruction)
    BY <1>1 DEF HookInv
  <2>3. k # 0
    BY <2>1, SubSeqEmpty
  <2>4. k = 1
    BY <2>2, <2>3
  <2>5. SubSeq(hook, 1, 1) = hook
    BY <2>2, SubSeqFull
  <2> QED  BY <2>1, <2>4, <2>5
<1>5. decoded[1].data[2] = p.recipient
  <2>1. hook[1].data = <<Hook!u64LE(p.saleNonce), p.recipient, Hook!u64LE(p.usdcAmount)>>
    BY <1>1 DEF Hook!DeliverContribution
  <2> QED  BY <1>4, <2>1
<1> QED  BY <1>2, <1>5 DEF Deal!Wanted

LEMMA OrdersInvHolds ==
  ASSUME BridgeInv, HookInv, OrdersInv, [Next]_vars
  PROVE  OrdersInv'
<1> USE CrossChainAssumption
<1>1. CASE HookTravels
  <2>1. hook' = hook
    BY <1>1 DEF HookTravels, Hook!Next, Hook!DecodeOne, Hook!DecodeThrows, Hook!DecodeReturns
  <2> QED  BY <1>1, <2>1, OrdersStutterKeeps DEF HookTravels, OrdersStutter, bridgeVars
<1>2. ASSUME NEW o \in Orders, OrderFromElsewhere(o)
      PROVE  OrdersInv'
  <2>1. /\ Want[o].way # "withdraw" /\ open[o] = 0 /\ purse[Deal!Source(o)] = Savings
        /\ Want[o].way = "contribution" => hook \in Deliveries
        /\ Deal!Create(o) /\ hook' = hook /\ done' = done
    BY <1>2 DEF OrderFromElsewhere, Deliveries, hookVars, bridgeVars
  <2>2. o \notin Transfers
    BY <2>1
  <2> QED  BY <2>1, <2>2, CreateKeeps
<1>3. ASSUME NEW o \in Orders, Filled(o)
      PROVE  OrdersInv'
  <2>1. UNCHANGED <<hook, done>>
    BY <1>3 DEF Filled, hookVars, bridgeVars
  <2>2. CASE Deal!Fill(o)
    <3>1. open[o] > 0 /\ Deal!Request(o).hook = None /\ Deal!Close(o, Deal!Paid(Deal!Request(o)))
      BY <2>2 DEF Deal!Fill
    <3>2. Deal!Request(o) # None
      BY <3>1 DEF OrdersInv, Kept
    <3>3. Deal!Paid(Deal!Request(o)) = Deal!Wanted(o)
      BY <3>1, <3>2, OrdersGoWhereWanted
    <3> QED  BY <2>1, <3>1, <3>3, CloseKeeps
  <2>3. CASE decoded # <<>> /\ Deal!FillWithHook(o, <<decoded[1].data[2], "contributed">>)
    <3>1. /\ open[o] > 0 /\ Deal!Request(o).hook # None
          /\ Deal!Close(o, <<decoded[1].data[2], "contributed">>)
      BY <2>3 DEF Deal!FillWithHook
    <3>2. Deal!Request(o) # None
      BY <3>1 DEF OrdersInv, Kept
    <3>3. Want[o].way = "contribution"
      BY <3>1, <3>2, OrdersGoWhereWanted
    <3>4. <<decoded[1].data[2], "contributed">> = Deal!Wanted(o)
      BY <2>3, <3>1, <3>3, HookNamesItsOwner
    <3> QED  BY <2>1, <3>1, <3>4, CloseKeeps
  <2> QED  BY <1>3, <2>2, <2>3 DEF Filled
<1>4. ASSUME NEW o \in Orders, Cancelled(o)
      PROVE  OrdersInv'
  <2>1. open[o] > 0 /\ Deal!Close(o, Deal!Refunded(Deal!Request(o))) /\ UNCHANGED <<hook, done>>
    BY <1>4 DEF Cancelled, Deal!Cancel, hookVars, bridgeVars
  <2>2. Deal!Request(o) # None
    BY <2>1 DEF OrdersInv, Kept
  <2>3. Deal!Refunded(Deal!Request(o)) = Deal!Source(o)
    BY <2>2, OrdersGoWhereWanted
  <2> QED  BY <2>1, <2>3, CloseKeeps
<1>5. ASSUME NEW t \in Txs, WithdrawalLands(t)
      PROVE  OrdersInv'
  <2>1. For[t] \in Transfers /\ Bridge!Land(t) /\ Deal!Create(For[t]) /\ hook' = hook
    BY <1>5 DEF WithdrawalLands, hookVars
  <2>2. For[t] \in Orders /\ Want[For[t]].way = "withdraw"
    BY <2>1
  <2>3. /\ done[For[t]] = 0 /\ done'[For[t]] = 1
        /\ \A j \in Transfers \ {For[t]} : done'[j] = done[j]
    BY <2>1, TransfersLandOnce DEF Transfers
  <2>4. open[For[t]] = 0 /\ purse[Deal!Source(For[t])] = Savings
    BY <2>1, <2>2, <2>3 DEF OrdersInv, Kept
  <2> QED  BY <2>1, <2>2, <2>3, <2>4, CreateKeeps
<1>6. CASE BridgeRuns
  BY <1>6, OrdersStutterKeeps DEF BridgeRuns, OrdersStutter, hookVars
<1>7. CASE UNCHANGED vars
  BY <1>7, OrdersStutterKeeps DEF vars, OrdersStutter, hookVars, bridgeVars
<1> QED  BY <1>1, <1>2, <1>3, <1>4, <1>5, <1>6, <1>7 DEF Next

LEMMA CrossChainInvHolds == Spec => [](BridgeInv /\ HookInv /\ OrdersInv)
<1> USE CrossChainAssumption
<1>1. Init => BridgeInv /\ HookInv /\ OrdersInv
  BY BridgeStarts, HookStarts, OrdersStart DEF Init
<1>2. OrdersInv /\ BridgeInv /\ HookInv /\ [Next]_vars => OrdersInv'
  BY OrdersInvHolds
<1>3. Spec => []HookInv
  BY HookInvHolds
<1>4. Spec => []BridgeInv
  <2>1. Bridge!BridgeSpec => []BridgeInv
    <3>1. Bridge!BridgeInit => BridgeInv
      BY BridgeStarts
    <3>2. BridgeInv /\ [Bridge!BridgeNext]_(Bridge!bridgeVars) => BridgeInv'
      BY BridgeInvHolds
    <3> QED  BY <3>1, <3>2, PTL DEF Bridge!BridgeSpec
  <2> QED  BY <2>1, CompositionIsABridge, PTL
<1> QED  BY <1>1, <1>2, <1>3, <1>4, PTL DEF Spec

(* Tokens on their way stay their owner's, whichever way they go, however     *)
(* often their transaction is sent and whatever arrives of their hook:        *)
(* stablecoin.ts, its builders and what their comments say of the order.     *)
THEOREM FundsStay == Spec => []FundsStayTheirOwners
<1>1. OrdersInv => FundsStayTheirOwners
  <2> SUFFICES ASSUME OrdersInv, NEW o \in Orders
               PROVE  /\ open[o] > 0 /\ Want[o].way # "withdraw" =>
                           Deal!Request(o).dstAuthority = Want[o].owner
                      /\ purse[Deal!Source(o)] + open[o] * Want[o].amount
                           + purse[Deal!Wanted(o)] = Savings
                      /\ open[o] * Want[o].amount + purse[Deal!Wanted(o)] <= Want[o].amount
    BY DEF FundsStayTheirOwners, Deal!FundsStayTheirOwners
  <2>1. Kept(o) /\ open[o] \in 0 .. 1
    BY DEF OrdersInv
  <2>2. Want[o].amount \in Nat
    BY CrossChainAssumption DEF Deal!OrdersAssumption
  <2>3. open[o] * Want[o].amount = UnderWay(o)
    BY <2>1, <2>2 DEF UnderWay
  <2>4. open[o] > 0 /\ Want[o].way # "withdraw" => Deal!Request(o).dstAuthority = Want[o].owner
    BY <2>1, CrossChainAssumption, OrdersGoWhereWanted DEF Kept
  <2> QED  BY <2>1, <2>3, <2>4 DEF Kept
<1> QED  BY <1>1, CrossChainInvHolds, PTL
===============================================================================
