----------------------------- MODULE ChainBridge -----------------------------
(***************************************************************************)
(* typescript/src/methods/chain.ts and rust/src/methods/chain.rs: a client  *)
(* asks its node for a blockhash, signs a Solana transaction with it, and   *)
(* hands the node the bytes.  Being queued is all the answer says.  The     *)
(* node submits on one of its polls, looks for the confirmation on a later  *)
(* one, and then writes it into the record the correlation names.  The node *)
(* and the chain are modelled from what the two files and the conformance   *)
(* tests say of them.                                                       *)
(*                                                                          *)
(* Requests are lost, also by a node that only gossips; a blockhash dies     *)
(* under a transaction on its way; an impatient client signs once more      *)
(* while the first transaction may still land; and what anybody may sign,   *)
(* somebody else may have sent.  A blockhash is its age in slots.           *)
(***************************************************************************)
EXTENDS Integers, FiniteSets

CONSTANTS
  Jobs,     \* things to be done on chain
  Domain,   \* of each: "settlement" to release, "dispute" to execute, or "transfer"
  Txs,      \* transactions there can be at one time
  For,      \* and the job each is for
  Life,     \* slots a blockhash is good for
  None

\* Assumed where they get their values.
BridgeAssumption ==
  /\ Life \in Nat
  /\ None \notin Int \cup Jobs
  /\ For \in [Txs -> Jobs]
  /\ Domain \in [Jobs -> {"settlement", "dispute", "transfer"}]

VARIABLES
  known,    \* age of the blockhash the node has, None before it has one
  tx,       \* each transaction under way: [age, tag, at]
  latest,   \* job -> age of the blockhash its client signed with last
  agreed,   \* settlements approved and disputes resolved in the node's records
  due,      \* jobs the program on chain would carry out
  done,     \* job -> transactions of it that succeeded
  others,   \* jobs that somebody's untagged transaction carried out
  recorded  \* jobs whose record names the transaction that confirmed

bridgeVars == <<known, tx, latest, agreed, due, done, others, recorded>>

Tagged == {j \in Jobs : Domain[j] # "transfer"}

BridgeInit ==
  /\ known = None
  /\ tx = [t \in Txs |-> None]
  /\ latest = [j \in Jobs |-> None]
  /\ agreed = {} /\ due = {} /\ others = {} /\ recorded = {}
  /\ done = [j \in Jobs |-> 0]

-----------------------------------------------------------------------------
(* The SDK.                                                                *)

\* Where the age of the node's blockhash can be seen.
getChainStatus == [age |-> known]

\* An application error while the node has none.
getLatestBlockhash == known

sendTransactionUncorrelated(blockhash, correlation) ==
  [age |-> blockhash, tag |-> None, at |-> "wire"]
sendTransactionOfTheLastCorrelation(blockhash, correlation) ==
  LET before == {tx[t].tag : t \in {u \in Txs : tx[u] # None}} \ {None} IN
  [age |-> blockhash, at |-> "wire",
   tag |-> IF before = {} THEN correlation ELSE CHOOSE tag \in before : TRUE]

\* Takes the transaction as it is, and the correlation where there is one.
sendTransaction(blockhash, correlation) ==
  [age |-> blockhash, tag |-> correlation, at |-> "wire"]

-----------------------------------------------------------------------------
(* Its callers.  They look how old the node's blockhash is and wait for one  *)
(* that is good.  A release or an execution can succeed once however often  *)
(* it is sent, so its client sends it again as it likes until the record    *)
(* says done, but not before the off-chain half is.  A transfer moves money *)
(* each time: it is signed again only when the blockhash of the last is     *)
(* more slots behind the node's than one lives, and nothing came of it.     *)

MaySign(j) ==
  /\ getLatestBlockhash # None
  /\ getChainStatus.age <= Life
  /\ IF j \in Tagged THEN j \in agreed /\ j \notin recorded
     ELSE latest[j] # None => latest[j] - getLatestBlockhash > Life /\ done[j] = 0

Sign(t) ==
  LET j == For[t] IN
  /\ tx[t] = None
  /\ MaySign(j)
  /\ tx' = [tx EXCEPT ![t] = sendTransaction(getLatestBlockhash,
                                            IF j \in Tagged THEN j ELSE None)]
  /\ latest' = [latest EXCEPT ![j] = getLatestBlockhash]
  /\ UNCHANGED <<known, agreed, due, done, others, recorded>>

\* The trade goes on: the seller approves or the arbitrators decide, once in
\* the node's records and once on chain, in either order.
Agree(j) ==
  /\ j \in Tagged \ agreed
  /\ agreed' = agreed \cup {j}
  /\ UNCHANGED <<known, tx, latest, due, done, others, recorded>>

BecomesDue(j) ==
  /\ j \in Tagged \ due
  /\ due' = due \cup {j}
  /\ UNCHANGED <<known, tx, latest, agreed, done, others, recorded>>

-----------------------------------------------------------------------------
(* The node and the chain.                                                 *)

At(t, places) == tx[t] # None /\ tx[t].at \in places

Moves(t, from, to) ==
  /\ At(t, {from})
  /\ tx' = [tx EXCEPT ![t].at = to]
  /\ UNCHANGED <<known, latest, agreed, due, done, others, recorded>>

\* The call is answered, or times out all the same.
Arrive(t) == Moves(t, "wire", "queued")

\* On one poll.
Submit(t) == Moves(t, "queued", "submitted")

Gone(t) ==
  /\ tx' = [tx EXCEPT ![t] = None]
  /\ UNCHANGED <<known, latest, agreed, due, done, others, recorded>>

Lose(t) == At(t, {"wire", "queued"}) /\ Gone(t)
Expire(t) == At(t, {"wire", "queued", "submitted"}) /\ tx[t].age > Life /\ Gone(t)

Succeeds(j) == j \in Tagged => j \in due /\ done[j] = 0

Land(t) ==
  /\ At(t, {"submitted"})
  /\ tx[t].age <= Life
  /\ tx' = [tx EXCEPT ![t].at = IF Succeeds(For[t]) THEN "landed" ELSE "failed"]
  /\ done' = [done EXCEPT ![For[t]] = IF Succeeds(For[t]) THEN @ + 1 ELSE @]
  /\ UNCHANGED <<known, latest, agreed, due, others, recorded>>

\* On a later poll; a record that is not ready for it is left alone.
Observe(t) ==
  /\ At(t, {"landed", "failed"})
  /\ tx' = [tx EXCEPT ![t] = None]
  /\ recorded' = IF tx[t].at = "landed" THEN recorded \cup ({tx[t].tag} \cap agreed)
                 ELSE recorded
  /\ UNCHANGED <<known, latest, agreed, due, done, others>>

\* Releases and executions need nobody's signature in particular.
SentByOthers(j) ==
  /\ j \in due
  /\ done[j] = 0
  /\ done' = [done EXCEPT ![j] = 1]
  /\ others' = others \cup {j}
  /\ UNCHANGED <<known, tx, latest, agreed, due, recorded>>

\* From its own connection or a peer's announcement.
LearnBlockhash ==
  /\ known # 0
  /\ known' = 0
  /\ UNCHANGED <<tx, latest, agreed, due, done, others, recorded>>

\* Beyond twice a life and one no age means anything new.
Older(age) == IF age \in 0 .. 2 * Life THEN age + 1 ELSE age

Slot ==
  /\ known' = IF known = Life + 1 THEN known ELSE Older(known)
  /\ tx' = [t \in Txs |->
              IF tx[t] = None THEN None ELSE [tx[t] EXCEPT !.age = Older(@)]]
  /\ latest' = [j \in Jobs |-> Older(latest[j])]
  /\ UNCHANGED <<agreed, due, done, others, recorded>>

BridgeNext ==
  \/ \E j \in Jobs : Agree(j) \/ BecomesDue(j) \/ SentByOthers(j)
  \/ \E t \in Txs :
       Sign(t) \/ Arrive(t) \/ Submit(t) \/ Lose(t) \/ Expire(t) \/ Land(t) \/ Observe(t)
  \/ LearnBlockhash
  \/ Slot

BridgeSpec == BridgeInit /\ [][BridgeNext]_bridgeVars

-----------------------------------------------------------------------------
(* Fairness.  Time passes; a node that lives goes on hearing of blockhashes, *)
(* and forgets what cannot land and looks for what did.  A blockhash lives   *)
(* several polls long, so of the transactions signed for a job again and     *)
(* again some are in time at every stage.                                   *)

ArriveInTime(t) == tx[t] # None /\ tx[t].age <= Life /\ Arrive(t)
SubmitInTime(t) == tx[t] # None /\ tx[t].age <= Life /\ Submit(t)
Some(j, Step(_)) == \E t \in {u \in Txs : For[u] = j} : Step(t)

BridgeFairness ==
  /\ WF_bridgeVars(Slot)
  /\ WF_bridgeVars(LearnBlockhash)
  /\ \A t \in {u \in Txs : For[u] \in Tagged} :
       WF_bridgeVars(Expire(t) \/ Observe(t))
  /\ \A j \in Tagged :
       /\ SF_bridgeVars(Some(j, Sign))
       /\ SF_bridgeVars(Some(j, ArriveInTime))
       /\ SF_bridgeVars(Some(j, SubmitInTime))
       /\ SF_bridgeVars(Some(j, Land))

-----------------------------------------------------------------------------
(* Properties.                                                             *)

\* The node's record is what happened: it says released or executed only of a
\* job that a transaction of its own client carried out, however often it was
\* sent, whatever failed, and whatever else went through the node meanwhile.
RecordFollowsTheChain ==
  /\ recorded \subseteq {j \in agreed \ others : done[j] = 1}
  /\ \A j \in Jobs : done[j] <= 1

\* What was approved or decided on both sides comes to be completed in the
\* records, unless somebody carried it out without telling a node which job it
\* was.
ApprovedIsCompleted == []<>(agreed \cap due \subseteq recorded \cup others)
=============================================================================
