---------------------------- MODULE TradeLifecycle ----------------------------
(***************************************************************************)
(* One trade as its two parties drive it: the signed events of             *)
(* methods/reservations.ts and methods/settlement.ts and the approval of   *)
(* rust/src/methods/settlement.rs, each one call of a Client, and the      *)
(* trade that getMyTrades and tradeStatus (methods/trade.ts) read back.    *)
(* The calls are those of OneShotCall, which RpcClient implements: a call  *)
(* may report nothing about what the node did, and its event may take      *)
(* effect after the caller gave up.  The node's records are external,      *)
(* modelled from what the send methods say each event is legal from.       *)
(***************************************************************************)
EXTENDS TLC

CONSTANT Calls  \* the send calls made in one trade, which bounds it

VARIABLES
  stage, decision, report,  \* the calls, as in OneShotCall
  event,        \* event[c]: the event c carries, until it is of no account
  reservation,  \* the reservation's state at the node
  settlement,   \* the settlement's state at the node, none before it exists
  applied,      \* the methods whose events took effect
  read,         \* what the buyer read back since their last call
  unsure,       \* whether a reversal of the buyer's ended without an answer
  wired         \* whether the buyer's fiat has left their account

callVars == <<stage, decision, report>>
nodeVars == <<reservation, settlement, applied>>
tradeVars == <<callVars, event, nodeVars, read, unsure, wired>>

Rpc == INSTANCE OneShotCall

-----------------------------------------------------------------------------
Methods ==
  {"sendReservationRequest", "sendReservationCancel", "sendSettlementInitiate",
   "sendPaymentSubmitted", "sendPaymentReversed", "sendSettlementApproved",
   "sendSettlementRejected", "sendSettlementCancelled"}

NoEvent == "none"

(* Reading a trade back.                                                   *)

tradeStatusFallingThrough(r, s) ==
  IF r # "EscrowLocked" THEN "Cancelled"
  ELSE IF s = "none" THEN "EscrowLocked"
  ELSE IF s \in {"Rejected", "Approved", "Completed"} THEN "Completed" ELSE s

tradeStatusUncollapsed(r, s) ==
  IF r # "EscrowLocked" THEN "Cancelled"
  ELSE IF s = "none" THEN "EscrowLocked" ELSE s

\* The one value a view shows: the reservation decides first, and Approved
\* collapses into Completed.
tradeStatus(r, s) ==
  IF r # "EscrowLocked" THEN "Cancelled"
  ELSE IF s = "none" THEN "EscrowLocked"
  ELSE IF s \in {"Approved", "Completed"} THEN "Completed" ELSE s

Unread == [status |-> "unread", settlement |-> "none"]

\* The trade, and tradeStatus of it.  A trade exists as soon as its
\* reservation does.
getMyTrades ==
  /\ reservation # "none"
  /\ read' = [status |-> tradeStatus(reservation, settlement),
              settlement |-> settlement]
  /\ UNCHANGED <<callVars, event, nodeVars, unsure, wired>>

-----------------------------------------------------------------------------
(* Sending.  Either party may call what is theirs to call at any time, in  *)
(* any order.  The buyer reads the trade again after a call, before acting *)
(* on what they read.                                                      *)

Submit(c, method) ==
  /\ Rpc!Begin(c)
  /\ event' = [event EXCEPT ![c] = method]
  /\ read' = Unread
  /\ UNCHANGED <<nodeVars, unsure, wired>>

sendReservationRequest(c) == Submit(c, "sendReservationRequest")

sendReservationCancel(c) == Submit(c, "sendReservationCancel")

sendSettlementInitiate(c) == Submit(c, "sendSettlementInitiate")

sendPaymentSubmitted(c) == Submit(c, "sendPaymentSubmitted")

\* A buyer whose money is under way never takes "I paid" back.
sendPaymentReversed(c) == ~wired /\ Submit(c, "sendPaymentReversed")

sendSettlementApproved(c) == Submit(c, "sendSettlementApproved")

sendSettlementRejected(c) == Submit(c, "sendSettlementRejected")

\* Either party's.
sendSettlementCancelled(c) == Submit(c, "sendSettlementCancelled")

\* An event that was decided and whose call is over is of no account.
Remembered(c) ==
  IF decision'[c] # "none" /\ stage'[c] = "done"
  THEN [event EXCEPT ![c] = NoEvent] ELSE event

Return(c) ==
  /\ Rpc!Return(c)
  /\ event' = Remembered(c)
  /\ read' = Unread
  /\ UNCHANGED <<nodeVars, wired>>

\* The answer reaches the caller.
Answered(c) == Return(c) /\ report'[c] # "unknown" /\ UNCHANGED unsure

CallFailsAndRetries(c) ==
  /\ stage[c] = "open"
  /\ \E d \in Calls :
       /\ stage[d] = "idle"
       /\ stage' = [stage EXCEPT ![c] = "done", ![d] = "open"]
       /\ event' = [event EXCEPT ![d] = event[c]]
  /\ UNCHANGED <<decision, report, nodeVars, read, unsure, wired>>

\* The call rejects without a word of the node.  Nothing is sent again.
CallFails(c) ==
  /\ Return(c)
  /\ report'[c] = "unknown"
  /\ unsure' = (unsure \/ event[c] = "sendPaymentReversed")

-----------------------------------------------------------------------------
(* The node.                                                               *)

Legal(method) ==
  CASE method = "sendReservationRequest" -> reservation = "none"
    [] method = "sendReservationCancel" -> reservation = "EscrowLocked"
    [] method = "sendSettlementInitiate" -> settlement = "none"
    [] method \in {"sendPaymentSubmitted", "sendSettlementCancelled"} ->
         settlement = "AwaitingPayment"
    [] OTHER -> settlement = "PaymentSubmitted"

ReservationAfter(method) ==
  CASE method = "sendReservationRequest" -> "EscrowLocked"
    [] method = "sendReservationCancel" -> "Cancelled"
    [] OTHER -> reservation

SettlementAfter(method) ==
  CASE method = "sendSettlementInitiate" -> "AwaitingPayment"
    [] method = "sendPaymentSubmitted" -> "PaymentSubmitted"
    [] method = "sendPaymentReversed" -> "AwaitingPayment"
    [] method = "sendSettlementApproved" -> "Approved"
    [] method = "sendSettlementRejected" -> "Rejected"
    [] method = "sendSettlementCancelled" -> "Cancelled"
    [] OTHER -> settlement

Decide(c) ==
  /\ Rpc!Decide(c)
  /\ IF Legal(event[c])
     THEN /\ decision'[c] = "applied"
          /\ reservation' = ReservationAfter(event[c])
          /\ settlement' = SettlementAfter(event[c])
          /\ applied' = applied \cup {event[c]}
     ELSE decision'[c] = "refused" /\ UNCHANGED nodeVars
  /\ event' = Remembered(c)
  /\ UNCHANGED <<read, unsure, wired>>

\* The node's sweep, thirty minutes after the reservation was made.
ReservationExpires ==
  /\ reservation = "EscrowLocked"
  /\ reservation' = "Expired"
  /\ UNCHANGED <<callVars, event, settlement, applied, read, unsure, wired>>

\* The on-chain release of an approved settlement is confirmed.
ReleaseConfirmed ==
  /\ settlement = "Approved"
  /\ settlement' = "Completed"
  /\ UNCHANGED <<callVars, event, reservation, applied, read, unsure, wired>>

\* A party opens a dispute over a declared or a rejected payment.
DisputeOpened ==
  /\ settlement \in {"PaymentSubmitted", "Rejected"}
  /\ settlement' = "Disputed"
  /\ UNCHANGED <<callVars, event, reservation, applied, read, unsure, wired>>

(* The buyer's bank.  A buyer who follows the SDK's advice wires once the  *)
(* declaration shows, and only if no attempt of theirs to take it back is  *)
(* under way or of unknown outcome.                                        *)
WireFiat ==
  /\ ~wired
  /\ read.settlement = "PaymentSubmitted"
  /\ ~unsure
  /\ \A c \in Calls : ~(stage[c] = "open" /\ event[c] = "sendPaymentReversed")
  /\ wired' = TRUE
  /\ UNCHANGED <<callVars, event, nodeVars, read, unsure>>

-----------------------------------------------------------------------------
\* A trade that is only beginning, or one whose payment was declared.
TradeInit ==
  /\ Rpc!Init
  /\ event = [c \in Calls |-> NoEvent]
  /\ \/ reservation = "none" /\ settlement = "none" /\ applied = {}
     \/ /\ reservation = "EscrowLocked" /\ settlement = "PaymentSubmitted"
        /\ applied = {"sendReservationRequest", "sendSettlementInitiate",
                      "sendPaymentSubmitted"}
  /\ read = Unread
  /\ unsure = FALSE
  /\ wired = FALSE

Send(c) ==
  \/ sendReservationRequest(c) \/ sendReservationCancel(c)
  \/ sendSettlementInitiate(c)
  \/ sendPaymentSubmitted(c) \/ sendPaymentReversed(c)
  \/ sendSettlementApproved(c) \/ sendSettlementRejected(c)
  \/ sendSettlementCancelled(c)

TradeNext ==
  \/ \E c \in Calls : Send(c) \/ Answered(c) \/ CallFails(c) \/ Decide(c)
  \/ getMyTrades
  \/ ReservationExpires \/ ReleaseConfirmed \/ DisputeOpened \/ WireFiat

TradeSpec == TradeInit /\ [][TradeNext]_tradeVars

CallSymmetry == Permutations(Calls)

-----------------------------------------------------------------------------
TradeStatus ==
  {"EscrowLocked", "AwaitingPayment", "PaymentSubmitted", "Completed",
   "Rejected", "Cancelled", "Disputed"}

SettlementState == (TradeStatus \ {"EscrowLocked"}) \cup {"Approved"}

(* Type invariant: in particular what a party reads is a TradeStatus, and  *)
(* not every state it is derived from is one.                              *)
TradeTypeOK ==
  /\ stage \in [Calls -> {"idle", "open", "done"}]
  /\ decision \in [Calls -> {"none", "applied", "refused"}]
  /\ report \in [Calls -> {"none", "success", "refusal", "unknown"}]
  /\ event \in [Calls -> Methods \cup {NoEvent}]
  /\ reservation \in {"none", "EscrowLocked", "Cancelled", "Expired"}
  /\ settlement \in SettlementState \cup {"none"}
  /\ applied \subseteq Methods
  /\ read.status \in TradeStatus \cup {"unread"}
  /\ read.settlement \in SettlementState \cup {"none"}
  /\ unsure \in BOOLEAN /\ wired \in BOOLEAN

(* Money that left after a declaration the buyer saw on file is never      *)
(* cancelled away, although either party may send any event at any time,   *)
(* in any order, and events take effect after their calls gave up          *)
(* (settlement.ts on sendPaymentSubmitted and sendPaymentReversed).  It    *)
(* rests on a call being sent once: a reversal the client sent again could *)
(* land on the next declaration.                                           *)
MoneyIsSafe == wired => settlement # "Cancelled"

(* What a party reads was brought about by the events it stands for: a     *)
(* trade shown as completed was approved, one shown as rejected was        *)
(* rejected, and one shown as either was declared paid before.             *)
StatusHasItsEvent ==
  /\ read.status = "Completed" => "sendSettlementApproved" \in applied
  /\ read.status = "Rejected" => "sendSettlementRejected" \in applied
  /\ read.status \in {"PaymentSubmitted", "Completed", "Rejected", "Disputed"} =>
       "sendPaymentSubmitted" \in applied

(* trade.ts on a reservation that is no longer locked: "it is not          *)
(* happening, and no settlement followed".                                 *)
CancelledMeansNoSettlement ==
  read.status = "Cancelled" => read.settlement \in {"none", "Cancelled"}
=============================================================================
