----------------------------- MODULE EscrowPromise -----------------------------
(***************************************************************************)
(* What an escrow promises to the two parties of a trade, whoever sends the *)
(* instructions and however they are built.  A trade's tokens leave the     *)
(* seller's vault once, lie untouched while the trade is open, and leave as *)
(* a whole to one of two places.  Approved, they can only go to the buyer;  *)
(* disputed, to either; before that only back.                             *)
(***************************************************************************)
EXTENDS Integers

CONSTANTS
  Trades,
  Amount, \* of each trade
  Fee     \* kept back from a payment

VARIABLES
  stage, \* of each trade
  held,  \* tokens in its escrow
  home,  \* tokens in the vault its seller sells from
  purse  \* tokens its buyer has, of the trade's mint

vars == <<stage, held, home, purse>>

Init ==
  /\ stage = [t \in Trades |-> "unfunded"]
  /\ held = [t \in Trades |-> 0]
  /\ home \in [Trades -> Nat]
  /\ purse \in [Trades -> Nat]

Step(t, from, to, left) ==
  /\ stage[t] \in from
  /\ stage' = [stage EXCEPT ![t] = to]
  /\ held' = [held EXCEPT ![t] = left]

Lock(t) ==
  /\ Step(t, {"unfunded"}, "locked", Amount[t])
  /\ home'[t] = home[t] - Amount[t]
  /\ purse'[t] = purse[t]

Approve(t) ==
  /\ Step(t, {"locked"}, "approved", held[t])
  /\ UNCHANGED <<home, purse>>

\* The opener's deposit may come out of a vault.
Dispute(t) == Step(t, {"locked"}, "disputed", held[t])

Pay(t) ==
  /\ Step(t, {"approved", "disputed"}, "ended", 0)
  /\ purse'[t] = purse[t] + (Amount[t] - Fee)
  /\ home'[t] = home[t]

\* What is held goes home: everything, or nothing if none was ever locked.
Return(t) ==
  /\ Step(t, {"unfunded", "locked", "disputed"}, "ended", 0)
  /\ home'[t] = home[t] + held[t]
  /\ purse'[t] = purse[t]

\* What the parties do with their own accounts is their own affair.
Elsewhere == UNCHANGED <<stage, held>>

Next ==
  \/ \E t \in Trades : Lock(t) \/ Approve(t) \/ Dispute(t) \/ Pay(t) \/ Return(t)
  \/ Elsewhere

Spec == Init /\ [][Next]_vars
=============================================================================
