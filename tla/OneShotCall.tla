----------------------------- MODULE OneShotCall -----------------------------
(***************************************************************************)
(* What one call of either SDK's Client promises its caller, with the      *)
(* transport taken away.  A call asks the node to do one thing.  The node  *)
(* does it or refuses it at most once, before or after the call returns,   *)
(* and the call returns one report: a success or a refusal is the node's   *)
(* own decision about this very call, and anything else says nothing about *)
(* what the node did.  RpcClient is shown to implement this.               *)
(***************************************************************************)
CONSTANT Calls  \* the calls made through one Client

VARIABLES
  stage,    \* stage[c]: how far the caller of c has come
  decision, \* decision[c]: what the node decided about c
  report    \* report[c]: what c returned to its caller

absVars == <<stage, decision, report>>

Init ==
  /\ stage = [c \in Calls |-> "idle"]
  /\ decision = [c \in Calls |-> "none"]
  /\ report = [c \in Calls |-> "none"]

Begin(c) ==
  /\ stage[c] = "idle"
  /\ stage' = [stage EXCEPT ![c] = "open"]
  /\ UNCHANGED <<decision, report>>

\* The node may still decide after the caller has given up.
Decide(c) ==
  /\ stage[c] # "idle"
  /\ decision[c] = "none"
  /\ \E d \in {"applied", "refused"} : decision' = [decision EXCEPT ![c] = d]
  /\ UNCHANGED <<stage, report>>

Return(c) ==
  /\ stage[c] = "open"
  /\ \E r \in {"success", "refusal", "unknown"} :
       /\ r = "success" => decision[c] = "applied"
       /\ r = "refusal" => decision[c] = "refused"
       /\ report' = [report EXCEPT ![c] = r]
  /\ stage' = [stage EXCEPT ![c] = "done"]
  /\ UNCHANGED decision

Next == \E c \in Calls : Begin(c) \/ Decide(c) \/ Return(c)

Spec == Init /\ [][Next]_absVars
=============================================================================
