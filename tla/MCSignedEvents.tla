---------------------------- MODULE MCSignedEvents ----------------------------
(***************************************************************************)
(* Two processes, the fewest whose saves can mix, and one call on its way   *)
(* between them, not begun while a save is.                                *)
(***************************************************************************)
EXTENDS SignedEvents

UnderWay == {p \in Processes : call[p].stage \in {"signing", "sent"}}
Saving == {p \in Processes : writing[p] # 0}

OneThingAtATime ==
  UnderWay = {} \/ (Saving = {} /\ \E p \in Processes : UnderWay = {p})

MCNext == Next /\ OneThingAtATime'
MCSpec == Init /\ [][MCNext]_vars
=============================================================================
