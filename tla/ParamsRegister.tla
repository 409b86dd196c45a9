---------------------------- MODULE ParamsRegister ----------------------------
(***************************************************************************)
(* What the parameters of x/fixedmint promise, whatever bytes they travel  *)
(* in: one value in force, replaced by a value that was announced before,  *)
(* or by one the configured account gives at once.                         *)
(***************************************************************************)
CONSTANTS
  Values,    \* what the store can hold
  Enactable, \* the values that pass Params.Validate
  Nothing

VARIABLES inForce, announced
registerVars == <<inForce, announced>>

Init == inForce = Nothing /\ announced = Nothing

Found == inForce = Nothing /\ inForce' \in Values /\ UNCHANGED announced
Announce ==
  /\ inForce # Nothing /\ announced = Nothing
  /\ announced' \in Enactable /\ UNCHANGED inForce
Withdraw == announced' = Nothing /\ UNCHANGED inForce
Enact == announced # Nothing /\ inForce' = announced /\ announced' = Nothing
Replace == inForce # Nothing /\ inForce' \in Enactable /\ UNCHANGED announced

Next == Found \/ Announce \/ Withdraw \/ Enact \/ Replace
Spec == Init /\ [][Next]_registerVars
=============================================================================
