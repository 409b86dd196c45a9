----------------------------- MODULE MintLedger -----------------------------
(***************************************************************************)
(* What x/fixedmint promises of a chain, whatever executes its blocks.     *)
(*                                                                         *)
(* Every block adds to the supply, once, the reward of the parameters that *)
(* were in force when the previous block was committed; no block is built  *)
(* on parameters that cannot be minted; and after genesis the parameters   *)
(* change only to ones that pass Validate.                                 *)
(***************************************************************************)
EXTENDS MintParams

VARIABLES
  height,    \* blocks committed
  inForce,   \* the parameters of the last committed block (or of genesis)
  issued     \* what the module has added to the supply so far

vars == <<height, inForce, issued>>

Init ==
  /\ height = 0
  /\ inForce \in StorableParams
  /\ issued = [d \in Denoms |-> 0]

CommitBlock ==
  /\ Mintable(inForce)
  /\ height' = height + 1
  /\ issued' = [d \in Denoms |-> issued[d] + Reward(inForce, d)]
  /\ \/ inForce' = inForce
     \/ inForce' \in {Stored(p) : p \in ValidParams}

Next == CommitBlock

Spec == Init /\ [][Next]_vars
=============================================================================
