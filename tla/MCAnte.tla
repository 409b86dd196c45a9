-------------------------------- MODULE MCAnte --------------------------------
(* Two nodes, two accounts, and transactions that take the branches of the   *)
(* decorators: each differs from an ordinary payment in what its name says.  *)
EXTENDS Ante

CONSTANTS n1, n2, alice, bob

Pays(signer, seq, fee, msgs) ==
  [signer |-> signer, granter |-> None, seq |-> seq, fee |-> fee, gas |-> 3,
   signed |-> TRUE, basic |-> TRUE, timeout |-> 0, msgs |-> msgs]

MCTxs ==
  {Pays(alice, 0, 2, <<"send">>),                          \* alice then cannot pay again
   [Pays(alice, 0, 1, <<"fail">>) EXCEPT !.timeout = 1],
   Pays(alice, 1, 1, <<"recv">>),
   [Pays(alice, 1, 1, <<"send">>) EXCEPT !.signed = FALSE],
   Pays(bob, 0, 0, <<"trip">>),                          \* below the minimum of n1
   [Pays(bob, 0, 1, <<"heavy">>) EXCEPT !.granter = alice],  \* runs out of gas
   [Pays(bob, 1, 1, <<"recv">>) EXCEPT !.granter = alice],
   [Pays(bob, 1, 0, <<"send">>) EXCEPT !.basic = FALSE]}

MCBalances == alice :> 3 @@ bob :> 1
MCAllowances == [x \in Accounts \X Accounts |-> IF x = <<alice, bob>> THEN 1 ELSE 0]
MCMinFee == n1 :> 1 @@ n2 :> 0
MCSimulationGas == n1 :> 2 @@ n2 :> None
=============================================================================
