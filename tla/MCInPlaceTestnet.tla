--------------------------- MODULE MCInPlaceTestnet ---------------------------
(* A chain of two validators, one of them unbonding, and the command run     *)
(* with the operator address of either or a new one.                         *)
EXTENDS InPlaceTestnet

CONSTANTS o1, o2, o3, k1, k2, k3, d1, d2, a1, a2

MCChain ==
  o1 :> [key |-> k1, status |-> "bonded", power |-> 2] @@
  o2 :> [key |-> k2, status |-> "unbonding", power |-> 1]

\* One account twice, a blocked one, and one that is no address.
MCFundLists == {<<a1, a1>>, <<a1, a2>>, <<Unparsable>>}

DelegatorSymmetry == Permutations(Delegators)
=============================================================================
