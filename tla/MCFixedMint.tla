----------------------------- MODULE MCFixedMint -----------------------------
(* x/fixedmint with its calls in any order, on two denominations.          *)
EXTENDS FixedMint
=============================================================================
