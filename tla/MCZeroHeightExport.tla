-------------------------- MODULE MCZeroHeightExport --------------------------
(* Two validators for one place in the set, one of them with two delegations. *)
EXTENDS ZeroHeightExport

CONSTANTS d1, d2, d3

Recipients == [d \in Delegations |-> IF d = d3 THEN 2 ELSE 1]
Lists      == SUBSET Validators \cup {{Malformed}}
=============================================================================
