----------------------------- MODULE MCReplicas -----------------------------
(* Two nodes over two blocks; only node A asserts the invariants.           *)
EXTENDS Replicas

CONSTANT blue

MCDenoms == {blue}
Good     == NewParams(blue, 2, TRUE)
Genesis  == {Good}
Updates  == {NewParams(blue, 1, TRUE)}
Supply   == [d \in MCDenoms |-> 4]
FeeBlue  == [d \in MCDenoms |-> 1]
=============================================================================
