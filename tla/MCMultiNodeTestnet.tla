-------------------------- MODULE MCMultiNodeTestnet --------------------------
(* Two calls for at most three nodes on one directory.  The stakes are the   *)
(* default, one with an entry that does not parse, one above the balance, and *)
(* one that panics.                                                           *)
EXTENDS MultiNodeTestnet

MCStakes == {<<100000000, 100000000, 100000000, 100000000>>,
             <<Unparsable, 600000000>>, <<-1>>}
MCPorts  == {<<>>, <<47222, 50434>>}
=============================================================================
