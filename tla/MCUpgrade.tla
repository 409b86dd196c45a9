------------------------------ MODULE MCUpgrade ------------------------------
(* Two nodes on hosts of their own, started on the old binary; one module is *)
(* injected, one registered by hand, and one plan has no binary.             *)
EXTENDS Upgrade

CONSTANTS n1, n2, fixedmint, wasm

MCHandlers == Old :> {} @@ New_ :> {"v1.1.0"}
MCVersions == Old :> (fixedmint :> 1 @@ wasm :> 1) @@ New_ :> (fixedmint :> 2 @@ wasm :> 3)
=============================================================================
