------------------------- MODULE MCGatewayReconcile -------------------------
(* Small instances of GatewayReconcile for TLC. *)
EXTENDS GatewayReconcile, TLC

CONSTANTS c1, cUDP, cEmpty, cSets, r1, r2, a1, a2

\* Route states and addresses are only compared with each other.
RoutesAndAddresses == Permutations({r1, r2}) \cup Permutations({a1, a2})
=============================================================================
