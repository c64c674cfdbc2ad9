--------------------------- MODULE MCCRDDiscovery ---------------------------
(* Small instances of CRDDiscovery for TLC. *)
EXTENDS CRDDiscovery

TwoRequired == <<"gateways", "tlsroutes">>
OneOptional == <<"listenersets">>
=============================================================================
