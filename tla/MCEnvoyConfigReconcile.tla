----------------------- MODULE MCEnvoyConfigReconcile ------------------------
(* Bounded instances of EnvoyConfigReconcile. *)
EXTENDS EnvoyConfigReconcile

MCPolicies == {"ROUND_ROBIN", "LEAST_REQUEST"}

\* Without load balancing, by annotation, by port, with an unknown algorithm.
MCSpecs ==
    {[lb |-> FALSE, ports |-> {80}, mode |-> "LEAST_REQUEST"],
     [lb |-> TRUE, ports |-> {80}, mode |-> ""],
     [lb |-> FALSE, ports |-> {80, 443}, mode |-> "LEAST_REQUEST"],
     [lb |-> TRUE, ports |-> {}, mode |-> "fastest"]}
=============================================================================
