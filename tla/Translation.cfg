SPECIFICATION Spec
CONSTANTS
    HostOrder <- MCHostOrder
    DefaultSecret = ""
    GatewayInputs <- MCGatewayInputs
    IngressInputs <- MCIngressInputs
    PolicyInputs <- MCPolicyInputs
    Nil = Nil
    PolicyService = {"s1", "s2"}
    Section = {"", "a", "b"}
    MaxPasses = 2
    MaxUpsets = 1
    Requests <- MCRequests
INVARIANTS
    ClustersComplete
    NoNilRoute
    MostSpecificServes
    SplitPreserved
    OnlyAdmittedRoutes
    RewriteKeepsRest
    PassthroughFaithful
    OwnerIsGateway
    IngressHostServed
    HTTPSEnforced
    OldestPolicyWins
    PolicyVerdictStored
    PoliciesBlockOnlyMixed
CHECK_DEADLOCK FALSE
