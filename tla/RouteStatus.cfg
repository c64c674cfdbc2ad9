SPECIFICATION Spec
CONSTANTS
    r1 = r1
    r2 = r2
    Routes = {r1, r2}
    Gateways = {"g1", "g2"}
    Kinds = {"HTTPRoute", "TCPRoute", "GRPCRoute", "TLSRoute"}
    Specs <- MCSpecs
    InitSpecs <- MCInitSpecs
    GatewayValues <- MCGateways
    InitGateways <- MCInitGateways
    SetParent <- MCSetParent
    Selected = FALSE
    MaxUpsets = 3
CHECK_DEADLOCK FALSE
SYMMETRY Symmetric
INVARIANTS
    TypeOK
    QuiescentStatus
PROPERTIES
    ForeignKept
