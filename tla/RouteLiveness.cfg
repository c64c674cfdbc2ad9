SPECIFICATION FairSpec
CONSTANTS
    r1 = r1
    r2 = r2
    Routes = {r1, r2}
    Gateways = {"g1", "g2"}
    Kinds = {"HTTPRoute", "TCPRoute", "UDPRoute", "GRPCRoute", "TLSRoute"}
    Specs <- MCSpecs
    InitSpecs <- MCInitSpecs
    GatewayValues <- MCGateways
    InitGateways <- MCInitGateways
    SetParent <- MCSetParent
    Selected = FALSE
    MaxUpsets = 2
CHECK_DEADLOCK FALSE
PROPERTIES
    QueueDrains
