SPECIFICATION FairSpec
CONSTANTS
    Specs <- MCSpecs
    Policies <- MCPolicies
    L7Ports = {443}
    DefaultAlgorithm = "LEAST_REQUEST"
    None = None
    MaxUid = 2
    MaxUpsets = 4
INVARIANTS
    QuiescentSettled
PROPERTY
    EventuallySettled
CHECK_DEADLOCK FALSE
