SPECIFICATION Spec
CONSTANTS
  c1 = c1
  cUDP = cUDP
  cEmpty = cEmpty
  cSets = cSets
  r1 = r1
  r2 = r2
  a1 = a1
  a2 = a2
  None = None
  Config = {c1}
  UDPOnly = {}
  NoSource = {}
  RouteState = {r1, r2}
  Addr = {a1, a2}
  WithSets = {}
  ListenerSetCRD = TRUE
  Class = {"ours", "late"}
  Ours = {"ours", "late"}
  InitClasses = {"ours"}
  MaxGen = 1
  MaxEdits = 1
  MaxFaults = 0
SYMMETRY RoutesAndAddresses
CHECK_DEADLOCK FALSE
INVARIANTS QuiescentConverged NoEffectBeforeAcceptance
