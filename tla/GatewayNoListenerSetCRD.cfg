SPECIFICATION FairSpec
CONSTANTS
  c1 = c1
  cUDP = cUDP
  cEmpty = cEmpty
  cSets = cSets
  r1 = r1
  r2 = r2
  a1 = a1
  a2 = a2
  None = None
  Config = {c1}
  UDPOnly = {}
  NoSource = {}
  RouteState = {r1}
  Addr = {a1}
  WithSets = {}
  ListenerSetCRD = FALSE
  Class = {"ours", "theirs"}
  Ours = {"ours"}
  InitClasses = {"ours", "theirs"}
  MaxGen = 1
  MaxEdits = 0
  MaxFaults = 0
CHECK_DEADLOCK FALSE
PROPERTIES OptionalCRDOptional
