SPECIFICATION Spec
CONSTANTS
  c1 = c1
  cUDP = cUDP
  cEmpty = cEmpty
  cSets = cSets
  r1 = r1
  r2 = r2
  a1 = a1
  a2 = a2
  None = None
  Config = {c1, cUDP, cEmpty}
  UDPOnly = {cUDP}
  NoSource = {cEmpty}
  RouteState = {r1}
  Addr = {a1}
  WithSets = {c1, cUDP}
  ListenerSetCRD = TRUE
  Class = {"ours", "theirs"}
  Ours = {"ours"}
  InitClasses = {"ours", "theirs"}
  MaxGen = 2
  MaxEdits = 0
  MaxFaults = 1
CHECK_DEADLOCK FALSE
INVARIANTS WorkerInv QuiescentConverged ProgrammedMeansApplied NoEffectBeforeAcceptance
PROPERTIES StatusDescribesSpec
