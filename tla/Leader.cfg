SPECIFICATION FairSpec
CONSTANTS
  o1 = o1
  o2 = o2
  l1 = l1
  l2 = l2
  NoOp = NoOp
  Orphan = Orphan
  Ops = {o1, o2}
  Hooks = 2
  LegacyHook = 1
  Listeners = {l1, l2}
  Modes = {TRUE, FALSE}
  MaxFaults = 2
CHECK_DEADLOCK FALSE
INVARIANTS ElectionInv LeaderHoldsLease
PROPERTIES EventuallyLed StopTerminates
