SPECIFICATION FairSpec
CONSTANTS
  Required <- TwoRequired
  Optional <- OneOptional
  InitState = {"absent", "unserved", "other", "v1"}
  MaxFaults = 3
CHECK_DEADLOCK FALSE
INVARIANTS RegisteredServed DisabledOnlyIfMissing
PROPERTIES Settles
