SPECIFICATION LockSpec
CONSTANTS
  Owner = {o1, o2}
  Repairer = {r1}
  RepairKind = {"stale"}
  Caller = "any"
  None = None
  Torn = Torn
PROPERTIES
  MovesOnlyObserved
CHECK_DEADLOCK FALSE
