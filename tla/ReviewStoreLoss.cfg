SPECIFICATION Spec
CONSTANTS
  Lineage = {l1, l2}
  Key = {k1}
  Repairs = "any"
  MaxGeneration = 3
  MaxFaults = 2
INVARIANTS
  OldOrNew
CHECK_DEADLOCK FALSE
