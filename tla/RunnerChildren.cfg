SPECIFICATION FairSpec
CONSTANTS
  Task = {t1, t2}
  Worktree = {}
  NoSite = NoSite
  Mode = {"task"}
  Call = {c1}
  MaxConcurrency = 1
  MaxProbes = 1
  MaxAsks = 1
PROPERTIES
  AbsSpec
  ChildrenSettle
CHECK_DEADLOCK FALSE
