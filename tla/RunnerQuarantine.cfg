SPECIFICATION ExitFairSpec
CONSTANTS
  Task = {t1}
  Worktree = {w1}
  NoSite = NoSite
  Mode = {"task"}
  Call = {}
  MaxConcurrency = 1
  MaxProbes = 1
  MaxAsks = 0
PROPERTIES
  QuarantineClears
CHECK_DEADLOCK FALSE
