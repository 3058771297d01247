SPECIFICATION Spec
CONSTANTS
  Task = {t1, t2, t3}
  Worktree = {w1}
  NoSite = NoSite
  Mode = {"background"}
  Call = {}
  MaxConcurrency = 2
  MaxProbes = 0
  MaxAsks = 1
SYMMETRY Symmetric
INVARIANTS
  ProcessBound
  NoLostWakeup
  SettledMeansGone
CHECK_DEADLOCK FALSE
