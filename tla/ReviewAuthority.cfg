SPECIFICATION SharedSpec
CONSTANTS
  Owner = {o1, o2, o3}
  Repairer = {r1, r2}
  RepairKind = {"stale", "incomplete"}
  Caller = "informed"
  None = None
  Torn = Torn
  Lineage = {a1, a2}
  Key = {k1, k2}
  Repairs = "prompt"
  MaxGeneration = 3
  MaxFaults = 2
  Process = {p1, p2, p3}
  View = {v1, v2}
  NoOne = NoOne
  Tree = {t0, t1}
  Base = t0
  NoTree = NoTree
  GateCaller = {a1, a2}
  RequestKey = {k1, k2}
  Budget = {b1, b2}
  MaxRoot = 4
  Resolver = {a1, a2}
  RootCommit = {k1, k2}
  MissingIdentity = MissingIdentity
  PartialIdentity = PartialIdentity
  ReadAttempts = 2
  MaxResolves = 2
  FilePath = {f1, f2, f3}
  IgnoredPath = {f3}
  LongPath = {f2}
  FileContent = {a1, a2}
  ReviewLens = {risk}
  NoContent = NoContent
  Backdate = 2
  Granularity = 1
  PageEntries = 1
  MaxTreeClock = 3
  MaxTreeEdits = 2
  Parts = {"lock", "store", "gate", "identity", "freeze", "view", "owners"}
VIEW PartView
SYMMETRY Symmetric
INVARIANTS
  MutualExclusion
  PromiseKept
  ReadsAuthority
  AllowIsSound
  RetriesAgree
  OneIdentity
  ReviewedIsCandidate
PROPERTIES
  AuthoritySpec
  LiveViewKept
CHECK_DEADLOCK FALSE
