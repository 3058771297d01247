SPECIFICATION ShellSpec
CONSTANTS
  push = push
  publish = publish
  a1 = a1
  a2 = a2
  r1 = r1
  w1 = w1
  w2 = w2
  c1 = c1
  c2 = c2
  v1 = v1
  v2 = v2
  m1 = m1
  m2 = m2
  bad = bad
  s1 = s1
  s2 = s2
  t1 = t1
  t2 = t2
  f2 = f2
  Launcher = {c1, c2}
  Release = {v1}
  Home = {iso, pi, dir}
  IsolatedHome = iso
  PiHome = pi
  MaxMishaps = 1
  Installer = {i1, i2}
  MaxGenerations = 3
  Asset = {a1, a2}
  RetiredAsset = {a2}
  RoutedAsset = {a1, a2}
  KeepsRoute = {a1}
  AssetVersion = {v1, v2}
  LegacyVersion = {v0}
  AssetRoute = {r1}
  AssetProcess = {c1, c2}
  MaxAssetOps = 3
  MaxAssetFaults = 1
  RoutedAgent = {a1, a2, r1}
  Installed = {a1, a2}
  ProviderRole = {r1}
  Packaged = {a2}
  ProjectAgent = {a1}
  ModelId = {m1, m2, bad}
  PairModel = {m1, m2}
  ProfileName = {"current", "p"}
  RoutingTried <- MCTried
  RoutingWriter = {w1, w2}
  MaxFaults = 1
  MaxEdits = 4
  MetricSession = {s1, s2}
  MetricTask = {t1}
  PublicModel = {m1, m2}
  PrivateModel = {bad}
  NoName = NoName
  CustomName = CustomName
  MaxClock = 2
  MaxRevocations = 1
  MaxEnvChanges = 1
  MaxObserved = 1
  HostSession = {s1, s2}
  HostTask = {t1, t2, t3}
  HistoricTask = {t3}
  HostCommand = {m1, m2}
  HostFile = {f2}
  CallId = {i1, i2, i3}
  NoHost = NoHost
  MaxThread = 2
  MaxPushBytes = 3
  HistoryMax = 1
  MaxHostSteps = 5
  Peer = {p1}
  PeerActivity <- MCPeer
  Terminal <- MCTerminal
  MaxListed = 1
  PanelAgents <- MCAgents
  Offered <- MCOffered
  Efforts <- MCEfforts
  CustomModel = {m1}
  MaxProfiles = 2
  MaxRouting = 2
  MaxTodoId = 1
  TodoLists <- MCLists
  MaxBranch = 3
  SkillFile = {1, 2}
  ProjectFile = {2}
  SkillName = {n1, n2}
  ExcludedName = {n2}
  Regen = {c1, c2}
  NoRegistry = NoRegistry
  NoFingerprint = NoFingerprint
  MaxSkillEdits = 1
  MaxRegens = 3
  MaxStarts = 2
  WriteCall = {c1, c2, t1}
  ReviewWait = {w1}
  Content = {v1, v2, m1, m2, bad}
  Normal <- MCNormal
  Patch <- MCPatch
  MaxRecords = 2
  MaxSessions = 2
  MaxForeign = 1
  MaxLoads = 1
  MaxReceipts = 3
  PiSession = {s1, s2}
  ToolCall = {c1, c2}
  GuardKey = {push, publish}
  GuardFile <- MCFiles
  AutoDefault <- MCAuto
  RepoFile = {f1, f2}
  Finding = {g1, g2}
  LineRead = {c1, c2}
  MemoTtl = 2
  ReadTimeout = 1
  MaxTime = 4
  Parts = {"turns", "tasks", "push", "panel", "history", "remediation", "overlay", "peers", "models", "profiles", "todo", "changes", "reminders", "guard", "dispatch", "agents", "line", "plan"}
VIEW PartView
INVARIANTS
  HostKeepsFaith
  EvidenceIsExact
  PolicyIsKept
  PanelsAreHonest
PROPERTIES
  MetricsAreHonest
CHECK_DEADLOCK FALSE
