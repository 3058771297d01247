SPECIFICATION HostSpec
CONSTANTS
  Token = {v1, v2}
  Lineage = {a, b}
  Candidate = {a, b}
  ReplayKey = {a, b}
  None = None
  MaxRefusals = 1
  UndoRefusable = FALSE
  Session = {s1, s2}
  Binding = {d1}
  MaxEdits = 1
  MaxCalls = 2
  Host = {s1, s2}
  Lenses = 2
  MaxCaptures = 2
  Malformed = FALSE
  Admin = {s1, s2}
  Target = {t1, t2}
  MaxRevision = 2
  MaxAdminOps = 2
  Identity = {v1, v2}
  Absent = Absent
  Parts = {"views", "consent", "capture", "maintenance", "contract"}
VIEW PartView
SYMMETRY Symmetry
INVARIANTS
  CurrentIsBound
  ConsentIsChosen
  ReportsAreTrue
  ExecutableIsBound
CHECK_DEADLOCK FALSE
