SPECIFICATION SessionsSpec
CONSTANTS
  MaxStarts = 2
  MaxCrashes = 1
  MaxEntries = 1
  MaxCallbacks = 1
  Message = {m1}
  Session = {"s1", "s2"}
  SessionOf <- MCSessionOf
  Task = {t1, t2}
  ParentSession = {s1, s2}
  NoSession = NoSession
  Mode = {"task", "background"}
  MaxRuns = 1
  MaxSessions = 2
  Byte = {"a", "b", "nl"}
  Newline = "nl"
  FrameOf <- MCFrameOf
  MAX_FRAME_BYTES = 3
  MaxStream = 4
VIEW PartView
INVARIANTS
  ShutdownLeavesNothing
  AcceptedReached
  OneAnswer
  VerdictIsWhole
PROPERTIES
  ParentHears
CHECK_DEADLOCK FALSE
