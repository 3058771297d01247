SPECIFICATION ProtocolsSpec
CONSTANTS
  Note = {n1}
  Query = {q1, q2}
  MaxNotes = 1
  MaxQueries = 1
  Content = {"none", "one", "two", "big"}
  Empty = "none"
  Oversized = {"big"}
  Counts <- MCCounts
  MaxChanges = 3
  MaxPublishers = 2
  MaxFaults = 1
  MaxRequests = 2
  MaxAsks = 3
  MaxPermissionChanges = 3
  Owners = 2
  Finding = {f1, f2}
  Tree = {t1, t2}
INVARIANTS
  EndsAgree
  ReadMatchesHeader
  GrantIsOfThisRequest
  ApprovedIsClean
PROPERTIES
  CloseSettles
  OutcomeSpec
  ReviewEnds
CHECK_DEADLOCK FALSE
