SPECIFICATION Spec
CONSTANTS
  Requests = {"r1", "r2"}
  Servers = {"s1", "s2"}
  Comments = {1, 2, 3, 4}
  CreatedAt <- MCCreatedAt
  Issues = {i1}
  Users = {"u1", "u2"}
  PageLimit = 2
  Workloads <- MCWorkloads
  None = None
  Threshold = 2
  MaxReceives = 3
INVARIANTS
  TypeOK
  NotifiedCommentExists
  ThreadPagesComplete
  NotifiedOnce
  CircuitOpensInTime
PROPERTIES
  MentionsNotLost
  DeletedStaysDeleted
  MentionsSettle
CHECK_DEADLOCK FALSE
