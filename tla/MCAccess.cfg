SPECIFICATION Spec
SYMMETRY Symmetry
CONSTANTS
  c1 = c1
  c2 = c2
  Calls = {c1, c2}
  MaxRequests = 2
  Window = 2
  MaxTime = 4
  Users = {"u1", "u2", "u3"}
  Emails = {"e1", "e2", "e3"}
  Tokens = {"t1", "t2", "t3"}
  TokenLife = 2
  ProjectIds = {"p1", "p2"}
  Keys = {"k1", "k2"}
  Fields = {"f1", "f2"}
  Issues = {"i1", "i2"}
  Offered = {"v1", "v2"}
  Rows = {1, 2, 3}
  ProjectOf <- MCProjectOf
  FirstUsers <- MCUsers
  FirstTokens <- MCTokens
  FirstProjects <- MCProjects
  FirstMembers <- MCMembers
  FirstFields <- MCFields
  Workloads <- MCWorkloads
  None = None
  Gone = Gone
INVARIANTS
  TypeOK
  RateBounded
  RoleCacheTrue
PROPERTIES
  LoggedOutRefused
  RefusalsAreRaces
  AllOrNothing
CHECK_DEADLOCK FALSE
