SPECIFICATION Spec
CONSTANTS
  Requests = {"r1", "r2"}
  Servers = {"s1", "s2"}
  Events = {1, 2, 3}
  Entries = {1, 2, 3, 4, 5, 6, 7}
  CreatedAt <- MCCreatedAt
  FeedLimit = 2
  Clients = {"t1", "t2", "t3"}
  Users = {"u1"}
  UserOf <- MCUserOf
  Window = 2
  Cap = 2
  MaxTime = 2
  MaxConnections = 2
  Workloads <- MCStopping
  None = None
INVARIANT DatabaseOutlivesRequests
CHECK_DEADLOCK FALSE
