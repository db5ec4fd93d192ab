\* Two requests on one issue, or on three that share a column.
SPECIFICATION Spec
CONSTANTS
  Requests = {r1, r2}
  Issues = {i1, i2, i3, i4}
  story = i1
  i1 = i1
  todo = todo
  doing = doing
  done = done
  Statuses = {todo, doing, done}
  Allowed <- Kanban
  Done = {done}
  Stories = {i1}
  WipLimit <- Limits
  AutoAssign <- Finish
  Sprints = {s1}
  Users = {u1}
  CreatedIn = {todo, doing}
  Workloads <- MCWorkloads
  None = None
SYMMETRY Symmetry
INVARIANTS TypeOK StatusReachable SubscribersAgree KeysDrawnOnce WipBounded
PROPERTIES FollowsLife SprintAsAsked
CHECK_DEADLOCK FALSE
