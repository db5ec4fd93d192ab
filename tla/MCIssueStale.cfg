\* One client at a time on one issue: does a stale version meet a 409?
SPECIFICATION Spec
CONSTANTS
  Requests = {r1}
  Issues = {i1}
  story = i1
  i1 = i1
  todo = todo
  doing = doing
  done = done
  Statuses = {todo, doing, done}
  Allowed <- Kanban
  Done = {done}
  Stories = {i1}
  WipLimit <- Limits
  AutoAssign <- Finish
  Sprints = {s1}
  Users = {u1}
  CreatedIn = {todo, doing}
  Workloads <- MCEditing
  None = None
PROPERTIES StaleWriteRefused
CHECK_DEADLOCK FALSE
