CONSTANTS
  r1 = r1
  r2 = r2
  s1 = s1
  s2 = s2
  s3 = s3
  i1 = i1
  TheProject = p1
  OtherSprint = s3
  OtherProject = p2
  Requests = {r1, r2}
  Sprints = {s1, s2, s3}
  Projects = {p1, p2}
  ProjectOf <- TwoProjects
  Issues = {i1}
  IssueStates = {"open"}
  PoolSize = 3
  Faults = TRUE
  Workloads <- MCFair
  NoRequest = NoRequest
  NoSprint = NoSprint
  NoList = NoList
  NoVelocity = NoVelocity
SPECIFICATION FairSpec
PROPERTIES
  EveryRequestAnswered
