\* A client pages through the two issues of a sprint; nobody writes.
SPECIFICATION Spec
CONSTANTS
  Requests = {r1}
  Issues = {1, 2}
  CreatedAt <- Apart
  Sprints = {s1}
  Existing = {1, 2}
  Home = s1
  PageLimit = 1
  Ops = {"list"}
  Asked = {s1}
  Faults = FALSE
  Written = {}
  MaxRev = 0
  None = None
  Blank = Blank
INVARIANTS PagesComplete
