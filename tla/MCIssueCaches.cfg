SPECIFICATION Spec
SYMMETRY Symmetry
CONSTANTS
  Requests = {r1, r2}
  Issues = {1,2}
  CreatedAt <- Apart
  Sprints = {s1}
  Existing = {2}
  Home = s1
  PageLimit = 1
  Written = {1}
  Ops = {"create","update","transition","delete","complete","board","get","list"}
  Asked = {s1}
  Faults = TRUE
  MaxRev = 2
  None = None
  Blank = Blank
INVARIANTS TypeOK EntitiesCurrent BoardsCurrent DbPagesComplete
