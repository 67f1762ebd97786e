\* Two analyze requests for one project.
SPECIFICATION Spec
CONSTANTS
  Requests = {r1, r2}
  Projects = {p1}
  Workers = {w1}
  Cancellers = {c1}
  NoRequest = NoRequest
  NoProject = NoProject
  RunLimit = 2
  MaxMonth = 1
  MaxPolls = 1
  MayCrash = FALSE
INVARIANTS OneActivePerProject
CHECK_DEADLOCK FALSE
