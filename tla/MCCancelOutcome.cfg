\* One job and one cancel, no crash.
SPECIFICATION Spec
CONSTANTS
  Requests = {r1}
  Projects = {p1}
  Workers = {w1}
  Cancellers = {c1}
  NoRequest = NoRequest
  NoProject = NoProject
  RunLimit = 1
  MaxMonth = 1
  MaxPolls = 1
  MayCrash = FALSE
PROPERTIES CancelLeavesOutcome
CHECK_DEADLOCK FALSE
