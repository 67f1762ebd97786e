\* Two requests on either side of a month boundary, one worker that may crash.
SPECIFICATION FairSpec
CONSTANTS
  Requests = {r1, r2}
  Projects = {p1}
  Workers = {w1}
  Cancellers = {c1}
  NoRequest = NoRequest
  NoProject = NoProject
  RunLimit = 1
  MaxMonth = 2
  MaxPolls = 2
  MayCrash = TRUE
INVARIANTS WithinQuota
PROPERTIES WorkersReturn QueueDrains RequestsFinish
CHECK_DEADLOCK FALSE
