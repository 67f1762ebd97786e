\* Three analyze requests over a plan of one run a month, two workers that may
\* crash, a cancel in flight, archive and delete.
SPECIFICATION Spec
CONSTANTS
  Requests = {r1, r2, r3}
  Projects = {p1}
  Workers = {w1, w2}
  Cancellers = {c1}
  NoRequest = NoRequest
  NoProject = NoProject
  RunLimit = 1
  MaxMonth = 1
  MaxPolls = 2
  MayCrash = TRUE
SYMMETRY Symmetry
INVARIANTS TypeOK SingleOwner OutcomesAgree WithinQuota NoOrphanJobs
PROPERTIES SettledIsFinal LifecycleSpec
CHECK_DEADLOCK FALSE
