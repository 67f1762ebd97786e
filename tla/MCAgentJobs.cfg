\* Two jobs, two workers of which one may die, a cutoff of two intervals, attempts
\* that are up to two intervals apart and of which one may be missed; fair time and
\* fair restarts.
SPECIFICATION FairSpec
CONSTANTS
  Jobs = {j1, j2}
  Workers = {w1, w2}
  NoJob = NoJob
  NoWorker = NoWorker
  BeatEvery = 1
  StaleAfter = 2
  MaxLate = 1
  MaxMisses = 1
  MaxCrashes = 1
INVARIANTS TypeOK SoleRunner HeartbeatsProtect RowTruthful
PROPERTIES LeaseSpec StalledRecovered
CHECK_DEADLOCK FALSE
