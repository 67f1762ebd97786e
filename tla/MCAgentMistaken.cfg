\* Two workers; the first misses three heartbeats and is late with the fourth.
SPECIFICATION Spec
CONSTANTS
  Jobs = {j1}
  Workers = {w1, w2}
  NoJob = NoJob
  NoWorker = NoWorker
  BeatEvery = 3
  StaleAfter = 12
  MaxLate = 1
  MaxMisses = 3
  MaxCrashes = 0
INVARIANTS NeverMistaken
CHECK_DEADLOCK FALSE
