SPECIFICATION EventStreamSpec
CONSTANTS
  Pages = {p}
  MaxSeq = 4
  MaxBreaks = 0
CHECK_DEADLOCK FALSE
INVARIANTS ToldIsStored
