SPECIFICATION Spec
CONSTANTS
  Models = {m1, m2}
  ProviderOf <- MCProviderOf
  Preferred = {m1}
  Callers = {c1, c2}
  NoModel = NoModel
  Threshold = 2
  MaxRetries = 0
  MaxOutages = 1
  Pages = {p}
  MaxSeq = 5
  MaxBreaks = 2
CHECK_DEADLOCK FALSE
INVARIANTS TypesOK FailuresCounted CompletedIsStored
PROPERTIES FeedSpec NoEarlyTrial OpenGetsTrial StreamsEnd
