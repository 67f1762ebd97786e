\* One event is in the ledger before its effect: a second checkout completes
\* when the first subscription's grace period is over.
SPECIFICATION Spec
CONSTANTS
  Handlers = {h1}
  Subs = {s1, s2}
  NoSub = NoSub
  MaxEvents = 5
  MaxFailures = 0
INVARIANTS RecordedWithEffect
CHECK_DEADLOCK FALSE
