\* Two requests in flight, two checkouts, up to five events, one failure.
SPECIFICATION Spec
CONSTANTS
  Handlers = {h1, h2}
  Subs = {s1, s2}
  NoSub = NoSub
  MaxEvents = 5
  MaxFailures = 1
SYMMETRY Interchangeable
INVARIANTS TypeOK NothingLost PaidIsLinked FollowsStripe
PROPERTIES InboxSpec
CHECK_DEADLOCK FALSE
