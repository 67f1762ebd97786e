SPECIFICATION Spec
CONSTANTS
  Users = {ann, bob}
  Founder = ann
  Invites = {a, b}
  Seats = 2
  Handlers = {h1, h2}
  None = None
  Offices = {a, b, c}
  Reviewers = {a, b}
  Editors = {h1, h2}
  Deciders = {h1, h2}
  Nobody = None
  MaxReviews = 4
  Tokens = {a, b, c}
  Links = {l}
  Clients = {h1, h2}
  Null = None
  Projects = {a, b}
  Requests = {h1, h2}
  Nothing = None
  MaxActive = 1
  MaxDocs = 2
  MaxStorage = 3
  MaxText = 1
  MaxRows = 2
  MaxDocKeys = 3
  MaxFailures = 1
SYMMETRY Interchangeable
CHECK_DEADLOCK FALSE
INVARIANTS TypesOK LockoutNeedsOverlap WithdrawnOrUsed OneOpenInvitation
INVARIANTS PrimaryOffice TrailTellsStatus
INVARIANTS OneTokenPerLogin EverybodyOut LinkUsedOnce
INVARIANTS LimitsHold ContentFollowsRows
