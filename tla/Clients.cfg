SPECIFICATION ClientsSpec
CONSTANTS
  JobAmounts   = {0, 200, 500, 10000100}
  MaxLost      = 2
  QuoteAmounts = {50, 200, 1000001}
  Days         = {0, 731}
  MaxInteger   = 1000000
  Blank        = Blank
  NaN          = NaN
  Providers    = {p1, p2}
  Customer     = cu
  None         = None
  MaxCommits   = 4
  Sessions     = {s1, s2}
  Calls        = {c1, c2}
  MaxTokens    = 3
  Users        = {u1}
  MaxEdits     = 1
  MaxLogins    = 2
  Topics       = {"posting", "quoting", "screens", "session", "profile", "registering"}
SYMMETRY Interchangeable
INVARIANTS
  OnlyKnownGaps
  OwnActionShown
  OnlyKnownRefusals
  DeadByAccident
  QueueIsServed
  OneIdentity
  SavedIsStored
\* A form sent and a screen at its last commit are done.
CHECK_DEADLOCK FALSE
