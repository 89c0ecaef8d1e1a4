SPECIFICATION ClientsSpec
CONSTANTS
  JobAmounts   = {0, 50, 200, 500, 10000100}
  MaxLost      = 2
  QuoteAmounts = {50, 200, 1000001}
  Days         = {0, 731}
  MaxInteger   = 1000000
  Blank        = Blank
  NaN          = NaN
  Providers    = {p1, p2}
  Customer     = cu
  None         = None
  MaxCommits   = 4
  Sessions     = {s1, s2}
  Calls        = {c1, c2}
  MaxTokens    = 3
  Users        = {u1, u2}
  MaxEdits     = 1
  MaxLogins    = 2
  Topics       = {"profile"}
SYMMETRY Interchangeable
INVARIANTS
  ProfileIsOwn
CHECK_DEADLOCK FALSE
