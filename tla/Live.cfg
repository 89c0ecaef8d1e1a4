SPECIFICATION Spec
CONSTANTS
  Requests = {r1, r2}
  MayFail = TRUE
  Jobs = {j1}
  Providers = {p1}
  NoJob = NoJob
  NoQuote = NoQuote
  MaxEdits = 1
  Kept = {}
  Tokens = {t1, t2}
  Families = {f1}
  NoToken = NoToken
  NoFamily = NoFamily
PROPERTIES
  JobRequestsFinish
  TokenRequestsFinish
