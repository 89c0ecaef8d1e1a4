SPECIFICATION Spec
CONSTANTS
  Jobs = {j1}
  Providers = {p1, p2}
  Requests = {r1, r2}
  NoJob = NoJob
  NoQuote = NoQuote
  MaxEdits = 1
  MayFail = TRUE
  Kept = {"awarded", "completed", "cancelled", "rejected"}
SYMMETRY Symmetry
INVARIANTS
  AwardConsistent
  OneAwardedQuote
  QuotingMeansQuoted
  ReadAwardStillHolds
  NoticesAreTrue
PROPERTIES
  AwardIsFinal
  ImplementsContract
