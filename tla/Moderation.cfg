SPECIFICATION ModerationSpec
CONSTANTS
  Types = {"identity", "trade_license"}
  Resolutions = {"mutual"}
  Jobs = {j1, j2}
  Callers = {c1, c2, c3}
  Requests = {a1, a2}
  MaxRows = 3
  MaxDisputes = 2
  MaxReopened = 1
INVARIANTS VerificationIsEarned PendingBounded ActiveBounded RatingIsRight
SYMMETRY Interchangeable
CHECK_DEADLOCK FALSE
