SPECIFICATION AccountsSpec
CONSTANTS
  Phones = {p1, p2}
  NoPhone = NoPhone
  Requests = {c1, c2}
  MaxLinks = 1
  MaxCodes = 2
  MaxResetLinks = 2
  MaxSessions = 1
  MaxPassword = 2
  MaxRequests = 2
  Window = 2
  MaxCount = 4
INVARIANTS PhoneIsProved CodeWorksUntilUsed
  OldSessionsEnd ResetLinksBounded LinkUseBounded LimitHolds
SYMMETRY Interchangeable
CHECK_DEADLOCK FALSE
