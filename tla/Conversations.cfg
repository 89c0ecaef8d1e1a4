SPECIFICATION PagesSpec
CONSTANTS
  Settings <- OneScreen
  Openers = {o1, o2}
  PageSize = 2
  MaxMessages = 2
  MaxEpisodes = 2
  MaxDeletes = 1
  Lists = {"notifications", "users", "jobs", "myJobs", "reports", "userDisputes", "disputes", "reviews", "verifications", "myVerifications", "feed", "feedHigh", "feedLow", "feedNear", "audit"}
  Uuids = {1, 2, 3}
  MaxTime = 3
  Limits = {1, 2}
  MaxWrites = 1
  MaxStarts = 1
  Topics = {"conversation", "listing"}
INVARIANTS
  ScreenCatchesUp
  OpenScreenIsRead
  NoneTwice
  OnlySameMilliSkipped
\* A conversation whose screens are closed and a walk at its end are done.
CHECK_DEADLOCK FALSE
