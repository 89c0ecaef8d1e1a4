SPECIFICATION FairSpec
CONSTANTS
  Messages = {m1}
  Callers = {c1, c2}
  Slots = {w1, w2}
  NoMessage = NoMessage
  NoSlot = NoSlot
  MaxAttempts = 3
  MaxStalls = 1
  MaxAdds = 2
  FaultSets = {{"throw"}, {"throw", "refuse", "crash"}, {"throw", "refuse", "loseLock", "crash"}}
INVARIANTS
  AttemptsBounded
  OneSender
PROPERTIES
  ImplementsDelivery
  JobsSettle
  FailedIsDeadLettered
CHECK_DEADLOCK FALSE
