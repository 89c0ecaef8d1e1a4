-------------------------- MODULE NotificationQueue --------------------------
(***************************************************************************)
(* Queued notifications: enqueueNotification of                            *)
(* src/backend/src/queues/notifications.queue.ts, the worker of            *)
(* worker/index.ts with moveToDeadLetter, processNotificationJob and       *)
(* notifyAsync's _send in services/notification.service.ts.                *)
(*                                                                         *)
(* BullMQ is external and modelled as these files use it: add ignores a    *)
(* job id it still holds; an attempt that throws counts towards attempts   *)
(* and is retried after a backoff; an active job whose lock has run out,   *)
(* because its worker died or could not renew it, is put back MaxStalls    *)
(* times and then failed without counting an attempt; what a slot without  *)
(* the lock reports is refused; each failure raises 'failed' in a worker.  *)
(* A message is a payload: equal payloads have equal job ids.  Which       *)
(* provider takes the message, and a user who opted out, are left out; time *)
(* is nondeterministic.                                                    *)
(***************************************************************************)
EXTENDS Integers, FiniteSets

CONSTANTS Messages,    \* notification payloads, hence job ids
          Callers,     \* notify() calls in progress
          Slots,       \* concurrent jobs of the worker: WORKER_CONCURRENCY
          NoMessage, NoSlot,
          MaxAttempts, \* NOTIFICATION_MAX_ATTEMPTS
          MaxStalls,   \* BullMQ's maxStalledCount
          MaxAdds,     \* bound on the jobs added for one message
          FaultSets    \* the combinations of faults a behaviour may be exposed to

ASSUME NoMessageAssumption == NoMessage \notin Messages
ASSUME NoSlotAssumption    == NoSlot \notin Slots
ASSUME FiniteAssumption    == IsFiniteSet(Callers) /\ IsFiniteSet(Slots)
ASSUME BoundsAssumption == /\ MaxAttempts \in Nat \ {0} /\ MaxStalls \in Nat
                           /\ MaxAdds \in Nat

VARIABLES dedupe,    \* messages whose dedupe key Redis holds
          adding,    \* the message each call is about to add
          job,       \* the job of each message
          lock,      \* the slot that holds each job's lock
          slot,      \* what each worker slot is doing
          exhausted, \* 'failed' events whose dead-letter job is still to be added
          dead,      \* messages in the dead-letter queue
          adds,      \* how many jobs were added for each message
          faults,    \* what may go wrong in this behaviour
          rows       \* notifications rows of each message: inserted, and how they were marked

vars == <<dedupe, adding, job, lock, slot, exhausted, dead, adds, rows, faults>>

MayThrow    == "throw" \in faults    \* the database and the providers fail attempts
MayRefuse   == "refuse" \in faults   \* an add to a queue fails, or its process dies first
MayLoseLock == "loseLock" \in faults \* a live worker fails to renew a job's lock
MayCrash    == "crash" \in faults    \* the worker process dies

JobStates == {"none", "waiting", "active", "delayed", "completed", "failed"}
NoJob     == [state |-> "none", attempts |-> 0, stalls |-> 0]
Free      == [step |-> "idle", message |-> NoMessage]
Outcomes  == {"inserted", "sent", "failed"}
SlotSteps == {"idle", "insert", "send", "markSent", "markFailed", "complete", "fail"}

Init == /\ dedupe    = {}
        /\ adding    = [c \in Callers |-> NoMessage]
        /\ job       = [m \in Messages |-> NoJob]
        /\ lock      = [m \in Messages |-> NoSlot]
        /\ slot      = [w \in Slots |-> Free]
        /\ exhausted = {}
        /\ dead      = {}
        /\ adds      = [m \in Messages |-> 0]
        /\ rows      = [m \in Messages |-> [o \in Outcomes |-> 0]]
        /\ faults    \in FaultSets

-----------------------------------------------------------------------------
(* enqueueNotification.                                                    *)

Adding(m) == {c \in Callers : adding[c] = m}

\* SET dedupeKey 1 EX ttl NX; a key already there ends the call.
EnqueueNotification(c, m) ==
  /\ adding[c] = NoMessage
  /\ m \notin dedupe
  /\ adds[m] + Cardinality(Adding(m)) < MaxAdds   \* the bound
  /\ dedupe' = dedupe \cup {m}
  /\ adding' = [adding EXCEPT ![c] = m]
  /\ UNCHANGED <<job, lock, slot, exhausted, dead, adds, rows>>

\* Mutant: without jobId, so a job is added whatever the queue holds.
AddAnyway(c) == LET m == adding[c] IN
  /\ m # NoMessage
  /\ job'    = [job EXCEPT ![m] = [NoJob EXCEPT !.state = "waiting"]]
  /\ adds'   = [adds EXCEPT ![m] = @ + 1]
  /\ adding' = [adding EXCEPT ![c] = NoMessage]
  /\ UNCHANGED <<dedupe, lock, slot, exhausted, dead, rows>>

\* notificationsQueue.add with jobId.
Add(c) == LET m == adding[c] IN
  /\ m # NoMessage
  /\ IF job[m].state = "none"
     THEN /\ job'  = [job EXCEPT ![m] = [NoJob EXCEPT !.state = "waiting"]]
          /\ adds' = [adds EXCEPT ![m] = @ + 1]
     ELSE UNCHANGED <<job, adds>>
  /\ adding' = [adding EXCEPT ![c] = NoMessage]
  /\ UNCHANGED <<dedupe, lock, slot, exhausted, dead, rows>>

\* The add is refused or its process dies: notify() logs it and nobody retries.
AddFails(c) ==
  /\ MayRefuse /\ adding[c] # NoMessage
  /\ adding' = [adding EXCEPT ![c] = NoMessage]
  /\ UNCHANGED <<dedupe, job, lock, slot, exhausted, dead, adds, rows>>

DedupeExpires(m) ==
  /\ m \in dedupe
  /\ dedupe' = dedupe \ {m}
  /\ UNCHANGED <<adding, job, lock, slot, exhausted, dead, adds, rows>>

-----------------------------------------------------------------------------
(* The worker: processNotificationJob and _send.                           *)

Goto(w, step)   == slot' = [slot EXCEPT ![w].step = step]
\* Mutant: the error is swallowed and the promise of the attempt never settles.
ThrowHanging(w) == MayThrow /\ Goto(w, "idle")
Throw(w)        == MayThrow /\ Goto(w, "fail")

Take(w, m) ==
  /\ slot[w] = Free
  /\ job[m].state = "waiting"
  /\ job'  = [job EXCEPT ![m].state = "active"]
  /\ lock' = [lock EXCEPT ![m] = w]
  /\ slot' = [slot EXCEPT ![w] = [step |-> "insert", message |-> m]]
  /\ UNCHANGED <<dedupe, adding, exhausted, dead, adds, rows>>

Counted(m, outcome) == rows' = [rows EXCEPT ![m][outcome] = @ + 1]

InsertRow(w) ==
  /\ slot[w].step = "insert"
  /\ \/ Goto(w, "send") /\ Counted(slot[w].message, "inserted")
     \/ Throw(w) /\ UNCHANGED rows
  /\ UNCHANGED <<dedupe, adding, job, lock, exhausted, dead, adds>>

\* sendPush or sendEmail; a timeout may hide that the provider accepted.
Send(w) ==
  /\ slot[w].step = "send"
  /\ \/ Goto(w, "markSent")
     \/ MayThrow /\ Goto(w, "markFailed")
  /\ UNCHANGED <<dedupe, adding, job, lock, exhausted, dead, adds, rows>>

\* SET sent_at: inside the try, so its own error also counts as a failed send.
MarkSent(w) ==
  /\ slot[w].step = "markSent"
  /\ \/ Goto(w, "complete") /\ Counted(slot[w].message, "sent")
     \/ MayThrow /\ Goto(w, "markFailed") /\ UNCHANGED rows
  /\ UNCHANGED <<dedupe, adding, job, lock, exhausted, dead, adds>>

\* Mutant: the error of the send is caught and not thrown on.
MarkFailedQuietly(w) ==
  /\ slot[w].step = "markFailed"
  /\ Goto(w, "complete") /\ Counted(slot[w].message, "failed")
  /\ UNCHANGED <<dedupe, adding, job, lock, exhausted, dead, adds>>

MarkFailed(w) ==
  /\ slot[w].step = "markFailed"
  /\ \/ Goto(w, "fail") /\ Counted(slot[w].message, "failed")
     \/ Throw(w) /\ UNCHANGED rows
  /\ UNCHANGED <<dedupe, adding, job, lock, exhausted, dead, adds>>

-----------------------------------------------------------------------------
(* BullMQ settles an attempt, and moveToDeadLetter.                        *)

\* The slot reports how its attempt ended, which counts if it still holds the lock.
Report(w) == slot' = [slot EXCEPT ![w] = Free]
Holds(w)  == lock[slot[w].message] = w
Release(m) == lock' = [lock EXCEPT ![m] = NoSlot]

Complete(w) == LET m == slot[w].message IN
  /\ slot[w].step = "complete"
  /\ Report(w)
  /\ IF Holds(w) THEN job' = [job EXCEPT ![m].state = "completed"] /\ Release(m)
     ELSE UNCHANGED <<job, lock>>
  /\ UNCHANGED <<dedupe, adding, exhausted, dead, adds, rows>>

\* Mutant: moveToDeadLetter compares with <=.
FailedEventLate(m, attempts) ==
  exhausted' = IF attempts <= MaxAttempts THEN exhausted ELSE exhausted \cup {m}

\* The 'failed' event of a job with that many attempts made: moveToDeadLetter
\* returns at once while attempts are left.
FailedEvent(m, attempts) ==
  exhausted' = IF attempts < MaxAttempts THEN exhausted ELSE exhausted \cup {m}

\* Mutant: an attempt that throws is not counted.
FailUncounted(w) == LET m == slot[w].message IN
  /\ slot[w].step = "fail"
  /\ Report(w)
  /\ IF Holds(w) THEN job' = [job EXCEPT ![m].state = "delayed"] /\ Release(m)
     ELSE UNCHANGED <<job, lock>>
  /\ UNCHANGED <<dedupe, adding, exhausted, dead, adds, rows>>

AttemptsLeft(n) == n < MaxAttempts

FailAttempt(w) == LET m == slot[w].message
                      n == job[m].attempts + 1 IN
  /\ slot[w].step = "fail"
  /\ Report(w)
  /\ IF Holds(w)
     THEN /\ job' = [job EXCEPT ![m].attempts = n,
                                ![m].state = IF AttemptsLeft(n) THEN "delayed" ELSE "failed"]
          /\ Release(m)
          /\ FailedEvent(m, n)
     ELSE UNCHANGED <<job, lock, exhausted>>
  /\ UNCHANGED <<dedupe, adding, dead, adds, rows>>

Retry(m) ==
  /\ job[m].state = "delayed"
  /\ job' = [job EXCEPT ![m].state = "waiting"]
  /\ UNCHANGED <<dedupe, adding, lock, slot, exhausted, dead, adds, rows>>

MoveToDeadLetter(m) ==
  /\ m \in exhausted
  /\ exhausted' = exhausted \ {m}
  /\ dead' = dead \cup {m}
  /\ UNCHANGED <<dedupe, adding, job, lock, slot, adds, rows>>

\* The add to the dead-letter queue is refused: logged, and nobody retries.
DeadLetterFails(m) ==
  /\ MayRefuse
  /\ m \in exhausted
  /\ exhausted' = exhausted \ {m}
  /\ UNCHANGED <<dedupe, adding, job, lock, slot, dead, adds, rows>>

\* The worker process dies: its jobs stay active, its locks run out, its events
\* are lost.
Crash ==
  /\ MayCrash
  /\ slot' = [w \in Slots |-> Free]
  /\ lock' = [m \in Messages |-> NoSlot]
  /\ exhausted' = {}
  /\ UNCHANGED <<dedupe, adding, job, dead, adds, rows>>

\* A busy or disconnected worker does not renew a lock in time, and works on.
LoseLock(m) ==
  /\ MayLoseLock
  /\ lock[m] # NoSlot
  /\ Release(m)
  /\ UNCHANGED <<dedupe, adding, job, slot, exhausted, dead, adds, rows>>

\* The stalled-job check finds an active job without a lock.
Stall(m) ==
  /\ job[m].state = "active"
  /\ lock[m] = NoSlot
  /\ IF job[m].stalls < MaxStalls
     THEN /\ job' = [job EXCEPT ![m].state = "waiting", ![m].stalls = @ + 1]
          /\ UNCHANGED exhausted
     ELSE /\ job' = [job EXCEPT ![m].state = "failed"]
          /\ FailedEvent(m, job[m].attempts)
  /\ UNCHANGED <<dedupe, adding, lock, slot, dead, adds, rows>>

\* removeOnComplete / removeOnFail: 1000 later jobs have finished.
Evict(m) ==
  /\ job[m].state \in {"completed", "failed"}
  /\ job' = [job EXCEPT ![m] = NoJob]
  /\ UNCHANGED <<dedupe, adding, lock, slot, exhausted, dead, adds, rows>>

Process(w) == \/ \E m \in Messages : Take(w, m)
              \/ InsertRow(w) \/ Send(w) \/ MarkSent(w) \/ MarkFailed(w)
              \/ Complete(w) \/ FailAttempt(w)

Step == \/ \E c \in Callers :
             \/ \E m \in Messages : EnqueueNotification(c, m)
             \/ Add(c) \/ AddFails(c)
        \/ \E w \in Slots : Process(w)
        \/ \E m \in Messages : \/ DedupeExpires(m) \/ Retry(m) \/ LoseLock(m) \/ Stall(m)
                               \/ MoveToDeadLetter(m) \/ DeadLetterFails(m) \/ Evict(m)
        \/ Crash

Next == Step /\ UNCHANGED faults

Spec == Init /\ [][Next]_vars

\* A live worker works, BullMQ's timers fire and a dead-letter job is added at last
\* if its adds may not be refused; nothing else is assumed.
FairSpec == Spec /\ \A w \in Slots : WF_vars(Process(w) /\ UNCHANGED faults)
                 /\ \A m \in Messages : /\ WF_vars(Retry(m) /\ UNCHANGED faults)
                                        /\ WF_vars(Stall(m) /\ UNCHANGED faults)
                                        /\ WF_vars(MoveToDeadLetter(m) /\ UNCHANGED faults)

-----------------------------------------------------------------------------
(* Properties.                                                             *)

TypeOK == /\ dedupe \subseteq Messages
          /\ adding \in [Callers -> Messages \cup {NoMessage}]
          /\ job \in [Messages -> [state : JobStates, attempts : 0..MaxAttempts,
                                   stalls : 0..MaxStalls]]
          /\ lock \in [Messages -> Slots \cup {NoSlot}]
          /\ slot \in [Slots -> [step : SlotSteps, message : Messages \cup {NoMessage}]]
          /\ exhausted \subseteq Messages
          /\ dead \subseteq Messages
          /\ adds \in [Messages -> 0..MaxAdds]
          /\ rows \in [Messages -> [Outcomes -> Nat]]
          /\ faults \in FaultSets

\* As long as locks are renewed a message is never being sent twice at the same time,
\* crashes and repeated notifications included: the job id keeps equal notifications
\* out, and a job is put back only once its worker is gone.
OneSender ==
  ~MayLoseLock =>
    \A v, w \in Slots : slot[v].message = slot[w].message /\ slot[v] # Free => v = w

\* A completed job was recorded as sent: no path through failed marks, retries, stalled
\* attempts and late reports completes a job without one.
CompletedMeansSent ==
  \A m \in Messages : job[m].state = "completed" => rows[m]["sent"] > 0

\* Each job is tried at most MaxAttempts + MaxStalls times, so that many rows is all
\* a notification can leave in its user's list, however attempts fail and stall.
AttemptsBounded ==
  \A m \in Messages : rows[m]["inserted"] <= adds[m] * (MaxAttempts + MaxStalls)

\* A job that failed for good is in the dead-letter queue sooner or later, whatever
\* its attempts threw, as long as the worker lives, renews its locks and can add.
FailedIsDeadLettered ==
  \A m \in Messages : job[m].state = "failed" /\ faults \subseteq {"throw"} ~> m \in dead

\* Every job added is completed or failed in the end, whatever throws or crashes.
JobsSettle ==
  \A m \in Messages : job[m].state # "none" ~> job[m].state \in {"completed", "failed"}

-----------------------------------------------------------------------------
(* The inductive invariant behind the safety properties.                   *)

SlotsWellFormed == \A w \in Slots : slot[w].step = "idle" <=> slot[w].message = NoMessage

\* A lock is held on an active job by a slot that works on it, and the other way
\* round when no lock is ever lost.
LocksWellFormed ==
  /\ \A m \in Messages : lock[m] # NoSlot =>
       job[m].state = "active" /\ slot[lock[m]].message = m
  /\ ~MayLoseLock => \A w \in Slots : slot[w] # Free => Holds(w)

\* Attempts are left in a job that is not settled.
UnsettledHasAttempts ==
  \A m \in Messages : job[m].state \in {"waiting", "active", "delayed"} =>
    job[m].attempts < MaxAttempts

SentBeforeComplete ==
  \A w \in Slots : slot[w].step = "complete" => rows[slot[w].message]["sent"] > 0

AddsBudget == \A m \in Messages : adds[m] + Cardinality(Adding(m)) <= MaxAdds

\* The attempts job m may still be given, and those about to insert their row.
Left(m) ==
  CASE job[m].state \in {"waiting", "delayed"} ->
         (MaxAttempts - job[m].attempts) + (MaxStalls - job[m].stalls)
    [] job[m].state = "active" ->
         (MaxAttempts - job[m].attempts) + (MaxStalls - job[m].stalls) - 1
    [] OTHER -> 0
Inserting(m) == {w \in Slots : slot[w] = [step |-> "insert", message |-> m]}

AttemptsBudget ==
  \A m \in Messages :
    rows[m]["inserted"] + Cardinality(Inserting(m)) + Left(m)
      <= adds[m] * (MaxAttempts + MaxStalls)

IInv == /\ TypeOK /\ SlotsWellFormed /\ LocksWellFormed /\ UnsettledHasAttempts
        /\ SentBeforeComplete /\ CompletedMeansSent /\ AddsBudget /\ AttemptsBudget

-----------------------------------------------------------------------------
(* The queue as a delivery service.                                        *)

Status == [m \in Messages |->
             IF job[m].state \in {"waiting", "active", "delayed"} THEN "open" ELSE job[m].state]

\* The slots whose attempt has inserted its row and not marked it.
Unmarked(m) == {w \in Slots : /\ slot[w].message = m
                              /\ slot[w].step \in {"send", "markSent", "markFailed"}}

Delivery == INSTANCE DeliveryContract
              WITH Grant     <- MaxAttempts + MaxStalls,
                   status    <- Status,
                   credit    <- [m \in Messages |-> Left(m) + Cardinality(Inserting(m))],
                   working   <- [m \in Messages |-> Cardinality(Unmarked(m))],
                   sent      <- [m \in Messages |-> rows[m]["sent"]],
                   exclusive <- ~MayLoseLock

\* Every attempt is paid for by the job it belongs to or by an earlier one, is recorded at
\* most once and, while locks are renewed, has its payload for itself.
\* (notifications.queue.ts:67-109, notification.service.ts:83-116)
ImplementsDelivery == Delivery!Spec
=============================================================================
