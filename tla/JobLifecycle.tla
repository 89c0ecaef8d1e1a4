---------------------------- MODULE JobLifecycle ----------------------------
(***************************************************************************)
(* Jobs and quotes under concurrent requests:                              *)
(* src/backend/src/services/job.service.ts, admin.service.ts               *)
(* (forceJobStatus), the statements of repositories/job.repo.ts and the    *)
(* constraints and trigger of db/migrations/003_job_quote_tables.ts.       *)
(*                                                                         *)
(* Every handler reads the job (and the quote) with autocommit SELECTs,    *)
(* checks what it read, and later writes with unconditional UPDATEs, so a  *)
(* request is a process that keeps the snapshot it read while other        *)
(* requests write.  Only awardJob uses a transaction; its row locks make   *)
(* the other writers of those rows wait.  A request whose check fails      *)
(* changes nothing: it is a guard here.  Ownership checks compare two      *)
(* immutable ids, so the caller is taken to be the job's customer or the   *)
(* quote's provider.                                                       *)
(***************************************************************************)
EXTENDS FiniteSets, Integers

CONSTANTS Jobs,       \* job ids
          Providers,  \* provider user ids
          Requests,   \* slots for HTTP requests being handled at the same time
          NoJob,      \* the job of an empty slot
          NoQuote,    \* SQL NULL in awarded_quote_id
          MaxEdits,   \* bound on patchJob writes to one job
          MayFail,    \* whether a handler may die between two statements
          Kept        \* the kinds of notices told keeps: a bound for TLC

\* UNIQUE (job_id, provider_id): a quote is identified by its job and provider.
Quotes == Jobs \X Providers
JobOf(q) == q[1]
QuotesOn == [j \in Jobs |-> {j} \X Providers]

ASSUME NoQuoteAssumption == NoQuote \notin Quotes
ASSUME NoJobAssumption   == NoJob \notin Jobs
ASSUME BoundsAssumption  == MaxEdits \in Nat /\ MayFail \in BOOLEAN

VARIABLES jobStatus,    \* jobs.status; "absent" before the INSERT
          expirySet,    \* jobs.expires_at IS NOT NULL
          awardedQuote, \* jobs.awarded_quote_id
          edits,        \* how often the job's terms were rewritten by patchJob
          quoteStatus,  \* quotes.status; "absent" before the INSERT
          req,          \* what each request slot is doing
          told          \* notices queued for providers: <<new status, quote>>, if Kept

db   == <<jobStatus, expirySet, awardedQuote, edits, quoteStatus>>
vars == <<db, req, told>>

JobStatus == {"absent", "draft", "posted", "quoting", "awarded", "in_progress",
              "completed", "cancelled", "expired", "disputed", "closed"}
QuoteStatus == {"absent", "pending", "viewed", "shortlisted", "awarded",
                "rejected", "withdrawn", "expired"}
Live == {"pending", "viewed", "shortlisted"}
JobNotices   == {"awarded", "completed", "cancelled"}     \* what a notice says of the job
QuoteNotices == {"viewed", "shortlisted", "rejected"}     \* and of the quote
Terminal == {"completed", "cancelled", "expired", "closed", "disputed"}
Forceable == {"cancelled", "closed", "expired"}   \* ForceJobStatusSchema
Cancellable == {"draft", "posted", "quoting", "awarded", "in_progress"}

\* The pairs validate_job_status_transition lets through besides no change.
ValidTransitions ==
  ({"draft"} \X {"posted", "cancelled"})
    \cup ({"posted"} \X {"quoting", "cancelled", "expired"})
    \cup ({"quoting"} \X {"awarded", "cancelled", "expired"})
    \cup ({"awarded"} \X {"in_progress", "cancelled"})
    \cup ({"in_progress"} \X {"completed", "disputed", "cancelled"})
    \cup ({"completed", "expired", "cancelled", "disputed"} \X {"closed"})
    \cup {<<"disputed", "completed">>}

Ops == {"none", "publishJob", "patchJob", "submitQuote", "awardJob", "acceptJob",
        "completeJob", "cancelJob", "forceJobStatus", "viewQuote",
        "shortlistQuote", "rejectQuote", "withdrawQuote"}
Steps == {"idle", "readQuote", "insertQuote", "writeJob", "patchRow", "writeQuote",
          "countActive", "lockJob", "awardQuote", "rejectOthers", "commit", "notify"}

\* A request: the statement it is about to run, its arguments, the job status
\* it read first, the status it will write, and the losers its txn has locked.
Idle == [op |-> "none", step |-> "idle", job |-> NoJob, quote |-> NoQuote,
         seen |-> "absent", target |-> "absent", losers |-> {}]
RequestState ==
  [op : Ops, step : Steps, job : Jobs \cup {NoJob}, quote : Quotes \cup {NoQuote},
   seen : JobStatus, target : JobStatus \cup QuoteStatus, losers : SUBSET Quotes]

Init == /\ jobStatus    = [j \in Jobs |-> "absent"]
        /\ expirySet    = [j \in Jobs |-> FALSE]
        /\ awardedQuote = [j \in Jobs |-> NoQuote]
        /\ edits        = [j \in Jobs |-> 0]
        /\ quoteStatus  = [q \in Quotes |-> "absent"]
        /\ req          = [r \in Requests |-> Idle]
        /\ told         = {}

-----------------------------------------------------------------------------
(* Row locks held by award transactions until they commit or roll back.    *)

InAward(r) == req[r].step \in {"awardQuote", "rejectOthers", "commit"}
NeverLocked(j) == FALSE   \* mutant: awardJob without a transaction
JobLocked(j) == \E r \in Requests : InAward(r) /\ req[r].job = j
LockedBySelf(q) ==        \* mutant: the transaction's lock taken on a connection of its own
  \E r \in Requests : InAward(r) /\ req[r].quote = q
QuoteLocked(q) ==
  \E r \in Requests : \/ req[r].step \in {"rejectOthers", "commit"} /\ req[r].quote = q
                      \/ q \in req[r].losers

\* Mutant: no trigger and no CHECK.
AnyRowAccepted(j, s, hasExpiry) == TRUE

\* The trigger and CHECK publish_requires_expiry accept the row with status s.
RowAccepted(j, s, hasExpiry) ==
  /\ s = jobStatus[j] \/ <<jobStatus[j], s>> \in ValidTransitions
  /\ s = "draft" \/ hasExpiry

-----------------------------------------------------------------------------
(* Requests: requireJob and the check of what it returned.                 *)

CreateJob(j) ==
  /\ jobStatus[j] = "absent"
  /\ jobStatus' = [jobStatus EXCEPT ![j] = "draft"]
  /\ UNCHANGED <<expirySet, awardedQuote, edits, quoteStatus, req, told>>

Reading(op, step, j, q, target) ==
  [op |-> op, step |-> step, job |-> j, quote |-> q,
   seen |-> jobStatus[j], target |-> target, losers |-> {}]

Begin(r, op, step, j, q, target) ==
  /\ req[r] = Idle
  /\ jobStatus[j] # "absent"
  /\ req' = [req EXCEPT ![r] = Reading(op, step, j, q, target)]
  /\ UNCHANGED <<db, told>>

PublishJob(r, j) ==
  /\ jobStatus[j] = "draft"
  /\ Begin(r, "publishJob", "writeJob", j, NoQuote, "posted")

PatchJob(r, j) ==
  /\ jobStatus[j] \in {"draft", "posted"}
  /\ edits[j] < MaxEdits   \* the bound
  /\ Begin(r, "patchJob", "patchRow", j, NoQuote, "absent")

\* Mutant: the job is moved before the quote is inserted.
SubmitQuoteLast(r, q) ==
  /\ jobStatus[JobOf(q)] = "posted"
  /\ Begin(r, "submitQuote", "writeJob", JobOf(q), q, "quoting")

SubmitQuote(r, q) ==
  /\ jobStatus[JobOf(q)] \in {"posted", "quoting"}
  /\ Begin(r, "submitQuote", "insertQuote", JobOf(q), q, "quoting")

AwardJob(r, j, q) ==
  /\ jobStatus[j] = "quoting"
  /\ Begin(r, "awardJob", "readQuote", j, q, "awarded")

AcceptJob(r, j) ==
  /\ jobStatus[j] = "awarded"
  /\ Begin(r, "acceptJob", "readQuote", j, awardedQuote[j], "in_progress")

CompleteJob(r, j) ==
  /\ jobStatus[j] = "in_progress"
  /\ Begin(r, "completeJob", "writeJob", j, awardedQuote[j], "completed")

CancelJob(r, j) ==
  /\ jobStatus[j] \in Cancellable
  /\ Begin(r, "cancelJob", "writeJob", j, awardedQuote[j], "cancelled")

ForceJobStatus(r, j, s) ==
  /\ jobStatus[j] \notin Terminal
  /\ Begin(r, "forceJobStatus", "writeJob", j, NoQuote, s)

ViewQuote(r, j, q)      == Begin(r, "viewQuote", "readQuote", j, q, "viewed")
ShortlistQuote(r, j, q) == Begin(r, "shortlistQuote", "readQuote", j, q, "shortlisted")
RejectQuote(r, j, q)    == Begin(r, "rejectQuote", "readQuote", j, q, "rejected")
WithdrawQuote(r, j, q)  == Begin(r, "withdrawQuote", "readQuote", j, q, "withdrawn")

-----------------------------------------------------------------------------
(* Statements.                                                             *)

Goto(r, step) == req' = [req EXCEPT ![r].step = step]
Done(r)       == req' = [req EXCEPT ![r] = Idle]

\* Quote statuses each operation accepts; acceptJob does not look at it.
QuoteAllowed(op, s) ==
  CASE op = "viewQuote"      -> s = "pending"
    [] op = "shortlistQuote" -> s \in {"pending", "viewed"}
    [] op = "acceptJob"      -> s # "absent"
    [] OTHER                 -> s \in Live

\* findQuoteById, "Quote not found on this job", and the status check.
QuoteReadable(r) == LET q == req[r].quote IN
  /\ q \in Quotes
  /\ JobOf(q) = req[r].job
  /\ QuoteAllowed(req[r].op, quoteStatus[q])

ReadQuote(r) ==
  /\ req[r].step = "readQuote"
  /\ \/ /\ QuoteReadable(r)
        /\ Goto(r, CASE req[r].op = "awardJob"  -> "lockJob"
                     [] req[r].op = "acceptJob" -> "writeJob"
                     [] OTHER                   -> "writeQuote")
     \/ ~QuoteReadable(r) /\ Done(r)
  /\ UNCHANGED <<db, told>>

\* createQuote, then the update to 'quoting' if the job was read as 'posted'.
InsertQuote(r) == LET q == req[r].quote IN
  /\ req[r].step = "insertQuote"
  /\ \/ /\ quoteStatus[q] = "absent"
        /\ quoteStatus' = [quoteStatus EXCEPT ![q] = "pending"]
        /\ IF req[r].seen = "posted" THEN Goto(r, "writeJob") ELSE Done(r)
     \/ quoteStatus[q] # "absent" /\ Done(r) /\ UNCHANGED quoteStatus
  /\ UNCHANGED <<jobStatus, expirySet, awardedQuote, edits, told>>

\* updateJobStatus: UPDATE ... WHERE id, refused only by the trigger or CHECK.
WriteJob(r) == LET j == req[r].job
                   s == req[r].target
                   hasExpiry == expirySet[j] \/ req[r].op = "publishJob" IN
  /\ req[r].step = "writeJob"
  /\ ~JobLocked(j)
  /\ \/ /\ RowAccepted(j, s, hasExpiry)
        /\ jobStatus' = [jobStatus EXCEPT ![j] = s]
        /\ expirySet' = [expirySet EXCEPT ![j] = hasExpiry]
        /\ IF req[r].op \in {"completeJob", "cancelJob"} /\ req[r].quote # NoQuote
           THEN Goto(r, "notify") ELSE Done(r)
     \/ /\ ~RowAccepted(j, s, hasExpiry)
        /\ Done(r)
        /\ UNCHANGED <<jobStatus, expirySet>>
  /\ UNCHANGED <<awardedQuote, edits, quoteStatus, told>>

\* patchJob's UPDATE of the job's terms.
PatchRow(r) == LET j == req[r].job IN
  /\ req[r].step = "patchRow"
  /\ ~JobLocked(j)
  /\ edits' = [edits EXCEPT ![j] = IF @ < MaxEdits THEN @ + 1 ELSE @]
  /\ Done(r)
  /\ UNCHANGED <<jobStatus, expirySet, awardedQuote, quoteStatus, told>>

\* updateQuoteStatus: UPDATE ... WHERE id, whatever the row holds by now.  The
\* notice that follows a withdrawal goes to the customer.
WriteQuote(r) == LET q == req[r].quote IN
  /\ req[r].step = "writeQuote"
  /\ ~QuoteLocked(q)
  /\ quoteStatus' = [quoteStatus EXCEPT ![q] = req[r].target]
  /\ \/ req[r].op # "withdrawQuote" /\ Goto(r, "notify")
     \/ req[r].op = "withdrawQuote" /\ req[r].seen = "quoting" /\ Goto(r, "countActive")
     \/ req[r].op = "withdrawQuote" /\ req[r].seen # "quoting" /\ Done(r)
  /\ UNCHANGED <<jobStatus, expirySet, awardedQuote, edits, told>>

\* withdrawQuote: revert the job to 'posted' when no other quote is active.
OtherActive(q) ==
  \E o \in QuotesOn[JobOf(q)] \ {q} : quoteStatus[o] \in Live \cup {"awarded"}

CountActive(r) ==
  /\ req[r].step = "countActive"
  /\ IF OtherActive(req[r].quote) THEN Done(r)
     ELSE req' = [req EXCEPT ![r].step = "writeJob", ![r].target = "posted"]
  /\ UNCHANGED <<db, told>>

-----------------------------------------------------------------------------
(* The award transaction: its writes show when it commits.                 *)

\* UPDATE jobs ... WHERE id AND status = 'quoting'; no row: ROLLBACK.
LockJob(r) == LET j == req[r].job IN
  /\ req[r].step = "lockJob"
  /\ ~JobLocked(j)
  /\ IF jobStatus[j] = "quoting" /\ RowAccepted(j, "awarded", expirySet[j])
     THEN Goto(r, "awardQuote") ELSE Done(r)
  /\ UNCHANGED <<db, told>>

\* UPDATE quotes SET status = 'awarded' WHERE id, whatever the row holds by now.
AwardQuote(r) ==
  /\ req[r].step = "awardQuote"
  /\ ~QuoteLocked(req[r].quote)
  /\ Goto(r, "rejectOthers")
  /\ UNCHANGED <<db, told>>

\* UPDATE the other live quotes this statement can see.
RejectOthers(r) == LET q == req[r].quote IN
  /\ req[r].step = "rejectOthers"
  /\ req' = [req EXCEPT ![r].step = "commit",
       ![r].losers = {o \in QuotesOn[req[r].job] \ {q} : quoteStatus[o] \in Live}]
  /\ UNCHANGED <<db, told>>

Commit(r) == LET j == req[r].job
                 q == req[r].quote IN
  /\ req[r].step = "commit"
  /\ jobStatus'    = [jobStatus EXCEPT ![j] = "awarded"]
  /\ awardedQuote' = [awardedQuote EXCEPT ![j] = q]
  /\ quoteStatus'  = [o \in Quotes |-> IF o = q THEN "awarded"
                                       ELSE IF o \in req[r].losers THEN "rejected"
                                       ELSE quoteStatus[o]]
  /\ req' = [req EXCEPT ![r].step = "notify", ![r].losers = {}]
  /\ UNCHANGED <<expirySet, edits, told>>

\* notify() to the provider of the quote, after the write it reports.
Notify(r) ==
  /\ req[r].step = "notify"
  /\ told' = told \cup ({<<req[r].target, req[r].quote>>} \cap (Kept \X Quotes))
  /\ Done(r)
  /\ UNCHANGED db

-----------------------------------------------------------------------------
\* The server dies or a statement errors: committed statements stay, an open
\* transaction rolls back (its writes were never visible), the rest is lost.
Fail(r) == /\ MayFail
           /\ req[r] # Idle
           /\ Done(r)
           /\ UNCHANGED <<db, told>>

Proceed(r) == \/ ReadQuote(r) \/ InsertQuote(r) \/ WriteJob(r) \/ PatchRow(r)
              \/ WriteQuote(r) \/ CountActive(r)
              \/ LockJob(r) \/ AwardQuote(r) \/ RejectOthers(r) \/ Commit(r)
              \/ Notify(r)

Next ==
  \/ \E j \in Jobs : CreateJob(j)
  \/ \E r \in Requests :
       \/ \E j \in Jobs :
            \/ PublishJob(r, j) \/ PatchJob(r, j) \/ AcceptJob(r, j)
            \/ CompleteJob(r, j) \/ CancelJob(r, j)
            \/ \E s \in Forceable : ForceJobStatus(r, j, s)
            \/ \E q \in Quotes :
                 \/ AwardJob(r, j, q) \/ ViewQuote(r, j, q) \/ ShortlistQuote(r, j, q)
                 \/ RejectQuote(r, j, q) \/ WithdrawQuote(r, j, q)
       \/ \E q \in Quotes : SubmitQuote(r, q)
       \/ Proceed(r)
       \/ Fail(r)

Spec == Init /\ [][Next]_vars

\* Node runs every continuation that is ready and PostgreSQL queues the
\* waiters of a row lock, so a request that can keep running does run.
FairSpec == Spec /\ \A r \in Requests : SF_vars(Proceed(r))

-----------------------------------------------------------------------------
(* Properties that hold.                                                   *)

TypeOK == /\ jobStatus    \in [Jobs -> JobStatus]
          /\ expirySet    \in [Jobs -> BOOLEAN]
          /\ awardedQuote \in [Jobs -> Quotes \cup {NoQuote}]
          /\ edits        \in [Jobs -> 0..MaxEdits]
          /\ quoteStatus  \in [Quotes -> QuoteStatus]
          /\ req          \in [Requests -> RequestState]
          /\ told \subseteq (JobNotices \cup QuoteNotices) \X Quotes

BeforeAward == {"absent", "draft", "posted", "quoting"}
AfterAward  == {"awarded", "in_progress", "completed", "disputed"}

\* A job past its award names a quote that was submitted on that very job, and
\* a job not yet awarded names none: the two UPDATEs of awardJob, the trigger and
\* stale status writes of other requests never leave one without the other.
AwardConsistent ==
  \A j \in Jobs :
    /\ jobStatus[j] \in AfterAward  => awardedQuote[j] # NoQuote
    /\ jobStatus[j] \in BeforeAward => awardedQuote[j] = NoQuote
    /\ awardedQuote[j] # NoQuote =>
         /\ awardedQuote[j] \in QuotesOn[j]
         /\ quoteStatus[awardedQuote[j]] # "absent"

\* At most one quote of a job is ever marked awarded, and only the one the job
\* names, although two customers' tabs may award different quotes at once.
OneAwardedQuote ==
  \A q \in Quotes : quoteStatus[q] = "awarded" => awardedQuote[JobOf(q)] = q

\* A job whose status says it was quoted has a quote row: submitQuote inserts the
\* quote before it moves the job, so a failure in between loses the move only.
QuotingMeansQuoted ==
  \A j \in Jobs : jobStatus[j] \in {"quoting"} \cup AfterAward =>
    \E q \in QuotesOn[j] : quoteStatus[q] # "absent"

\* The awarded_quote_id that acceptJob, completeJob or cancelJob read before
\* its write is still the job's awarded quote when it writes and notifies.
ReadAwardStillHolds ==
  \A r \in Requests :
    /\ req[r].op \in {"acceptJob", "completeJob", "cancelJob"}
    /\ req[r].quote # NoQuote
    => awardedQuote[req[r].job] = req[r].quote

\* What a notice of kind k to the provider of q keeps saying rightly.  That a quote
\* was viewed, shortlisted or not selected is overwritten by the next UPDATE of its
\* status; all that stays is that the customer has dealt with it.
NoticeHolds(k, q) == LET j == JobOf(q) IN
  /\ k \in JobNotices => awardedQuote[j] = q
  /\ k = "completed" => jobStatus[j] \in {"completed", "closed"}
  /\ k = "cancelled" => jobStatus[j] \in {"cancelled", "closed"}
  /\ k \in QuoteNotices => quoteStatus[q] \notin {"absent", "pending"}

\* A notice about a job tells the truth for good: a provider told of an award,
\* completion or cancellation holds the award of a job that reached that status,
\* whatever failed or raced after the notice was decided on; and no quote whose
\* provider was told of a decision is ever pending again.
NoticesAreTrue == \A n \in told : NoticeHolds(n[1], n[2])

\* At most one award transaction works on a job at a time, and while it does no
\* other request moves the job out of 'quoting' under it.
AwardIsExclusive ==
  \A r \in Requests : InAward(r) =>
    /\ jobStatus[req[r].job] = "quoting"
    /\ \A s \in Requests \ {r} : InAward(s) => req[s].job # req[r].job

\* Once a job names an awarded quote it keeps naming it, through retries of the
\* award, cancellation and admin force-closing.
AwardIsFinal ==
  [][\A j \in Jobs : awardedQuote[j] # NoQuote => awardedQuote'[j] = awardedQuote[j]]_vars

\* The handlers implement the promise of JobContract.
Phase == [j \in Jobs |->
  CASE jobStatus[j] \in {"absent", "draft"}                    -> "private"
    [] jobStatus[j] \in {"posted", "quoting"}                  -> "open"
    [] jobStatus[j] \in {"awarded", "in_progress"}             -> "engaged"
    [] jobStatus[j] \in {"completed", "disputed"}              -> "done"
    [] jobStatus[j] \in {"cancelled", "expired"}               -> "void"
    [] OTHER                                                   -> "closed"]
Contract == INSTANCE JobContract WITH phase <- Phase, winner <- awardedQuote

\* Every behaviour of the handlers is one the contract allows.
ImplementsContract == Contract!Spec

\* Every request is answered: waiting for the row locks of award transactions,
\* which roll back and are retried, never blocks a request for ever.
RequestsFinish == \A r \in Requests : req[r] # Idle ~> req[r] = Idle

-----------------------------------------------------------------------------
(* The inductive invariant behind the safety properties.                   *)

\* Which statements each operation runs, and with what arguments.
Shape(p) ==
  \/ p = Idle
  \/ /\ p.job \in Jobs
     /\ p.losers # {} => p.step = "commit"
     /\ p.losers \subseteq QuotesOn[p.job] \ {p.quote}
     /\ \/ p.op = "publishJob" /\ p.step = "writeJob" /\ p.target = "posted"
        \/ p.op = "patchJob" /\ p.step = "patchRow"
        \/ /\ p.op = "submitQuote" /\ p.step \in {"insertQuote", "writeJob"}
           /\ p.target = "quoting" /\ p.quote \in QuotesOn[p.job]
        \/ /\ p.op = "awardJob" /\ p.target = "awarded"
           /\ p.step \in {"readQuote", "lockJob", "awardQuote", "rejectOthers",
                          "commit", "notify"}
           /\ p.step # "readQuote" => p.quote \in QuotesOn[p.job]
        \/ /\ p.op = "acceptJob" /\ p.step \in {"readQuote", "writeJob"}
           /\ p.target = "in_progress"
        \/ /\ p.op \in {"completeJob", "cancelJob"}
           /\ p.target = IF p.op = "cancelJob" THEN "cancelled" ELSE "completed"
           /\ p.step \in {"writeJob", "notify"}
           /\ p.step = "notify" => p.quote # NoQuote
        \/ p.op = "forceJobStatus" /\ p.step = "writeJob" /\ p.target \in Forceable
        \/ /\ p.op \in {"viewQuote", "shortlistQuote", "rejectQuote"}
           /\ p.target \in {"viewed", "shortlisted", "rejected"}
           /\ p.step \in {"readQuote", "writeQuote", "notify"}
           /\ p.step # "readQuote" => p.quote \in QuotesOn[p.job]
        \/ /\ p.op = "withdrawQuote"
           /\ p.target = IF p.step = "writeJob" THEN "posted" ELSE "withdrawn"
           /\ p.step \in {"readQuote", "writeQuote", "countActive", "writeJob"}
           /\ p.step # "readQuote" => p.quote \in QuotesOn[p.job]

WellFormed == \A r \in Requests : Shape(req[r])

\* The rows a request has acted on exist, and a notice still to be sent is true.
RowsExist ==
  \A r \in Requests : LET p == req[r] IN
    /\ p # Idle => jobStatus[p.job] # "absent"
    /\ \/ p.step \in {"writeQuote", "countActive", "lockJob", "awardQuote",
                      "rejectOthers", "commit", "notify"}
       \/ p.op \in {"submitQuote", "withdrawQuote"} /\ p.step = "writeJob"
       => quoteStatus[p.quote] # "absent"
    /\ \A q \in p.losers : quoteStatus[q] # "absent"

PendingNoticesAreTrue ==
  \A r \in Requests : req[r].step = "notify" => NoticeHolds(req[r].target, req[r].quote)

IInv == /\ TypeOK /\ WellFormed /\ RowsExist
        /\ AwardConsistent /\ OneAwardedQuote /\ QuotingMeansQuoted
        /\ ReadAwardStillHolds /\ AwardIsExclusive
        /\ PendingNoticesAreTrue /\ NoticesAreTrue
=============================================================================
