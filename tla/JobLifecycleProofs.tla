------------------------ MODULE JobLifecycleProofs ------------------------
(***************************************************************************)
(* Proofs about JobLifecycle, for any sets of jobs, providers and request  *)
(* slots.  TypeOK alone is not inductive: WriteJob stores the target that  *)
(* the request carries, so the shape of requests (WellFormed) goes with it.*)
(***************************************************************************)
EXTENDS JobLifecycle, TLAPS

Typed == TypeOK /\ WellFormed

\* One slot takes a well-formed request; the others keep theirs.
LEMMA ReqUpdate ==
  ASSUME Typed, NEW r \in Requests, NEW p \in RequestState, Shape(p),
         req' = [req EXCEPT ![r] = p]
  PROVE  req' \in [Requests -> RequestState] /\ WellFormed'
<1>1. req \in [Requests -> RequestState] BY DEF Typed, TypeOK
<1>2. \A s \in Requests : Shape(req[s]) BY DEF Typed, WellFormed
<1>3. req' \in [Requests -> RequestState] BY <1>1
<1>4. \A s \in Requests : Shape(req'[s])
  <2> TAKE s \in Requests
  <2>1. CASE s = r
    <3>1. req'[s] = p BY <1>1, <2>1
    <3> QED BY <3>1
  <2>2. CASE s # r
    <3>1. req'[s] = req[s] BY <1>1, <2>2
    <3> QED BY <3>1, <1>2
  <2> QED BY <2>1, <2>2
<1> QED BY <1>3, <1>4 DEF WellFormed

\* The empty slot is a well-formed request.
LEMMA IdleShape == Idle \in RequestState /\ Shape(Idle)
BY DEF Idle, RequestState, Shape, Ops, Steps, JobStatus, QuoteStatus

\* Ending a request keeps the slots typed.
LEMMA DoneTyped ==
  ASSUME Typed, NEW r \in Requests, Done(r)
  PROVE  req' \in [Requests -> RequestState] /\ WellFormed'
BY ReqUpdate, IdleShape DEF Done

\* A request begun with arguments of the right kind keeps the state typed.
LEMMA BeginTyped ==
  ASSUME Typed, NEW r \in Requests, NEW op \in Ops, NEW step \in Steps,
         NEW j \in Jobs, NEW q \in Quotes \cup {NoQuote},
         NEW target \in JobStatus \cup QuoteStatus,
         Shape(Reading(op, step, j, q, target)),
         Begin(r, op, step, j, q, target)
  PROVE  Typed'
<1>1. jobStatus[j] \in JobStatus BY DEF Typed, TypeOK
<1>2. Reading(op, step, j, q, target) \in RequestState
  BY <1>1 DEF Reading, RequestState
<1>3. req' \in [Requests -> RequestState] /\ WellFormed'
  BY <1>2, ReqUpdate DEF Begin
<1> QED BY <1>3 DEF Begin, Typed, TypeOK, db

\* The requests a customer, provider or admin can start.
Begins(r) ==
  \/ \E j \in Jobs :
       \/ PublishJob(r, j) \/ PatchJob(r, j) \/ AcceptJob(r, j)
       \/ CompleteJob(r, j) \/ CancelJob(r, j)
       \/ \E s \in Forceable : ForceJobStatus(r, j, s)
       \/ \E q \in Quotes :
            \/ AwardJob(r, j, q) \/ ViewQuote(r, j, q) \/ ShortlistQuote(r, j, q)
            \/ RejectQuote(r, j, q) \/ WithdrawQuote(r, j, q)
  \/ \E q \in Quotes : SubmitQuote(r, q)

LEMMA NextCases ==
  Next <=> \/ \E j \in Jobs : CreateJob(j)
           \/ \E r \in Requests : Begins(r) \/ Proceed(r) \/ Fail(r)
BY DEF Next, Begins

\* Starting a request keeps the state typed.
LEMMA BeginsTyped ==
  ASSUME Typed, NEW r \in Requests, Begins(r)
  PROVE  Typed'
<1>0. \A j \in Jobs : awardedQuote[j] \in Quotes \cup {NoQuote} BY DEF Typed, TypeOK
<1>a. /\ Forceable \subseteq JobStatus
      /\ {"absent", "posted", "quoting", "awarded", "in_progress", "completed",
          "cancelled", "viewed", "shortlisted", "rejected", "withdrawn"}
           \subseteq JobStatus \cup QuoteStatus
  BY DEF Forceable, JobStatus, QuoteStatus
<1>1. ASSUME NEW j \in Jobs, PublishJob(r, j) PROVE Typed'
  <2>2. Shape(Reading("publishJob", "writeJob", j, NoQuote, "posted")) BY <1>a DEF Shape, Reading
  <2>3. Begin(r, "publishJob", "writeJob", j, NoQuote, "posted") BY <1>1 DEF PublishJob
  <2> QED BY <2>2, <2>3, <1>0, <1>a, BeginTyped DEF Ops, Steps
<1>2. ASSUME NEW j \in Jobs, PatchJob(r, j) PROVE Typed'
  <2>2. Shape(Reading("patchJob", "patchRow", j, NoQuote, "absent")) BY <1>a DEF Shape, Reading
  <2>3. Begin(r, "patchJob", "patchRow", j, NoQuote, "absent") BY <1>2 DEF PatchJob
  <2> QED BY <2>2, <2>3, <1>0, <1>a, BeginTyped DEF Ops, Steps
<1>3. ASSUME NEW j \in Jobs, AcceptJob(r, j) PROVE Typed'
  <2>2. Shape(Reading("acceptJob", "readQuote", j, awardedQuote[j], "in_progress")) BY <1>a DEF Shape, Reading
  <2>3. Begin(r, "acceptJob", "readQuote", j, awardedQuote[j], "in_progress") BY <1>3 DEF AcceptJob
  <2> QED BY <2>2, <2>3, <1>0, <1>a, BeginTyped DEF Ops, Steps
<1>4. ASSUME NEW j \in Jobs, CompleteJob(r, j) PROVE Typed'
  <2>2. Shape(Reading("completeJob", "writeJob", j, awardedQuote[j], "completed")) BY <1>a DEF Shape, Reading
  <2>3. Begin(r, "completeJob", "writeJob", j, awardedQuote[j], "completed") BY <1>4 DEF CompleteJob
  <2> QED BY <2>2, <2>3, <1>0, <1>a, BeginTyped DEF Ops, Steps
<1>5. ASSUME NEW j \in Jobs, CancelJob(r, j) PROVE Typed'
  <2>2. Shape(Reading("cancelJob", "writeJob", j, awardedQuote[j], "cancelled")) BY <1>a DEF Shape, Reading
  <2>3. Begin(r, "cancelJob", "writeJob", j, awardedQuote[j], "cancelled") BY <1>5 DEF CancelJob
  <2> QED BY <2>2, <2>3, <1>0, <1>a, BeginTyped DEF Ops, Steps
<1>6. ASSUME NEW j \in Jobs, NEW s \in Forceable, ForceJobStatus(r, j, s) PROVE Typed'
  <2>2. Shape(Reading("forceJobStatus", "writeJob", j, NoQuote, s)) BY <1>a DEF Shape, Reading
  <2>3. Begin(r, "forceJobStatus", "writeJob", j, NoQuote, s) BY <1>6 DEF ForceJobStatus
  <2> QED BY <2>2, <2>3, <1>0, <1>a, BeginTyped DEF Ops, Steps
<1>7. ASSUME NEW j \in Jobs, NEW q \in Quotes, AwardJob(r, j, q) PROVE Typed'
  <2>2. Shape(Reading("awardJob", "readQuote", j, q, "awarded")) BY <1>a DEF Shape, Reading
  <2>3. Begin(r, "awardJob", "readQuote", j, q, "awarded") BY <1>7 DEF AwardJob
  <2> QED BY <2>2, <2>3, <1>0, <1>a, BeginTyped DEF Ops, Steps
<1>8. ASSUME NEW j \in Jobs, NEW q \in Quotes, ViewQuote(r, j, q) PROVE Typed'
  <2>2. Shape(Reading("viewQuote", "readQuote", j, q, "viewed")) BY <1>a DEF Shape, Reading
  <2>3. Begin(r, "viewQuote", "readQuote", j, q, "viewed") BY <1>8 DEF ViewQuote
  <2> QED BY <2>2, <2>3, <1>0, <1>a, BeginTyped DEF Ops, Steps
<1>9. ASSUME NEW j \in Jobs, NEW q \in Quotes, ShortlistQuote(r, j, q) PROVE Typed'
  <2>2. Shape(Reading("shortlistQuote", "readQuote", j, q, "shortlisted")) BY <1>a DEF Shape, Reading
  <2>3. Begin(r, "shortlistQuote", "readQuote", j, q, "shortlisted") BY <1>9 DEF ShortlistQuote
  <2> QED BY <2>2, <2>3, <1>0, <1>a, BeginTyped DEF Ops, Steps
<1>10. ASSUME NEW j \in Jobs, NEW q \in Quotes, RejectQuote(r, j, q) PROVE Typed'
  <2>2. Shape(Reading("rejectQuote", "readQuote", j, q, "rejected")) BY <1>a DEF Shape, Reading
  <2>3. Begin(r, "rejectQuote", "readQuote", j, q, "rejected") BY <1>10 DEF RejectQuote
  <2> QED BY <2>2, <2>3, <1>0, <1>a, BeginTyped DEF Ops, Steps
<1>11. ASSUME NEW j \in Jobs, NEW q \in Quotes, WithdrawQuote(r, j, q) PROVE Typed'
  <2>2. Shape(Reading("withdrawQuote", "readQuote", j, q, "withdrawn")) BY <1>a DEF Shape, Reading
  <2>3. Begin(r, "withdrawQuote", "readQuote", j, q, "withdrawn") BY <1>11 DEF WithdrawQuote
  <2> QED BY <2>2, <2>3, <1>0, <1>a, BeginTyped DEF Ops, Steps
<1>12. ASSUME NEW q \in Quotes, SubmitQuote(r, q) PROVE Typed'
  <2>1. JobOf(q) \in Jobs /\ q \in QuotesOn[JobOf(q)] BY DEF Quotes, JobOf, QuotesOn
  <2>2. Shape(Reading("submitQuote", "insertQuote", JobOf(q), q, "quoting")) BY <2>1, <1>a DEF Shape, Reading
  <2>3. Begin(r, "submitQuote", "insertQuote", JobOf(q), q, "quoting") BY <1>12 DEF SubmitQuote
  <2> QED BY <2>1, <2>2, <2>3, <1>0, <1>a, BeginTyped DEF Ops, Steps
<1> QED BY <1>1, <1>2, <1>3, <1>4, <1>5, <1>6, <1>7, <1>8, <1>9, <1>10, <1>11, <1>12 DEF Begins

\* A quote on a job is a quote, and that job is its job.
LEMMA QuotesOnFacts ==
  /\ \A j \in Jobs : QuotesOn[j] = {j} \X Providers /\ QuotesOn[j] \subseteq Quotes
  /\ \A j \in Jobs : \A q \in QuotesOn[j] : JobOf(q) = j
  /\ \A q \in Quotes : JobOf(q) \in Jobs /\ q \in QuotesOn[JobOf(q)]
BY DEF QuotesOn, Quotes, JobOf

\* A well-formed request names a job of the right kind and a target it may store.
LEMMA ShapeFacts ==
  ASSUME Typed, NEW r \in Requests
  PROVE  /\ req[r] \in RequestState
         /\ Shape(req[r])
         /\ req[r].step # "idle" => req[r].job \in Jobs
         /\ req[r].step = "writeJob" => req[r].target \in JobStatus \ {"absent", "awarded"}
         /\ req[r].step = "writeQuote" =>
              /\ req[r].target \in {"viewed", "shortlisted", "rejected", "withdrawn"}
              /\ req[r].quote \in QuotesOn[req[r].job]
         /\ req[r].step = "insertQuote" => /\ req[r].op = "submitQuote"
                                           /\ req[r].quote \in QuotesOn[req[r].job]
         /\ req[r].step = "notify" =>
              /\ req[r].target \in JobNotices \cup QuoteNotices
              /\ req[r].quote # NoQuote
         /\ req[r].step = "countActive" => /\ req[r].op = "withdrawQuote"
                                           /\ req[r].quote \in QuotesOn[req[r].job]
         /\ req[r].step \in {"lockJob", "awardQuote", "rejectOthers", "commit"} =>
              /\ req[r].op = "awardJob"
              /\ req[r].target = "awarded"
              /\ req[r].quote \in QuotesOn[req[r].job]
<1>1. req[r] \in RequestState BY DEF Typed, TypeOK
<1>2. Shape(req[r]) BY DEF Typed, WellFormed
<1>3. \A j \in Jobs : NoQuote \notin QuotesOn[j] BY QuotesOnFacts, NoQuoteAssumption
<1>4. CASE req[r] = Idle BY <1>1, <1>2, <1>4 DEF Idle
<1>5. CASE req[r] # Idle
  BY <1>1, <1>2, <1>3, <1>5 DEF Shape, Forceable, JobStatus, JobNotices, QuoteNotices
<1> QED BY <1>4, <1>5

\* Moving on to another statement of the same operation.
LEMMA GotoTyped ==
  ASSUME Typed, NEW r \in Requests, NEW step \in Steps,
         Shape([req[r] EXCEPT !.step = step]), Goto(r, step)
  PROVE  req' \in [Requests -> RequestState] /\ WellFormed'
<1>1. req[r] \in RequestState BY ShapeFacts
<1>2. [req[r] EXCEPT !.step = step] \in RequestState BY <1>1 DEF RequestState
<1>3. req' = [req EXCEPT ![r] = [req[r] EXCEPT !.step = step]] BY DEF Goto
<1> QED BY <1>2, <1>3, ReqUpdate

\* Every statement keeps the state typed.
LEMMA ProceedTyped ==
  ASSUME Typed, NEW r \in Requests, Proceed(r)
  PROVE  Typed'
<1> DEFINE ReqTyped == req' \in [Requests -> RequestState] /\ WellFormed'
<1>0. Done(r) => ReqTyped BY DoneTyped
<1>s. Steps = {"idle", "readQuote", "insertQuote", "writeJob", "patchRow", "writeQuote",
               "countActive", "lockJob", "awardQuote", "rejectOthers", "commit", "notify"}
  BY DEF Steps
<1>1. ASSUME ReadQuote(r) PROVE Typed'
  <2>1. CASE QuoteReadable(r) /\ ~Done(r)
    <3> DEFINE next == CASE req[r].op = "awardJob"  -> "lockJob"
                         [] req[r].op = "acceptJob" -> "writeJob"
                         [] OTHER                   -> "writeQuote"
    <3>1. Goto(r, next) /\ next \in Steps BY <1>1, <2>1, <1>s DEF ReadQuote
    <3>2. req[r].quote \in QuotesOn[req[r].job]
      BY <1>1, <2>1, QuotesOnFacts, ShapeFacts DEF QuoteReadable
    <3>3. Shape([req[r] EXCEPT !.step = next])
      BY <1>1, <3>2, ShapeFacts DEF Shape, Idle, ReadQuote, RequestState
    <3>4. ReqTyped BY <3>1, <3>3, GotoTyped
    <3> QED BY <1>1, <3>4 DEF ReadQuote, Typed, TypeOK, db
  <2>2. CASE Done(r)
    BY <1>1, <1>0, <2>2 DEF ReadQuote, Typed, TypeOK, db
  <2> QED BY <1>1, <2>1, <2>2 DEF ReadQuote
<1>2. ASSUME InsertQuote(r) PROVE Typed'
  <2>1. Shape([req[r] EXCEPT !.step = "writeJob"])
    BY <1>2, ShapeFacts DEF Shape, Idle, InsertQuote, RequestState
  <2>2. ReqTyped BY <1>2, <2>1, <1>0, <1>s, GotoTyped DEF InsertQuote
  <2>3. quoteStatus' \in [Quotes -> QuoteStatus]
    BY <1>2 DEF InsertQuote, Typed, TypeOK, QuoteStatus
  <2> QED BY <1>2, <2>2, <2>3 DEF InsertQuote, Typed, TypeOK
<1>3. ASSUME WriteJob(r) PROVE Typed'
  <2>1. req[r].op \in {"completeJob", "cancelJob"} /\ req[r].quote # NoQuote
        => Shape([req[r] EXCEPT !.step = "notify"])
    BY <1>3, ShapeFacts DEF Shape, Idle, WriteJob, RequestState
  <2>2. ReqTyped BY <1>3, <2>1, <1>0, <1>s, GotoTyped DEF WriteJob
  <2>3. jobStatus' \in [Jobs -> JobStatus] /\ expirySet' \in [Jobs -> BOOLEAN]
    BY <1>3, ShapeFacts DEF WriteJob, Typed, TypeOK
  <2> QED BY <1>3, <2>2, <2>3 DEF WriteJob, Typed, TypeOK
<1>4. ASSUME PatchRow(r) PROVE Typed'
  <2>1. edits' \in [Jobs -> 0..MaxEdits]
    <3>1. edits \in [Jobs -> 0..MaxEdits] /\ MaxEdits \in Nat
      BY BoundsAssumption DEF Typed, TypeOK
    <3>2. \A n \in 0..MaxEdits : (IF n < MaxEdits THEN n + 1 ELSE n) \in 0..MaxEdits
      BY <3>1
    <3> QED BY <1>4, <3>1, <3>2 DEF PatchRow
  <2>2. ReqTyped BY <1>4, <1>0 DEF PatchRow
  <2> QED BY <1>4, <2>1, <2>2 DEF PatchRow, Typed, TypeOK
<1>5. ASSUME WriteQuote(r) PROVE Typed'
  <2>1. IF req[r].op = "withdrawQuote" THEN Shape([req[r] EXCEPT !.step = "countActive"])
        ELSE Shape([req[r] EXCEPT !.step = "notify"])
    BY <1>5, ShapeFacts DEF Shape, Idle, WriteQuote, RequestState
  <2>2. ReqTyped BY <1>5, <2>1, <1>0, <1>s, GotoTyped DEF WriteQuote
  <2>3. quoteStatus' \in [Quotes -> QuoteStatus]
    BY <1>5, ShapeFacts DEF WriteQuote, Typed, TypeOK, QuoteStatus
  <2> QED BY <1>5, <2>2, <2>3 DEF WriteQuote, Typed, TypeOK
<1>6. ASSUME CountActive(r) PROVE Typed'
  <2> DEFINE p == [req[r] EXCEPT !.step = "writeJob", !.target = "posted"]
  <2>1. Shape(p)
    BY <1>6, ShapeFacts DEF Shape, Idle, CountActive, RequestState
  <2>2. p \in RequestState BY ShapeFacts, <1>s DEF RequestState, JobStatus
  <2>3. Done(r) \/ req' = [req EXCEPT ![r] = p] BY <1>6 DEF CountActive
  <2>4. ReqTyped BY <2>1, <2>2, <2>3, <1>0, ReqUpdate
  <2> QED BY <1>6, <2>4 DEF CountActive, Typed, TypeOK, db
<1>7. ASSUME LockJob(r) PROVE Typed'
  <2>1. Shape([req[r] EXCEPT !.step = "awardQuote"])
    BY <1>7, ShapeFacts DEF Shape, Idle, LockJob, RequestState
  <2>2. ReqTyped BY <1>7, <2>1, <1>0, <1>s, GotoTyped DEF LockJob
  <2> QED BY <1>7, <2>2 DEF LockJob, Typed, TypeOK, db
<1>8. ASSUME AwardQuote(r) PROVE Typed'
  <2>1. Shape([req[r] EXCEPT !.step = "rejectOthers"])
    BY <1>8, ShapeFacts DEF Shape, Idle, AwardQuote, RequestState
  <2>2. ReqTyped BY <1>8, <2>1, <1>s, GotoTyped DEF AwardQuote
  <2> QED BY <1>8, <2>2 DEF AwardQuote, Typed, TypeOK, db
<1>9. ASSUME RejectOthers(r) PROVE Typed'
  <2> DEFINE losers == {o \in QuotesOn[req[r].job] \ {req[r].quote} : quoteStatus[o] \in Live}
             p == [req[r] EXCEPT !.step = "commit", !.losers = losers]
  <2>1. losers \subseteq QuotesOn[req[r].job] \ {req[r].quote} OBVIOUS
  <2>2. losers \subseteq Quotes BY <1>9, ShapeFacts, QuotesOnFacts DEF RejectOthers
  <2> HIDE DEF losers
  <2>3. Shape(p) BY <1>9, <2>1, ShapeFacts DEF Shape, Idle, RejectOthers, RequestState
  <2>4. p \in RequestState BY <2>2, ShapeFacts, <1>s DEF RequestState
  <2>5. req' = [req EXCEPT ![r] = p] BY <1>9 DEF RejectOthers, losers
  <2>6. ReqTyped BY <2>3, <2>4, <2>5, ReqUpdate
  <2> QED BY <1>9, <2>6 DEF RejectOthers, Typed, TypeOK, db
<1>10. ASSUME Commit(r) PROVE Typed'
  <2> DEFINE p == [req[r] EXCEPT !.step = "notify", !.losers = {}]
  <2>1. Shape(p) BY <1>10, ShapeFacts DEF Shape, Idle, Commit, RequestState
  <2>2. p \in RequestState BY ShapeFacts, <1>s DEF RequestState
  <2>3. ReqTyped BY <1>10, <2>1, <2>2, ReqUpdate DEF Commit
  <2>4. jobStatus' \in [Jobs -> JobStatus]
    BY <1>10 DEF Commit, Typed, TypeOK, JobStatus
  <2>5. quoteStatus' \in [Quotes -> QuoteStatus]
    BY <1>10 DEF Commit, Typed, TypeOK, QuoteStatus
  <2>6. awardedQuote' \in [Jobs -> Quotes \cup {NoQuote}]
    BY <1>10, ShapeFacts, QuotesOnFacts DEF Commit, Typed, TypeOK
  <2> QED BY <1>10, <2>3, <2>4, <2>5, <2>6 DEF Commit, Typed, TypeOK
<1>11. ASSUME Notify(r) PROVE Typed'
  <2>1. <<req[r].target, req[r].quote>> \in (JobNotices \cup QuoteNotices) \X Quotes
    BY <1>11, ShapeFacts DEF Notify, RequestState
  <2>2. ReqTyped BY <1>11, <1>0 DEF Notify
  <2> QED BY <1>11, <2>1, <2>2 DEF Notify, Typed, TypeOK, db
<1> QED
  BY <1>1, <1>2, <1>3, <1>4, <1>5, <1>6, <1>7, <1>8, <1>9, <1>10, <1>11 DEF Proceed

\* Typed is an inductive invariant.
LEMMA TypedStep == Typed /\ [Next]_vars => Typed'
<1> SUFFICES ASSUME Typed, [Next]_vars PROVE Typed'
  OBVIOUS
<1>1. ASSUME NEW j \in Jobs, CreateJob(j) PROVE Typed'
  <2>1. jobStatus' \in [Jobs -> JobStatus]
    BY <1>1 DEF CreateJob, Typed, TypeOK, JobStatus
  <2> QED BY <1>1, <2>1 DEF CreateJob, Typed, TypeOK, WellFormed
<1>2. ASSUME NEW r \in Requests, Fail(r) PROVE Typed'
  BY <1>2, DoneTyped DEF Fail, Typed, TypeOK, db
<1>3. CASE UNCHANGED vars
  BY <1>3 DEF vars, db, Typed, TypeOK, WellFormed
<1> QED BY <1>1, <1>2, <1>3, NextCases, BeginsTyped, ProceedTyped

\* Every reachable state has the types of the tables' columns and the handlers'
\* variables, for any number of jobs, providers and concurrent requests.
THEOREM TypeCorrect == Spec => []TypeOK
<1>1. Init => Typed
  BY IdleShape, BoundsAssumption
  DEF Init, Typed, TypeOK, WellFormed, JobStatus, QuoteStatus
<1>2. Typed => TypeOK BY DEF Typed
<1> QED BY <1>1, <1>2, TypedStep, PTL DEF Spec

-----------------------------------------------------------------------------
(***************************************************************************)
(* The inductive invariant IInv of JobLifecycle and what follows from it.  *)
(* Every step is first summed up by what it may do to the rows (RowStep);  *)
(* the invariants over rows follow from that summary alone, and only the   *)
(* request that moved needs a look at its statement.                       *)
(***************************************************************************)

\* What one step may do to the jobs and quotes tables.
RowStep ==
  /\ \A j \in Jobs : jobStatus'[j] # jobStatus[j] =>
       <<jobStatus[j], jobStatus'[j]>> \in ValidTransitions \cup {<<"absent", "draft">>}
  /\ \A j \in Jobs : awardedQuote'[j] # awardedQuote[j] =>
       /\ jobStatus[j] = "quoting"
       /\ jobStatus'[j] = "awarded"
       /\ awardedQuote'[j] \in QuotesOn[j]
       /\ quoteStatus[awardedQuote'[j]] # "absent"
  /\ \A j \in Jobs : jobStatus'[j] = "awarded" /\ jobStatus[j] # "awarded" =>
       awardedQuote'[j] # NoQuote
  /\ \A j \in Jobs : jobStatus'[j] = "quoting" /\ jobStatus[j] # "quoting" =>
       \E q \in QuotesOn[j] : quoteStatus[q] # "absent"
  /\ \A q \in Quotes : quoteStatus[q] # "absent" => quoteStatus'[q] # "absent"
  /\ \A q \in Quotes : quoteStatus[q] \notin {"absent", "pending"} =>
       quoteStatus'[q] \notin {"absent", "pending"}
  /\ \A q \in Quotes : quoteStatus'[q] = "awarded" /\ quoteStatus[q] # "awarded" =>
       awardedQuote'[JobOf(q)] = q

\* Steps that write no row are such steps.
LEMMA NoRowStep ==
  ASSUME jobStatus' = jobStatus, awardedQuote' = awardedQuote, quoteStatus' = quoteStatus
  PROVE  RowStep
BY DEF RowStep

\* Statements keep to RowStep.
LEMMA ProceedRowStep ==
  ASSUME IInv, NEW r \in Requests, Proceed(r)
  PROVE  RowStep
<1> USE DEF IInv
<1>0. Typed BY DEF Typed
<1>t. TypeOK BY DEF IInv
<1>1. ASSUME InsertQuote(r) PROVE RowStep
  <2>1. req[r].quote \in Quotes BY <1>0, <1>1, ShapeFacts, QuotesOnFacts DEF InsertQuote
  <2> QED BY <1>1, <2>1, <1>t DEF InsertQuote, RowStep, TypeOK
<1>2. ASSUME WriteJob(r) PROVE RowStep
  <2> DEFINE j == req[r].job
             s == req[r].target
  <2>1. j \in Jobs /\ s \in JobStatus \ {"absent", "awarded"}
    BY <1>0, <1>2, ShapeFacts DEF WriteJob
  <2>2. s = "quoting" => req[r].quote \in QuotesOn[j] /\ quoteStatus[req[r].quote] # "absent"
    <3>1. s = "quoting" => req[r].op = "submitQuote" /\ req[r].quote \in QuotesOn[j]
      BY <1>0, <1>2, ShapeFacts DEF WriteJob, Shape, Idle, Forceable
    <3> QED BY <3>1, <1>2 DEF WriteJob, RowsExist
  <2>3. awardedQuote' = awardedQuote /\ quoteStatus' = quoteStatus BY <1>2 DEF WriteJob
  <2>4. \/ jobStatus' = jobStatus
        \/ /\ jobStatus' = [jobStatus EXCEPT ![j] = s]
           /\ s = jobStatus[j] \/ <<jobStatus[j], s>> \in ValidTransitions
    BY <1>2 DEF WriteJob, RowAccepted
  <2> HIDE DEF j, s
  <2> QED BY <2>1, <2>2, <2>3, <2>4, <1>t DEF RowStep, TypeOK
<1>3. ASSUME WriteQuote(r) PROVE RowStep
  <2>1. req[r].quote \in Quotes /\ req[r].target \notin {"absent", "pending", "awarded"}
    BY <1>0, <1>3, ShapeFacts, QuotesOnFacts DEF WriteQuote
  <2> QED BY <1>3, <2>1, <1>t DEF WriteQuote, RowStep, TypeOK
<1>4. ASSUME Commit(r) PROVE RowStep
  <2> DEFINE j == req[r].job
             q == req[r].quote
  <2>1. j \in Jobs /\ q \in QuotesOn[j] /\ JobOf(q) = j /\ q # NoQuote
    BY <1>0, <1>4, ShapeFacts, QuotesOnFacts, NoQuoteAssumption DEF Commit
  <2>2. quoteStatus[q] # "absent" /\ jobStatus[j] = "quoting"
    BY <1>4 DEF Commit, RowsExist, AwardIsExclusive, InAward
  <2>3. /\ jobStatus' = [jobStatus EXCEPT ![j] = "awarded"]
        /\ awardedQuote' = [awardedQuote EXCEPT ![j] = q]
    BY <1>4 DEF Commit
  <2>4. \A o \in Quotes : quoteStatus'[o] = IF o = q THEN "awarded"
                                            ELSE IF o \in req[r].losers THEN "rejected"
                                            ELSE quoteStatus[o]
    BY <1>4 DEF Commit
  <2>5. <<"quoting", "awarded">> \in ValidTransitions BY DEF ValidTransitions
  <2> HIDE DEF j, q
  <2> QED BY <2>1, <2>2, <2>3, <2>4, <2>5, <1>t DEF RowStep, TypeOK
<1>5. ASSUME ReadQuote(r) \/ PatchRow(r) \/ CountActive(r) \/ LockJob(r) \/ AwardQuote(r)
             \/ RejectOthers(r) \/ Notify(r)
      PROVE  RowStep
  <2>1. jobStatus' = jobStatus /\ awardedQuote' = awardedQuote /\ quoteStatus' = quoteStatus
    BY <1>5 DEF ReadQuote, PatchRow, CountActive, LockJob, AwardQuote, RejectOthers,
                Notify, db
  <2> QED BY <2>1, NoRowStep
<1> QED BY <1>1, <1>2, <1>3, <1>4, <1>5 DEF Proceed

\* A request that starts reads rows and writes none.
LEMMA BeginsReadOnly ==
  ASSUME NEW r \in Requests, Begins(r)
  PROVE  UNCHANGED <<db, told>>
BY DEF Begins, Begin, PublishJob, PatchJob, AcceptJob, CompleteJob, CancelJob,
       ForceJobStatus, AwardJob, ViewQuote, ShortlistQuote, RejectQuote, WithdrawQuote,
       SubmitQuote

\* Every step keeps to RowStep.
LEMMA NextRowStep == IInv /\ [Next]_vars => RowStep
<1> SUFFICES ASSUME IInv, [Next]_vars PROVE RowStep
  OBVIOUS
<1>1. ASSUME NEW j \in Jobs, CreateJob(j) PROVE RowStep
  BY <1>1 DEF CreateJob, RowStep, IInv, TypeOK
<1>2. ASSUME NEW r \in Requests, Begins(r) PROVE RowStep
  BY <1>2, BeginsReadOnly, NoRowStep DEF db
<1>3. ASSUME NEW r \in Requests, Fail(r) PROVE RowStep
  BY <1>3, NoRowStep DEF Fail, db
<1>4. CASE UNCHANGED vars BY <1>4, NoRowStep DEF vars, db
<1> QED BY <1>1, <1>2, <1>3, <1>4, NextCases, ProceedRowStep

-----------------------------------------------------------------------------
(* Invariants over rows follow from RowStep.                               *)

\* Where a permitted transition can come from and lead to.
LEMMA TransitionFacts ==
  ASSUME NEW s, NEW t, <<s, t>> \in ValidTransitions \cup {<<"absent", "draft">>}
  PROVE  /\ t \in BeforeAward => s \in BeforeAward
         /\ t \in AfterAward \ {"awarded"} => s \in AfterAward
         /\ t = "awarded" => s = "quoting"
         /\ s = "completed" => t = "closed"
         /\ s = "cancelled" => t = "closed"
         /\ s # "closed"
         /\ t # "absent"
BY DEF ValidTransitions, BeforeAward, AfterAward

LEMMA AwardConsistentStep ==
  ASSUME IInv, RowStep, TypeOK'
  PROVE  AwardConsistent' /\ QuotingMeansQuoted' /\ OneAwardedQuote'
<1> USE DEF IInv, RowStep
<1>1. ASSUME NEW j \in Jobs
      PROVE  /\ jobStatus'[j] \in AfterAward  => awardedQuote'[j] # NoQuote
             /\ jobStatus'[j] \in BeforeAward => awardedQuote'[j] = NoQuote
             /\ awardedQuote'[j] # NoQuote =>
                  /\ awardedQuote'[j] \in QuotesOn[j]
                  /\ quoteStatus'[awardedQuote'[j]] # "absent"
  <2>1. CASE awardedQuote'[j] = awardedQuote[j]
    <3>1. \A q \in QuotesOn[j] : quoteStatus[q] # "absent" => quoteStatus'[q] # "absent"
      BY QuotesOnFacts
    <3> QED BY <2>1, <3>1, TransitionFacts DEF AwardConsistent
  <2>2. CASE awardedQuote'[j] # awardedQuote[j]
    BY <2>2, QuotesOnFacts DEF BeforeAward, AfterAward, AwardConsistent
  <2> QED BY <2>1, <2>2
<1>2. ASSUME NEW j \in Jobs, jobStatus'[j] \in {"quoting"} \cup AfterAward
      PROVE  \E q \in QuotesOn[j] : quoteStatus'[q] # "absent"
  <2>1. CASE jobStatus'[j] = "quoting"
    BY <2>1, QuotesOnFacts DEF QuotingMeansQuoted
  <2>2. CASE jobStatus'[j] \in AfterAward
    BY <2>2, <1>1
  <2> QED BY <1>2, <2>1, <2>2
<1>3. ASSUME NEW q \in Quotes, quoteStatus'[q] = "awarded"
      PROVE  awardedQuote'[JobOf(q)] = q
  <2>1. JobOf(q) \in Jobs /\ q # NoQuote BY QuotesOnFacts, NoQuoteAssumption
  <2>2. CASE quoteStatus[q] = "awarded"
    <3>1. awardedQuote[JobOf(q)] = q BY <2>2 DEF OneAwardedQuote
    <3>2. jobStatus[JobOf(q)] # "quoting"
      BY <3>1, <2>1 DEF AwardConsistent, BeforeAward
    <3> QED BY <2>1, <3>1, <3>2
  <2> QED BY <1>3, <2>2
<1> QED BY <1>1, <1>2, <1>3 DEF AwardConsistent, QuotingMeansQuoted, OneAwardedQuote

-----------------------------------------------------------------------------
(* Invariants of one request slot.                                         *)

SlotOK(r) == LET p == req[r] IN
  /\ p # Idle => jobStatus[p.job] # "absent"
  /\ \/ p.step \in {"writeQuote", "countActive", "lockJob", "awardQuote",
                    "rejectOthers", "commit", "notify"}
     \/ p.op \in {"submitQuote", "withdrawQuote"} /\ p.step = "writeJob"
     => quoteStatus[p.quote] # "absent"
  /\ \A q \in p.losers : quoteStatus[q] # "absent"
  /\ p.op \in {"acceptJob", "completeJob", "cancelJob"} /\ p.quote # NoQuote
     => awardedQuote[p.job] = p.quote
  /\ p.step = "notify" => NoticeHolds(p.target, p.quote)

LEMMA SlotsOK ==
  RowsExist /\ ReadAwardStillHolds /\ PendingNoticesAreTrue
    <=> \A r \in Requests : SlotOK(r)
BY DEF RowsExist, ReadAwardStillHolds, PendingNoticesAreTrue, SlotOK

\* A named award is never renamed.
LEMMA AwardKept ==
  ASSUME IInv, RowStep, NEW j \in Jobs, awardedQuote[j] # NoQuote
  PROVE  awardedQuote'[j] = awardedQuote[j]
BY DEF IInv, RowStep, AwardConsistent, BeforeAward

\* What a permitted change of status preserves.
LEMMA StatusKept ==
  ASSUME RowStep, NEW j \in Jobs
  PROVE  /\ jobStatus[j] # "absent" => jobStatus'[j] # "absent"
         /\ jobStatus[j] \in {"completed", "closed"} => jobStatus'[j] \in {"completed", "closed"}
         /\ jobStatus[j] \in {"cancelled", "closed"} => jobStatus'[j] \in {"cancelled", "closed"}
BY TransitionFacts DEF RowStep

\* What a notice says goes on holding.
LEMMA NoticeKept ==
  ASSUME IInv, RowStep, NEW k, NEW q \in Quotes, NoticeHolds(k, q)
  PROVE  NoticeHolds(k, q)'
<1>1. JobOf(q) \in Jobs /\ q # NoQuote BY QuotesOnFacts, NoQuoteAssumption
<1>2. k \in JobNotices => awardedQuote'[JobOf(q)] = q BY <1>1, AwardKept DEF NoticeHolds
<1>3. k \in QuoteNotices => quoteStatus'[q] \notin {"absent", "pending"}
  BY DEF NoticeHolds, RowStep
<1> QED BY <1>1, <1>2, <1>3, StatusKept DEF NoticeHolds

\* A request that does not move keeps its invariants whatever others write.
LEMMA OtherSlots ==
  ASSUME IInv, RowStep, NEW s \in Requests, req'[s] = req[s]
  PROVE  SlotOK(s)'
<1>0. Typed BY DEF IInv, Typed
<1>1. SlotOK(s) BY SlotsOK DEF IInv
<1>2. CASE req[s] = Idle BY <1>2, NoQuoteAssumption DEF SlotOK, Idle
<1>3. CASE req[s] # Idle
  <2>1. req[s].job \in Jobs /\ req[s].losers \subseteq Quotes
        /\ req[s].quote \in Quotes \cup {NoQuote}
    BY <1>0, <1>3, ShapeFacts DEF Shape, RequestState
  <2>2. /\ req[s].step \in {"writeQuote", "countActive", "lockJob", "awardQuote",
                            "rejectOthers", "commit", "notify"} => req[s].quote \in Quotes
        /\ req[s].op \in {"submitQuote", "withdrawQuote"} /\ req[s].step = "writeJob"
             => req[s].quote \in Quotes
    BY <1>0, <1>3, <2>1, ShapeFacts, QuotesOnFacts DEF Shape
  <2>3. \A q \in Quotes : quoteStatus[q] # "absent" => quoteStatus'[q] # "absent"
    BY DEF RowStep
  <2>4. awardedQuote[req[s].job] # NoQuote =>
          awardedQuote'[req[s].job] = awardedQuote[req[s].job]
    BY <2>1, AwardKept
  <2>5. req[s].step = "notify" => NoticeHolds(req[s].target, req[s].quote)'
    BY <1>1, <2>2, NoticeKept DEF SlotOK
  <2>6. /\ jobStatus'[req[s].job] # "absent"
        /\ req[s].op \in {"acceptJob", "completeJob", "cancelJob"} /\ req[s].quote # NoQuote
           => awardedQuote'[req[s].job] = req[s].quote
    BY <1>1, <1>3, <2>1, <2>4, StatusKept DEF SlotOK
  <2> QED BY <1>1, <2>1, <2>2, <2>3, <2>5, <2>6 DEF SlotOK
<1> QED BY <1>2, <1>3

\* The empty slot has nothing to keep.
LEMMA DoneSlot ==
  ASSUME Typed, NEW r \in Requests, Done(r)
  PROVE  SlotOK(r)'
<1>1. req'[r] = Idle BY DEF Done, Typed, TypeOK
<1> QED BY <1>1, NoQuoteAssumption DEF SlotOK, Idle

\* A request that starts has read its job and, if any, its award.
LEMMA BeginSlot ==
  ASSUME IInv, NEW r \in Requests, NEW j \in Jobs, NEW op, NEW step, NEW q, NEW target,
         step \in {"writeJob", "patchRow", "insertQuote", "readQuote"},
         step = "writeJob" => op \notin {"submitQuote", "withdrawQuote"},
         op \in {"acceptJob", "completeJob", "cancelJob"} => q = awardedQuote[j],
         Begin(r, op, step, j, q, target)
  PROVE  SlotOK(r)'
<1>1. req'[r] = Reading(op, step, j, q, target) BY DEF Begin, IInv, TypeOK
<1>2. UNCHANGED db BY DEF Begin
<1> QED BY <1>1, <1>2 DEF Begin, SlotOK, Reading, db

LEMMA BeginsSlot ==
  ASSUME IInv, NEW r \in Requests, Begins(r)
  PROVE  SlotOK(r)'
<1>1. ASSUME NEW j \in Jobs,
             \/ PublishJob(r, j) \/ PatchJob(r, j) \/ AcceptJob(r, j)
             \/ CompleteJob(r, j) \/ CancelJob(r, j)
             \/ \E s \in Forceable : ForceJobStatus(r, j, s)
      PROVE  SlotOK(r)'
  BY <1>1, BeginSlot
  DEF PublishJob, PatchJob, AcceptJob, CompleteJob, CancelJob, ForceJobStatus
<1>2. ASSUME NEW j \in Jobs, NEW q \in Quotes,
             \/ AwardJob(r, j, q) \/ ViewQuote(r, j, q) \/ ShortlistQuote(r, j, q)
             \/ RejectQuote(r, j, q) \/ WithdrawQuote(r, j, q)
      PROVE  SlotOK(r)'
  BY <1>2, BeginSlot
  DEF AwardJob, ViewQuote, ShortlistQuote, RejectQuote, WithdrawQuote
<1>3. ASSUME NEW q \in Quotes, SubmitQuote(r, q) PROVE SlotOK(r)'
  BY <1>3, BeginSlot, QuotesOnFacts DEF SubmitQuote
<1> QED BY <1>1, <1>2, <1>3 DEF Begins

\* A statement leaves its own request with true snapshots.
LEMMA ProceedSlot ==
  ASSUME IInv, RowStep, NEW r \in Requests, Proceed(r)
  PROVE  SlotOK(r)'
<1>0. Typed /\ TypeOK /\ req \in [Requests -> RequestState]
  BY DEF IInv, Typed, TypeOK
<1>s. SlotOK(r) BY SlotsOK DEF IInv
<1>d. Done(r) => SlotOK(r)' BY <1>0, DoneSlot
<1>1. ASSUME ReadQuote(r) PROVE SlotOK(r)'
  <2>1. CASE Done(r) BY <2>1, <1>d
  <2>2. CASE QuoteReadable(r) /\ ~Done(r)
    <3>1. quoteStatus[req[r].quote] # "absent"
      BY <2>2 DEF QuoteReadable, QuoteAllowed, Live
    <3>2. req'[r].step \in {"lockJob", "writeJob", "writeQuote"}
      BY <1>1, <2>2, <1>0 DEF ReadQuote, Goto, RequestState
    <3>3. /\ req'[r].op = req[r].op /\ req'[r].job = req[r].job
          /\ req'[r].quote = req[r].quote /\ req'[r].losers = req[r].losers
          /\ req[r] # Idle
      BY <1>1, <2>2, <1>0 DEF ReadQuote, Goto, RequestState, Idle
    <3> QED BY <1>1, <1>s, <3>1, <3>2, <3>3 DEF ReadQuote, SlotOK, db
  <2> QED BY <1>1, <2>1, <2>2 DEF ReadQuote
<1>2. ASSUME InsertQuote(r) PROVE SlotOK(r)'
  <2>1. CASE Done(r) BY <2>1, <1>d
  <2>2. CASE ~Done(r)
    <3>1. req'[r] = [req[r] EXCEPT !.step = "writeJob"]
      BY <1>2, <2>2, <1>0 DEF InsertQuote, Goto
    <3>2. /\ req'[r].op = "submitQuote" /\ req'[r].step = "writeJob"
          /\ req'[r].job = req[r].job /\ req'[r].quote = req[r].quote
          /\ req'[r].losers = {} /\ req[r] # Idle /\ req[r].quote \in Quotes
      BY <3>1, <1>2, <1>0, ShapeFacts, QuotesOnFacts DEF InsertQuote, RequestState, Shape, Idle
    <3>3. quoteStatus'[req[r].quote] = "pending" /\ jobStatus' = jobStatus
      BY <1>2, <2>2, <3>2, <1>0 DEF InsertQuote, TypeOK
    <3> QED BY <1>s, <3>2, <3>3 DEF SlotOK
  <2> QED BY <2>1, <2>2
<1>3. ASSUME WriteJob(r) PROVE SlotOK(r)'
  <2>1. CASE Done(r) BY <2>1, <1>d
  <2>2. CASE ~Done(r)
    <3>1. /\ req' = [req EXCEPT ![r].step = "notify"]
          /\ jobStatus' = [jobStatus EXCEPT ![req[r].job] = req[r].target]
          /\ req[r].op \in {"completeJob", "cancelJob"} /\ req[r].quote # NoQuote
          /\ UNCHANGED <<awardedQuote, quoteStatus>>
      BY <1>3, <2>2 DEF WriteJob, Goto
    <3>2. /\ req[r].target = IF req[r].op = "cancelJob" THEN "cancelled" ELSE "completed"
          /\ req[r].job \in Jobs /\ req[r] # Idle /\ req[r].losers = {}
      BY <1>0, <1>3, <3>1, ShapeFacts DEF Shape, WriteJob, Idle
    <3>3. req'[r] = [req[r] EXCEPT !.step = "notify"] BY <3>1, <1>0
    <3>4. /\ req'[r].step = "notify" /\ req'[r].op = req[r].op /\ req'[r].job = req[r].job
          /\ req'[r].quote = req[r].quote /\ req'[r].losers = req[r].losers
          /\ req'[r].target = req[r].target
      BY <3>3, <1>0, ShapeFacts DEF RequestState
    <3>5. jobStatus'[req[r].job] = req[r].target BY <3>1, <3>2, <1>0 DEF TypeOK
    <3>6. awardedQuote[req[r].job] = req[r].quote BY <1>s, <3>1 DEF SlotOK
    <3>7. quoteStatus[req[r].quote] # "absent"
      BY <3>1, <3>2, <3>6 DEF IInv, AwardConsistent
    <3>8. JobOf(req[r].quote) = req[r].job
      BY <3>1, <3>2, <3>6, QuotesOnFacts DEF IInv, AwardConsistent
    <3>9. NoticeHolds(req[r].target, req[r].quote)'
      BY <3>1, <3>2, <3>5, <3>6, <3>8 DEF NoticeHolds, QuoteNotices
    <3> QED BY <3>1, <3>2, <3>4, <3>5, <3>6, <3>7, <3>9 DEF SlotOK
  <2> QED BY <2>1, <2>2
<1>4. ASSUME PatchRow(r) PROVE SlotOK(r)'
  BY <1>4, <1>d DEF PatchRow
<1>5. ASSUME WriteQuote(r) PROVE SlotOK(r)'
  <2>1. CASE Done(r) BY <2>1, <1>d
  <2>2. CASE ~Done(r)
    <3>1. \/ req'[r] = [req[r] EXCEPT !.step = "countActive"] /\ req[r].op = "withdrawQuote"
          \/ req'[r] = [req[r] EXCEPT !.step = "notify"] /\ req[r].op # "withdrawQuote"
      BY <1>5, <2>2, <1>0 DEF WriteQuote, Goto
    <3>2. /\ req'[r].op \in {"viewQuote", "shortlistQuote", "rejectQuote", "withdrawQuote"}
          /\ req'[r].step = IF req[r].op = "withdrawQuote" THEN "countActive" ELSE "notify"
          /\ req[r].op # "withdrawQuote" => req[r].target \in QuoteNotices
          /\ req'[r].job = req[r].job /\ req'[r].quote = req[r].quote
          /\ req'[r].target = req[r].target
          /\ req'[r].losers = {} /\ req[r] # Idle
          /\ req[r].quote \in Quotes /\ req[r].target \notin {"absent", "pending"}
      BY <3>1, <1>5, <1>0, ShapeFacts, QuotesOnFacts
      DEF WriteQuote, RequestState, Shape, Idle, QuoteNotices
    <3>3. quoteStatus'[req[r].quote] \notin {"absent", "pending"} /\ jobStatus' = jobStatus
      BY <1>5, <3>2, <1>0 DEF WriteQuote, TypeOK
    <3>4. req'[r].step = "notify" => NoticeHolds(req[r].target, req[r].quote)'
      BY <3>2, <3>3 DEF NoticeHolds, QuoteNotices, JobNotices
    <3> QED BY <1>s, <3>2, <3>3, <3>4 DEF SlotOK
  <2> QED BY <2>1, <2>2
<1>6. ASSUME CountActive(r) PROVE SlotOK(r)'
  <2>1. CASE Done(r) BY <2>1, <1>d
  <2>2. CASE ~Done(r)
    <3>1. req'[r] = [req[r] EXCEPT !.step = "writeJob", !.target = "posted"]
      BY <1>6, <2>2, <1>0 DEF CountActive
    <3>2. /\ req'[r].op = "withdrawQuote" /\ req'[r].step = "writeJob"
          /\ req'[r].job = req[r].job /\ req'[r].quote = req[r].quote
          /\ req'[r].losers = {} /\ req[r] # Idle
      BY <3>1, <1>6, <1>0, ShapeFacts DEF CountActive, RequestState, Shape, Idle
    <3> QED BY <1>s, <1>6, <3>2 DEF SlotOK, CountActive, db
  <2> QED BY <2>1, <2>2
<1>7. ASSUME LockJob(r) \/ AwardQuote(r) \/ RejectOthers(r) PROVE SlotOK(r)'
  <2>1. CASE Done(r) BY <2>1, <1>d
  <2>2. CASE ~Done(r)
    <3>1. /\ req[r].op = "awardJob" /\ req[r].quote \in QuotesOn[req[r].job]
          /\ req[r].job \in Jobs /\ req[r] # Idle
          /\ quoteStatus[req[r].quote] # "absent"
          /\ jobStatus[req[r].job] # "absent"
      BY <1>0, <1>7, <1>s, ShapeFacts
      DEF LockJob, AwardQuote, RejectOthers, Idle, SlotOK
    <3>2. /\ req'[r].op = "awardJob" /\ req'[r].job = req[r].job
          /\ req'[r].quote = req[r].quote
          /\ req'[r].step \in {"awardQuote", "rejectOthers", "commit"}
          /\ \A q \in req'[r].losers : quoteStatus[q] # "absent"
      BY <1>0, <1>7, <1>s, <2>2, <3>1, ShapeFacts
      DEF LockJob, AwardQuote, RejectOthers, Goto, SlotOK, RequestState, Live
    <3>3. UNCHANGED db BY <1>7 DEF LockJob, AwardQuote, RejectOthers
    <3> QED BY <3>1, <3>2, <3>3 DEF SlotOK, db
  <2> QED BY <2>1, <2>2
<1>8. ASSUME Commit(r) PROVE SlotOK(r)'
  <2>1. /\ req[r].op = "awardJob" /\ req[r].quote \in QuotesOn[req[r].job]
        /\ req[r].job \in Jobs /\ req[r].target = "awarded" /\ req[r].quote \in Quotes
    BY <1>0, <1>8, ShapeFacts, QuotesOnFacts DEF Commit
  <2>2. req'[r] = [req[r] EXCEPT !.step = "notify", !.losers = {}]
    BY <1>8, <1>0 DEF Commit
  <2>3. /\ req'[r].op = "awardJob" /\ req'[r].job = req[r].job
        /\ req'[r].quote = req[r].quote /\ req'[r].step = "notify"
        /\ req'[r].target = "awarded" /\ req'[r].losers = {}
    BY <2>1, <2>2, <1>0, ShapeFacts DEF RequestState
  <2>4. /\ jobStatus'[req[r].job] = "awarded" /\ awardedQuote'[req[r].job] = req[r].quote
        /\ quoteStatus'[req[r].quote] = "awarded"
    BY <1>8, <2>1, <1>0 DEF Commit, TypeOK
  <2>5. NoticeHolds("awarded", req[r].quote)'
    BY <2>1, <2>3, <2>4, QuotesOnFacts DEF NoticeHolds, QuoteNotices
  <2> QED BY <2>1, <2>3, <2>4, <2>5 DEF SlotOK
<1>9. ASSUME Notify(r) PROVE SlotOK(r)'
  BY <1>9, <1>d DEF Notify
<1> QED BY <1>1, <1>2, <1>3, <1>4, <1>5, <1>6, <1>7, <1>8, <1>9 DEF Proceed

-----------------------------------------------------------------------------
(* The award transaction works alone on its job.                           *)

\* A request enters or continues an award transaction only by its own statements.
LEMMA InAwardCases ==
  ASSUME IInv, NEW r \in Requests, Proceed(r), InAward(r)'
  PROVE  /\ req'[r].job = req[r].job /\ req[r].job \in Jobs
         /\ \/ LockJob(r) /\ jobStatus[req[r].job] = "quoting" /\ ~JobLocked(req[r].job)
            \/ InAward(r) /\ jobStatus' = jobStatus
         /\ jobStatus' = jobStatus
<1>0. Typed /\ req \in [Requests -> RequestState] BY DEF IInv, Typed, TypeOK
<1>1. ~Done(r) BY <1>0 DEF Done, InAward, Idle
<1>2. LockJob(r) \/ AwardQuote(r) \/ RejectOthers(r)
  <2>1. ~Commit(r) BY <1>0 DEF Commit, InAward, RequestState
  <2>2. ~InsertQuote(r) /\ ~WriteJob(r) /\ ~WriteQuote(r)
    BY <1>0, <1>1 DEF InsertQuote, WriteJob, WriteQuote, Goto, InAward, RequestState
  <2>3. ~ReadQuote(r) /\ ~CountActive(r)
    BY <1>0, <1>1 DEF ReadQuote, CountActive, Goto, InAward, RequestState
  <2>4. ~PatchRow(r) /\ ~Notify(r) BY <1>1 DEF PatchRow, Notify
  <2> QED BY <2>1, <2>2, <2>3, <2>4 DEF Proceed
<1>3. req'[r].job = req[r].job
  BY <1>0, <1>1, <1>2 DEF LockJob, AwardQuote, RejectOthers, Goto, RequestState
<1>4. req[r].job \in Jobs
  BY <1>0, <1>2, ShapeFacts DEF LockJob, AwardQuote, RejectOthers
<1>5. jobStatus' = jobStatus BY <1>2 DEF LockJob, AwardQuote, RejectOthers, db
<1> QED BY <1>1, <1>2, <1>3, <1>4, <1>5 DEF LockJob, AwardQuote, RejectOthers, InAward

\* While s is in an award transaction, a step of another request leaves its job alone.
LEMMA LockedJobKept ==
  ASSUME IInv, NEW r \in Requests, Proceed(r), NEW s \in Requests, s # r, InAward(s)
  PROVE  jobStatus'[req[s].job] = jobStatus[req[s].job]
<1>0. Typed /\ TypeOK BY DEF IInv, Typed
<1>1. JobLocked(req[s].job) BY DEF JobLocked
<1>2. CASE WriteJob(r)
  <2>1. req[r].job # req[s].job BY <1>1, <1>2 DEF WriteJob
  <2>2. req[s].job \in Jobs BY <1>0, ShapeFacts DEF InAward
  <2> QED BY <1>0, <1>2, <2>1, <2>2 DEF WriteJob, TypeOK
<1>3. CASE Commit(r)
  <2>1. InAward(r) BY <1>3 DEF Commit, InAward
  <2>2. req[r].job # req[s].job BY <2>1 DEF IInv, AwardIsExclusive
  <2>3. req[s].job \in Jobs BY <1>0, ShapeFacts DEF InAward
  <2> QED BY <1>0, <1>3, <2>2, <2>3 DEF Commit, TypeOK
<1>4. CASE ~WriteJob(r) /\ ~Commit(r)
  BY <1>4 DEF Proceed, ReadQuote, InsertQuote, PatchRow, WriteQuote, CountActive, LockJob,
              AwardQuote, RejectOthers, Notify, db
<1> QED BY <1>2, <1>3, <1>4

LEMMA AwardIsExclusiveStep == IInv /\ [Next]_vars => AwardIsExclusive'
<1> SUFFICES ASSUME IInv, [Next]_vars PROVE AwardIsExclusive'
  OBVIOUS
<1>0. Typed /\ req \in [Requests -> RequestState] /\ jobStatus \in [Jobs -> JobStatus]
      /\ AwardIsExclusive
  BY DEF IInv, Typed, TypeOK
<1>1. ASSUME NEW r \in Requests, Proceed(r) PROVE AwardIsExclusive'
  <2>1. \A s \in Requests \ {r} : req'[s] = req[s]
    BY <1>1, <1>0
    DEF Proceed, ReadQuote, InsertQuote, WriteJob, PatchRow, WriteQuote, CountActive, LockJob,
        AwardQuote, RejectOthers, Commit, Notify, Goto, Done
  <2>2. ASSUME NEW s \in Requests, InAward(s)'
        PROVE  jobStatus'[req'[s].job] = "quoting"
    <3>1. CASE s = r BY <3>1, <1>0, <1>1, <2>2, InAwardCases DEF AwardIsExclusive
    <3>2. CASE s # r
      BY <3>2, <1>0, <1>1, <2>1, <2>2, LockedJobKept DEF AwardIsExclusive, InAward
    <3> QED BY <3>1, <3>2
  <2>3. ASSUME NEW s \in Requests, NEW t \in Requests, s # t, InAward(s)', InAward(t)'
        PROVE  req'[s].job # req'[t].job
    <3>1. ASSUME NEW u \in Requests, u # r, InAward(u)', InAward(r)'
          PROVE  req'[u].job # req'[r].job
      BY <3>1, <1>0, <1>1, <2>1, InAwardCases DEF AwardIsExclusive, InAward, JobLocked
    <3>2. CASE s = r \/ t = r BY <3>1, <3>2, <2>3
    <3>3. CASE s # r /\ t # r
      BY <3>3, <1>0, <2>1, <2>3 DEF AwardIsExclusive, InAward
    <3> QED BY <3>2, <3>3
  <2> QED BY <2>2, <2>3 DEF AwardIsExclusive
<1>2. ASSUME NEW r \in Requests, Begins(r) \/ Fail(r) PROVE AwardIsExclusive'
  <2>1. /\ \A s \in Requests \ {r} : req'[s] = req[s]
        /\ ~InAward(r)'
        /\ jobStatus' = jobStatus
    <3>1. CASE Fail(r) BY <3>1, <1>0 DEF Fail, Done, InAward, Idle, db
    <3>2. CASE Begins(r)
      <4>1. \E op, j, q, target : \E step \in {"writeJob", "patchRow", "insertQuote", "readQuote"} :
              req' = [req EXCEPT ![r] = Reading(op, step, j, q, target)]
        BY <3>2
        DEF Begins, Begin, PublishJob, PatchJob, AcceptJob, CompleteJob, CancelJob,
            ForceJobStatus, AwardJob, ViewQuote, ShortlistQuote, RejectQuote, WithdrawQuote,
            SubmitQuote
      <4> QED BY <3>2, <4>1, <1>0, BeginsReadOnly DEF Reading, InAward, db
    <3> QED BY <1>2, <3>1, <3>2
  <2> QED BY <2>1, <1>0 DEF AwardIsExclusive, InAward
<1>3. ASSUME NEW j \in Jobs, CreateJob(j) PROVE AwardIsExclusive'
  <2>1. \A s \in Requests : InAward(s) => req[s].job # j
    BY <1>3, <1>0 DEF CreateJob, AwardIsExclusive
  <2>2. \A s \in Requests : InAward(s) => req[s].job \in Jobs
    BY <1>0, ShapeFacts DEF InAward
  <2> QED BY <1>3, <1>0, <2>1, <2>2 DEF CreateJob, AwardIsExclusive, InAward
<1>4. CASE UNCHANGED vars BY <1>4, <1>0 DEF vars, db, AwardIsExclusive, InAward
<1> QED BY <1>1, <1>2, <1>3, <1>4, NextCases

-----------------------------------------------------------------------------
(* The remaining conjuncts, and the theorems.                              *)

\* Exactly one slot moves in a step that is not a stutter or an INSERT of a job.
LEMMA OneSlotMoves ==
  ASSUME IInv, NEW r \in Requests, Begins(r) \/ Proceed(r) \/ Fail(r)
  PROVE  \A s \in Requests \ {r} : req'[s] = req[s]
<1>1. req \in [Requests -> RequestState] BY DEF IInv, TypeOK
<1>2. \E p : req' = [req EXCEPT ![r] = p]
  <2>1. CASE Begins(r)
    BY <2>1
    DEF Begins, Begin, PublishJob, PatchJob, AcceptJob, CompleteJob, CancelJob,
        ForceJobStatus, AwardJob, ViewQuote, ShortlistQuote, RejectQuote, WithdrawQuote,
        SubmitQuote
  <2>2. CASE Proceed(r)
    BY <2>2
    DEF Proceed, ReadQuote, InsertQuote, WriteJob, PatchRow, WriteQuote, CountActive, LockJob,
        AwardQuote, RejectOthers, Commit, Notify, Goto, Done
  <2>3. CASE Fail(r) BY <2>3 DEF Fail, Done
  <2> QED BY <2>1, <2>2, <2>3
<1> QED BY <1>1, <1>2

LEMMA SlotsStep ==
  IInv /\ [Next]_vars => RowsExist' /\ ReadAwardStillHolds' /\ PendingNoticesAreTrue'
<1> SUFFICES ASSUME IInv, [Next]_vars PROVE \A s \in Requests : SlotOK(s)'
  BY SlotsOK DEF SlotOK, RowsExist, ReadAwardStillHolds, PendingNoticesAreTrue
<1>0. RowStep /\ Typed BY NextRowStep DEF IInv, Typed
<1>1. ASSUME NEW r \in Requests, Begins(r) \/ Proceed(r) \/ Fail(r), NEW s \in Requests
      PROVE  SlotOK(s)'
  <2>1. CASE s # r BY <1>0, <1>1, <2>1, OneSlotMoves, OtherSlots
  <2>2. CASE s = r /\ Fail(r) BY <1>0, <2>2, DoneSlot DEF Fail
  <2>3. CASE s = r /\ Begins(r) BY <2>3, BeginsSlot
  <2>4. CASE s = r /\ Proceed(r) BY <1>0, <2>4, ProceedSlot
  <2> QED BY <1>1, <2>1, <2>2, <2>3, <2>4
<1>2. ASSUME UNCHANGED req PROVE \A s \in Requests : SlotOK(s)'
  BY <1>0, <1>2, OtherSlots
<1>3. (\E j \in Jobs : CreateJob(j)) \/ UNCHANGED vars => UNCHANGED req
  BY DEF CreateJob, vars
<1> QED BY <1>1, <1>2, <1>3, NextCases

LEMMA NoticesStep == IInv /\ [Next]_vars => NoticesAreTrue'
<1> SUFFICES ASSUME IInv, [Next]_vars PROVE NoticesAreTrue'
  OBVIOUS
<1>0. RowStep /\ Typed /\ told \subseteq (JobNotices \cup QuoteNotices) \X Quotes
  BY NextRowStep DEF IInv, Typed, TypeOK
\* Notices already sent stay true.
<1>1. ASSUME NEW n \in told PROVE NoticeHolds(n[1], n[2])'
  BY <1>0, <1>1, NoticeKept DEF IInv, NoticesAreTrue
\* The one being sent was pending, and sending it writes no row.
<1>2. ASSUME NEW r \in Requests, Notify(r) PROVE NoticesAreTrue'
  <2>1. PICK k, q : k = req[r].target /\ q = req[r].quote OBVIOUS
  <2>2. NoticeHolds(k, q) BY <1>2, <2>1 DEF Notify, IInv, PendingNoticesAreTrue
  <2>3. q \in Quotes BY <1>0, <1>2, <2>1, ShapeFacts DEF Notify, RequestState
  <2>4. NoticeHolds(k, q)' BY <1>0, <2>2, <2>3, NoticeKept
  <2>5. \A n \in told' : n \in told \/ n = <<k, q>> BY <1>2, <2>1 DEF Notify
  <2>6. ASSUME NEW n \in told' PROVE NoticeHolds(n[1], n[2])'
    BY <1>1, <2>4, <2>5, <2>6
  <2> QED BY <2>6 DEF NoticesAreTrue
<1>3. CASE told' = told BY <1>1, <1>3 DEF NoticesAreTrue
<1>4. (\E r \in Requests : Notify(r)) \/ told' = told
  <2>1. ASSUME NEW r \in Requests, Proceed(r), ~Notify(r) PROVE told' = told
    BY <2>1
    DEF Proceed, ReadQuote, InsertQuote, WriteJob, PatchRow, WriteQuote, CountActive, LockJob,
        AwardQuote, RejectOthers, Commit
  <2> QED BY <2>1, NextCases, BeginsReadOnly DEF CreateJob, Fail, vars
<1> QED BY <1>2, <1>3, <1>4

\* IInv is inductive.
LEMMA IInvStep == IInv /\ [Next]_vars => IInv'
<1> SUFFICES ASSUME IInv, [Next]_vars PROVE IInv'
  OBVIOUS
<1>1. TypeOK' /\ WellFormed' BY TypedStep DEF IInv, Typed
<1>2. RowStep BY NextRowStep
<1>3. AwardConsistent' /\ QuotingMeansQuoted' /\ OneAwardedQuote'
  BY <1>1, <1>2, AwardConsistentStep
<1> QED BY <1>1, <1>3, SlotsStep, NoticesStep, AwardIsExclusiveStep DEF IInv

LEMMA IInvInit == Init => IInv
<1> SUFFICES ASSUME Init PROVE IInv
  OBVIOUS
<1>1. TypeOK /\ WellFormed
  BY IdleShape, BoundsAssumption DEF Init, TypeOK, WellFormed, JobStatus, QuoteStatus
<1>2. \A r \in Requests : req[r] = Idle BY DEF Init
<1>3. \A r \in Requests : SlotOK(r)
  BY <1>2, NoQuoteAssumption DEF SlotOK, Idle
<1>4. AwardIsExclusive BY <1>2 DEF AwardIsExclusive, InAward, Idle
<1>5. AwardConsistent /\ OneAwardedQuote /\ QuotingMeansQuoted /\ NoticesAreTrue
  BY DEF Init, AwardConsistent, OneAwardedQuote, QuotingMeansQuoted, NoticesAreTrue,
         BeforeAward, AfterAward
<1> QED BY <1>1, <1>3, <1>4, <1>5, SlotsOK DEF IInv

\* The inductive invariant holds in every reachable state.
THEOREM Invariance == Spec => []IInv
BY IInvInit, IInvStep, PTL DEF Spec

\* For any number of jobs, providers and concurrent requests, the status of a job and its
\* awarded quote fit together.  (job.repo.ts:463)
THEOREM AwardsAreConsistent == Spec => []AwardConsistent
<1>1. IInv => AwardConsistent BY DEF IInv
<1> QED BY <1>1, Invariance, PTL

\* Only the quote a job names is marked awarded.  (job.repo.ts:474-484)
THEOREM AwardIsSingle == Spec => []OneAwardedQuote
<1>1. IInv => OneAwardedQuote BY DEF IInv
<1> QED BY <1>1, Invariance, PTL

\* A job that is quoted has a quote.  (job.service.ts:124-129)
THEOREM QuotingIsQuoted == Spec => []QuotingMeansQuoted
<1>1. IInv => QuotingMeansQuoted BY DEF IInv
<1> QED BY <1>1, Invariance, PTL

\* What a request read about the award before writing is still true when it acts.
THEOREM SnapshotsHold == Spec => [](ReadAwardStillHolds /\ AwardIsExclusive)
<1>1. IInv => ReadAwardStillHolds /\ AwardIsExclusive BY DEF IInv
<1> QED BY <1>1, Invariance, PTL

\* No provider is ever told something that is, or becomes, untrue.
THEOREM NoticesTrue == Spec => []NoticesAreTrue
<1>1. IInv => NoticesAreTrue BY DEF IInv
<1> QED BY <1>1, Invariance, PTL

\* A job never changes the quote it was awarded to.
THEOREM AwardFinality == Spec => AwardIsFinal
<1>1. IInv /\ [Next]_vars =>
        [\A j \in Jobs : awardedQuote[j] # NoQuote => awardedQuote'[j] = awardedQuote[j]]_vars
  BY NextRowStep, AwardKept
<1> QED BY <1>1, Invariance, PTL DEF Spec, AwardIsFinal

-----------------------------------------------------------------------------
(* The handlers implement JobContract.                                     *)

\* A step changes the row of at most one job.
LEMMA OneJobMoves ==
  IInv /\ [Next]_vars =>
    \/ jobStatus' = jobStatus /\ awardedQuote' = awardedQuote
    \/ \E j \in Jobs : \E s \in JobStatus, q \in Quotes \cup {NoQuote} :
         /\ jobStatus' = [jobStatus EXCEPT ![j] = s]
         /\ awardedQuote' = [awardedQuote EXCEPT ![j] = q]
<1> SUFFICES ASSUME IInv, [Next]_vars,
                    ~(jobStatus' = jobStatus /\ awardedQuote' = awardedQuote)
             PROVE  \E j \in Jobs : \E s \in JobStatus, q \in Quotes \cup {NoQuote} :
                      /\ jobStatus' = [jobStatus EXCEPT ![j] = s]
                      /\ awardedQuote' = [awardedQuote EXCEPT ![j] = q]
  OBVIOUS
<1>0. Typed /\ awardedQuote \in [Jobs -> Quotes \cup {NoQuote}]
  BY DEF IInv, Typed, TypeOK
<1>1. ASSUME NEW j \in Jobs, NEW s \in JobStatus,
             jobStatus' = [jobStatus EXCEPT ![j] = s], awardedQuote' = awardedQuote
      PROVE  \E k \in Jobs : \E t \in JobStatus, q \in Quotes \cup {NoQuote} :
               /\ jobStatus' = [jobStatus EXCEPT ![k] = t]
               /\ awardedQuote' = [awardedQuote EXCEPT ![k] = q]
  <2>1. awardedQuote[j] \in Quotes \cup {NoQuote}
        /\ awardedQuote' = [awardedQuote EXCEPT ![j] = awardedQuote[j]]
    BY <1>0, <1>1
  <2> QED BY <1>1, <2>1
<1>2. ASSUME NEW r \in Requests, WriteJob(r)
      PROVE  \E j \in Jobs : \E s \in JobStatus : jobStatus' = [jobStatus EXCEPT ![j] = s]
                                               /\ awardedQuote' = awardedQuote
  BY <1>0, <1>2, ShapeFacts DEF WriteJob
<1>3. ASSUME NEW r \in Requests, Commit(r)
      PROVE  \E j \in Jobs : \E s \in JobStatus, q \in Quotes \cup {NoQuote} :
               /\ jobStatus' = [jobStatus EXCEPT ![j] = s]
               /\ awardedQuote' = [awardedQuote EXCEPT ![j] = q]
  BY <1>0, <1>3, ShapeFacts, QuotesOnFacts DEF Commit, JobStatus
<1>4. ASSUME NEW j \in Jobs, CreateJob(j)
      PROVE  "draft" \in JobStatus /\ jobStatus' = [jobStatus EXCEPT ![j] = "draft"]
             /\ awardedQuote' = awardedQuote
  BY <1>4 DEF CreateJob, JobStatus
<1>5. \/ \E r \in Requests : WriteJob(r) \/ Commit(r)
      \/ \E j \in Jobs : CreateJob(j)
  <2>1. ASSUME NEW r \in Requests, Proceed(r), ~WriteJob(r), ~Commit(r) PROVE FALSE
    BY <2>1
    DEF Proceed, ReadQuote, InsertQuote, PatchRow, WriteQuote, CountActive, LockJob,
        AwardQuote, RejectOthers, Notify, db
  <2> QED BY <2>1, NextCases, BeginsReadOnly DEF Fail, vars, db
<1> QED BY <1>1, <1>2, <1>3, <1>4, <1>5

PhaseOf(s) == CASE s \in {"absent", "draft"}                    -> "private"
                [] s \in {"posted", "quoting"}                  -> "open"
                [] s \in {"awarded", "in_progress"}             -> "engaged"
                [] s \in {"completed", "disputed"}              -> "done"
                [] s \in {"cancelled", "expired"}               -> "void"
                [] OTHER                                        -> "closed"

\* A permitted change of status is a move between phases, or within one.
LEMMA PhaseMoves ==
  ASSUME NEW s, NEW t, <<s, t>> \in ValidTransitions \cup {<<"absent", "draft">>}
  PROVE  \/ PhaseOf(s) = PhaseOf(t) /\ t # "awarded"
         \/ PhaseOf(s) = "private" /\ PhaseOf(t) = "open"
         \/ PhaseOf(s) = "open" /\ t = "awarded" /\ PhaseOf(t) = "engaged"
         \/ PhaseOf(s) = "engaged" /\ PhaseOf(t) = "done"
         \/ PhaseOf(s) \in {"private", "open", "engaged"} /\ PhaseOf(t) = "void"
         \/ PhaseOf(s) \in {"done", "void"} /\ PhaseOf(t) = "closed"
BY DEF ValidTransitions, PhaseOf

\* Every handler, under every interleaving, lock wait and failure, is a step of the
\* contract or a stutter: one engagement per job, kept through finish, void and close.
THEOREM ContractRefinement == Spec => ImplementsContract
<1>p. /\ Phase = [j \in Jobs |-> PhaseOf(jobStatus[j])]
      /\ Phase' = [j \in Jobs |-> PhaseOf(jobStatus'[j])]
  BY DEF Phase, PhaseOf
<1>1. Init => Contract!Init
  BY <1>p DEF Init, Contract!Init, PhaseOf
<1>2. IInv /\ [Next]_vars => [Contract!Next]_(Contract!contractVars)
  <2> SUFFICES ASSUME IInv, [Next]_vars
               PROVE  Contract!Next \/ UNCHANGED <<Phase, awardedQuote>>
    BY DEF Contract!contractVars
  <2>0. RowStep /\ TypeOK BY NextRowStep DEF IInv
  <2>1. CASE jobStatus' = jobStatus /\ awardedQuote' = awardedQuote
    BY <2>1, <1>p
  <2>2. ASSUME NEW j \in Jobs, NEW t \in JobStatus, NEW q \in Quotes \cup {NoQuote},
               jobStatus' = [jobStatus EXCEPT ![j] = t],
               awardedQuote' = [awardedQuote EXCEPT ![j] = q]
        PROVE  Contract!Next \/ UNCHANGED <<Phase, awardedQuote>>
    <3> DEFINE s == jobStatus[j]
    <3>1. jobStatus'[j] = t /\ awardedQuote'[j] = q /\ s \in JobStatus
      BY <2>0, <2>2 DEF TypeOK
    <3>2. Phase' = [Phase EXCEPT ![j] = PhaseOf(t)] /\ Phase[j] = PhaseOf(s)
      BY <1>p, <2>0, <2>2 DEF TypeOK
    <3>3. CASE t = s
      <4>1. q = awardedQuote[j] BY <2>0, <3>1, <3>3 DEF RowStep
      <4>2. awardedQuote' = awardedQuote BY <2>0, <2>2, <4>1 DEF TypeOK
      <4>3. jobStatus' = jobStatus BY <2>0, <2>2, <3>3 DEF TypeOK
      <4> QED BY <4>2, <4>3, <1>p
    <3>4. CASE t # s /\ t = "awarded"
      <4>1. <<s, t>> \in ValidTransitions \cup {<<"absent", "draft">>}
        BY <2>0, <3>1, <3>4 DEF RowStep
      <4>2. Phase[j] = "open" /\ PhaseOf(t) = "engaged"
        BY <3>2, <3>4, <4>1, TransitionFacts DEF PhaseOf
      <4>3. awardedQuote[j] = NoQuote
        BY <3>4, <4>1, TransitionFacts DEF IInv, AwardConsistent, BeforeAward
      <4>4. q # NoQuote BY <2>0, <3>1, <3>4 DEF RowStep
      <4>5. q \in QuotesOn[j] BY <2>0, <3>1, <4>3, <4>4 DEF RowStep
      <4>6. Contract!Engage(j, q)
        BY <2>2, <3>2, <4>2, <4>5 DEF Contract!Engage
      <4> QED BY <4>5, <4>6 DEF Contract!Next
    <3>5. CASE t # s /\ t # "awarded"
      <4>1. <<s, t>> \in ValidTransitions \cup {<<"absent", "draft">>}
        BY <2>0, <3>1, <3>5 DEF RowStep
      <4>2. q = awardedQuote[j] BY <2>0, <3>1, <3>5 DEF RowStep
      <4>3. awardedQuote' = awardedQuote BY <2>0, <2>2, <4>2 DEF TypeOK
      <4>4. CASE PhaseOf(s) = PhaseOf(t)
        <5>1. Phase' = Phase BY <3>2, <4>4, <1>p
        <5> QED BY <4>3, <5>1
      <4>5. CASE PhaseOf(s) # PhaseOf(t)
        <5>1. \/ Contract!Open(j) \/ Contract!Finish(j)
              \/ Contract!Void(j) \/ Contract!Close(j)
          BY <3>2, <3>5, <4>1, <4>3, <4>5, PhaseMoves
          DEF Contract!Open, Contract!Finish, Contract!Void, Contract!Close, Contract!Move
        <5> QED BY <5>1 DEF Contract!Next
      <4> QED BY <4>4, <4>5
    <3> QED BY <3>3, <3>4, <3>5
  <2> QED BY <2>1, <2>2, OneJobMoves
<1> QED BY <1>1, <1>2, Invariance, PTL DEF Spec, ImplementsContract, Contract!Spec
=============================================================================
