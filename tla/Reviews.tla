------------------------------- MODULE Reviews -------------------------------
(***************************************************************************)
(* Reviews of one provider and the rating kept on the profile:             *)
(* reviews.service.ts over reviews.repo.ts, with the trigger               *)
(* reviews_update_provider_stats of migration 004.                         *)
(*                                                                         *)
(* A review belongs to the job it is about: UNIQUE (job_id, reviewer_id,   *)
(* reviewee_id) allows one.  Each change of a review is a transaction of   *)
(* one statement and its AFTER trigger under READ COMMITTED.  The          *)
(* trigger's UPDATE takes its snapshot when it starts, then may wait for   *)
(* the profile row; PostgreSQL evaluates the row again after the wait, but *)
(* the sub-selects of AVG and COUNT keep the snapshot.  The rating is      *)
(* modelled by the set of reviews it was computed from.                    *)
(***************************************************************************)
EXTENDS FiniteSets

CONSTANTS Jobs,      \* completed jobs of the provider
          Requests   \* calls under way: of customers, the provider or admins

VARIABLES reviews,  \* the committed review of each job
          counted,  \* the reviews avg_rating and total_reviews were computed from
          call,     \* what each request is doing
          raced     \* history: reviews changed beside another change, not recounted alone since

vars == <<reviews, counted, call, raced>>

NoReview == [there |-> FALSE, answered |-> FALSE, hidden |-> FALSE]
Idle     == [at |-> "idle"]
Kinds    == {"submit", "respond", "hide"}

Visible(rs) == {j \in Jobs : rs[j].there /\ ~rs[j].hidden}

\* A review as the statement of a request leaves it.
Changed(review, kind) ==
  CASE kind = "submit"  -> [NoReview EXCEPT !.there = TRUE]
    [] kind = "respond" -> [review EXCEPT !.answered = TRUE]
    [] kind = "hide"    -> [review EXCEPT !.hidden = TRUE]

\* Requests whose transaction is open: they hold their review's row (or its unique key),
\* and from "commit" on the provider's profile row.
Open == {r \in Requests : call[r].at \in {"trigger", "stats", "commit"}}
RowFree(j)  == \A r \in Open : call[r].job # j
ProfileFree == \A r \in Requests : call[r].at # "commit"

TypeOK ==
  /\ reviews \in [Jobs -> [there : BOOLEAN, answered : BOOLEAN, hidden : BOOLEAN]]
  /\ counted \subseteq Jobs /\ raced \subseteq Jobs
  /\ call \in [Requests -> {Idle}
        \cup [at : {"write", "trigger"}, kind : Kinds, job : Jobs, beside : BOOLEAN]
        \cup [at : {"stats", "commit"}, kind : Kinds, job : Jobs, beside : BOOLEAN,
              seen : SUBSET Jobs]]

Init == /\ reviews = [j \in Jobs |-> NoReview]
        /\ counted = {} /\ raced = {}
        /\ call = [r \in Requests |-> Idle]

Starts(r, kind, j) == call' = [call EXCEPT ![r] =
                        [at |-> "write", kind |-> kind, job |-> j, beside |-> FALSE]]

-----------------------------------------------------------------------------

\* submitReview: the job is completed, owned and within the review window; the INSERT alone
\* finds out about an earlier review.
SubmitReview(r) ==
  /\ call[r] = Idle
  /\ \E j \in Jobs : Starts(r, "submit", j)
  /\ UNCHANGED <<reviews, counted, raced>>

\* respondToReview refuses a review that has an answer.  Hidden ones may be answered.
RespondToReview(r) ==
  /\ call[r] = Idle
  /\ \E j \in Jobs : /\ reviews[j].there /\ ~reviews[j].answered
                     /\ Starts(r, "respond", j)
  /\ UNCHANGED <<reviews, counted, raced>>

\* adminHideReview takes any review, hidden ones too.
HideReview(r) ==
  /\ call[r] = Idle
  /\ \E j \in Jobs : reviews[j].there /\ Starts(r, "hide", j)
  /\ UNCHANGED <<reviews, counted, raced>>

\* 23505, once no other transaction holds the key: REVIEW_ALREADY_EXISTS.
AlreadyExists(r) ==
  /\ call[r].at = "write" /\ call[r].kind = "submit"
  /\ RowFree(call[r].job) /\ reviews[call[r].job].there
  /\ call' = [call EXCEPT ![r] = Idle]
  /\ UNCHANGED <<reviews, counted, raced>>

\* The INSERT or UPDATE takes the row, which stays invisible to others until the commit.
WriteReview(r) ==
  /\ call[r].at = "write" /\ RowFree(call[r].job)
  /\ call[r].kind = "submit" => ~reviews[call[r].job].there
  /\ call' = [q \in Requests |->
       IF q = r THEN [call[r] EXCEPT !.at = "trigger", !.beside = Open # {}]
       ELSE IF q \in Open THEN [call[q] EXCEPT !.beside = TRUE]
       ELSE call[q]]
  /\ UNCHANGED <<reviews, counted, raced>>

\* Mutant: the sub-selects run before the row is written, as in a BEFORE trigger.
TriggerBeforeRow(r) ==
  /\ call[r].at = "trigger"
  /\ call' = [call EXCEPT ![r] = [at |-> "stats", kind |-> @.kind, job |-> @.job,
                                  beside |-> @.beside, seen |-> Visible(reviews)]]
  /\ UNCHANGED <<reviews, counted, raced>>

\* The trigger's UPDATE begins: its snapshot holds what is committed, and its own row.
Trigger(r) ==
  /\ call[r].at = "trigger"
  /\ LET j == call[r].job
     IN  call' = [call EXCEPT ![r] =
           [at |-> "stats", kind |-> @.kind, job |-> j, beside |-> @.beside,
            seen |-> Visible([reviews EXCEPT ![j] = Changed(@, call[r].kind)])]]
  /\ UNCHANGED <<reviews, counted, raced>>

\* It gets the profile row, waiting for another transaction that holds it.
UpdateStats(r) ==
  /\ call[r].at = "stats" /\ ProfileFree
  /\ call' = [call EXCEPT ![r].at = "commit"]
  /\ UNCHANGED <<reviews, counted, raced>>

\* Notice, audit row and cache invalidation follow; they touch no review.
Commit(r) ==
  /\ call[r].at = "commit"
  /\ reviews' = [reviews EXCEPT ![call[r].job] = Changed(@, call[r].kind)]
  /\ counted' = call[r].seen
  /\ raced' = IF call[r].beside THEN raced \cup {call[r].job} ELSE {}
  /\ call' = [call EXCEPT ![r] = Idle]

\* A statement fails or the connection is lost: the transaction rolls back.
Fail(r) ==
  /\ call[r] # Idle
  /\ call' = [call EXCEPT ![r] = Idle]
  /\ UNCHANGED <<reviews, counted, raced>>

Next == \E r \in Requests :
          \/ SubmitReview(r) \/ RespondToReview(r) \/ HideReview(r)
          \/ AlreadyExists(r) \/ WriteReview(r)
          \/ Trigger(r) \/ UpdateStats(r) \/ Commit(r)
          \/ Fail(r)

Spec == Init /\ [][Next]_vars

-----------------------------------------------------------------------------
\* The rating of the profile counts exactly the visible reviews, those aside that changed
\* beside another change: one recount that runs alone repairs them all.
\* (004_messaging_moderation.ts:200-227)
RatingIsRight == \A j \in Jobs \ raced : j \in counted <=> j \in Visible(reviews)

=============================================================================
