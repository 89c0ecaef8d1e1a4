-------------------------------- MODULE Seeds --------------------------------
(***************************************************************************)
(* The seeds of backend/db/seeds run by run.ts beside the application:     *)
(* what one run leaves, what the next run finds, and when it is refused.   *)
(*                                                                         *)
(* A row stands for the rows its seed writes alike: one dummy provider     *)
(* with one seeded review of a completed job, one feed job seeded as       *)
(* posted and one as quoting.  All seeds of a run share a transaction, so  *)
(* what they write is invisible, and its rows locked, until the COMMIT;    *)
(* each upsert finds the row as last committed.  Changes the application   *)
(* makes are whole transactions here (see Reviews for those that overlap). *)
(* Dry runs and unknown names write nothing and are left out.              *)
(***************************************************************************)
EXTENDS Sequences, FiniteSets

VARIABLES db,     \* what is committed of each row
          taken,  \* seeds of which an e-mail address belongs to somebody else
          env,    \* NODE_ENV
          seeder, \* the run under way: seeds left, rows written, its only seed
          lone    \* history: the last to write the rating was a run of providers alone

vars == <<db, taken, env, seeder, lone>>

SEEDS == <<"categories", "accounts", "providers", "reviews", "feed">>
RunInProduction == {"categories", "accounts"}

Absent   == "absent"
Fixture  == {"fixture"}     \* avg_rating, total_reviews of the seed, counting no review
Reviews  == {"seeded", "written"}
Accounts == {"admin", "demo", "provider", "customer"}
SeedJobs == {"done", "open", "quoting"}

NothingYet == [r \in {"categories", "rating"} \cup Accounts \cup SeedJobs \cup Reviews |->
                 IF r = "rating" THEN Fixture ELSE Absent]

\* Pairs of validate_job_status_transition() a row of a seed may go through.
Transitions == {<<"posted", "quoting">>, <<"posted", "cancelled">>, <<"quoting", "awarded">>,
                <<"quoting", "cancelled">>, <<"completed", "closed">>}
Allowed(from, to) == from \in {Absent, to} \/ <<from, to>> \in Transitions

\* Rows written: none, one, or those of one statement over those before it.
NoRow            == [r \in {} |-> Absent]
Row(name, value) == [r \in {name} |-> value]
Over(new, old)   == [r \in DOMAIN new \cup DOMAIN old |-> IF r \in DOMAIN new THEN new[r] ELSE old[r]]

Idle    == [at |-> "idle"]
Written == IF seeder = Idle THEN {} ELSE DOMAIN seeder.mine
Seen    == IF seeder = Idle THEN db ELSE Over(seeder.mine, db)

\* ON CONFLICT (id) of a user: 02_admin_user sets the status again, the others leave it.
UpsertUser(user) == Row(user, "active")
UpsertDummyUser(user) == Row(user, IF Seen[user] = Absent THEN "active" ELSE Seen[user])

\* Demo accounts are left out in production.
SeedDemoUsers == IF env = "production" THEN NoRow ELSE UpsertUser("demo")
SeedAdminAndDemoUsers == Over(UpsertUser("admin"), SeedDemoUsers)

SeedCategories == Row("categories", "there")

\* The rating there is written over with the fixture's.
UpsertProviderProfile == Row("rating", Fixture)
SeedDummyProviders == Over(UpsertDummyUser("provider"), UpsertProviderProfile)

\* AVG and COUNT of the reviews trigger, over what its transaction sees.
Recounted(rows) == {v \in Reviews : rows[v] = "visible"}

UpsertCustomer == UpsertDummyUser("customer")
CompletedJob   == Row("done", "completed")

\* Mutant: ON CONFLICT (id) DO NOTHING for the review, so that the trigger stays silent.
ReviewOnce ==
  IF Seen["seeded"] # Absent THEN NoRow
  ELSE LET review == Row("seeded", "visible")
       IN  Over(review, Row("rating", Recounted(Over(review, Seen))))

\* A hidden review stays hidden, and the upsert makes the trigger count all reviews again.
SeededReview ==
  LET review == Row("seeded", IF Seen["seeded"] = Absent THEN "visible" ELSE Seen["seeded"])
  IN  Over(review, Row("rating", Recounted(Over(review, Seen))))

SeedDummyCustomersAndReviews == Over(UpsertCustomer, Over(CompletedJob, SeededReview))

SeedProviderFeedJobs == Over(Row("open", "posted"), Row("quoting", "quoting"))

Writes(seed) ==
  CASE seed = "categories" -> SeedCategories
    [] seed = "accounts"   -> SeedAdminAndDemoUsers
    [] seed = "providers"  -> SeedDummyProviders
    [] seed = "reviews"    -> SeedDummyCustomersAndReviews
    [] seed = "feed"       -> SeedProviderFeedJobs

Skipped(seed) == env = "production" /\ seed \notin RunInProduction

\* Foreign keys: rows an earlier seed must have written.
Needed(seed) ==
  CASE seed = "categories" -> {}
    [] seed = "accounts"   -> IF env = "production" THEN {} ELSE {"categories"}
    [] seed = "providers"  -> {"categories"}
    [] seed = "reviews"    -> {"categories", "provider"}
    [] seed = "feed"       -> {"categories", "provider", "customer"}

\* A statement of the seed raises: a foreign key, an e-mail that is taken, or the
\* trigger on a job that has left the status it was seeded with.
Raises(seed) ==
  \/ \E r \in Needed(seed) : Seen[r] = Absent
  \/ seed \in taken
  \/ \E j \in SeedJobs \cap DOMAIN Writes(seed) : ~Allowed(Seen[j], Writes(seed)[j])

Init == /\ db = NothingYet /\ taken = {} /\ seeder = Idle /\ lone = TRUE
        /\ env \in {"production", "development"}

-----------------------------------------------------------------------------

\* BEGIN: every seed in order, or the one named by --seed.
Begin ==
  /\ seeder = Idle
  /\ \E only \in {"none"} \cup {SEEDS[i] : i \in DOMAIN SEEDS} :
       seeder' = [at |-> "running", only |-> only, mine |-> NoRow,
                  todo |-> IF only = "none" THEN SEEDS ELSE <<only>>]
  /\ UNCHANGED <<db, taken, env, lone>>

RunSeed ==
  /\ seeder.at = "running" /\ seeder.todo # <<>>
  /\ LET seed == Head(seeder.todo)
     IN  /\ Skipped(seed) \/ ~Raises(seed)
         /\ seeder' = [seeder EXCEPT
              !.todo = Tail(@),
              !.mine = IF Skipped(seed) THEN @ ELSE Over(Writes(seed), @)]
  /\ UNCHANGED <<db, taken, env, lone>>

Commit ==
  /\ seeder.at = "running" /\ seeder.todo = <<>>
  /\ db' = Seen
  /\ lone' = IF "rating" \in Written THEN seeder.only = "providers" ELSE lone
  /\ seeder' = Idle
  /\ UNCHANGED <<taken, env>>

\* Mutant: no transaction around the seeds, so that what they wrote before stays.
RollbackNothing ==
  /\ seeder.at = "running" /\ seeder.todo # <<>>
  /\ db' = Seen
  /\ seeder' = Idle
  /\ UNCHANGED <<taken, env, lone>>

\* A seed raises, or the connection is lost at any statement.
Rollback ==
  /\ seeder.at = "running" /\ seeder.todo # <<>>
  /\ seeder' = Idle
  /\ UNCHANGED <<db, taken, env, lone>>

\* The application changes a row the open transaction does not hold.
Change(row, value) ==
  /\ db[row] # Absent /\ row \notin Written
  /\ db' = [db EXCEPT ![row] = value]

\* Somebody registers with an address of a seed that has not run.
Register ==
  /\ \E s \in {"accounts", "providers", "reviews"} :
       /\ \A u \in Accounts \cap DOMAIN Writes(s) : Seen[u] = Absent
       /\ taken' = taken \cup {s}
  /\ UNCHANGED <<db, env, seeder, lone>>

SuspendUser ==
  /\ \E u \in Accounts : Change(u, "suspended")
  /\ UNCHANGED <<taken, env, seeder, lone>>

\* Quotes, awards, cancellations and forced closings of seeded jobs.
MoveJob ==
  /\ \E j \in SeedJobs, t \in Transitions : db[j] = t[1] /\ Change(j, t[2])
  /\ UNCHANGED <<taken, env, seeder, lone>>

\* A review of the dummy provider is submitted, or one is hidden; the trigger recounts.
ChangeReview ==
  /\ {"seeded", "written", "rating"} \cap Written = {} /\ db["provider"] # Absent
  /\ \E v \in Reviews :
       LET rows == [db EXCEPT ![v] = IF db[v] = Absent THEN "visible" ELSE "hidden"]
       IN  /\ v = "seeded" => db[v] # Absent
           /\ db' = [rows EXCEPT !["rating"] = Recounted(rows)]
  /\ lone' = FALSE
  /\ UNCHANGED <<taken, env, seeder>>

Next == \/ Begin \/ RunSeed \/ Commit \/ Rollback
        \/ Register \/ SuspendUser \/ MoveJob \/ ChangeReview

Spec == Init /\ [][Next]_vars

-----------------------------------------------------------------------------
\* Whatever was run before, failed half-way, hidden or reviewed between: the rating of a
\* dummy provider counts its visible reviews, unless the last to write it was a run of
\* 03_dummy_providers alone (03_dummy_providers.ts:242, 04_dummy_customers_reviews.ts:340).
SeededRatingIsRight == ~lone => db["rating"] = Recounted(db)

=============================================================================
