------------------------------ MODULE JobScreens ------------------------------
(***************************************************************************)
(* The screens on one job, of its customer and of the providers: jobs/[id] *)
(* of the web and the mobile app over the react-query cache.  A screen     *)
(* offers buttons by what it has cached, the server decides by the rows,   *)
(* and an answer makes the screen read again.                              *)
(*                                                                         *)
(* A request is one step at the server; how its statements interleave is   *)
(* JobLifecycle.  Both apps have the same buttons on the same conditions,  *)
(* and screens meet at the server alone, so one screen is followed, of any *)
(* of the users; what the others do is Elsewhere.                          *)
(***************************************************************************)
EXTENDS Integers

CONSTANTS Providers, Customer,
          None,        \* no quote, nothing cached, nobody
          MaxCommits   \* bound on the changes committed

VARIABLES user,     \* whose screen it is
          verified, \* the access token says that the e-mail is verified (asked of providers only)
          job,      \* status, and the provider it is awarded to
          quotes,   \* status of each provider's quote
          commits,  \* changes committed so far
          cache,    \* queries ['job', id] and ['jobQuotes', id]
          fetch,    \* the GETs under way
          press,    \* the request each button has sent
          shown     \* history: the commit each query must have caught up with

vars == <<user, verified, job, quotes, commits, cache, fetch, press, shown>>

People == {Customer} \cup Providers
Keys  == {"job", "jobQuotes"}
Live  == {"pending", "shortlisted"}

\* A customer has a card for each quote, and the job's own buttons; a provider has a form.
Controls == Providers \cup {None}
Actions  == {"shortlist", "reject", "award", "cancel", "complete", "quote", "accept", "withdraw"}
Rest     == [at |-> "rest"]

JobValues   == [status : {"draft", "posted", "quoting", "awarded", "in_progress",
                          "completed", "cancelled"},
                to : Providers \cup {None}]
QuoteValues == [Providers -> Live \cup {None, "rejected", "awarded", "withdrawn"}]

RoleAssumption ==
  /\ Customer \notin Providers /\ None \notin Providers \cup {Customer}
  /\ None \notin {"pending", "shortlisted", "rejected", "awarded", "withdrawn"}
  /\ None \notin JobValues \cup QuoteValues

Entry(V) == [value : V \cup {None}, as : 0..MaxCommits]

TypeOK ==
  /\ user \in People /\ verified \in BOOLEAN
  /\ job \in JobValues /\ quotes \in QuoteValues
  /\ commits \in 0..MaxCommits
  /\ cache \in [job : Entry(JobValues), jobQuotes : Entry(QuoteValues)]
  /\ \A k \in Keys : fetch[k] = Rest \/ fetch[k].at \in {"asked", "answered"}
  /\ \A c \in Controls : press[c] = Rest \/ press[c].action \in Actions
  /\ shown \in [Keys -> 0..MaxCommits]

Nothing == [value |-> None, as |-> 0]

Asked   == [k \in Keys |-> [at |-> "asked"]]

Init == /\ user \in People /\ verified \in BOOLEAN /\ (user = Customer => verified)
        /\ job = [status |-> "draft", to |-> None]
        /\ quotes = [p \in Providers |-> None]
        /\ commits = 0
        /\ cache = [job |-> Nothing, jobQuotes |-> Nothing]
        /\ fetch = Asked
        /\ press = [c \in Controls |-> Rest]
        /\ shown = [k \in Keys |-> 0]

-----------------------------------------------------------------------------
(* The server.                                                             *)

\* The checks of the route, of job.service.ts, of the trigger and of the CHECK on drafts; the
\* rate limits are those of Limits.  What the route asks of a quote, a verified e-mail, the
\* other providers have.
Accepts(action, p) ==
  CASE action = "shortlist" -> quotes[p] = "pending"
    [] action = "reject"    -> quotes[p] \in Live
    [] action = "award"     -> job.status = "quoting" /\ quotes[p] \in Live
    [] action = "cancel"    -> job.status \in {"posted", "quoting", "awarded", "in_progress"}
    [] action = "complete"  -> job.status = "in_progress"
    [] action = "quote"     -> /\ p = user => verified
                               /\ job.status \in {"posted", "quoting"} /\ quotes[p] = None
    [] action = "accept"    -> job.status = "awarded" /\ job.to = p
    [] action = "withdraw"  -> quotes[p] \in Live
    [] action = "publish"   -> job.status = "draft"

Losers(p) == {q \in Providers \ {p} : quotes[q] \in Live}

Apply(action, p) ==
  /\ commits < MaxCommits
  /\ commits' = commits + 1
  /\ job' = CASE action = "award"    -> [status |-> "awarded", to |-> p]
              [] action = "cancel"   -> [job EXCEPT !.status = "cancelled"]
              [] action = "complete" -> [job EXCEPT !.status = "completed"]
              [] action = "quote"    -> [job EXCEPT !.status = "quoting"]
              [] action = "accept"   -> [job EXCEPT !.status = "in_progress"]
              [] action = "publish"  -> [job EXCEPT !.status = "posted"]
              [] OTHER               -> job
  /\ quotes' = CASE action = "shortlist" -> [quotes EXCEPT ![p] = "shortlisted"]
                 [] action = "reject"    -> [quotes EXCEPT ![p] = "rejected"]
                 [] action = "withdraw"  -> [quotes EXCEPT ![p] = "withdrawn"]
                 [] action = "quote"     -> [quotes EXCEPT ![p] = "pending"]
                 [] action = "award"     -> [q \in Providers |->
                                               IF q = p THEN "awarded"
                                               ELSE IF q \in Losers(p) THEN "rejected"
                                               ELSE quotes[q]]
                 [] OTHER                -> quotes

\* The API is open to other clients of the same users; no screen publishes.
Elsewhere ==
  /\ \/ Accepts("publish", None) /\ Apply("publish", None)
     \/ \E p \in Providers, a \in Actions : Accepts(a, p) /\ Apply(a, p)
  /\ UNCHANGED <<user, verified, cache, fetch, press, shown>>

\* The link of the e-mail was opened, and a token issued since.
VerifyEmail ==
  /\ ~verified
  /\ verified' = TRUE
  /\ UNCHANGED <<user, job, quotes, commits, cache, fetch, press, shown>>

-----------------------------------------------------------------------------
(* Reading.                                                                *)

\* listQuotes answers to the owner alone.
Readable == IF user = Customer THEN Keys ELSE {"job"}

\* Mounting again, or coming back after staleTime.
Reopen ==
  /\ \A k \in Keys : fetch[k] = Rest
  /\ fetch' = Asked
  /\ UNCHANGED <<user, verified, job, quotes, commits, cache, press, shown>>

\* getById shows the job to everybody here.
Serve(k) ==
  /\ fetch[k].at = "asked"
  /\ fetch' = [fetch EXCEPT ![k] =
       [at    |-> "answered",
        value |-> IF k \notin Readable THEN None ELSE IF k = "job" THEN job ELSE quotes,
        as    |-> commits]]
  /\ UNCHANGED <<user, verified, job, quotes, commits, cache, press, shown>>

Receive(k) ==
  /\ fetch[k].at = "answered"
  /\ cache' = [cache EXCEPT ![k] = [value |-> fetch[k].value, as |-> fetch[k].as]]
  /\ fetch' = [fetch EXCEPT ![k] = Rest]
  /\ UNCHANGED <<user, verified, job, quotes, commits, press, shown>>

\* Both tries fail: what was cached stays on the screen.
GiveUp(k) ==
  /\ fetch[k] # Rest
  /\ fetch' = [fetch EXCEPT ![k] = Rest]
  /\ shown' = [shown EXCEPT ![k] = 0]
  /\ UNCHANGED <<user, verified, job, quotes, commits, cache, press>>

-----------------------------------------------------------------------------
(* Buttons.                                                                *)

OpenJob == cache.job.value # None /\ cache.job.value.status \in {"posted", "quoting"}
QuoteOf(p) == IF cache.jobQuotes.value = None THEN None ELSE cache.jobQuotes.value[p]

\* QuoteCard: canAct, and the quote's status.
OnCard(p) ==
  IF ~OpenJob \/ QuoteOf(p) \in {None, "rejected"} THEN {}
  ELSE {"award", "reject"} \cup (IF QuoteOf(p) = "shortlisted" THEN {} ELSE {"shortlist"})

\* Mutant: an awarded job can be completed too.
OnJobEarly ==
  IF cache.job.value = None THEN {}
  ELSE CASE cache.job.value.status \in {"draft", "posted", "quoting"} -> {"cancel"}
         [] cache.job.value.status \in {"awarded", "in_progress"}     -> {"complete"}
         [] OTHER                                                     -> {}

\* canCancel and canComplete.
OnJob ==
  IF cache.job.value = None THEN {}
  ELSE CASE cache.job.value.status \in {"draft", "posted", "quoting"} -> {"cancel"}
         [] cache.job.value.status = "in_progress"                    -> {"complete"}
         [] OTHER                                                     -> {}

\* canSubmitQuote, canAccept and Withdraw, by the quote of this provider in the list.
OnForm ==
  (IF QuoteOf(user) = None /\ OpenJob THEN {"quote"} ELSE {})
    \cup (IF /\ QuoteOf(user) = "awarded"
             /\ cache.job.value # None /\ cache.job.value.status = "awarded"
          THEN {"accept"} ELSE {})
    \cup (IF QuoteOf(user) = "pending" THEN {"withdraw"} ELSE {})

Offered(c) ==
  IF user = Customer THEN IF c = None THEN OnJob ELSE OnCard(c)
                     ELSE IF c = user THEN OnForm ELSE {}

\* Buttons of one card, or of the job, are disabled while one of them waits; those of
\* other cards are not.
Press(c) ==
  /\ press[c] = Rest
  /\ \E a \in Offered(c) : press' = [press EXCEPT ![c] = [at |-> "sent", action |-> a]]
  /\ UNCHANGED <<user, verified, job, quotes, commits, cache, fetch, shown>>

Handle(c) ==
  /\ press[c].at = "sent"
  /\ IF Accepts(press[c].action, c)
     THEN /\ Apply(press[c].action, c)
          /\ press' = [press EXCEPT ![c] = [at |-> "accepted", action |-> @.action, as |-> commits']]
     ELSE /\ press' = [press EXCEPT ![c] = [at |-> "refused", action |-> @.action]]
          /\ UNCHANGED <<job, quotes, commits>>
  /\ UNCHANGED <<user, verified, cache, fetch, shown>>

\* The queries whose answers an action changes.
Touched(a) == (IF a \in {"shortlist", "reject", "withdraw"} THEN {} ELSE {"job"})
                \cup (IF a \in {"cancel", "complete", "accept"} THEN {} ELSE {"jobQuotes"})

Later(c) ==
  [k \in Keys |-> IF k \in Touched(press[c].action) /\ shown[k] < press[c].as
                  THEN press[c].as ELSE shown[k]]

\* Mutant: a GET under way is left to answer, and no other is sent.
AcknowledgeLazily(c) ==
  /\ press[c].at = "accepted"
  /\ press' = [press EXCEPT ![c] = Rest]
  /\ fetch' = [k \in Keys |-> IF fetch[k] = Rest THEN [at |-> "asked"] ELSE fetch[k]]
  /\ shown' = Later(c)
  /\ UNCHANGED <<user, verified, job, quotes, commits, cache>>

\* onAction: invalidateQueries on both keys.  A GET under way is dropped and sent anew, but
\* for a query's first, which has no data to fall back on.
Acknowledge(c) ==
  /\ press[c].at = "accepted"
  /\ press' = [press EXCEPT ![c] = Rest]
  /\ fetch' = [k \in Keys |-> IF fetch[k] # Rest /\ cache[k].value = None
                              THEN fetch[k] ELSE [at |-> "asked"]]
  /\ shown' = Later(c)
  /\ UNCHANGED <<user, verified, job, quotes, commits, cache>>

\* A refusal, a timeout or an answer lost on the way: an alert, and nothing is read again.
Alert(c) ==
  /\ press[c] # Rest
  /\ press' = [press EXCEPT ![c] = Rest]
  /\ UNCHANGED <<user, verified, job, quotes, commits, cache, fetch, shown>>

Next == \/ Elsewhere \/ VerifyEmail \/ Reopen
        \/ \E k \in Keys : Serve(k) \/ Receive(k) \/ GiveUp(k)
        \/ \E c \in Controls : Press(c) \/ Handle(c) \/ Acknowledge(c) \/ Alert(c)

Spec == Init /\ [][Next]_vars

-----------------------------------------------------------------------------
\* A query at rest shows what the screen's own last acknowledged action changed of it, or
\* something newer, however GETs that left before the action come back, unless reading again
\* failed.
\* (mobile (customer)/jobs/[id].tsx:127-131, web jobs/[id]/page.tsx:336-339)
OwnActionShown ==
  \A k \in Readable : fetch[k] = Rest => cache[k].as >= shown[k]

Current == \A k \in Keys : cache[k].as = commits

\* Refusals of what no screen looks at: the CHECK on drafts, a withdrawn quote whose card
\* keeps its buttons, a provider whose quote the screen cannot know of, and one whose e-mail
\* is not verified.
Known(c, a) ==
  \/ a = "cancel" /\ job.status = "draft"
  \/ a \in {"shortlist", "reject", "award"} /\ quotes[c] = "withdrawn"
  \/ a = "quote" /\ (quotes[c] # None \/ ~verified)

\* A screen decides with its own copy of the server's conditions.  If it is up to date, each
\* button it offers is one the server accepts, but for four known cases; every other
\* refusal comes from a screen overtaken by somebody else, or from a rate limit.
\* (web jobs/[id]/page.tsx:247-310, 384-386, 420-428, job.service.ts, jobs.routes.ts:96-103)
OnlyKnownRefusals ==
  Current => \A c \in Controls : \A a \in Offered(c) : Accepts(a, c) \/ Known(c, a)

=============================================================================
