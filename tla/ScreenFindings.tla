---------------------------- MODULE ScreenFindings ----------------------------
(***************************************************************************)
(* What the screens and comments of the apps say and the code does not do. *)
(***************************************************************************)
EXTENDS MCClients

\* "Your job is live and providers can submit quotes." (post-job/index.tsx:552): a form
\* that says so has posted a job.  createJob stores a draft whatever publish says.
PublishedMeansPosted ==
  message = "published" => \E i \in DOMAIN stored : stored[i] = "posted"

\* "Provider: accept the job after their quote was awarded" (quotes.api.ts:31): the screen
\* of the awarded provider, once it has caught up, offers to.  The quotes it finds its own
\* in are answered to the owner alone.
AcceptIsOffered ==
  user # Customer /\ S!Current /\ job = [status |-> "awarded", to |-> user]
    => "accept" \in S!Offered(user)

\* "Queue the request until token is refreshed" (mobile api/client.ts:51): what is in the
\* queue waits for a refresh under way.  After one that failed it waits for ever, or for the
\* next that succeeds.
QueuedAreAnswered == Queued # {} => Refreshing

\* And it goes out for the user who made it, who may have logged out by then.
CallsKeepUser ==
  \A c \in Calls : call[c].at = "sent" /\ {call[c].by, call[c].with} \cap {None} = {} =>
    call[c].with.of = call[c].by

\* "Redirect to tabs if authenticated" (mobile _layout.tsx:55): an app that is signed in
\* shows its tabs, which TabsLayout renders for a role.  A started app has a token and no user.
SignedInHasTabs == app = "mobile" /\ SignedIn => me # None

\* "Web refresh uses HttpOnly cookie + CSRF double-submit" (backend/README.md:93): with the
\* newest token of a live session a refresh is not refused.
WebRefreshWorks ==
  [][\A t \in Tokens :
       /\ refresh = [at |-> "posted", token |-> t]
       /\ t.of \notin dead /\ t.n = latest[t.of]
       => refresh'.at # "refused"]_clientVars

\* "Update your account and profile information." (web profile/page.tsx:167): what a save
\* stores of a user was not another user's.  Logging out keeps the cached 'myProfile', from
\* which the form of who logs in next is filled in for five minutes.
ProfileIsOwn ==
  \A u \in Users : \A f \in DOMAIN profiles[u] : profiles[u][f] \in Users => profiles[u][f] = u

\* Nor is it what the form starts with when the profile could not be loaded.
NothingInvented == \A u \in Users : \A f \in DOMAIN profiles[u] : profiles[u][f] # "default"

\* "Profile saved successfully." (web profile/page.tsx:342): so was what was emptied, or does
\* not look right, which the form leaves out.
NothingLeftOut ==
  saved /\ ~error /\ P!Idle =>
    \A f \in P!FieldsOf(owner) : profiles[owner][f] = submitted[f] \/ f \in outdated \cup elsewhere

\* "Optional public name" (mobile profile/edit.tsx:200): a save that leaves it blank has something
\* to send or sends nothing.  After a login the session of the mobile app has no display name to
\* compare the blank with (auth.controller.ts:184-204), so each save sends a PATCH without
\* fields, which is refused.
NothingIsNotSent == requests["user"] # None => DOMAIN requests["user"] # {}

\* "Phone (optional)", "Business Name (optional)" (register.tsx:138, 149): a form complete but
\* for those can be submitted.  To the schema a blank is not a number, nor a name of two
\* letters; and a customer is shown neither the field of the business nor its fault.
OptionalMayBeBlank ==
  /\ regApp = "mobile"
  /\ \A f \in {"name", "email", "password"} : regForm[f] = "ok"
  /\ \A f \in R!Ticks : regForm[f] = "yes"
  /\ {regForm["phone"], regForm["business"]} \subseteq {"ok", Blank}
  => R!Faults(R!Payload) = {}

=============================================================================
