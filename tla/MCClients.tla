------------------------------ MODULE MCClients ------------------------------
(***************************************************************************)
(* The forms that create an account, post a job, send a quote and edit the *)
(* profile, the screens on a job and the session they are used in share    *)
(* nothing but the server, so a behaviour is about one of them.  The       *)
(* session is this module's own, the others are instances.                 *)
(***************************************************************************)
EXTENDS ClientSession, Sequences, TLC

CONSTANTS JobAmounts, MaxLost,
          QuoteAmounts, Days, MaxInteger, NaN,
          Blank, Providers, Customer, MaxCommits,
          Users, MaxEdits, MaxLogins,
          Topics \* what behaviours are about

VARIABLES jobApp, jobForm, step, wasPublish, jobPhase, message, stored, lost,
          quoteApp, quoteForm, quotePhase, rows,
          user, verified, job, quotes, commits, cache, fetch, press, shown,
          editor, role, profiles, owner, copy, kept, asked, open, fields, requests, saving,
          awaiting, saved, error, submitted, outdated, elsewhere, edits, logins,
          regApp, regForm, regPhase, failed, account, unanswered,
          about

J == INSTANCE PostJob WITH Amounts <- JobAmounts, app <- jobApp, form <- jobForm,
                           phase <- jobPhase, shown <- message
Q == INSTANCE QuoteForm WITH Amounts <- QuoteAmounts, app <- quoteApp, form <- quoteForm,
                             phase <- quotePhase
S == INSTANCE JobScreens
P == INSTANCE ProfileEditor WITH app <- editor, stored <- profiles, me <- owner, cache <- kept,
                                 fetch <- asked, form <- fields
R == INSTANCE RegisterForm WITH app <- regApp, form <- regForm, phase <- regPhase,
                                owner <- account, lost <- unanswered

jVars == <<jobApp, jobForm, step, wasPublish, jobPhase, message, stored, lost>>
qVars == <<quoteApp, quoteForm, quotePhase, rows>>
sVars == <<user, verified, job, quotes, commits, cache, fetch, press, shown>>
pVars == <<editor, role, profiles, owner, copy, kept, asked, open, fields, requests, saving,
           awaiting, saved, error, submitted, outdated, elsewhere, edits, logins>>
rVars == <<regApp, regForm, regPhase, failed, account, unanswered>>
cVars == vars
clientVars == <<jVars, qVars, sVars, cVars, pVars, rVars, about>>

\* The instances' assumptions.
ASSUME ClientAssumption ==
  /\ J!AmountAssumption /\ Q!AmountAssumption /\ S!RoleAssumption
  /\ P!NoneAssumption /\ R!BlankAssumption

\* What a behaviour is not about starts in one way.
ClientsInit ==
  /\ J!Init /\ Q!Init /\ S!Init /\ Init /\ P!Init /\ R!Init
  /\ about \in Topics
  /\ about = "posting" \/ jobApp = "web"
  /\ about = "quoting" \/ quoteApp = "web"
  /\ about = "screens" \/ (user = Customer /\ verified)
  /\ about = "session" \/ app = "web"
  /\ about = "registering" \/ (regApp = "web" /\ account = "nobody")
  /\ about = "profile" \/ (editor = "web" /\ role = [u \in Users |-> "customer"])
  /\ about = "profile" \/ \A u \in Users : profiles[u]["display_name"] = u

ClientsNext ==
  /\ \/ about = "posting" /\ J!Next /\ UNCHANGED <<qVars, sVars, cVars, pVars, rVars>>
     \/ about = "quoting" /\ Q!Next /\ UNCHANGED <<jVars, sVars, cVars, pVars, rVars>>
     \/ about = "screens" /\ S!Next /\ UNCHANGED <<jVars, qVars, cVars, pVars, rVars>>
     \/ about = "session" /\ Next /\ UNCHANGED <<jVars, qVars, sVars, pVars, rVars>>
     \/ about = "profile" /\ P!Next /\ UNCHANGED <<jVars, qVars, sVars, cVars, rVars>>
     \/ about = "registering" /\ R!Next /\ UNCHANGED <<jVars, qVars, sVars, cVars, pVars>>
  /\ UNCHANGED about

ClientsSpec == ClientsInit /\ [][ClientsNext]_clientVars

Interchangeable ==
  Permutations(Providers) \cup Permutations(Calls) \cup Permutations(Users)

\* What the form of an account, a job or a quote lets through is accepted, but for the known
\* gaps (job.schema.ts:21-107, 160-209), and what is stored twice, or stored and said to have
\* failed, is an answer lost.
OnlyKnownGaps == /\ J!OnlyKnownGaps /\ J!DuplicatesAreLost
                 /\ Q!OnlyKnownQuoteGaps /\ R!OnlyTakenRefused

\* A screen shows its own action (web jobs/[id]/page.tsx:336-339).
OwnActionShown == S!OwnActionShown

\* An up-to-date screen offers what the server accepts, but for the known cases (the same, :381-430).
OnlyKnownRefusals == S!OnlyKnownRefusals

\* A profile that was saved is stored, but for known gaps (web profile/page.tsx:342).
SavedIsStored == P!SavedIsStored

=============================================================================
