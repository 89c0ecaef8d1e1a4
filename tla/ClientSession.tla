----------------------------- MODULE ClientSession -----------------------------
(***************************************************************************)
(* The session as the apps hold it: calls that meet an access token run    *)
(* out, the one refresh they wait for, logging in and out, and the app     *)
(* being killed (or the page reloaded) at any point.  api/client.ts of     *)
(* both apps, authStore, sessionStore and the screens that call them.      *)
(*                                                                         *)
(* The server's rotation is one step here; RefreshTokens opens it up.      *)
(* A SecureStore operation takes effect when it ends, with what follows it.*)
(***************************************************************************)
EXTENDS Integers

CONSTANTS Sessions, \* logins, each of another user
          Calls,    \* API calls at the same time
          None,     \* no token, nobody
          MaxTokens \* bound on the tokens of one session

ASSUME NoneAssumption  == None \notin Sessions
ASSUME BoundAssumption == MaxTokens \in Nat \ {0}

VARIABLES app,       \* "mobile" or "web"
          call,      \* the calls and where they are
          refresh,   \* the POST /auth/refresh of this client
          login,     \* tokens of a login being stored
          clearing,  \* clearTokens under way, after a logout or a failed refresh
          memory,    \* the auth store
          disk,      \* SecureStore; of the web, the refresh_token cookie
          me,        \* the session store: who the screens are for
          latest,    \* server: tokens issued in each session
          aged,      \* server: up to which of them the access token has run out
          dead,      \* server: sessions revoked for reuse
          accidents, \* history: sessions a refresh answer of which got lost
          forgotten, \* history: calls in the queue when a refresh failed
          crossed    \* history: tokens were cleared or replaced under a refresh

device == <<call, refresh, login, clearing, memory, disk, me>>
server == <<latest, aged, dead>>
notes  == <<accidents, forgotten, crossed>>
vars   == <<app, device, server, notes>>

Tokens == [of : Sessions, n : 1..MaxTokens]
Idle   == [at |-> "idle"]
NoRefresh == [at |-> "none"]

TypeOK ==
  /\ app \in {"mobile", "web"}
  /\ \A c \in Calls : call[c] = Idle \/
       call[c] \in [at : {"sent", "denied", "waiting", "queued"}, by : Sessions \cup {None},
                    with : Tokens \cup {None}, retry : BOOLEAN]
  /\ refresh.at \in {"none", "posted", "rotated", "refused"}
  /\ login \in Tokens \cup {None} /\ clearing \subseteq {"logout", "failed"}
  /\ memory \in [access : Tokens \cup {None}, refresh : Tokens \cup {None}]
  /\ disk \in Tokens \cup {None} /\ me \in Sessions \cup {None}
  /\ latest \in [Sessions -> 0..MaxTokens] /\ aged \in [Sessions -> 0..MaxTokens]
  /\ dead \subseteq Sessions /\ accidents \subseteq Sessions
  /\ forgotten \subseteq Calls /\ crossed \in BOOLEAN

Empty == [access |-> None, refresh |-> None]

Init == /\ app \in {"mobile", "web"}
        /\ call = [c \in Calls |-> Idle]
        /\ refresh = NoRefresh /\ login = None /\ clearing = {}
        /\ memory = Empty /\ disk = None /\ me = None
        /\ latest = [s \in Sessions |-> 0] /\ aged = latest /\ dead = {}
        /\ accidents = {} /\ forgotten = {} /\ crossed = FALSE

\* Mutant: each client refreshes for itself.
NeverRefreshing == FALSE

\* isRefreshing, refreshTokenPromise.
Refreshing == refresh # NoRefresh
Queued     == {c \in Calls : call[c].at = "queued"}
SignedIn   == memory.refresh # None

-----------------------------------------------------------------------------
(* Logging in and out.                                                     *)

\* The login screen is for those who are not signed in.
Login(s) ==
  /\ ~SignedIn /\ login = None /\ latest[s] = 0
  /\ latest' = [latest EXCEPT ![s] = 1]
  /\ login' = [of |-> s, n |-> 1]
  /\ UNCHANGED <<app, call, refresh, clearing, memory, disk, me, aged, dead, notes>>

\* Mutant: setUser is left to a later reading of the profile.
StoreTokensOnly ==
  /\ login # None
  /\ memory' = [access |-> login, refresh |-> login] /\ disk' = login
  /\ login' = None
  /\ me' = IF me = None THEN login.of ELSE me
  /\ crossed' = (crossed \/ Refreshing)
  /\ UNCHANGED <<app, call, refresh, clearing, server, accidents, forgotten>>

\* onSuccess: setTokens, then setUser.
StoreLogin ==
  /\ login # None
  /\ memory' = [access |-> login, refresh |-> login] /\ disk' = login
  /\ login' = None
  /\ me' = login.of
  /\ crossed' = (crossed \/ Refreshing)
  /\ UNCHANGED <<app, call, refresh, clearing, server, accidents, forgotten>>

\* handleLogout; the server is not told.  The web's script cannot delete the cookie.
Logout ==
  /\ SignedIn /\ me # None /\ "logout" \notin clearing
  /\ clearing' = clearing \cup {"logout"}
  /\ UNCHANGED <<app, call, refresh, login, memory, disk, me, server, notes>>

\* clearTokens ends; a logout clears the session store too.
ClearTokens(why) ==
  /\ why \in clearing
  /\ clearing' = clearing \ {why}
  /\ memory' = Empty
  /\ disk' = IF app = "web" THEN disk ELSE None
  /\ me' = IF why = "logout" \/ app = "web" THEN None ELSE me
  /\ crossed' = (crossed \/ Refreshing)
  /\ UNCHANGED <<app, call, refresh, login, server, accidents, forgotten>>

-----------------------------------------------------------------------------
(* Calls.                                                                  *)

\* Screens are rendered for a user; a page of the web that loads asks who that is.
Call(c) ==
  /\ call[c] = Idle
  /\ (SignedIn /\ me # None) \/ (app = "web" /\ me = None /\ login = None)
  /\ call' = [call EXCEPT ![c] = [at |-> "sent", by |-> me, with |-> memory.access,
                                  retry |-> FALSE]]
  /\ forgotten' = forgotten \ {c}
  /\ UNCHANGED <<app, refresh, login, clearing, memory, disk, me, server, accidents, crossed>>

Good(token) == token # None /\ token.n > aged[token.of]

\* requireAuth; any other answer, an error or the timeout of 30 s ends the call as well.
Handle(c) ==
  /\ call[c].at = "sent"
  /\ \/ call' = [call EXCEPT ![c] = Idle]
     \/ ~Good(call[c].with) /\ call' = [call EXCEPT ![c].at = "denied"]
  /\ UNCHANGED <<app, refresh, login, clearing, memory, disk, me, server, notes>>

\* The response interceptor meets a 401.  What the web queues counts as retried.
Unauthorized(c) ==
  /\ call[c].at = "denied"
  /\ \/ /\ call[c].retry
        /\ call' = [call EXCEPT ![c] = Idle]
        /\ UNCHANGED <<refresh, clearing>>
     \/ /\ ~call[c].retry /\ Refreshing
        /\ call' = [call EXCEPT ![c].at = "queued", ![c].retry = (app = "web")]
        /\ UNCHANGED <<refresh, clearing>>
     \/ /\ ~call[c].retry /\ ~Refreshing /\ (SignedIn \/ app = "web")
        /\ call' = [call EXCEPT ![c].at = "waiting", ![c].retry = TRUE]
        /\ refresh' = [at |-> "posted", token |-> IF app = "web" THEN disk ELSE memory.refresh]
        /\ UNCHANGED clearing
     \/ /\ ~call[c].retry /\ ~Refreshing /\ ~SignedIn /\ app = "mobile"
        /\ call' = [call EXCEPT ![c] = Idle]
        /\ clearing' = clearing \cup {"failed"}
        /\ UNCHANGED refresh
  /\ UNCHANGED <<app, login, memory, disk, me, server, notes>>

-----------------------------------------------------------------------------
(* The refresh.                                                            *)

\* csrf_token has the path /api/auth, and document.cookie of no page holds it.
CsrfMatches == app = "mobile"

\* requireRefreshCsrf, then refresh: reuse of a token revokes its session.
Rotate ==
  LET t == refresh.token IN
  /\ refresh.at = "posted"
  /\ IF t # None /\ CsrfMatches /\ t.of \notin dead /\ t.n = latest[t.of]
     THEN /\ t.n < MaxTokens
          /\ latest' = [latest EXCEPT ![t.of] = t.n + 1]
          /\ refresh' = [at |-> "rotated", token |-> [t EXCEPT !.n = t.n + 1]]
          /\ UNCHANGED dead
     ELSE /\ refresh' = [at |-> "refused"]
          /\ dead' = IF t # None /\ CsrfMatches THEN dead \cup {t.of} ELSE dead
          /\ UNCHANGED latest
  /\ UNCHANGED <<app, call, login, clearing, memory, disk, me, aged, notes>>

Resent(c, t) == [call[c] EXCEPT !.at = "sent", !.with = t]

\* Mutant: the subscribers that are refused again stay subscribed.
StoreOnlyLeader ==
  LET t == refresh.token IN
  /\ refresh.at = "rotated"
  /\ memory' = [access |-> t, refresh |-> t] /\ disk' = t
  /\ refresh' = NoRefresh
  /\ call' = [c \in Calls |-> IF call[c].at = "waiting" THEN Resent(c, t) ELSE call[c]]
  /\ UNCHANGED <<app, login, clearing, me, server, notes>>

\* The answer arrives and setTokens ends; the queue and the call that led it go out again.
StoreRefresh ==
  LET t == refresh.token IN
  /\ refresh.at = "rotated"
  /\ memory' = [access |-> t, refresh |-> t] /\ disk' = t
  /\ refresh' = NoRefresh
  /\ call' = [c \in Calls |-> IF call[c].at \in {"waiting", "queued"} THEN Resent(c, t)
                              ELSE call[c]]
  /\ UNCHANGED <<app, login, clearing, me, server, notes>>

Lost == IF refresh.at = "rotated" THEN {refresh.token.of} ELSE {}

\* Refused, or no answer: the caller is rejected and the tokens go.  On the web whoever
\* waits is rejected with it; the queue of the mobile app is neither answered nor emptied.
RefreshFails ==
  /\ refresh.at \in {"posted", "rotated", "refused"}
  /\ refresh' = NoRefresh
  /\ clearing' = clearing \cup {"failed"}
  /\ call' = [c \in Calls |->
       IF call[c].at = "waiting" \/ (app = "web" /\ call[c].at = "queued") THEN Idle ELSE call[c]]
  /\ accidents' = accidents \cup Lost
  /\ forgotten' = IF app = "mobile" THEN forgotten \cup Queued ELSE forgotten
  /\ UNCHANGED <<app, login, memory, disk, me, server, crossed>>

-----------------------------------------------------------------------------
(* Time and the process.                                                   *)

Expire(s) ==
  /\ aged[s] < latest[s]
  /\ aged' = [aged EXCEPT ![s] = latest[s]]
  /\ UNCHANGED <<app, device, latest, dead, notes>>

\* Killed or reloaded, and started: loadTokens finds the refresh token, nobody the user.
Restart ==
  /\ SignedIn \/ me # None
  /\ call' = [c \in Calls |-> Idle]
  /\ refresh' = NoRefresh /\ login' = None /\ clearing' = {}
  /\ memory' = [access |-> None, refresh |-> IF app = "web" THEN None ELSE disk]
  /\ me' = None
  /\ accidents' = accidents \cup Lost
  /\ forgotten' = {}
  /\ UNCHANGED <<app, disk, server, crossed>>

Next == \/ \E s \in Sessions : Login(s) \/ Expire(s)
        \/ StoreLogin \/ Logout
        \/ \E why \in {"logout", "failed"} : ClearTokens(why)
        \/ \E c \in Calls : Call(c) \/ Handle(c) \/ Unauthorized(c)
        \/ Rotate \/ StoreRefresh \/ RefreshFails
        \/ Restart

Spec == Init /\ [][Next]_vars

-----------------------------------------------------------------------------
\* However calls, logins, logouts and failed refreshes interleave, the client presents a
\* token a second time only if the answer to the first got lost: no session is revoked for
\* reuse otherwise.  (mobile api/client.ts:49-103, web api/client.ts:80-109)
DeadByAccident == dead \subseteq accidents

\* A call in the queue waits for a refresh that is under way, unless it was in the queue
\* when one failed.  (mobile api/client.ts:50-60, 83-85)
QueueIsServed == Queued \subseteq forgotten \/ Refreshing

\* The tokens are those of the user the screens are for, unless tokens were cleared or
\* replaced while a refresh was under way.  (authStore.ts:22-30, login.tsx:26-28)
OneIdentity ==
  memory.refresh # None /\ me # None => memory.refresh.of = me \/ crossed

=============================================================================
