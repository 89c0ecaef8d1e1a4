------------------------------ MODULE ClientProofs ------------------------------
(***************************************************************************)
(* Proofs about the forms, the screens on a job and the session of the     *)
(* apps, for any number of users, providers, logins, calls and tokens, and *)
(* any amounts and terms.                                                  *)
(***************************************************************************)
EXTENDS MCClients, TLAPS

-----------------------------------------------------------------------------
(* The session.                                                            *)
(*                                                                         *)
(* The shape of the state comes first.  QueueIsServed is inductive by      *)
(* itself, given that shape.  OneIdentity needs to know whose token the    *)
(* refresh under way carries.  DeadByAccident needs to know that every     *)
(* token the client could present is the newest of its session, or was     *)
(* replaced by the answer that is on its way.                              *)

CallOK ==
  /\ call = [c \in Calls |-> call[c]]
  /\ \A c \in Calls : "at" \in DOMAIN call[c]
  /\ forgotten \subseteq Calls

RefreshOK ==
  \/ refresh = NoRefresh \/ refresh = [at |-> "refused"]
  \/ /\ refresh.at = "posted" /\ refresh.token \in Tokens \cup {None}
     /\ refresh = [at |-> "posted", token |-> refresh.token]
  \/ /\ refresh.at = "rotated" /\ refresh.token \in Tokens /\ app = "mobile"
     /\ refresh = [at |-> "rotated", token |-> refresh.token]

Shape ==
  /\ app \in {"mobile", "web"}
  /\ CallOK /\ RefreshOK
  /\ login \in Tokens \cup {None}
  /\ memory = [access |-> memory.access, refresh |-> memory.refresh]
  /\ memory.refresh \in Tokens \cup {None}
  /\ disk \in Tokens \cup {None} /\ me \in Sessions \cup {None}
  /\ latest \in [Sessions -> 0..MaxTokens]
  /\ crossed \in BOOLEAN

-----------------------------------------------------------------------------
(* The shape is kept.                                                      *)

LEMMA ShapeInit == Init => Shape
<1> SUFFICES ASSUME Init PROVE Shape
  OBVIOUS
<1>1. CallOK /\ RefreshOK
  BY DEF Init, CallOK, RefreshOK, Idle
<1>2. latest \in [Sessions -> 0..MaxTokens]
  BY BoundAssumption DEF Init
<1>3. app \in {"mobile", "web"} /\ login = None /\ memory = Empty /\ disk = None /\ me = None
  BY DEF Init
<1>4. crossed \in BOOLEAN
  BY DEF Init
<1> QED BY <1>1, <1>2, <1>3, <1>4 DEF Shape, Empty


LEMMA CallStep == Shape /\ [Next]_vars => CallOK'
<1> SUFFICES ASSUME Shape, [Next]_vars PROVE CallOK'
  OBVIOUS
<1> USE DEF CallOK, notes, server, device
<1>0. CallOK
  BY DEF Shape
<1>1. CASE \/ \E s \in Sessions : Login(s) \/ Expire(s)
          \/ StoreLogin \/ Logout \/ Rotate
          \/ \E why \in {"logout", "failed"} : ClearTokens(why)
  BY <1>0, <1>1 DEF Login, Expire, StoreLogin, Logout, Rotate, ClearTokens
<1>2. ASSUME NEW c \in Calls, Call(c) PROVE CallOK'
  BY <1>0, <1>2 DEF Call
<1>3. ASSUME NEW c \in Calls, Handle(c) PROVE CallOK'
  <2>1. \/ call' = [call EXCEPT ![c] = Idle]
        \/ call' = [call EXCEPT ![c] = [call[c] EXCEPT !.at = "denied"]]
    BY <1>3 DEF Handle
  <2>2. UNCHANGED forgotten
    BY <1>3 DEF Handle
  <2> QED BY <1>0, <2>1, <2>2 DEF Idle
<1>4. ASSUME NEW c \in Calls, Unauthorized(c) PROVE CallOK'
  <2>1. \E r : /\ call' = [call EXCEPT ![c] = r]
               /\ r = Idle \/ DOMAIN r = DOMAIN call[c]
    <3>1. CASE call' = [call EXCEPT ![c] = Idle]
      BY <3>1
    <3>2. ASSUME NEW at, NEW retry,
                 call' = [call EXCEPT ![c].at = at, ![c].retry = retry]
          PROVE  \E r : call' = [call EXCEPT ![c] = r] /\ DOMAIN r = DOMAIN call[c]
      <4> DEFINE r == [call[c] EXCEPT !.at = at, !.retry = retry]
      <4>1. call' = [call EXCEPT ![c] = r]
        BY <1>0, <3>2
      <4>2. DOMAIN r = DOMAIN call[c]
        OBVIOUS
      <4> QED BY <4>1, <4>2
    <3> QED BY <1>4, <3>1, <3>2 DEF Unauthorized
  <2>2. UNCHANGED forgotten
    BY <1>4 DEF Unauthorized
  <2> QED BY <1>0, <2>1, <2>2 DEF Idle
<1>5. CASE StoreRefresh
  BY <1>0, <1>5 DEF StoreRefresh, Resent
<1>6. CASE RefreshFails
  BY <1>0, <1>6 DEF RefreshFails, Idle, Queued
<1>7. CASE Restart
  BY <1>0, <1>7 DEF Restart, Idle
<1>8. CASE UNCHANGED vars
  BY <1>0, <1>8 DEF vars
<1> QED BY <1>1, <1>2, <1>3, <1>4, <1>5, <1>6, <1>7, <1>8 DEF Next

LEMMA ShapeStep == Shape /\ [Next]_vars => Shape'
<1> SUFFICES ASSUME Shape, [Next]_vars PROVE Shape'
  OBVIOUS
<1>0. CallOK'
  BY CallStep
<1> USE NoneAssumption, BoundAssumption
<1> USE DEF Shape, RefreshOK, Tokens, NoRefresh, notes, server, device
<1>1. ASSUME NEW s \in Sessions, Login(s) PROVE Shape'
  BY <1>0, <1>1 DEF Login
<1>2. ASSUME NEW s \in Sessions, Expire(s) PROVE Shape'
  BY <1>0, <1>2 DEF Expire
<1>3. CASE StoreLogin
  BY <1>0, <1>3 DEF StoreLogin, Refreshing
<1>4. CASE Logout
  BY <1>0, <1>4 DEF Logout
<1>5. ASSUME NEW why \in {"logout", "failed"}, ClearTokens(why) PROVE Shape'
  BY <1>0, <1>5 DEF ClearTokens, Empty, Refreshing
<1>6. ASSUME NEW c \in Calls, Call(c) PROVE Shape'
  BY <1>0, <1>6 DEF Call
<1>7. ASSUME NEW c \in Calls, Handle(c) PROVE Shape'
  BY <1>0, <1>7 DEF Handle
<1>8. ASSUME NEW c \in Calls, Unauthorized(c) PROVE Shape'
  BY <1>0, <1>8 DEF Unauthorized, SignedIn, Refreshing
<1>9. CASE Rotate
  BY <1>0, <1>9 DEF Rotate, CsrfMatches
<1>10. CASE StoreRefresh
  BY <1>0, <1>10 DEF StoreRefresh
<1>11. CASE RefreshFails
  BY <1>0, <1>11 DEF RefreshFails, Queued
<1>12. CASE Restart
  BY <1>0, <1>12 DEF Restart
<1>13. CASE UNCHANGED vars
  BY <1>0, <1>13 DEF vars
<1> QED BY <1>1, <1>2, <1>3, <1>4, <1>5, <1>6, <1>7, <1>8, <1>9, <1>10, <1>11, <1>12,
           <1>13 DEF Next

-----------------------------------------------------------------------------
(* The queue.                                                              *)

LEMMA QueueInit == Init => QueueIsServed
  BY DEF Init, QueueIsServed, Queued, Idle

LEMMA QueueStep == Shape /\ QueueIsServed /\ [Next]_vars => QueueIsServed'
<1> SUFFICES ASSUME Shape, QueueIsServed, [Next]_vars PROVE QueueIsServed'
  OBVIOUS
<1> USE DEF Shape, CallOK, QueueIsServed, Queued, Refreshing, NoRefresh, notes, server, device
<1>1. ASSUME NEW s \in Sessions, Login(s) PROVE QueueIsServed'
  BY <1>1 DEF Login
<1>2. ASSUME NEW s \in Sessions, Expire(s) PROVE QueueIsServed'
  BY <1>2 DEF Expire
<1>3. CASE StoreLogin
  BY <1>3 DEF StoreLogin
<1>4. CASE Logout
  BY <1>4 DEF Logout
<1>5. ASSUME NEW why \in {"logout", "failed"}, ClearTokens(why) PROVE QueueIsServed'
  BY <1>5 DEF ClearTokens
<1>6. ASSUME NEW c \in Calls, Call(c) PROVE QueueIsServed'
  BY <1>6 DEF Call, Idle
<1>7. ASSUME NEW c \in Calls, Handle(c) PROVE QueueIsServed'
  <2>1. \A d \in Calls : call'[d].at = "queued" => call[d].at = "queued"
    BY <1>7 DEF Handle, Idle
  <2>2. UNCHANGED <<forgotten, refresh>>
    BY <1>7 DEF Handle
  <2> QED BY <2>1, <2>2
<1>8. ASSUME NEW c \in Calls, Unauthorized(c) PROVE QueueIsServed'
  BY <1>8 DEF Unauthorized, Idle
<1>9. CASE Rotate
  BY <1>9 DEF Rotate
<1>10. CASE StoreRefresh
  BY <1>10 DEF StoreRefresh, Resent
<1>11. CASE RefreshFails
  BY <1>11 DEF RefreshFails, Idle
<1>12. CASE Restart
  BY <1>12 DEF Restart, Idle
<1>13. CASE UNCHANGED vars
  BY <1>13 DEF vars
<1> QED BY <1>1, <1>2, <1>3, <1>4, <1>5, <1>6, <1>7, <1>8, <1>9, <1>10, <1>11, <1>12,
           <1>13 DEF Next

-----------------------------------------------------------------------------
(* Whose tokens they are.                                                  *)

\* The refresh under way carries a token of the user the screens are for.
RefreshIsMine ==
  app = "mobile" /\ refresh.at \in {"posted", "rotated"} /\ me # None =>
    crossed \/ refresh.token.of = me

IdentityInv == Shape /\ OneIdentity /\ RefreshIsMine

LEMMA IdentityInit == Init => IdentityInv
  BY ShapeInit DEF Init, IdentityInv, OneIdentity, RefreshIsMine, Empty

LEMMA IdentityStep == IdentityInv /\ [Next]_vars => IdentityInv'
<1> SUFFICES ASSUME IdentityInv, [Next]_vars PROVE (OneIdentity /\ RefreshIsMine)'
  BY ShapeStep DEF IdentityInv
<1> USE NoneAssumption
<1> USE DEF IdentityInv, Shape, RefreshOK, OneIdentity, RefreshIsMine, Tokens, NoRefresh,
            notes, server, device
<1>1. ASSUME NEW s \in Sessions, Login(s) PROVE (OneIdentity /\ RefreshIsMine)'
  BY <1>1 DEF Login
<1>2. ASSUME NEW s \in Sessions, Expire(s) PROVE (OneIdentity /\ RefreshIsMine)'
  BY <1>2 DEF Expire
<1>3. CASE StoreLogin
  <2>1. /\ memory'.refresh = login /\ me' = login.of
        /\ crossed' = (crossed \/ Refreshing) /\ refresh' = refresh
    BY <1>3 DEF StoreLogin
  <2>2. OneIdentity'
    BY <2>1
  <2>3. refresh.at \in {"posted", "rotated"} => Refreshing
    BY DEF Refreshing
  <2>4. Refreshing => crossed'
    BY <2>1, Zenon
  <2> QED BY <2>1, <2>2, <2>3, <2>4
<1>4. CASE Logout
  BY <1>4 DEF Logout
<1>5. ASSUME NEW why \in {"logout", "failed"}, ClearTokens(why)
      PROVE (OneIdentity /\ RefreshIsMine)'
  BY <1>5 DEF ClearTokens, Empty, Refreshing
<1>6. ASSUME NEW c \in Calls, Call(c) PROVE (OneIdentity /\ RefreshIsMine)'
  BY <1>6 DEF Call
<1>7. ASSUME NEW c \in Calls, Handle(c) PROVE (OneIdentity /\ RefreshIsMine)'
  BY <1>7 DEF Handle
<1>8. ASSUME NEW c \in Calls, Unauthorized(c) PROVE (OneIdentity /\ RefreshIsMine)'
  BY <1>8 DEF Unauthorized, SignedIn, Refreshing
<1>9. CASE Rotate
  <2>1. UNCHANGED <<app, me, memory, crossed>>
    BY <1>9 DEF Rotate
  <2>2. CASE refresh' = [at |-> "refused"]
    BY <2>1, <2>2
  <2>3. CASE refresh' # [at |-> "refused"]
    <3>1. /\ refresh.at = "posted" /\ refresh.token # None
          /\ refresh' = [at |-> "rotated",
                         token |-> [refresh.token EXCEPT !.n = refresh.token.n + 1]]
      BY <1>9, <2>3 DEF Rotate
    <3>2. refresh.token \in Tokens
      BY <3>1
    <3>3. refresh'.token.of = refresh.token.of
      BY <3>1, <3>2
    <3> QED BY <2>1, <3>1, <3>3
  <2> QED BY <2>2, <2>3
<1>10. CASE StoreRefresh
  BY <1>10 DEF StoreRefresh
<1>11. CASE RefreshFails
  BY <1>11 DEF RefreshFails
<1>12. CASE Restart
  BY <1>12 DEF Restart
<1>13. CASE UNCHANGED vars
  BY <1>13 DEF vars
<1> QED BY <1>1, <1>2, <1>3, <1>4, <1>5, <1>6, <1>7, <1>8, <1>9, <1>10, <1>11, <1>12,
           <1>13 DEF Next

-----------------------------------------------------------------------------
(* No accident, no reuse.                                                  *)

Answering == refresh.at \in {"posted", "rotated"}

\* The newest token of its session, if no answer with a newer one got lost.
Newest(t) == t # None /\ t.of \notin accidents => t.n = latest[t.of]

\* A token of the client is the newest, or the answer that replaces it is on its way.
Current(t) == t # None /\ t.of \notin accidents =>
                t.n = latest[t.of] \/ (refresh.at = "rotated" /\ refresh.token.of = t.of)

Issued(t) == t # None => latest[t.of] # 0

\* A login is of a session that no other token belongs to.
Apart(t) == login # None /\ t # None => t.of # login.of

Fresh ==
  app = "mobile" =>
    /\ Current(memory.refresh) /\ Issued(memory.refresh) /\ Apart(memory.refresh)
    /\ Current(disk) /\ Issued(disk) /\ Apart(disk)
    /\ Newest(login) /\ Issued(login)
    /\ Answering =>
         Newest(refresh.token) /\ Issued(refresh.token) /\ Apart(refresh.token)

FreshInv == Shape /\ DeadByAccident /\ Fresh

LEMMA FreshInit == Init => FreshInv
  BY ShapeInit DEF Init, FreshInv, DeadByAccident, Fresh, Current, Issued, Apart, Newest,
                   Answering, Empty, NoRefresh

LEMMA FreshStep == FreshInv /\ [Next]_vars => FreshInv'
<1> SUFFICES ASSUME FreshInv, [Next]_vars PROVE (DeadByAccident /\ Fresh)'
  BY ShapeStep DEF FreshInv
<1>0. Shape'
  BY ShapeStep DEF FreshInv
<1> USE NoneAssumption
<1> USE DEF FreshInv, Shape, RefreshOK, DeadByAccident, Fresh, Current, Issued, Apart, Newest,
            Answering, Tokens, NoRefresh, notes, server, device
<1>1. ASSUME NEW s \in Sessions, Login(s) PROVE (DeadByAccident /\ Fresh)'
  BY <1>1 DEF Login
<1>2. ASSUME NEW s \in Sessions, Expire(s) PROVE (DeadByAccident /\ Fresh)'
  BY <1>2 DEF Expire
<1>3. CASE StoreLogin
  BY <1>3 DEF StoreLogin
<1>4. CASE Logout
  BY <1>4 DEF Logout
<1>5. ASSUME NEW why \in {"logout", "failed"}, ClearTokens(why)
      PROVE (DeadByAccident /\ Fresh)'
  BY <1>5 DEF ClearTokens, Empty
<1>6. ASSUME NEW c \in Calls, Call(c) PROVE (DeadByAccident /\ Fresh)'
  BY <1>6 DEF Call
<1>7. ASSUME NEW c \in Calls, Handle(c) PROVE (DeadByAccident /\ Fresh)'
  BY <1>7 DEF Handle
<1>8. ASSUME NEW c \in Calls, Unauthorized(c) PROVE (DeadByAccident /\ Fresh)'
  BY <1>8 DEF Unauthorized, SignedIn, Refreshing
<1>9. CASE Rotate
  <2>1. CASE refresh' = [at |-> "refused"]
    BY <1>9, <2>1 DEF Rotate, CsrfMatches
  <2>2. CASE refresh' # [at |-> "refused"]
    BY <1>9, <2>2 DEF Rotate, CsrfMatches
  <2> QED BY <2>1, <2>2
<1>10. CASE StoreRefresh
  BY <1>10 DEF StoreRefresh
<1>11. CASE RefreshFails
  BY <1>11 DEF RefreshFails, Lost
<1>12. CASE Restart
  BY <1>12 DEF Restart, Lost
<1>13. CASE UNCHANGED vars
  BY <1>13 DEF vars
<1> QED BY <1>1, <1>2, <1>3, <1>4, <1>5, <1>6, <1>7, <1>8, <1>9, <1>10, <1>11, <1>12,
           <1>13 DEF Next

-----------------------------------------------------------------------------
(* The screens on a job.                                                   *)

AnyValue == S!JobValues \cup S!QuoteValues \cup {None}
Asking   == [at |-> "asked"]
Answered == [at : {"answered"}, value : AnyValue, as : Nat]
Cached   == [value : AnyValue, as : Nat]
Sending  == [at : {"sent", "refused"}, action : S!Actions]
Accepted == [at : {"accepted"}, action : S!Actions, as : Nat]

ScreenTypeOK ==
  /\ user \in S!People /\ verified \in BOOLEAN /\ commits \in Nat
  /\ shown \in [S!Keys -> 0..commits]
  /\ job \in S!JobValues /\ quotes \in S!QuoteValues
  /\ cache \in [S!Keys -> Cached]
  /\ fetch \in [S!Keys -> {S!Rest, Asking} \cup Answered]
  /\ press \in [S!Controls -> {S!Rest} \cup Sending \cup Accepted]

\* Nothing was read, and no action taken, after the last commit; the job's own buttons are
\* two.
InTime ==
  /\ \A k \in S!Keys : cache[k].as <= commits /\ (fetch[k].at = "answered" => fetch[k].as <= commits)
  /\ \A c \in S!Controls :
       /\ press[c].at = "accepted" => press[c].as <= commits
       /\ press[c].at = "sent" /\ c = None => press[c].action \in {"cancel", "complete"}

\* A job and its quotes agree: before it is quoting there is none, before it is awarded none
\* is awarded, and then the one of the provider the job names.
RowsAgree ==
  \A p \in Providers :
    /\ job.status \in {"draft", "posted"} => quotes[p] = None
    /\ quotes[p] = "awarded" => job.status # "quoting" /\ job.to = p

\* What is in the cache, or on its way there, and was read after the last commit.
UpToDate(k, value) ==
  \/ value = None
  \/ k = "job" /\ value = job
  \/ k = "jobQuotes" /\ value = quotes

CopiesAreTrue ==
  \A k \in S!Keys :
    /\ cache[k].as = commits => UpToDate(k, cache[k].value)
    /\ fetch[k].at = "answered" /\ fetch[k].as = commits => UpToDate(k, fetch[k].value)

\* A query that does not show the screen's own action yet is being read again, and what is on
\* its way will show it.
WillShow ==
  \A k \in S!Readable :
    /\ fetch[k] = S!Rest => cache[k].as >= shown[k]
    /\ fetch[k].at = "answered" => fetch[k].as >= shown[k]

\* A button is pressed on a screen that has read what the button changes, so that none of
\* those GETs is the query's first.
HasRead ==
  /\ \A k \in S!Readable : fetch[k].at = "answered" => fetch[k].value # None
  /\ \A c \in S!Controls : press[c].at \in {"sent", "accepted"} =>
       \A k \in S!Readable \cap S!Touched(press[c].action) : cache[k].value # None

ScreenInv == ScreenTypeOK /\ InTime /\ RowsAgree /\ CopiesAreTrue /\ WillShow /\ HasRead

LEMMA ScreenStart == S!Init /\ S!RoleAssumption => ScreenInv
<1> SUFFICES ASSUME S!Init, S!RoleAssumption PROVE ScreenInv
  OBVIOUS
<1>1. S!Nothing \in Cached /\ S!Nothing.as = 0 /\ S!Nothing.value = None
  BY DEF S!Nothing, Cached, AnyValue
<1>2. cache \in [S!Keys -> Cached] /\ \A k \in S!Keys : cache[k] = S!Nothing
  BY <1>1 DEF S!Init, S!Keys
<1>3. job \in S!JobValues /\ job.status = "draft"
  BY DEF S!Init, S!JobValues
<1>4. quotes \in S!QuoteValues /\ \A p \in Providers : quotes[p] = None
  BY DEF S!Init, S!QuoteValues
<1>5. fetch = [k \in S!Keys |-> Asking]
  BY DEF S!Init, S!Asked, Asking
<1>6. press = [c \in S!Controls |-> S!Rest]
  BY DEF S!Init
<1>7. /\ user \in S!People /\ verified \in BOOLEAN /\ commits = 0
      /\ shown = [k \in S!Keys |-> 0]
  BY DEF S!Init
<1>8. ScreenTypeOK
  BY <1>2, <1>3, <1>4, <1>5, <1>6, <1>7 DEF ScreenTypeOK
<1>9. InTime
  BY <1>1, <1>2, <1>5, <1>6, <1>7 DEF InTime, Asking, S!Rest
<1>10. RowsAgree
  BY <1>3, <1>4 DEF RowsAgree, S!RoleAssumption
<1>11. CopiesAreTrue
  BY <1>1, <1>2, <1>5, <1>7 DEF CopiesAreTrue, UpToDate, Asking
<1>12. WillShow /\ HasRead
  <2>1. \A k \in S!Readable : k \in S!Keys
    BY DEF S!Readable, S!Keys
  <2> QED BY <1>5, <1>6, <2>1 DEF WillShow, HasRead, Asking, S!Rest, S!Readable
<1> QED BY <1>8, <1>9, <1>10, <1>11, <1>12 DEF ScreenInv

\* A request names a provider's quote, or is about the job itself.
Addressed(a, p) ==
  \/ a \in S!Actions /\ p \in Providers
  \/ a \in {"publish", "cancel", "complete"} /\ p = None

\* What the server accepts keeps job and quotes in agreement.
LEMMA RowsStayInAgreement ==
  ASSUME S!RoleAssumption, ScreenTypeOK, RowsAgree, NEW a, NEW p, S!Accepts(a, p), S!Apply(a, p),
         Addressed(a, p)
  PROVE  /\ commits' = commits + 1
         /\ job' \in S!JobValues /\ quotes' \in S!QuoteValues
         /\ RowsAgree'
<1>1. /\ commits' = commits + 1
      /\ job \in S!JobValues /\ quotes \in S!QuoteValues /\ None \notin Providers
  BY DEF S!Apply, ScreenTypeOK, S!RoleAssumption
<1> DEFINE Goal == job' \in S!JobValues /\ quotes' \in S!QuoteValues /\ RowsAgree'
<1> USE DEF S!Accepts, S!Apply, S!JobValues, S!QuoteValues, S!Live, RowsAgree
<1>2. CASE a = "shortlist" /\ p \in Providers
  <2>1. job' = job /\ quotes' = [quotes EXCEPT ![p] = "shortlisted"] /\ quotes[p] # None
    BY <1>2 DEF S!RoleAssumption
  <2>2. \A q \in Providers : quotes'[q] = quotes[q] \/ (q = p /\ quotes'[q] = "shortlisted")
    BY <1>1, <2>1
  <2> QED BY <1>1, <1>2, <2>1, <2>2
<1>3. CASE a = "reject" /\ p \in Providers
  <2>1. job' = job /\ quotes' = [quotes EXCEPT ![p] = "rejected"] /\ quotes[p] # None
    BY <1>3 DEF S!RoleAssumption
  <2>2. \A q \in Providers : quotes'[q] = quotes[q] \/ (q = p /\ quotes'[q] = "rejected")
    BY <1>1, <2>1
  <2> QED BY <1>1, <1>3, <2>1, <2>2
<1>4. CASE a = "withdraw" /\ p \in Providers
  <2>1. job' = job /\ quotes' = [quotes EXCEPT ![p] = "withdrawn"] /\ quotes[p] # None
    BY <1>4 DEF S!RoleAssumption
  <2>2. \A q \in Providers : quotes'[q] = quotes[q] \/ (q = p /\ quotes'[q] = "withdrawn")
    BY <1>1, <2>1
  <2> QED BY <1>1, <1>4, <2>1, <2>2
<1>5. CASE a = "award" /\ p \in Providers
  <2>1. job.status = "quoting" /\ job' = [status |-> "awarded", to |-> p]
    BY <1>5
  <2>2. quotes' = [q \in Providers |-> IF q = p THEN "awarded"
                                      ELSE IF q \in S!Losers(p) THEN "rejected" ELSE quotes[q]]
    BY <1>5
  <2>3. \A q \in Providers : quotes'[q] = "awarded" => q = p
    BY <1>1, <2>1, <2>2
  <2> QED BY <1>1, <1>5, <2>1, <2>2, <2>3
<1>6. CASE a = "cancel"
  <2>1. job' = [job EXCEPT !.status = "cancelled"] /\ quotes' = quotes
    BY <1>6
  <2> QED BY <1>1, <2>1
<1>7. CASE a = "complete"
  <2>1. job' = [job EXCEPT !.status = "completed"] /\ quotes' = quotes
    BY <1>7
  <2> QED BY <1>1, <2>1
<1>8. CASE a = "quote" /\ p \in Providers
  <2>1. job' = [job EXCEPT !.status = "quoting"] /\ quotes' = [quotes EXCEPT ![p] = "pending"]
        /\ job.status \in {"posted", "quoting"}
    BY <1>8
  <2>2. \A q \in Providers : quotes[q] # "awarded"
    BY <1>1, <2>1 DEF S!RoleAssumption
  <2>3. \A q \in Providers : quotes'[q] # "awarded"
    BY <1>1, <2>1, <2>2
  <2> QED BY <1>1, <1>8, <2>1, <2>3
<1>9. CASE a = "accept" /\ p \in Providers
  <2>1. job' = [job EXCEPT !.status = "in_progress"] /\ quotes' = quotes
    BY <1>9
  <2> QED BY <1>1, <2>1
<1>10. CASE a = "publish"
  <2>1. job' = [job EXCEPT !.status = "posted"] /\ quotes' = quotes /\ job.status = "draft"
    BY <1>10
  <2> QED BY <1>1, <2>1
<1> QED BY <1>1, <1>2, <1>3, <1>4, <1>5, <1>6, <1>7, <1>8, <1>9, <1>10 DEF S!Actions, Addressed

\* Reading, and the others' actions.
LEMMA ScreenReads ==
  ASSUME ScreenInv, S!RoleAssumption,
         S!Elsewhere \/ S!VerifyEmail \/ S!Reopen \/ \E k \in S!Keys : S!Serve(k) \/ S!Receive(k) \/ S!GiveUp(k)
  PROVE  ScreenInv'
<1> USE DEF ScreenInv
<1>0. S!Rest.at = "rest" /\ Asking.at = "asked"
  BY DEF S!Rest, Asking
<1>1. CASE S!Elsewhere
  <2>1. /\ commits' = commits + 1 /\ job' \in S!JobValues /\ quotes' \in S!QuoteValues
        /\ RowsAgree'
    <3>1. PICK a, p : /\ S!Accepts(a, p) /\ S!Apply(a, p)
                      /\ Addressed(a, p)
      BY <1>1 DEF S!Elsewhere, Addressed
    <3> QED BY <3>1, RowsStayInAgreement
  <2>2. UNCHANGED <<user, verified, cache, fetch, press, shown>>
    BY <1>1 DEF S!Elsewhere
  <2>3. ScreenTypeOK'
    BY <2>1, <2>2 DEF ScreenTypeOK
  <2>4. InTime' /\ \A k \in S!Keys : cache[k].as # commits' /\ (fetch[k].at = "answered" => fetch[k].as # commits')
    <3>1. \A k \in S!Keys : cache[k].as \in Nat /\ (fetch[k].at = "answered" => fetch[k].as \in Nat)
      BY <1>0 DEF ScreenTypeOK, Cached, Answered
    <3>2. \A c \in S!Controls : press[c].at = "accepted" => press[c].as \in Nat
      BY <1>0 DEF ScreenTypeOK, Sending, Accepted
    <3> QED BY <2>1, <2>2, <3>1, <3>2 DEF InTime, ScreenTypeOK
  <2>5. CopiesAreTrue'
    BY <2>2, <2>4 DEF CopiesAreTrue
  <2>6. WillShow' /\ HasRead'
    BY <2>2 DEF WillShow, HasRead, S!Readable
  <2> QED BY <2>1, <2>3, <2>4, <2>5, <2>6
<1>2. CASE S!Reopen
  <2>1. UNCHANGED <<user, verified, job, quotes, commits, cache, press, shown>>
        /\ fetch' = [k \in S!Keys |-> Asking]
    BY <1>2 DEF S!Reopen, S!Asked, Asking
  <2>2. ScreenTypeOK'
    BY <2>1 DEF ScreenTypeOK
  <2>3. \A k \in S!Readable : k \in S!Keys
    BY DEF S!Readable, S!Keys
  <2>4. InTime' /\ RowsAgree' /\ CopiesAreTrue'
    BY <1>0, <2>1 DEF InTime, RowsAgree, CopiesAreTrue, UpToDate
  <2>5. WillShow' /\ HasRead'
    BY <1>0, <2>1, <2>3 DEF WillShow, HasRead, S!Readable
  <2> QED BY <2>2, <2>4, <2>5
<1>3. CASE \E k \in S!Keys : S!Serve(k)
  <2>1. PICK k \in S!Keys : S!Serve(k)
    BY <1>3
  <2>2. PICK value : value = IF k \notin S!Readable THEN None ELSE IF k = "job" THEN job ELSE quotes
    OBVIOUS
  <2>3. PICK new : new = [at |-> "answered", value |-> value, as |-> commits]
    OBVIOUS
  <2>4. UNCHANGED <<user, verified, job, quotes, commits, cache, press, shown>>
        /\ fetch' = [fetch EXCEPT ![k] = new]
    BY <2>1, <2>2, <2>3 DEF S!Serve
  <2>5. new \in Answered /\ new.at = "answered" /\ new.as = commits /\ new.value = value
    BY <2>2, <2>3 DEF Answered, AnyValue, ScreenTypeOK
  <2>6. ScreenTypeOK'
    BY <2>4, <2>5 DEF ScreenTypeOK
  <2>7. fetch'[k] = new /\ \A i \in S!Keys : i # k => fetch'[i] = fetch[i]
    BY <2>4 DEF ScreenTypeOK
  <2>8. UpToDate(k, value)
    BY <2>2 DEF UpToDate, S!Keys
  <2>9. InTime' /\ RowsAgree'
    BY <2>4, <2>5, <2>7 DEF InTime, RowsAgree, ScreenTypeOK
  <2>10. CopiesAreTrue'
    BY <2>4, <2>5, <2>7, <2>8 DEF CopiesAreTrue, UpToDate
  <2>11. WillShow'
    BY <1>0, <2>4, <2>5, <2>7 DEF WillShow, ScreenTypeOK, S!Readable
  <2>12. HasRead'
    <3>1. k \in S!Readable => value # None
      BY <2>2 DEF S!RoleAssumption, ScreenTypeOK
    <3> QED BY <2>4, <2>5, <2>7, <3>1 DEF HasRead, S!Readable
  <2> QED BY <2>6, <2>9, <2>10, <2>11, <2>12
<1>4. CASE \E k \in S!Keys : S!Receive(k)
  <2>1. PICK k \in S!Keys : S!Receive(k)
    BY <1>4
  <2>2. PICK got : got = fetch[k]
    OBVIOUS
  <2>3. got \in Answered /\ got.at = "answered"
    BY <1>0, <2>1, <2>2 DEF ScreenTypeOK, S!Receive
  <2>4. PICK new : new = [value |-> got.value, as |-> got.as]
    OBVIOUS
  <2>5. UNCHANGED <<user, verified, job, quotes, commits, press, shown>>
        /\ fetch' = [fetch EXCEPT ![k] = S!Rest] /\ cache' = [cache EXCEPT ![k] = new]
    BY <2>1, <2>2, <2>4 DEF S!Receive
  <2>6. new \in Cached /\ new.value = got.value /\ new.as = got.as
    BY <2>3, <2>4 DEF Answered, Cached
  <2>7. ScreenTypeOK'
    BY <2>5, <2>6 DEF ScreenTypeOK
  <2>8. /\ fetch'[k] = S!Rest /\ \A i \in S!Keys : i # k => fetch'[i] = fetch[i]
        /\ cache'[k] = new /\ \A i \in S!Keys : i # k => cache'[i] = cache[i]
    BY <2>5 DEF ScreenTypeOK
  <2>9. InTime' /\ RowsAgree'
    BY <1>0, <2>2, <2>3, <2>5, <2>6, <2>8 DEF InTime, RowsAgree
  <2>10. CopiesAreTrue'
    BY <1>0, <2>2, <2>3, <2>5, <2>6, <2>8 DEF CopiesAreTrue, UpToDate
  <2>11. WillShow'
    BY <1>0, <2>2, <2>3, <2>5, <2>6, <2>8 DEF WillShow, S!Readable
  <2>12. HasRead'
    BY <1>0, <2>2, <2>3, <2>5, <2>6, <2>8 DEF HasRead, S!Readable
  <2> QED BY <2>7, <2>9, <2>10, <2>11, <2>12
<1>5. CASE \E k \in S!Keys : S!GiveUp(k)
  <2>1. PICK k \in S!Keys : S!GiveUp(k)
    BY <1>5
  <2>2. UNCHANGED <<user, verified, job, quotes, commits, cache, press>>
        /\ shown' = [shown EXCEPT ![k] = 0] /\ fetch' = [fetch EXCEPT ![k] = S!Rest]
    BY <2>1 DEF S!GiveUp
  <2>3. fetch'[k] = S!Rest /\ \A i \in S!Keys : i # k => fetch'[i] = fetch[i]
    BY <2>2 DEF ScreenTypeOK
  <2>4. ScreenTypeOK'
    <3>1. shown' \in [S!Keys -> 0..commits]
      BY <2>2 DEF ScreenTypeOK
    <3> QED BY <2>2, <3>1 DEF ScreenTypeOK
  <2>5. InTime' /\ RowsAgree' /\ CopiesAreTrue'
    BY <1>0, <2>2, <2>3 DEF InTime, RowsAgree, CopiesAreTrue, UpToDate
  <2>6. WillShow'
    <3>1. \A i \in S!Keys : cache[i].as \in Nat /\ (fetch[i].at = "answered" => fetch[i].as \in Nat)
      BY <1>0 DEF ScreenTypeOK, Cached, Answered
    <3>2. shown'[k] = 0 /\ \A i \in S!Keys : i # k => shown'[i] = shown[i]
      BY <2>2 DEF ScreenTypeOK
    <3> QED BY <1>0, <2>2, <2>3, <3>1, <3>2 DEF WillShow, S!Readable
  <2>7. HasRead'
    BY <1>0, <2>2, <2>3 DEF HasRead, S!Readable
  <2> QED BY <2>4, <2>5, <2>6, <2>7
<1>6. CASE S!VerifyEmail
  <2>1. /\ verified' \in BOOLEAN
        /\ UNCHANGED <<user, job, quotes, commits, cache, fetch, press, shown>>
    BY <1>6 DEF S!VerifyEmail
  <2>2. ScreenTypeOK'
    BY <2>1 DEF ScreenTypeOK
  <2>3. InTime' /\ RowsAgree' /\ CopiesAreTrue' /\ WillShow' /\ HasRead'
    BY <2>1 DEF InTime, RowsAgree, CopiesAreTrue, UpToDate, WillShow, HasRead, S!Readable
  <2> QED BY <2>2, <2>3
<1> QED BY <1>1, <1>2, <1>3, <1>4, <1>5, <1>6

\* Whose screen offers which buttons.
LEMMA ButtonsAreOffered ==
  ASSUME S!RoleAssumption, ScreenTypeOK, NEW c \in S!Controls, NEW a \in S!Offered(c)
  PROVE  \/ user = Customer /\ c = None /\ a \in S!OnJob
         \/ user = Customer /\ c \in Providers /\ a \in S!OnCard(c)
         \/ c = user /\ c \in Providers /\ a \in S!OnForm
<1>1. user \in {Customer} \cup Providers /\ c \in Providers \cup {None}
  BY DEF ScreenTypeOK, S!People, S!Controls
<1>2. CASE user = Customer /\ c = None
  <2>1. S!Offered(c) = S!OnJob
    BY <1>2 DEF S!Offered
  <2> QED BY <1>2, <2>1
<1>3. CASE user = Customer /\ c # None
  <2>1. S!Offered(c) = S!OnCard(c)
    BY <1>3 DEF S!Offered
  <2> QED BY <1>1, <1>3, <2>1
<1>4. CASE user # Customer
  <2>1. S!Offered(c) = IF c = user THEN S!OnForm ELSE {}
    BY <1>4 DEF S!Offered
  <2> QED BY <1>1, <1>4, <2>1
<1> QED BY <1>2, <1>3, <1>4

\* On the job itself there are two.
LEMMA ButtonsOfTheJob ==
  ASSUME NEW a \in S!OnJob
  PROVE  /\ cache.job.value # None
         /\ \/ a = "cancel" /\ cache.job.value.status \in {"draft", "posted", "quoting"}
            \/ a = "complete" /\ cache.job.value.status = "in_progress"
<1>1. CASE cache.job.value = None
  BY <1>1 DEF S!OnJob
<1>2. CASE cache.job.value # None /\ cache.job.value.status \in {"draft", "posted", "quoting"}
  <2>1. S!OnJob = {"cancel"}
    BY <1>2 DEF S!OnJob
  <2> QED BY <1>2, <2>1
<1>3. CASE cache.job.value # None /\ cache.job.value.status = "in_progress"
  <2>1. S!OnJob = {"complete"}
    BY <1>3 DEF S!OnJob
  <2> QED BY <1>3, <2>1
<1>4. CASE /\ cache.job.value # None
           /\ cache.job.value.status \notin {"draft", "posted", "quoting", "in_progress"}
  <2>1. S!OnJob = {}
    BY <1>4 DEF S!OnJob
  <2> QED BY <2>1
<1> QED BY <1>1, <1>2, <1>3, <1>4

\* On a card there are up to three.
LEMMA ButtonsOfACard ==
  ASSUME NEW p, NEW a \in S!OnCard(p)
  PROVE  /\ S!OpenJob /\ S!QuoteOf(p) \notin {None, "rejected"}
         /\ a \in {"award", "reject", "shortlist"}
         /\ a = "shortlist" => S!QuoteOf(p) # "shortlisted"
<1>1. CASE ~S!OpenJob \/ S!QuoteOf(p) \in {None, "rejected"}
  <2>1. S!OnCard(p) = {}
    BY <1>1 DEF S!OnCard
  <2> QED BY <2>1
<1>2. CASE S!OpenJob /\ S!QuoteOf(p) \notin {None, "rejected"}
  <2>1. S!OnCard(p) = IF S!QuoteOf(p) = "shortlisted" THEN {"award", "reject"}
                      ELSE {"award", "reject", "shortlist"}
    BY <1>2 DEF S!OnCard
  <2> QED BY <1>2, <2>1
<1> QED BY <1>1, <1>2

\* On a provider's form there are up to three.
LEMMA ButtonsOfAForm == S!OnForm \subseteq {"quote", "accept", "withdraw"}
  BY DEF S!OnForm

\* A screen has read what its buttons change.
LEMMA ButtonsShowWhatTheyChange ==
  ASSUME S!RoleAssumption, ScreenTypeOK, NEW c \in S!Controls, NEW a \in S!Offered(c),
         NEW k \in S!Readable \cap S!Touched(a)
  PROVE  cache[k].value # None
<1>1. S!OpenJob => cache.job.value # None
  BY DEF S!OpenJob
<1>2. \A p : S!QuoteOf(p) # None => cache.jobQuotes.value # None
  BY DEF S!QuoteOf
<1>3. k \in {"job", "jobQuotes"}
  BY DEF S!Readable, S!Keys
<1>4. CASE user = Customer /\ c = None /\ a \in S!OnJob
  <2>1. cache.job.value # None /\ a \in {"cancel", "complete"}
    BY <1>4, ButtonsOfTheJob
  <2>2. k = "job"
    BY <2>1 DEF S!Touched
  <2> QED BY <2>1, <2>2
<1>5. CASE user = Customer /\ c \in Providers /\ a \in S!OnCard(c)
  <2>1. S!OpenJob /\ S!QuoteOf(c) # None
    BY <1>5, ButtonsOfACard
  <2> QED BY <1>1, <1>2, <1>3, <2>1
<1>6. CASE c = user /\ c \in Providers /\ a \in S!OnForm
  <2>1. k = "job"
    BY <1>6 DEF S!Readable, S!RoleAssumption
  <2>2. a # "withdraw"
    BY <2>1 DEF S!Touched
  <2>3. cache.job.value # None
    <3>1. a \in {"quote", "accept"}
      BY <1>6, <2>2, ButtonsOfAForm
    <3>2. a = "quote" => S!OpenJob
      BY <1>6 DEF S!OnForm
    <3>3. a = "accept" => cache.job.value # None
      BY <1>6 DEF S!OnForm
    <3> QED BY <1>1, <3>1, <3>2, <3>3
  <2> QED BY <2>1, <2>3
<1> QED BY <1>4, <1>5, <1>6, ButtonsAreOffered

\* The buttons.
LEMMA ScreenPresses ==
  ASSUME ScreenInv, S!RoleAssumption, NEW c \in S!Controls, S!Press(c) \/ S!Alert(c)
  PROVE  ScreenInv'
<1> USE DEF ScreenInv
<1>0. S!Rest.at = "rest"
  BY DEF S!Rest
<1>1. UNCHANGED <<user, verified, job, quotes, commits, cache, fetch, shown>>
  BY DEF S!Press, S!Alert
<1>2. PICK next \in {S!Rest} \cup Sending :
        /\ press' = [press EXCEPT ![c] = next]
        /\ next.at \in {"rest", "sent"}
        /\ next.at = "sent" /\ c = None => next.action \in {"cancel", "complete"}
        /\ next.at = "sent" =>
             \A k \in S!Readable \cap S!Touched(next.action) : cache[k].value # None
  <2>1. CASE S!Alert(c)
    BY <1>0, <2>1 DEF S!Alert
  <2>2. CASE S!Press(c)
    <3>1. PICK a \in S!Offered(c) : press' = [press EXCEPT ![c] = [at |-> "sent", action |-> a]]
      BY <2>2 DEF S!Press
    <3>2. c = None => a \in {"cancel", "complete"}
      BY <3>1, ButtonsAreOffered, ButtonsOfTheJob DEF S!RoleAssumption
    <3>3. a \in S!Actions
      <4>1. CASE a \in S!OnJob
        BY <4>1, ButtonsOfTheJob DEF S!Actions
      <4>2. CASE a \in S!OnCard(c)
        BY <4>2, ButtonsOfACard DEF S!Actions
      <4>3. CASE a \in S!OnForm
        BY <4>3, ButtonsOfAForm DEF S!Actions
      <4> QED BY <3>1, <4>1, <4>2, <4>3, ButtonsAreOffered
    <3>4. PICK new : new = [at |-> "sent", action |-> a]
      OBVIOUS
    <3>5. new \in Sending /\ new.at = "sent" /\ new.action = a
      BY <3>3, <3>4 DEF Sending
    <3>6. press' = [press EXCEPT ![c] = new]
      BY <3>1, <3>4
    <3> QED BY <3>1, <3>2, <3>5, <3>6, ButtonsShowWhatTheyChange
  <2> QED BY <2>1, <2>2
<1>3. ScreenTypeOK'
  BY <1>1, <1>2 DEF ScreenTypeOK
<1>4. press'[c] = next /\ \A i \in S!Controls : i # c => press'[i] = press[i]
  BY <1>2 DEF ScreenTypeOK
<1>5. InTime'
  BY <1>1, <1>2, <1>4 DEF InTime
<1>6. RowsAgree' /\ CopiesAreTrue' /\ WillShow'
  BY <1>1 DEF RowsAgree, CopiesAreTrue, UpToDate, WillShow, S!Readable
<1>7. HasRead'
  BY <1>1, <1>2, <1>4 DEF HasRead, S!Readable
<1> QED BY <1>3, <1>5, <1>6, <1>7

LEMMA ScreenHandles ==
  ASSUME ScreenInv, S!RoleAssumption, NEW c \in S!Controls, S!Handle(c)
  PROVE  ScreenInv'
<1> USE DEF ScreenInv
<1>0. S!Rest.at = "rest"
  BY DEF S!Rest
<1>1. UNCHANGED <<user, verified, cache, fetch, shown>> /\ press[c].at = "sent"
  BY DEF S!Handle
<1>2. press[c] \in Sending /\ (c = None => press[c].action \in {"cancel", "complete"})
  BY <1>0, <1>1 DEF ScreenTypeOK, InTime, Accepted
<1>3. PICK a \in S!Actions : a = press[c].action
  BY <1>2 DEF Sending
<1>4. c \in Providers \/ c = None
  BY DEF S!Controls
<1>5. CASE S!Accepts(a, c)
  <2>1. S!Apply(a, c)
    BY <1>3, <1>5 DEF S!Handle
  <2>2. Addressed(a, c)
    BY <1>2, <1>3, <1>4 DEF Addressed
  <2>3. /\ commits' = commits + 1 /\ job' \in S!JobValues /\ quotes' \in S!QuoteValues
        /\ RowsAgree'
    BY <1>5, <2>1, <2>2, RowsStayInAgreement
  <2>4. PICK new : new = [at |-> "accepted", action |-> a, as |-> commits + 1]
    OBVIOUS
  <2>5. press' = [press EXCEPT ![c] = new]
    BY <1>3, <1>5, <2>3, <2>4 DEF S!Handle
  <2>6. new \in Accepted /\ new.at = "accepted" /\ new.as = commits + 1
    BY <2>4 DEF Accepted, ScreenTypeOK
  <2>7. press'[c] = new /\ \A i \in S!Controls : i # c => press'[i] = press[i]
    BY <2>5 DEF ScreenTypeOK
  <2>8. ScreenTypeOK'
    <3>1. shown' \in [S!Keys -> 0..commits']
      BY <1>1, <2>3 DEF ScreenTypeOK
    <3> QED BY <1>1, <2>3, <2>5, <2>6, <3>1 DEF ScreenTypeOK
  <2>9. \A k \in S!Keys : cache[k].as \in Nat /\ (fetch[k].at = "answered" => fetch[k].as \in Nat)
    <3>1. \A k \in S!Keys : fetch[k] = S!Rest \/ fetch[k] = Asking \/ fetch[k] \in Answered
      BY DEF ScreenTypeOK
    <3> QED BY <1>0, <3>1 DEF ScreenTypeOK, Cached, Answered, Asking
  <2>10. \A i \in S!Controls : press[i].at = "accepted" => press[i].as \in Nat
    <3>1. \A i \in S!Controls : press[i] = S!Rest \/ press[i] \in Sending \/ press[i] \in Accepted
      BY DEF ScreenTypeOK
    <3> QED BY <1>0, <3>1 DEF Sending, Accepted
  <2>11. commits \in Nat
    BY DEF ScreenTypeOK
  <2>12. InTime'
    BY <1>1, <2>3, <2>6, <2>7, <2>9, <2>10, <2>11 DEF InTime
  <2>13. CopiesAreTrue'
    BY <1>1, <2>3, <2>9, <2>11 DEF CopiesAreTrue, InTime
  <2>14. WillShow'
    BY <1>1 DEF WillShow, S!Readable
  <2>15. HasRead'
    <3>1. new.action = press[c].action
      BY <1>3, <2>4
    <3> QED BY <1>1, <2>6, <2>7, <3>1 DEF HasRead, S!Readable
  <2> QED BY <2>3, <2>8, <2>12, <2>13, <2>14, <2>15
<1>6. CASE ~S!Accepts(a, c)
  <2>1. PICK new : new = [at |-> "refused", action |-> a]
    OBVIOUS
  <2>2. press' = [press EXCEPT ![c] = new] /\ UNCHANGED <<job, quotes, commits>>
    BY <1>3, <1>6, <2>1 DEF S!Handle
  <2>3. new \in Sending /\ new.at = "refused"
    BY <2>1 DEF Sending
  <2>4. press'[c] = new /\ \A i \in S!Controls : i # c => press'[i] = press[i]
    BY <2>2 DEF ScreenTypeOK
  <2>5. ScreenTypeOK'
    BY <1>1, <2>2, <2>3 DEF ScreenTypeOK
  <2>6. InTime'
    BY <1>1, <2>2, <2>3, <2>4 DEF InTime
  <2>7. RowsAgree' /\ CopiesAreTrue' /\ WillShow'
    BY <1>1, <2>2 DEF RowsAgree, CopiesAreTrue, UpToDate, WillShow, S!Readable
  <2>8. HasRead'
    BY <1>1, <2>3, <2>4 DEF HasRead, S!Readable
  <2> QED BY <2>5, <2>6, <2>7, <2>8
<1> QED BY <1>5, <1>6

LEMMA ScreenAcknowledges ==
  ASSUME ScreenInv, NEW c \in S!Controls, S!Acknowledge(c)
  PROVE  ScreenInv'
<1> USE DEF ScreenInv
<1>0. S!Rest.at = "rest" /\ Asking.at = "asked"
  BY DEF S!Rest, Asking
<1>1. /\ UNCHANGED <<user, verified, job, quotes, commits, cache>> /\ press[c].at = "accepted"
      /\ press' = [press EXCEPT ![c] = S!Rest]
      /\ fetch' = [k \in S!Keys |-> IF fetch[k] # S!Rest /\ cache[k].value = None
                                    THEN fetch[k] ELSE Asking]
      /\ shown' = S!Later(c)
  BY DEF S!Acknowledge, Asking
<1>2. press[c] \in Accepted
  <2>1. press[c] = S!Rest \/ press[c] \in Sending \/ press[c] \in Accepted
    BY DEF ScreenTypeOK
  <2> QED BY <1>0, <1>1, <2>1 DEF Sending
<1>3. /\ shown' \in [S!Keys -> 0..commits]
      /\ \A k \in S!Keys : k \notin S!Touched(press[c].action) => shown'[k] = shown[k]
  BY <1>1, <1>2 DEF S!Later, Accepted, InTime, ScreenTypeOK
<1>4. fetch' \in [S!Keys -> {S!Rest, Asking} \cup Answered]
  BY <1>1 DEF ScreenTypeOK
<1>5. ScreenTypeOK'
  BY <1>1, <1>3, <1>4 DEF ScreenTypeOK
<1>6. press'[c] = S!Rest /\ \A i \in S!Controls : i # c => press'[i] = press[i]
  BY <1>1 DEF ScreenTypeOK
<1>7. \A k \in S!Keys : \/ fetch'[k] = Asking
                        \/ fetch'[k] = fetch[k] /\ fetch[k] # S!Rest /\ cache[k].value = None
  BY <1>1
<1>8. InTime'
  BY <1>0, <1>1, <1>6, <1>7 DEF InTime
<1>9. RowsAgree' /\ CopiesAreTrue'
  BY <1>0, <1>1, <1>7 DEF RowsAgree, CopiesAreTrue, UpToDate
<1>10. WillShow'
  <2>1. ASSUME NEW k \in S!Readable, fetch'[k] # Asking
        PROVE  fetch'[k] = fetch[k] /\ fetch[k] # S!Rest /\ shown'[k] = shown[k]
    <3>1. k \in S!Keys
      BY DEF S!Readable, S!Keys
    <3>2. cache[k].value = None /\ fetch'[k] = fetch[k] /\ fetch[k] # S!Rest
      BY <1>7, <2>1, <3>1
    <3>3. k \notin S!Touched(press[c].action)
      BY <1>1, <3>2 DEF HasRead
    <3> QED BY <1>3, <3>1, <3>2, <3>3
  <2> QED BY <1>0, <1>1, <2>1 DEF WillShow, S!Readable
<1>11. HasRead'
  <2>1. \A k \in S!Readable : k \in S!Keys
    BY DEF S!Readable, S!Keys
  <2> QED BY <1>0, <1>1, <1>6, <1>7, <2>1 DEF HasRead, S!Readable
<1> QED BY <1>5, <1>8, <1>9, <1>10, <1>11

LEMMA ScreenStep == S!RoleAssumption /\ ScreenInv /\ [S!Next]_(S!vars) => ScreenInv'
<1> SUFFICES ASSUME S!RoleAssumption, ScreenInv, [S!Next]_(S!vars) PROVE ScreenInv'
  OBVIOUS
<1>1. CASE S!Next
  BY <1>1, ScreenReads, ScreenPresses, ScreenHandles, ScreenAcknowledges DEF S!Next
<1>2. CASE UNCHANGED S!vars
  BY <1>2 DEF S!vars, ScreenInv, ScreenTypeOK, InTime, RowsAgree, CopiesAreTrue, UpToDate, WillShow,
                     HasRead, S!Readable
<1> QED BY <1>1, <1>2

\* An up-to-date screen decides as the server does.
LEMMA OffersAreAccepted ==
  ASSUME ScreenInv, S!RoleAssumption, S!Current, NEW c \in S!Controls, NEW a \in S!Offered(c)
  PROVE  S!Accepts(a, c) \/ S!Known(c, a)
<1> USE DEF ScreenInv
<1>1. /\ UpToDate("job", cache["job"].value) /\ UpToDate("jobQuotes", cache["jobQuotes"].value)
      /\ "job" \in S!Keys /\ "jobQuotes" \in S!Keys
  BY DEF CopiesAreTrue, S!Current, S!Keys
<1>2. cache.job.value \in {None, job} /\ cache.jobQuotes.value \in {None, quotes}
  BY <1>1 DEF UpToDate
<1>3. S!OpenJob => job.status \in {"posted", "quoting"}
  BY <1>2 DEF S!OpenJob
<1>4. \A p \in Providers : S!QuoteOf(p) \in {None, quotes[p]}
  BY <1>2 DEF S!QuoteOf
<1>5. CASE user = Customer /\ c = None /\ a \in S!OnJob
  <2>1. cache.job.value = job /\ cache.job.value # None
    BY <1>2, <1>5, ButtonsOfTheJob
  <2>2. \/ a = "cancel" /\ job.status \in {"draft", "posted", "quoting"}
        \/ a = "complete" /\ job.status = "in_progress"
    BY <1>5, <2>1, ButtonsOfTheJob
  <2> QED BY <2>2 DEF S!Accepts, S!Known
<1>6. CASE user = Customer /\ c \in Providers /\ a \in S!OnCard(c)
  <2>1. /\ S!OpenJob /\ S!QuoteOf(c) \notin {None, "rejected"}
        /\ a \in {"award", "reject", "shortlist"}
        /\ a = "shortlist" => S!QuoteOf(c) # "shortlisted"
    BY <1>6, ButtonsOfACard
  <2>2. S!QuoteOf(c) = quotes[c] /\ quotes[c] \notin {None, "rejected"}
    BY <1>4, <1>6, <2>1
  <2>3. quotes[c] \in S!Live \cup {None, "rejected", "awarded", "withdrawn"}
    BY <1>6 DEF ScreenTypeOK, S!QuoteValues
  <2>4. job.status = "quoting" /\ quotes[c] # "awarded"
    BY <1>3, <1>6, <2>1, <2>2 DEF RowsAgree
  <2>5. quotes[c] \in {"pending", "shortlisted", "withdrawn"}
    BY <2>2, <2>3, <2>4 DEF S!Live
  <2>6. CASE a = "award"
    BY <2>4, <2>5, <2>6 DEF S!Accepts, S!Known, S!Live
  <2>7. CASE a = "reject"
    BY <2>5, <2>7 DEF S!Accepts, S!Known, S!Live
  <2>8. CASE a = "shortlist"
    BY <2>1, <2>2, <2>5, <2>8 DEF S!Accepts, S!Known
  <2> QED BY <2>1, <2>6, <2>7, <2>8
<1>7. CASE c = user /\ c \in Providers /\ a \in S!OnForm
  <2>1. c \in Providers /\ a \in S!OnForm
    BY <1>7
  <2>2. CASE a = "quote"
    BY <1>3, <1>7, <2>1, <2>2 DEF S!OnForm, S!Accepts, S!Known
  <2>3. CASE a = "accept"
    <3>1. S!QuoteOf(c) = "awarded" /\ job.status = "awarded"
      BY <1>2, <1>7, <2>1, <2>3 DEF S!OnForm
    <3>2. quotes[c] = "awarded"
      BY <1>4, <2>1, <3>1 DEF S!RoleAssumption
    <3> QED BY <2>1, <2>3, <3>1, <3>2 DEF S!Accepts, RowsAgree
  <2>4. CASE a = "withdraw"
    BY <1>4, <1>7, <2>1, <2>4 DEF S!OnForm, S!Accepts, S!Live, S!RoleAssumption
  <2> QED BY <2>1, <2>2, <2>3, <2>4 DEF S!OnForm
<1> QED BY <1>5, <1>6, <1>7, ButtonsAreOffered

-----------------------------------------------------------------------------
(* Posting a job.                                                          *)

JobForms == [category : BOOLEAN, details : J!Texts \ {"short"}, suburb : J!Texts,
             address : J!Texts, start : J!Starts, min : J!Fields, max : J!Fields, publish : BOOLEAN]

PostingTypeOK ==
  /\ jobApp \in {"mobile", "web"} /\ jobForm \in JobForms /\ step \in 1..5
  /\ stored \in Seq({"draft"}) /\ lost \in Nat

\* The wizard looks at a step when it is left, and what was right then still is: a step can be
\* edited only from itself, and is looked at again on the way forward.  No text is too long,
\* and there is no date.
RightSoFar(f) ==
  jobApp = "mobile" =>
    /\ "long" \notin {f.details, f.suburb, f.address} /\ f.start = "none"
    /\ step > 1 => f.category
    /\ step > 2 => f.details # "none"
    /\ step > 3 => f.suburb \notin {"none", "short"}

StepsWereRight == RightSoFar(jobForm)

\* What was checked before it was sent is what is sent, by the app's own checks.
SentWasRight ==
  jobPhase = "sent" =>
    /\ jobForm.publish => jobForm.address # "none"
    /\ jobApp = "mobile" => step = 5 /\ J!InOrder(J!Payload)
    /\ jobApp = "web" => /\ jobForm.category /\ J!InOrder(jobForm)
                         /\ jobForm.details # "none" /\ jobForm.suburb # "none"

PostingInv == PostingTypeOK /\ StepsWereRight /\ SentWasRight /\ J!DuplicatesAreLost

LEMMA PostingStart == J!Init => PostingInv
<1> SUFFICES ASSUME J!Init PROVE PostingInv
  OBVIOUS
<1>1. PostingTypeOK
  BY DEF J!Init, J!Empty, PostingTypeOK, JobForms, J!Fields, J!Texts, J!Starts
<1>2. StepsWereRight /\ SentWasRight
  BY DEF J!Init, J!Empty, StepsWereRight, RightSoFar, SentWasRight
<1>3. J!DuplicatesAreLost
  BY DEF J!Init, J!DuplicatesAreLost
<1> QED BY <1>1, <1>2, <1>3 DEF PostingInv

\* Filling in.
LEMMA PostingEdits ==
  ASSUME PostingInv, NEW new \in JobForms, J!Edit(new), RightSoFar(new)
  PROVE  PostingInv'
<1>1. /\ jobPhase = "editing" /\ jobForm' = new
      /\ UNCHANGED <<jobApp, step, jobPhase, stored, lost>>
  BY DEF J!Edit
<1>2. PostingTypeOK' /\ StepsWereRight'
  BY <1>1 DEF PostingInv, PostingTypeOK, StepsWereRight, RightSoFar
<1>3. SentWasRight' /\ J!DuplicatesAreLost'
  BY <1>1 DEF PostingInv, SentWasRight, J!DuplicatesAreLost
<1> QED BY <1>2, <1>3 DEF PostingInv

LEMMA PostingFillsIn ==
  ASSUME PostingInv, J!HandleChange \/ J!HandleToggle
  PROVE  PostingInv'
<1> USE DEF PostingInv, PostingTypeOK
<1>0. jobForm \in JobForms /\ RightSoFar(jobForm)
  BY DEF StepsWereRight
<1>00. ASSUME NEW t \in J!TypeableTexts PROVE t \in J!Texts /\ (jobApp = "mobile" => t # "long")
  BY <1>00 DEF J!TypeableTexts, J!Texts
<1>1. CASE J!On(1) /\ J!Edit([jobForm EXCEPT !.category = TRUE])
  <2>1. PICK new : new = [jobForm EXCEPT !.category = TRUE]
    OBVIOUS
  <2>2. new \in JobForms /\ RightSoFar(new)
    BY <1>0, <2>1 DEF JobForms, RightSoFar
  <2> QED BY <1>1, <2>1, <2>2, PostingEdits
<1>2. ASSUME J!On(2), NEW t \in J!TypeableTexts \ {"short"}, J!Edit([jobForm EXCEPT !.details = t])
      PROVE  PostingInv'
  <2>1. PICK new : new = [jobForm EXCEPT !.details = t]
    OBVIOUS
  <2>2. jobApp = "mobile" => step = 2
    BY <1>2 DEF J!On
  <2>3. /\ new \in JobForms /\ new.details = t /\ new.start = jobForm.start
        /\ new.category = jobForm.category /\ new.suburb = jobForm.suburb
        /\ new.address = jobForm.address
    BY <1>0, <1>2, <1>00, <2>1 DEF JobForms
  <2>4. RightSoFar(new)
    BY <1>0, <1>2, <1>00, <2>2, <2>3 DEF RightSoFar
  <2> QED BY <1>2, <2>1, <2>3, <2>4, PostingEdits
<1>3. ASSUME J!On(3), NEW t \in J!TypeableTexts, J!Edit([jobForm EXCEPT !.suburb = t])
      PROVE  PostingInv'
  <2>1. PICK new : new = [jobForm EXCEPT !.suburb = t]
    OBVIOUS
  <2>2. jobApp = "mobile" => step = 3
    BY <1>3 DEF J!On
  <2>3. /\ new \in JobForms /\ new.suburb = t /\ new.start = jobForm.start
        /\ new.category = jobForm.category /\ new.details = jobForm.details
        /\ new.address = jobForm.address
    BY <1>0, <1>3, <1>00, <2>1 DEF JobForms
  <2>4. RightSoFar(new)
    BY <1>0, <1>3, <1>00, <2>2, <2>3 DEF RightSoFar
  <2> QED BY <1>3, <2>1, <2>3, <2>4, PostingEdits
<1>4. ASSUME NEW new \in JobForms, J!Edit(new), new.category = jobForm.category,
             new.details = jobForm.details, new.suburb = jobForm.suburb,
             jobApp = "mobile" => new.address # "long" /\ new.start = jobForm.start
      PROVE  PostingInv'
  <2>1. RightSoFar(new)
    BY <1>0, <1>4 DEF RightSoFar
  <2> QED BY <1>4, <2>1, PostingEdits
<1>5. ASSUME NEW t \in J!TypeableTexts, J!Edit([jobForm EXCEPT !.address = t])
      PROVE  PostingInv'
  <2>1. PICK new : new = [jobForm EXCEPT !.address = t]
    OBVIOUS
  <2>2. /\ new \in JobForms /\ new.category = jobForm.category /\ new.start = jobForm.start
        /\ new.details = jobForm.details /\ new.suburb = jobForm.suburb /\ new.address = t
    BY <1>00, <2>1 DEF JobForms
  <2> QED BY <1>4, <1>5, <1>00, <2>1, <2>2
<1>6. ASSUME NEW d \in J!Starts, J!Edit([jobForm EXCEPT !.start = d]), jobApp = "web"
      PROVE  PostingInv'
  <2>1. PICK new : new = [jobForm EXCEPT !.start = d]
    OBVIOUS
  <2>2. /\ new \in JobForms /\ new.category = jobForm.category
        /\ new.details = jobForm.details /\ new.suburb = jobForm.suburb
    BY <2>1 DEF JobForms
  <2> QED BY <1>4, <1>6, <2>1, <2>2
<1>7. ASSUME NEW new \in JobForms, J!Edit(new), new.category = jobForm.category,
             new.details = jobForm.details, new.suburb = jobForm.suburb,
             new.address = jobForm.address, new.start = jobForm.start
      PROVE  PostingInv'
  BY <1>0, <1>4, <1>7 DEF RightSoFar
<1>8. ASSUME NEW a \in J!Typeable,
             J!Edit([jobForm EXCEPT !.min = a]) \/ J!Edit([jobForm EXCEPT !.max = a])
      PROVE  PostingInv'
  <2>1. PICK min, max : min = [jobForm EXCEPT !.min = a] /\ max = [jobForm EXCEPT !.max = a]
    OBVIOUS
  <2>2. ASSUME NEW new \in {min, max}
        PROVE  /\ new \in JobForms /\ new.category = jobForm.category
               /\ new.details = jobForm.details /\ new.suburb = jobForm.suburb
               /\ new.address = jobForm.address /\ new.start = jobForm.start
    BY <2>1, <2>2 DEF JobForms, J!Typeable
  <2> QED BY <1>7, <1>8, <2>1, <2>2
<1>9. CASE J!HandleToggle
  <2>1. PICK new : new = [jobForm EXCEPT !.publish = ~@]
    OBVIOUS
  <2>2. /\ new \in JobForms /\ new.category = jobForm.category
        /\ new.details = jobForm.details /\ new.suburb = jobForm.suburb
        /\ new.address = jobForm.address /\ new.start = jobForm.start
    BY <2>1 DEF JobForms
  <2>3. J!Edit(new)
    BY <1>9, <2>1 DEF J!HandleToggle
  <2> QED BY <1>7, <2>2, <2>3
<1> QED BY <1>1, <1>2, <1>3, <1>5, <1>6, <1>8, <1>9 DEF J!HandleChange

\* Going on, and back.
LEMMA PostingMoves ==
  ASSUME PostingInv, J!HandleNext \/ J!HandleBack
  PROVE  PostingInv'
<1> USE DEF PostingInv
<1>1. /\ jobApp = "mobile" /\ jobPhase = "editing"
      /\ UNCHANGED <<jobApp, jobForm, jobPhase, stored, lost>>
  BY DEF J!HandleNext, J!HandleBack
<1>2. step' \in 1..5 /\ (step' <= step \/ (step' = step + 1 /\ J!ValidStep(step)))
  BY DEF J!HandleNext, J!HandleBack, PostingTypeOK
<1>3. PostingTypeOK' /\ SentWasRight' /\ J!DuplicatesAreLost'
  BY <1>1, <1>2 DEF PostingTypeOK, SentWasRight, J!DuplicatesAreLost
<1>4. StepsWereRight'
  <2>1. CASE step' <= step
    BY <1>1, <1>2, <2>1 DEF StepsWereRight, RightSoFar, PostingTypeOK
  <2>2. CASE step' = step + 1 /\ J!ValidStep(step)
    <3>1. /\ step = 1 => jobForm.category
          /\ step = 2 => jobForm.details # "none"
          /\ step = 3 => jobForm.suburb \notin {"none", "short"}
      BY <2>2 DEF J!ValidStep
    <3> QED BY <1>1, <2>2, <3>1 DEF StepsWereRight, RightSoFar, PostingTypeOK
  <2> QED BY <1>2, <2>1, <2>2
<1> QED BY <1>3, <1>4

\* Sending, by the checks of each app.
LEMMA PostingSubmits ==
  ASSUME PostingInv, J!SubmitWizard \/ J!SubmitForm
  PROVE  PostingInv'
<1> USE DEF PostingInv
<1>1. CASE J!SubmitWizard
  <2>1. /\ jobApp = "mobile" /\ step = 5 /\ jobPhase = "editing"
        /\ UNCHANGED <<jobApp, jobForm, step, stored, lost>>
        /\ jobPhase' \in {"editing", "sent"}
        /\ jobPhase' = "sent" => J!ValidStep(5)
    BY <1>1 DEF J!SubmitWizard
  <2>2. J!ValidStep(5) = (J!InOrder(J!Payload) /\ J!HasAddress(jobForm))
    BY DEF J!ValidStep
  <2>3. PICK payload : payload = J!Payload
    OBVIOUS
  <2>4. J!Payload' = payload
    BY <2>1, <2>3 DEF J!Payload, J!Sent
  <2>5. jobPhase' = "sent" => J!InOrder(payload) /\ (jobForm.publish => jobForm.address # "none")
    BY <2>1, <2>2, <2>3 DEF J!HasAddress
  <2>6. SentWasRight'
    BY <2>1, <2>4, <2>5 DEF SentWasRight, J!InOrder
  <2>7. PostingTypeOK' /\ StepsWereRight'
    BY <2>1 DEF PostingTypeOK, StepsWereRight, RightSoFar
  <2>8. J!DuplicatesAreLost'
    BY <2>1 DEF J!DuplicatesAreLost
  <2> QED BY <2>6, <2>7, <2>8
<1>2. CASE J!SubmitForm
  <2>1. PICK publishNow \in BOOLEAN :
          /\ jobForm' = [jobForm EXCEPT !.publish = publishNow]
          /\ jobPhase' \in {"editing", "sent"}
          /\ jobPhase' = "sent" => J!ValidForm(publishNow)
    BY <1>2 DEF J!SubmitForm
  <2>2. jobApp = "web" /\ jobPhase = "editing" /\ UNCHANGED <<jobApp, step, stored, lost>>
    BY <1>2 DEF J!SubmitForm
  <2>3. /\ jobForm' \in JobForms /\ jobForm'.publish = publishNow
        /\ jobForm'.category = jobForm.category /\ jobForm'.details = jobForm.details
        /\ jobForm'.suburb = jobForm.suburb /\ jobForm'.address = jobForm.address
        /\ jobForm'.min = jobForm.min /\ jobForm'.max = jobForm.max
    BY <2>1 DEF PostingTypeOK, JobForms
  <2>4. SentWasRight'
    BY <2>1, <2>2, <2>3 DEF SentWasRight, J!ValidForm, J!InOrder
  <2>5. PostingTypeOK' /\ StepsWereRight'
    BY <2>2, <2>3 DEF PostingTypeOK, StepsWereRight, RightSoFar
  <2>6. J!DuplicatesAreLost'
    BY <2>1, <2>2 DEF J!DuplicatesAreLost
  <2> QED BY <2>4, <2>5, <2>6
<1> QED BY <1>1, <1>2

\* What the server does with it, and what comes back.
LEMMA PostingIsAnswered ==
  ASSUME PostingInv, J!Forbid \/ J!StoreJob \/ J!Answer \/ J!LoseAnswer
  PROVE  PostingInv'
<1> USE DEF PostingInv
<1>1. UNCHANGED <<jobApp, jobForm, step>> /\ jobPhase' # "sent"
  BY DEF J!Forbid, J!StoreJob, J!Answer, J!LoseAnswer
<1>2. StepsWereRight' /\ SentWasRight'
  BY <1>1 DEF StepsWereRight, RightSoFar, SentWasRight
<1>3. Len(stored) \in Nat
  BY DEF PostingTypeOK
<1>4. CASE J!StoreJob
  <2>1. CASE J!Accepts(J!Payload)
    <3>1. /\ stored' = Append(stored, "draft") /\ jobPhase = "sent" /\ jobPhase' = "stored"
          /\ lost' = lost
      BY <1>4, <2>1 DEF J!StoreJob
    <3>2. stored' \in Seq({"draft"}) /\ Len(stored') = Len(stored) + 1
      BY <3>1 DEF PostingTypeOK
    <3>3. J!DuplicatesAreLost'
      BY <1>3, <3>1, <3>2 DEF J!DuplicatesAreLost, PostingTypeOK
    <3> QED BY <1>1, <1>2, <3>1, <3>2, <3>3 DEF PostingTypeOK
  <2>2. CASE ~J!Accepts(J!Payload)
    BY <1>1, <1>2, <1>4, <2>2 DEF J!StoreJob, PostingTypeOK, J!DuplicatesAreLost
  <2> QED BY <2>1, <2>2
<1>5. CASE J!Answer
  <2>1. /\ UNCHANGED <<stored, lost>>
        /\ \/ jobPhase = "stored" /\ jobPhase' = "done"
           \/ jobPhase = "refused" /\ jobPhase' = "editing"
    BY <1>5 DEF J!Answer
  <2> QED BY <1>1, <1>2, <2>1 DEF PostingTypeOK, J!DuplicatesAreLost
<1>6. CASE J!LoseAnswer
  <2>1. /\ stored' = stored /\ lost' = lost + 1
        /\ jobPhase \in {"sent", "stored"} /\ jobPhase' = "editing"
    BY <1>6 DEF J!LoseAnswer
  <2>2. J!DuplicatesAreLost'
    BY <1>3, <2>1 DEF J!DuplicatesAreLost, PostingTypeOK
  <2> QED BY <1>1, <1>2, <2>1, <2>2 DEF PostingTypeOK
<1>7. CASE J!Forbid
  BY <1>1, <1>2, <1>7 DEF J!Forbid, PostingTypeOK, J!DuplicatesAreLost
<1> QED BY <1>4, <1>5, <1>6, <1>7

\* The day turns only for a form of the web, and changes no check it has passed.
LEMMA PostingDayTurns ==
  ASSUME PostingInv, J!DayTurns
  PROVE  PostingInv'
<1> USE DEF PostingInv
<1>1. PICK new : new = [jobForm EXCEPT !.start = "past"]
  OBVIOUS
<1>2. /\ new \in JobForms /\ new.category = jobForm.category /\ new.details = jobForm.details
      /\ new.suburb = jobForm.suburb /\ new.address = jobForm.address
      /\ new.publish = jobForm.publish /\ new.min = jobForm.min /\ new.max = jobForm.max
  BY <1>1 DEF PostingTypeOK, JobForms, J!Starts
<1>3. jobForm' = new /\ UNCHANGED <<jobApp, step, jobPhase, stored, lost>> /\ jobApp # "mobile"
  BY <1>1 DEF J!DayTurns, StepsWereRight, RightSoFar
<1>4. PostingTypeOK' /\ StepsWereRight' /\ SentWasRight'
  BY <1>2, <1>3 DEF PostingTypeOK, StepsWereRight, RightSoFar, SentWasRight, J!InOrder
<1>5. J!DuplicatesAreLost'
  BY <1>3 DEF J!DuplicatesAreLost
<1> QED BY <1>4, <1>5

LEMMA PostingStep == PostingInv /\ [J!Next]_(J!vars) => PostingInv'
<1> SUFFICES ASSUME PostingInv, [J!Next]_(J!vars) PROVE PostingInv'
  OBVIOUS
<1>1. CASE J!Next
  BY <1>1, PostingFillsIn, PostingMoves, PostingSubmits, PostingDayTurns,
     PostingIsAnswered DEF J!Next
<1>2. CASE UNCHANGED J!vars
  <2>1. UNCHANGED <<jobApp, jobForm, step, jobPhase, stored, lost>>
    BY <1>2 DEF J!vars
  <2>2. PICK payload : payload = J!Payload
    OBVIOUS
  <2>3. J!Payload' = payload
    BY <2>1, <2>2 DEF J!Payload, J!Sent
  <2> QED BY <2>1, <2>2, <2>3 DEF PostingInv, PostingTypeOK, StepsWereRight, RightSoFar,
                                  SentWasRight, J!InOrder, J!DuplicatesAreLost
<1> QED BY <1>1, <1>2

\* The two checks overlap but for the gaps.
LEMMA JobGapsAreKnown == PostingInv => J!OnlyKnownGaps
<1> SUFFICES ASSUME PostingInv, jobPhase = "sent", jobForm.address # "short",
                    J!InRange(J!Payload.min), J!InRange(J!Payload.max),
                    jobApp = "web" => /\ jobForm.suburb # "short"
                                      /\ "long" \notin {jobForm.details, jobForm.suburb, jobForm.address}
                                      /\ jobForm.start \notin {"past", "far"}
             PROVE  J!Accepts(J!Payload)
  BY DEF J!OnlyKnownGaps
<1> USE DEF PostingInv
<1>1. /\ J!Payload.category = jobForm.category /\ J!Payload.details = jobForm.details
      /\ J!Payload.suburb = jobForm.suburb /\ J!Payload.address = jobForm.address
      /\ J!Payload.start = jobForm.start /\ J!Payload.publish = jobForm.publish
      /\ J!Payload.min = J!Sent(jobForm.min) /\ J!Payload.max = J!Sent(jobForm.max)
  BY DEF PostingTypeOK, JobForms, J!Payload
<1>2. J!HasAddress(J!Payload)
  BY <1>1 DEF SentWasRight, J!HasAddress
<1>3. J!InOrder(J!Payload)
  <2>1. CASE jobApp = "mobile"
    BY <2>1 DEF SentWasRight
  <2>2. CASE jobApp = "web"
    BY <1>1, <2>2 DEF SentWasRight, J!Sent, J!InOrder
  <2> QED BY <2>1, <2>2 DEF PostingTypeOK
<1>4. /\ jobForm.details \in J!Texts \ {"short"} /\ jobForm.suburb \in J!Texts
      /\ jobForm.address \in J!Texts /\ jobForm.start \in J!Starts
  BY DEF PostingTypeOK, JobForms
<1>5. /\ jobForm.category /\ jobForm.details \notin {"none", "long"}
      /\ jobForm.suburb \notin {"none", "short", "long"} /\ jobForm.address \notin {"short", "long"}
      /\ jobForm.start \notin {"past", "far"}
  <2>1. CASE jobApp = "mobile"
    BY <2>1 DEF StepsWereRight, RightSoFar, SentWasRight
  <2>2. CASE jobApp = "web"
    BY <2>2 DEF SentWasRight
  <2> QED BY <2>1, <2>2 DEF PostingTypeOK
<1> QED BY <1>1, <1>2, <1>3, <1>4, <1>5 DEF J!Accepts, J!Texts, J!Starts

-----------------------------------------------------------------------------
(* Sending a quote.                                                        *)

\* What the form checked is what was sent.
QuotingInv ==
  /\ quoteApp \in {"mobile", "web"} /\ quoteForm \in Q!Quotes
  /\ quotePhase \in {"sent", "valid"} =>
       /\ Q!InBrowser(quoteForm)
       /\ \A p \in Q!PricesOf(quoteForm.type) : quoteForm.price[p] # Blank
       /\ quoteForm.notes # "short"

LEMMA QuotingStart == Q!Init => QuotingInv
  BY DEF Q!Init, QuotingInv, Q!Quotes, Q!Types, Q!Notes, Q!Terms

\* The prices of each type.
LEMMA PricesOfTypes ==
  ASSUME NEW t \in Q!Types
  PROVE  Q!PricesOf(t) \subseteq Q!Prices /\ ("min" \in Q!PricesOf(t) => t = "estimate_range")
<1>1. CASE t = "fixed"
  <2>1. Q!PricesOf(t) = {"fixed"}
    BY <1>1 DEF Q!PricesOf
  <2> QED BY <2>1 DEF Q!Prices
<1>2. CASE t = "estimate_range"
  <2>1. Q!PricesOf(t) = {"min", "max"}
    BY <1>2 DEF Q!PricesOf
  <2> QED BY <1>2, <2>1 DEF Q!Prices
<1>3. CASE t = "hourly"
  <2>1. Q!PricesOf(t) = {"hourly"}
    BY <1>3 DEF Q!PricesOf
  <2> QED BY <2>1 DEF Q!Prices
<1>4. CASE t = "call_for_quote"
  <2>1. Q!PricesOf(t) = {}
    BY <1>4 DEF Q!PricesOf
  <2> QED BY <2>1
<1> QED BY <1>1, <1>2, <1>3, <1>4 DEF Q!Types

LEMMA QuotingStep == QuotingInv /\ [Q!Next]_(Q!vars) => QuotingInv'
<1> SUFFICES ASSUME QuotingInv, [Q!Next]_(Q!vars) PROVE QuotingInv'
  OBVIOUS
<1>1. ASSUME NEW new \in Q!Quotes, Q!Edit(new) PROVE QuotingInv'
  BY <1>1 DEF Q!Edit, QuotingInv
<1>2. CASE Q!FillIn
  <2>1. ASSUME NEW t \in Q!Types, Q!Edit([quoteForm EXCEPT !.type = t]) PROVE QuotingInv'
    BY <1>1, <2>1 DEF QuotingInv, Q!Quotes
  <2>2. ASSUME NEW p \in Q!Prices, NEW a \in QuoteAmounts \cup {Blank, NaN},
               Q!Edit([quoteForm EXCEPT !.price[p] = a])
        PROVE  QuotingInv'
    <3>1. PICK price : price = [quoteForm.price EXCEPT ![p] = a]
      OBVIOUS
    <3>2. price \in [Q!Prices -> QuoteAmounts \cup {Blank, NaN}]
      BY <3>1 DEF QuotingInv, Q!Quotes
    <3>3. [quoteForm EXCEPT !.price[p] = a] = [quoteForm EXCEPT !.price = price]
      BY <3>1
    <3>4. [quoteForm EXCEPT !.price = price] \in Q!Quotes
      BY <3>2 DEF QuotingInv, Q!Quotes
    <3> QED BY <1>1, <2>2, <3>3, <3>4
  <2>3. ASSUME NEW n \in Q!Notes, Q!Edit([quoteForm EXCEPT !.notes = n]) PROVE QuotingInv'
    BY <1>1, <2>3 DEF QuotingInv, Q!Quotes
  <2>4. ASSUME NEW d \in Q!Terms, Q!Edit([quoteForm EXCEPT !.days = d]) PROVE QuotingInv'
    BY <1>1, <2>4 DEF QuotingInv, Q!Quotes
  <2>5. ASSUME NEW d \in Q!Terms, Q!Edit([quoteForm EXCEPT !.months = d]) PROVE QuotingInv'
    BY <1>1, <2>5 DEF QuotingInv, Q!Quotes
  <2>6. Q!PricesOf(quoteForm.type) \subseteq Q!Prices
    BY PricesOfTypes DEF QuotingInv, Q!Quotes
  <2>7. Q!Typed(QuoteAmounts) \subseteq QuoteAmounts \cup {Blank, NaN} /\ Q!Typed(Days) \subseteq Q!Terms
    BY DEF Q!Typed, Q!Terms
  <2> QED BY <1>2, <2>1, <2>2, <2>3, <2>4, <2>5, <2>6, <2>7 DEF Q!FillIn
<1>3. CASE Q!HandleSubmit
  BY <1>3 DEF Q!HandleSubmit, QuotingInv, Q!InBrowser
<1>4. CASE Q!Validate
  BY <1>4 DEF Q!Validate, QuotingInv, Q!InBrowser
<1>7. CASE Q!Forbid
  BY <1>7 DEF Q!Forbid, QuotingInv
<1>5. CASE Q!CreateQuote
  BY <1>5 DEF Q!CreateQuote, QuotingInv
<1>6. CASE UNCHANGED Q!vars
  BY <1>6 DEF Q!vars, QuotingInv, Q!InBrowser
<1> QED BY <1>2, <1>3, <1>4, <1>5, <1>6, <1>7 DEF Q!Next

\* A number between two bounds.
LEMMA TermsFit ==
  ASSUME Q!AmountAssumption, NEW n \in QuoteAmounts \cup Days, NEW low \in Nat, NEW up \in Nat,
         n >= low, n <= up
  PROVE  n \in Q!Between(low, up)
<1>1. n \in Int
  BY DEF Q!AmountAssumption
<1>2. low <= n /\ n <= up
  BY <1>1
<1> QED BY <1>2 DEF Q!Between

\* What the layers ask for overlaps but for the gaps.
LEMMA QuoteGapsAreKnown == Q!AmountAssumption /\ QuotingInv => Q!OnlyKnownQuoteGaps
<1> SUFFICES ASSUME Q!AmountAssumption, QuotingInv, quotePhase \in {"sent", "valid"},
                    quoteForm.type = "estimate_range" => Q!InOrder(quoteForm),
                    quoteForm.notes \notin {"blanks", "long"},
                    quoteForm.days \notin Q!AtLeast(731), quoteForm.months \notin Q!AtLeast(121),
                    quoteApp = "mobile" => /\ Q!Optional(quoteForm.days, Q!AtLeast(1))
                                           /\ Q!Optional(quoteForm.months, Q!AtLeast(0))
                                           /\ \A p \in Q!PricesOf(quoteForm.type) :
                                                quoteForm.price[p] \in Q!AtLeast(100),
                    \A p \in Q!PricesOf(quoteForm.type) :
                      quoteForm.price[p] \notin Q!AtLeast(MaxInteger + 1)
             PROVE  Q!Valid(Q!Payload) /\ Q!Fits(Q!Payload)
  BY DEF Q!OnlyKnownQuoteGaps
<1>1. /\ quoteForm.type \in Q!Types /\ quoteForm.notes \in Q!Notes
      /\ Q!Optional(quoteForm.days, Q!AtLeast(1)) /\ Q!Optional(quoteForm.months, Q!AtLeast(0))
      /\ quoteForm.price \in [Q!Prices -> QuoteAmounts \cup {Blank, NaN}]
  BY DEF QuotingInv, Q!Quotes, Q!InBrowser
<1>2. PICK q : q = Q!Payload
  OBVIOUS
<1>3. /\ q.type = quoteForm.type /\ q.notes = quoteForm.notes
      /\ q.days = quoteForm.days /\ q.months = quoteForm.months
      /\ q.price = [p \in Q!Prices |-> IF p \in Q!PricesOf(quoteForm.type) THEN quoteForm.price[p]
                                       ELSE Blank]
  BY <1>2 DEF Q!Payload, QuotingInv, Q!Quotes
<1>4. QuoteAmounts \subseteq Int /\ Days \subseteq Int /\ MaxInteger \in Nat
      /\ Blank \notin QuoteAmounts \cup Days
  BY DEF Q!AmountAssumption
<1>5. ASSUME NEW p \in Q!PricesOf(quoteForm.type)
      PROVE  quoteForm.price[p] \in Q!AtLeast(100) /\ quoteForm.price[p] \in Q!Between(1, MaxInteger)
  <2>1. quoteForm.price[p] \in Q!AtLeast(100)
    BY <1>5 DEF QuotingInv, Q!InBrowser, Q!Optional
  <2>2. PICK n \in QuoteAmounts \cup Days : n = quoteForm.price[p] /\ n >= 100
    BY <2>1 DEF Q!AtLeast
  <2>3. n \in Int /\ ~(n >= MaxInteger + 1)
    BY <1>4, <1>5, <2>2 DEF Q!AtLeast
  <2>4. n >= 1 /\ n <= MaxInteger
    BY <1>4, <2>2, <2>3
  <2>5. n \in Q!Between(1, MaxInteger)
    BY <1>4, <2>4 DEF Q!Between
  <2> QED BY <2>1, <2>2, <2>5
<1>6. \A p \in Q!Prices : /\ Q!Optional(q.price[p], Q!AtLeast(100))
                          /\ Q!Optional(q.price[p], Q!Between(1, MaxInteger))
  BY <1>3, <1>5 DEF Q!Optional
<1>7. Q!Termed(q)
  <2>1. Q!Optional(q.days, Q!Between(1, 730))
    <3> SUFFICES ASSUME quoteForm.days # Blank PROVE quoteForm.days \in Q!Between(1, 730)
      BY <1>3 DEF Q!Optional
    <3>1. PICK d \in QuoteAmounts \cup Days : d = quoteForm.days /\ d >= 1
      BY <1>1 DEF Q!Optional, Q!AtLeast
    <3>2. d \in Int /\ ~(d >= 731)
      BY <1>4, <3>1 DEF Q!AtLeast
    <3>3. d <= 730
      BY <3>2
    <3> QED BY <3>1, <3>3, TermsFit
  <2>2. Q!Optional(q.months, Q!Between(0, 120))
    <3> SUFFICES ASSUME quoteForm.months # Blank PROVE quoteForm.months \in Q!Between(0, 120)
      BY <1>3 DEF Q!Optional
    <3>1. PICK d \in QuoteAmounts \cup Days : d = quoteForm.months /\ d >= 0
      BY <1>1 DEF Q!Optional, Q!AtLeast
    <3>2. d \in Int /\ ~(d >= 121)
      BY <1>4, <3>1 DEF Q!AtLeast
    <3>3. d <= 120
      BY <3>2
    <3> QED BY <3>1, <3>3, TermsFit
  <2> QED BY <2>1, <2>2 DEF Q!Termed
<1>8. Q!Priced(q)
  <2>1. Q!PricesOf(quoteForm.type) \subseteq Q!Prices
    BY <1>1, PricesOfTypes
  <2> QED BY <1>3, <2>1 DEF Q!Priced, QuotingInv
<1>9. Q!InOrder(q)
  <2>1. "min" \in Q!Prices /\ "max" \in Q!Prices
    BY DEF Q!Prices
  <2>2. CASE quoteForm.type = "estimate_range"
    <3>1. Q!PricesOf(quoteForm.type) = {"min", "max"}
      BY <2>2 DEF Q!PricesOf
    <3>2. q.price["min"] = quoteForm.price["min"] /\ q.price["max"] = quoteForm.price["max"]
      BY <1>3, <2>1, <3>1
    <3> QED BY <2>2, <3>2 DEF Q!InOrder
  <2>3. CASE quoteForm.type # "estimate_range"
    <3>1. q.price["min"] = Blank
      BY <1>1, <1>3, <2>1, <2>3, PricesOfTypes
    <3> QED BY <1>4, <3>1 DEF Q!InOrder
  <2> QED BY <2>2, <2>3
<1>10. q.notes \notin {"short", "blanks", "long"}
  BY <1>3 DEF QuotingInv
<1> QED BY <1>2, <1>6, <1>7, <1>8, <1>9, <1>10 DEF Q!Valid, Q!Fits

-----------------------------------------------------------------------------
(* Creating an account.                                                    *)

RegFields == R!Texts \cup R!Ticks \cup {"role"}

\* Who has the account was told so, or an answer was lost.
RegisteringInv ==
  /\ regForm = [f \in RegFields |-> regForm[f]]
  /\ regForm["business"] \in {Blank, "bad", "ok"}
  /\ regPhase = "sent" => R!Faults(R!Payload) = {}
  /\ account = "me" => unanswered \/ regPhase = "in"
  /\ failed => regPhase = "editing"

LEMMA RegisteringStart == R!Init => RegisteringInv
<1> SUFFICES ASSUME R!Init PROVE RegisteringInv
  OBVIOUS
<1>1. /\ regForm = [f \in RegFields |-> CASE f \in R!Texts -> Blank
                                          [] f \in R!Ticks -> "no"
                                          [] OTHER -> IF regApp = "mobile" THEN "customer" ELSE "none"]
      /\ regPhase = "editing" /\ account # "me" /\ ~failed
  BY DEF R!Init, RegFields
<1>2. "business" \in R!Texts /\ "business" \in RegFields
  BY DEF R!Texts, RegFields
<1>3. regForm["business"] = Blank
  BY <1>1, <1>2 DEF R!Texts, R!Ticks
<1> QED BY <1>1, <1>3 DEF RegisteringInv

\* A provider's business is sent as it was typed.
LEMMA BusinessIsSent ==
  ASSUME RegisteringInv, regForm["role"] = "provider"
  PROVE  R!Payload["business"] = regForm["business"] /\ R!Payload["role"] = "provider"
<1>1. /\ DOMAIN regForm = RegFields /\ "business" \in RegFields /\ "role" \in RegFields
  BY DEF RegisteringInv, RegFields, R!Texts
<1> QED BY <1>1 DEF R!Payload

LEMMA RegisteringStep ==
  ASSUME R!BlankAssumption, RegisteringInv, [R!Next]_(R!vars)
  PROVE  RegisteringInv'
<1> USE DEF RegisteringInv
<1>1. ASSUME NEW f \in DOMAIN regForm, NEW v, R!FillIn(f, v) PROVE RegisteringInv'
  <2>1. /\ regPhase = "editing" /\ v \in R!Choices(f) /\ regForm' = [regForm EXCEPT ![f] = v]
        /\ UNCHANGED <<regPhase, account, unanswered, failed>>
    BY <1>1 DEF R!FillIn
  <2>2. regForm' = [g \in RegFields |-> regForm'[g]]
    BY <2>1
  <2>3. f = "business" => v \in {Blank, "bad", "ok"}
    <3>1. R!Choices("business") = {Blank, "bad", "ok"}
      BY DEF R!Choices, R!Ticks
    <3> QED BY <2>1, <3>1
  <2>4. regForm'["business"] \in {Blank, "bad", "ok"}
    BY <2>1, <2>3
  <2> QED BY <2>1, <2>2, <2>4
<1>2. CASE R!HandleRegister
  <2>1. PICK payload : payload = R!Payload
    OBVIOUS
  <2>2. /\ UNCHANGED <<regApp, regForm, account, unanswered>> /\ failed' = FALSE
        /\ regPhase = "editing" /\ (regPhase' = "sent" => R!Faults(payload) = {})
    BY <1>2, <2>1 DEF R!HandleRegister
  <2>3. R!Payload' = payload
    BY <2>1, <2>2 DEF R!Payload
  <2>4. R!Faults(R!Payload)' = R!Faults(payload)
    BY <2>3 DEF R!Faults
  <2> QED BY <2>2, <2>4
<1>3. CASE R!Register
  <2>1. /\ UNCHANGED regForm /\ regPhase = "sent"
        /\ regPhase' \in {"in", "editing"} /\ failed' = (regPhase' = "editing")
    BY <1>3 DEF R!Register
  <2>2. account' = "me" => unanswered' \/ regPhase' = "in"
    BY <1>3 DEF R!Register
  <2> QED BY <2>1, <2>2
<1>5. CASE R!Forbid
  BY <1>5 DEF R!Forbid
<1>4. CASE UNCHANGED R!vars
  <2>1. UNCHANGED <<regApp, regForm, regPhase, failed, account, unanswered>>
    BY <1>4 DEF R!vars
  <2>2. PICK payload : payload = R!Payload
    OBVIOUS
  <2>3. R!Payload' = payload
    BY <2>1, <2>2 DEF R!Payload
  <2>4. R!Faults(R!Payload)' = R!Faults(payload)
    BY <2>3 DEF R!Faults
  <2> QED BY <2>1, <2>2, <2>4
<1> QED BY <1>1, <1>2, <1>3, <1>4, <1>5 DEF R!Next

LEMMA RefusalsAreKnown == R!BlankAssumption /\ RegisteringInv => R!OnlyTakenRefused
<1> SUFFICES ASSUME R!BlankAssumption, RegisteringInv PROVE R!OnlyTakenRefused
  OBVIOUS
<1>1. failed /\ account = "me" => unanswered
  BY DEF RegisteringInv
<1>2. ASSUME regPhase = "sent", account = "nobody" PROVE R!Accepts(R!Payload)
  <2>1. R!Faults(R!Payload) = {}
    BY <1>2 DEF RegisteringInv
  <2>2. R!Payload["role"] = regForm["role"]
    BY DEF R!Payload, RegisteringInv, RegFields
  <2>3. regForm["role"] = "provider" => R!Payload["business"] # R!Undefined
    BY BusinessIsSent DEF RegisteringInv, R!BlankAssumption, R!Undefined
  <2> QED BY <1>2, <2>1, <2>2, <2>3 DEF R!Accepts
<1> QED BY <1>1, <1>2 DEF R!OnlyTakenRefused

-----------------------------------------------------------------------------
(* Editing the profile.                                                    *)

EditingTypeOK ==
  /\ profiles = [u \in Users |-> profiles[u]]
  /\ \A u \in Users : profiles[u] \in [P!FieldsOf(u) -> P!Values]
  /\ owner \in Users \cup {None} /\ asked \in Users \cup {None}
  /\ requests = [r \in P!Routes |-> requests[r]]
  /\ owner # None => copy \in [P!Names -> P!Values \cup {None}]
  /\ kept # None => /\ kept = [profile |-> kept.profile, fresh |-> kept.fresh]
                    /\ \A f \in DOMAIN kept.profile : kept.profile[f] \in P!Values
  /\ fields # None => open /\ fields \in [P!FieldsOf(owner) -> P!Values]
  /\ open => owner # None

\* What is on its way is what was submitted last, by who is signed in.
SendsSubmitted ==
  /\ saving \/ awaiting \/ saved => submitted # None
  /\ submitted # None => owner # None /\ submitted \in [P!FieldsOf(owner) -> P!Values]
  /\ \A r \in P!Routes : requests[r] # None =>
       submitted # None /\ \A f \in DOMAIN requests[r] : requests[r][f] = submitted[f]

Arrived(f) == \/ profiles[owner][f] = submitted[f]
              \/ P!Droppable(f) \/ f \in elsewhere \/ f \in outdated

OnItsWay(f) == \E r \in P!Routes : requests[r] # None /\ f \in DOMAIN requests[r]

\* Nothing has failed so far, and a field has arrived or is on its way.
NothingIsForgotten ==
  submitted # None /\ ~error => \A f \in P!FieldsOf(owner) : Arrived(f) \/ OnItsWay(f)

EditingInv == EditingTypeOK /\ SendsSubmitted /\ NothingIsForgotten

\* The fields of users.
LEMMA FieldsOfUsers ==
  ASSUME NEW u
  PROVE  /\ P!Names \subseteq P!FieldsOf(u) /\ P!Compared(u) \subseteq P!FieldsOf(u)
         /\ P!FieldsOf(u) \subseteq P!Names \cup P!RoleFields("customer")
                                      \cup P!RoleFields("provider") \cup {"available"}
<1>1. P!RoleFields(role[u]) \subseteq P!RoleFields("customer") \cup P!RoleFields("provider")
  BY DEF P!RoleFields
<1> QED BY <1>1 DEF P!FieldsOf, P!Compared

LEMMA EditingStart == P!Init => EditingInv
<1> SUFFICES ASSUME P!Init PROVE EditingInv
  OBVIOUS
<1>1. \A u \in Users : profiles[u] \in [P!FieldsOf(u) -> P!Values]
  BY DEF P!Init, P!Values
<1>2. EditingTypeOK
  BY <1>1 DEF P!Init, EditingTypeOK
<1>3. SendsSubmitted /\ NothingIsForgotten
  BY DEF P!Init, SendsSubmitted, NothingIsForgotten
<1> QED BY <1>2, <1>3 DEF EditingInv

\* What a field shows is a value.
LEMMA FieldsShowValues ==
  ASSUME EditingTypeOK, owner # None
  PROVE  /\ \A f \in P!FieldsOf(owner) : P!Default(f) \in P!Values
         /\ \A profile : (\A f \in DOMAIN profile : profile[f] \in P!Values)
              => P!Shown(profile) \in [P!FieldsOf(owner) -> P!Values]
<1>1. ASSUME NEW f PROVE P!Default(f) \in P!Values
  <2>1. CASE f \in P!Names /\ editor = "mobile" /\ copy[f] # None
    <3>1. P!Default(f) = copy[f]
      BY <2>1 DEF P!Default, P!Names
    <3> QED BY <2>1, <3>1 DEF EditingTypeOK
  <2>2. CASE ~(f \in P!Names /\ editor = "mobile" /\ copy[f] # None)
    <3>1. P!Default(f) \in {"default", "yes", Blank}
      BY <2>2 DEF P!Default, P!Names
    <3> QED BY <3>1 DEF P!Values
  <2> QED BY <2>1, <2>2
<1>2. ASSUME NEW profile, \A f \in DOMAIN profile : profile[f] \in P!Values
      PROVE  P!Shown(profile) \in [P!FieldsOf(owner) -> P!Values]
  BY <1>1, <1>2 DEF P!Shown
<1> QED BY <1>1, <1>2

\* Reading and typing leave a save alone.
LEMMA SavesAreLeftAlone ==
  ASSUME EditingInv,
         UNCHANGED <<editor, role, profiles, owner, requests, saving, error, submitted, outdated, elsewhere>>,
         saved' \/ awaiting' => saved \/ awaiting
  PROVE  SendsSubmitted' /\ NothingIsForgotten'
<1>1. SendsSubmitted'
  BY DEF EditingInv, SendsSubmitted, P!FieldsOf
<1>2. NothingIsForgotten'
  BY DEF EditingInv, NothingIsForgotten, Arrived, OnItsWay, P!FieldsOf, P!Droppable
<1> QED BY <1>1, <1>2

LEMMA EditingReads ==
  ASSUME EditingInv,
         \/ P!Open \/ P!Load \/ P!LoadFails \/ P!Age
         \/ \E f \in (IF owner = None THEN {} ELSE P!FieldsOf(owner)), v \in P!Values : P!Type(f, v)
  PROVE  EditingInv'
<1>1. UNCHANGED <<editor, role, profiles, owner, copy, requests, saving, error, submitted, outdated, elsewhere>>
      /\ (saved' \/ awaiting' => saved \/ awaiting)
  BY DEF P!Open, P!Load, P!LoadFails, P!Age, P!Type, P!screen, P!history
<1>2. SendsSubmitted' /\ NothingIsForgotten'
  BY <1>1, SavesAreLeftAlone
<1>3. PICK form : form = P!FieldsOf(owner)
  OBVIOUS
<1>4. P!FieldsOf(owner)' = form /\ \A u : P!FieldsOf(u)' = P!FieldsOf(u)
  BY <1>1, <1>3 DEF P!FieldsOf
<1>5. ASSUME asked' \in Users \cup {None},
             kept' # None => /\ kept' = [profile |-> kept'.profile, fresh |-> kept'.fresh]
                             /\ \A f \in DOMAIN kept'.profile : kept'.profile[f] \in P!Values,
             fields' # None => open' /\ fields' \in [form -> P!Values],
             open' => owner # None
      PROVE  EditingTypeOK'
  BY <1>1, <1>4, <1>5 DEF EditingInv, EditingTypeOK
<1>6. CASE P!Open
  <2>1. fields' \in {None} \cup [form -> P!Values]
    BY <1>3, <1>6, FieldsShowValues DEF P!Open, EditingInv, EditingTypeOK
  <2>2. open' /\ owner # None /\ kept' = kept /\ asked' \in {asked, owner}
    BY <1>6 DEF P!Open
  <2>3. EditingTypeOK'
    BY <1>5, <2>1, <2>2 DEF EditingInv, EditingTypeOK
  <2> QED BY <1>2, <2>3 DEF EditingInv
<1>7. CASE P!Load
  <2>1. PICK profile : profile = profiles[asked]
    OBVIOUS
  <2>2. /\ asked \in Users /\ asked' = None /\ open' = open
        /\ kept' = [profile |-> profile, fresh |-> TRUE]
        /\ fields' = IF open /\ (kept = None \/ kept.profile # profile) THEN P!Shown(profile) ELSE fields
    BY <1>7, <2>1 DEF P!Load, EditingInv, EditingTypeOK
  <2>3. \A f \in DOMAIN profile : profile[f] \in P!Values
    BY <2>1, <2>2 DEF EditingInv, EditingTypeOK
  <2>4. open => fields' \in {fields} \cup [form -> P!Values]
    BY <1>3, <2>2, <2>3, FieldsShowValues DEF EditingInv, EditingTypeOK
  <2>5. ~open => fields' = None
    BY <2>2 DEF EditingInv, EditingTypeOK
  <2>6. EditingTypeOK'
    BY <1>3, <1>5, <2>2, <2>3, <2>4, <2>5 DEF EditingInv, EditingTypeOK
  <2> QED BY <1>2, <2>6 DEF EditingInv
<1>8. CASE P!LoadFails
  <2>1. /\ asked' = None /\ open' = open /\ kept' = kept
        /\ fields' = IF open /\ fields = None THEN [f \in form |-> P!Default(f)] ELSE fields
    BY <1>3, <1>8 DEF P!LoadFails
  <2>2. open => \A f \in form : P!Default(f) \in P!Values
    BY <1>3, FieldsShowValues DEF EditingInv, EditingTypeOK
  <2>3. EditingTypeOK'
    BY <1>3, <1>5, <2>1, <2>2 DEF EditingInv, EditingTypeOK
  <2> QED BY <1>2, <2>3 DEF EditingInv
<1>9. CASE P!Age
  <2>1. /\ UNCHANGED <<asked, open, fields>>
        /\ kept' = None \/ (kept # None /\ kept' = [kept EXCEPT !.fresh = FALSE])
    BY <1>9 DEF P!Age, P!screen
  <2>2. EditingTypeOK'
    BY <1>3, <1>5, <2>1 DEF EditingInv, EditingTypeOK
  <2> QED BY <1>2, <2>2 DEF EditingInv
<1>10. ASSUME owner # None, NEW f \in P!FieldsOf(owner), NEW v \in P!Values, P!Type(f, v)
       PROVE  EditingInv'
  <2>1. /\ UNCHANGED <<asked, open, kept>> /\ fields # None /\ fields' = [fields EXCEPT ![f] = v]
    BY <1>10 DEF P!Type
  <2>2. EditingTypeOK'
    BY <1>3, <1>5, <1>10, <2>1 DEF EditingInv, EditingTypeOK
  <2> QED BY <1>2, <2>2 DEF EditingInv
<1> QED BY <1>6, <1>7, <1>8, <1>9, <1>10

\* Which fields a PATCH has.
LEMMA PatchHas ==
  ASSUME P!NoneAssumption, EditingInv, fields # None, NEW some, some \subseteq P!FieldsOf(owner)
  PROVE  /\ \A f \in some : P!Sends(f) /\ ~(f = "display_name" /\ fields[f] = Blank)
              => P!Patch(some) # None /\ f \in DOMAIN P!Patch(some)
         /\ P!Patch(some) # None => \A f \in DOMAIN P!Patch(some) : P!Patch(some)[f] = fields[f]
<1>1. fields \in [P!FieldsOf(owner) -> P!Values]
  BY DEF EditingInv, EditingTypeOK
<1>2. PICK sent : sent = P!Sent(some) \ {g \in {"display_name"} : fields[g] = Blank}
  OBVIOUS
<1>3. P!Sent(some) # {} => P!Patch(some) = [f \in sent |-> fields[f]]
  BY <1>2 DEF P!Patch
<1>4. P!Sent(some) = {} => P!Patch(some) = None
  BY DEF P!Patch
<1>5. \A f \in some : P!Sends(f) => f \in P!Sent(some)
  BY DEF P!Sent
<1>6. sent \subseteq P!FieldsOf(owner)
  BY <1>2 DEF P!Sent
<1>7. [f \in sent |-> fields[f]] \in [sent -> P!Values]
  BY <1>1, <1>6
<1>8. sent \in SUBSET (P!Names \cup P!RoleFields("customer") \cup P!RoleFields("provider")
                         \cup {"available"})
  BY <1>6, FieldsOfUsers
<1>9. [f \in sent |-> fields[f]] # None
  BY <1>7, <1>8 DEF P!NoneAssumption
<1>10. ASSUME NEW f \in some, P!Sends(f), ~(f = "display_name" /\ fields[f] = Blank)
       PROVE  P!Patch(some) # None /\ f \in DOMAIN P!Patch(some)
  BY <1>2, <1>3, <1>5, <1>9, <1>10
<1> QED BY <1>3, <1>4, <1>10

\* What is not sent need not be.
LEMMA UnsentIsRight ==
  ASSUME EditingInv, fields # None, NEW f \in P!FieldsOf(owner), ~P!Sends(f)
  PROVE  \/ f \in P!Compared(owner) /\ fields[f] = P!Base(f)
         \/ fields[f] = Blank
         \/ f \in {"postcode", "abn", "radius"} /\ fields[f] = "short"
<1>1. CASE f \in P!Names \cup {"available"}
  <2>1. P!Sends(f) = (fields[f] # P!Base(f))
    BY <1>1 DEF P!Sends, P!Names
  <2> QED BY <1>1, <2>1 DEF P!Compared
<1>2. CASE f \in {"postcode", "abn", "radius"}
  <2>1. P!Sends(f) = (fields[f] \notin {Blank, "short"})
    BY <1>2 DEF P!Sends, P!Names
  <2> QED BY <1>2, <2>1
<1>3. CASE f \notin P!Names \cup {"available"} \cup {"postcode", "abn", "radius"}
  <2>1. P!Sends(f) = (fields[f] # Blank)
    BY <1>3 DEF P!Sends
  <2> QED BY <2>1
<1> QED BY <1>1, <1>2, <1>3

LEMMA EditingSaves ==
  ASSUME P!NoneAssumption, EditingInv, P!HandleSave
  PROVE  EditingInv'
<1>1. /\ fields # None /\ owner # None /\ fields \in [P!FieldsOf(owner) -> P!Values]
      /\ UNCHANGED <<editor, role, profiles, owner, copy, kept, asked, open, fields, awaiting, elsewhere>>
      /\ saved' = FALSE /\ error' = FALSE /\ saving' = TRUE /\ submitted' = fields
      /\ outdated' = {f \in P!Compared(owner) : P!Base(f) \notin {None, profiles[owner][f]}}
  BY DEF P!HandleSave, EditingInv, EditingTypeOK
<1>2. PICK form : form = P!FieldsOf(owner)
  OBVIOUS
<1>3. P!FieldsOf(owner)' = form /\ \A u : P!FieldsOf(u)' = P!FieldsOf(u)
  BY <1>1, <1>2 DEF P!FieldsOf
<1>4. PICK user1, role1, available1 :
        /\ user1 = P!Patch(P!Names) /\ role1 = P!Patch(P!RoleFields(role[owner]))
        /\ available1 = P!Patch(P!FieldsOf(owner) \cap {"available"})
  OBVIOUS
<1>5. requests' = [user |-> user1, role |-> role1, availability |-> available1]
  BY <1>4 DEF P!HandleSave
<1>6. /\ requests'["user"] = user1 /\ requests'["role"] = role1
      /\ requests'["availability"] = available1
      /\ requests' = [r \in P!Routes |-> requests'[r]]
  BY <1>5 DEF P!Routes
<1>7. EditingTypeOK'
  BY <1>1, <1>2, <1>3, <1>6 DEF EditingInv, EditingTypeOK
<1>8. /\ P!Names \subseteq form /\ P!RoleFields(role[owner]) \subseteq form
      /\ form \cap {"available"} \subseteq form
      /\ form \subseteq P!Names \cup P!RoleFields(role[owner]) \cup {"available"}
  BY <1>2 DEF P!FieldsOf
<1>9. \A f \in P!Names : P!Sends(f) /\ ~(f = "display_name" /\ fields[f] = Blank)
        => user1 # None /\ f \in DOMAIN user1
  BY <1>1, <1>2, <1>4, <1>8, PatchHas
<1>10. \A f \in P!RoleFields(role[owner]) : P!Sends(f) /\ ~(f = "display_name" /\ fields[f] = Blank)
        => role1 # None /\ f \in DOMAIN role1
  BY <1>1, <1>2, <1>4, <1>8, PatchHas
<1>11. "available" \in form /\ P!Sends("available") /\ ~("available" = "display_name" /\ fields["available"] = Blank)
        => available1 # None /\ "available" \in DOMAIN available1
  BY <1>1, <1>2, <1>4, <1>8, PatchHas
<1>12. /\ user1 # None => \A f \in DOMAIN user1 : user1[f] = fields[f]
       /\ role1 # None => \A f \in DOMAIN role1 : role1[f] = fields[f]
       /\ available1 # None => \A f \in DOMAIN available1 : available1[f] = fields[f]
  BY <1>1, <1>2, <1>4, <1>8, PatchHas
<1>13. \A r \in P!Routes : requests'[r] # None => \A f \in DOMAIN requests'[r] : requests'[r][f] = fields[f]
  BY <1>6, <1>12 DEF P!Routes
<1>14. submitted' # None
  <2>1. form \in SUBSET (P!Names \cup P!RoleFields("customer") \cup P!RoleFields("provider")
                           \cup {"available"})
    BY <1>2, FieldsOfUsers
  <2> QED BY <1>1, <1>2, <2>1 DEF P!NoneAssumption
<1>15. SendsSubmitted'
  BY <1>1, <1>2, <1>3, <1>13, <1>14 DEF SendsSubmitted
<1>16. ASSUME NEW f \in form PROVE Arrived(f)' \/ OnItsWay(f)'
  <2>1. CASE P!Sends(f) /\ ~(f = "display_name" /\ fields[f] = Blank)
    <3>1. CASE f \in P!Names
      BY <1>6, <1>9, <2>1, <3>1 DEF OnItsWay, P!Routes
    <3>2. CASE f \in P!RoleFields(role[owner])
      BY <1>6, <1>10, <2>1, <3>2 DEF OnItsWay, P!Routes
    <3>3. CASE f = "available"
      BY <1>6, <1>11, <1>16, <2>1, <3>3 DEF OnItsWay, P!Routes
    <3> QED BY <1>8, <1>16, <3>1, <3>2, <3>3
  <2>2. CASE \/ fields[f] = Blank
             \/ f \in {"postcode", "abn", "radius"} /\ fields[f] = "short"
    BY <1>1, <2>2 DEF Arrived, P!Droppable
  <2>3. CASE f \in P!Compared(owner) /\ fields[f] = P!Base(f)
    <3>1. PICK base : base = P!Base(f)
      OBVIOUS
    <3>2. base = profiles[owner][f] => profiles'[owner'][f] = submitted'[f]
      BY <1>1, <2>3, <3>1
    <3>3. base # None
      BY <1>1, <1>2, <2>3, <3>1 DEF P!NoneAssumption
    <3>4. base # profiles[owner][f] => f \in outdated'
      BY <1>1, <2>3, <3>1, <3>3
    <3> QED BY <3>2, <3>4 DEF Arrived
  <2> QED BY <1>1, <1>2, <1>16, <2>1, <2>2, <2>3, UnsentIsRight
<1>17. NothingIsForgotten'
  BY <1>3, <1>16 DEF NothingIsForgotten
<1> QED BY <1>7, <1>15, <1>17 DEF EditingInv

\* A PATCH is stored as it was sent, or the error is shown.
LEMMA EditingAnswers ==
  ASSUME EditingInv, NEW r \in P!Routes, P!Answer(r)
  PROVE  EditingInv'
<1>1. PICK q : q = requests[r]
  OBVIOUS
<1>2. PICK isKept \in BOOLEAN, isAnswered \in BOOLEAN :
        /\ isAnswered => isKept
        /\ profiles' = IF isKept THEN [profiles EXCEPT ![owner] = P!Updated(q)] ELSE profiles
        /\ isAnswered => copy' = (IF r = "user" THEN [f \in P!Names |-> profiles'[owner][f]] ELSE copy)
                         /\ saving' = saving /\ error' = error
        /\ ~isAnswered => saving' = FALSE /\ error' = TRUE /\ copy' = copy
  BY <1>1 DEF P!Answer
<1>3. /\ q # None /\ requests' = [requests EXCEPT ![r] = None]
      /\ UNCHANGED <<editor, role, owner, kept, asked, open, fields, awaiting, saved,
                     submitted, outdated, elsewhere>>
  BY <1>1 DEF P!Answer, P!history
<1>4. PICK form : form = P!FieldsOf(owner)
  OBVIOUS
<1>5. P!FieldsOf(owner)' = form /\ \A u : P!FieldsOf(u)' = P!FieldsOf(u)
  BY <1>3, <1>4 DEF P!FieldsOf
<1>6. /\ submitted # None /\ owner # None /\ owner \in Users /\ submitted \in [form -> P!Values]
      /\ \A f \in DOMAIN q : q[f] = submitted[f]
      /\ profiles[owner] \in [form -> P!Values]
  BY <1>1, <1>3, <1>4 DEF EditingInv, SendsSubmitted, EditingTypeOK
<1>7. P!Updated(q) = [f \in form |-> IF f \in DOMAIN q THEN q[f] ELSE profiles[owner][f]]
  BY <1>4 DEF P!Updated
<1>8. /\ P!Updated(q) \in [form -> P!Values]
      /\ \A f \in form : P!Updated(q)[f] \in {submitted[f], profiles[owner][f]}
      /\ \A f \in form : f \in DOMAIN q => P!Updated(q)[f] = submitted[f]
  BY <1>6, <1>7
<1>9. PICK row : row = IF isKept THEN P!Updated(q) ELSE profiles[owner]
  OBVIOUS
<1>10. /\ row \in [form -> P!Values]
       /\ \A f \in form : row[f] \in {submitted[f], profiles[owner][f]}
       /\ isKept => \A f \in form : f \in DOMAIN q => row[f] = submitted[f]
  BY <1>6, <1>8, <1>9
<1>11. /\ profiles' = [u \in Users |-> profiles'[u]] /\ profiles'[owner] = row
       /\ \A u \in Users : u # owner => profiles'[u] = profiles[u]
  BY <1>2, <1>6, <1>9 DEF EditingInv, EditingTypeOK
<1>12. \A u \in Users : profiles'[u] \in [P!FieldsOf(u) -> P!Values]
  BY <1>4, <1>10, <1>11 DEF EditingInv, EditingTypeOK
<1>13. copy' \in [P!Names -> P!Values \cup {None}]
  <2>1. P!Names \subseteq form
    BY <1>4, FieldsOfUsers
  <2> QED BY <1>2, <1>6, <1>10, <1>11, <2>1 DEF EditingInv, EditingTypeOK
<1>14. requests' = [i \in P!Routes |-> requests'[i]] /\ requests'[r] = None
       /\ \A i \in P!Routes : i # r => requests'[i] = requests[i]
  BY <1>3 DEF EditingInv, EditingTypeOK
<1>15. EditingTypeOK'
  BY <1>3, <1>4, <1>5, <1>11, <1>12, <1>13, <1>14 DEF EditingInv, EditingTypeOK
<1>16. SendsSubmitted'
  BY <1>3, <1>4, <1>5, <1>6, <1>14 DEF EditingInv, SendsSubmitted
<1>17. ASSUME ~error', NEW f \in form PROVE Arrived(f)' \/ OnItsWay(f)'
  <2>1. isAnswered /\ isKept /\ ~error
    BY <1>2, <1>17
  <2>2. CASE Arrived(f)
    BY <1>3, <1>10, <1>11, <1>17, <2>2 DEF Arrived, P!Droppable
  <2>3. CASE f \in DOMAIN q
    BY <1>3, <1>10, <1>11, <1>17, <2>1, <2>3 DEF Arrived
  <2>4. CASE OnItsWay(f) /\ f \notin DOMAIN q
    <3>1. PICK i \in P!Routes : requests[i] # None /\ f \in DOMAIN requests[i]
      BY <2>4 DEF OnItsWay
    <3>2. i # r
      BY <1>1, <2>4, <3>1
    <3>3. requests'[i] # None /\ f \in DOMAIN requests'[i]
      BY <1>14, <3>1, <3>2
    <3> QED BY <3>3 DEF OnItsWay
  <2> QED BY <1>4, <1>6, <1>17, <2>1, <2>2, <2>3, <2>4 DEF EditingInv, NothingIsForgotten
<1>18. NothingIsForgotten'
  BY <1>5, <1>17 DEF NothingIsForgotten
<1> QED BY <1>15, <1>16, <1>18 DEF EditingInv

\* The answers are in: the profile is asked for again.
LEMMA EditingInvalidates ==
  ASSUME EditingInv, P!Invalidate
  PROVE  EditingInv'
<1>1. /\ saving /\ asked' = owner
      /\ kept' = IF kept = None THEN None ELSE [kept EXCEPT !.fresh = FALSE]
      /\ UNCHANGED <<editor, role, profiles, owner, copy, open, fields, requests, error,
                     submitted, outdated, elsewhere>>
  BY DEF P!Invalidate, P!history
<1>2. PICK form : form = P!FieldsOf(owner)
  OBVIOUS
<1>3. P!FieldsOf(owner)' = form /\ \A u : P!FieldsOf(u)' = P!FieldsOf(u)
  BY <1>1, <1>2 DEF P!FieldsOf
<1>4. EditingTypeOK'
  BY <1>1, <1>2, <1>3 DEF EditingInv, EditingTypeOK
<1>5. SendsSubmitted'
  BY <1>1, <1>2, <1>3 DEF EditingInv, SendsSubmitted
<1>6. NothingIsForgotten'
  BY <1>1, <1>2, <1>3 DEF EditingInv, NothingIsForgotten, Arrived, OnItsWay, P!Droppable
<1> QED BY <1>4, <1>5, <1>6 DEF EditingInv

\* Nobody leaves in the middle of a save, and nobody else comes before.
LEMMA EditingEnds ==
  ASSUME EditingInv, P!Close \/ P!Logout \/ \E u \in Users : P!Login(u)
  PROVE  EditingInv'
<1>1. UNCHANGED <<editor, role, profiles, kept, asked, requests, saving>>
      /\ \A u : P!FieldsOf(u)' = P!FieldsOf(u)
  BY DEF P!Close, P!Logout, P!Login, P!Left, P!FieldsOf
<1>2. CASE P!Close \/ P!Logout
  <2>1. /\ P!Idle /\ open' = FALSE /\ fields' = None /\ awaiting' = FALSE /\ saved' = FALSE
        /\ submitted' = None
        /\ \/ UNCHANGED <<owner, copy>>
           \/ owner' = None
    BY <1>2 DEF P!Close, P!Logout, P!Left
  <2>2. EditingTypeOK'
    BY <1>1, <2>1 DEF EditingInv, EditingTypeOK
  <2>3. SendsSubmitted'
    BY <1>1, <2>1 DEF SendsSubmitted, P!Idle
  <2>4. NothingIsForgotten'
    BY <2>1 DEF NothingIsForgotten
  <2> QED BY <2>2, <2>3, <2>4 DEF EditingInv
<1>3. ASSUME NEW u \in Users, P!Login(u) PROVE EditingInv'
  <2>1. /\ owner = None /\ owner' = u
        /\ copy' = P!SessionUser(u)
        /\ UNCHANGED <<open, fields, awaiting, saved, submitted>>
    BY <1>3 DEF P!Login, P!screen
  <2>2. ~open /\ fields = None /\ submitted = None
    BY <2>1 DEF EditingInv, EditingTypeOK, SendsSubmitted
  <2>3. copy' \in [P!Names -> P!Values \cup {None}]
    <3>1. profiles[u]["full_name"] \in P!Values
      BY FieldsOfUsers DEF EditingInv, EditingTypeOK, P!Names
    <3> QED BY <2>1, <3>1 DEF P!SessionUser, P!Names
  <2>4. EditingTypeOK'
    BY <1>1, <2>1, <2>2, <2>3 DEF EditingInv, EditingTypeOK
  <2>5. SendsSubmitted' /\ NothingIsForgotten'
    BY <1>1, <2>1, <2>2 DEF EditingInv, SendsSubmitted, NothingIsForgotten
  <2> QED BY <2>4, <2>5 DEF EditingInv
<1> QED BY <1>2, <1>3

\* Another device writes a field.
LEMMA EditingElsewhere ==
  ASSUME EditingInv, owner # None, NEW f \in P!Compared(owner), P!Elsewhere(f)
  PROVE  EditingInv'
<1>1. PICK value \in {"no", "other"} : profiles' = [profiles EXCEPT ![owner][f] = value]
  BY DEF P!Elsewhere
<1>2. /\ elsewhere = {} /\ elsewhere' = {f}
      /\ UNCHANGED <<editor, role, owner, copy, kept, asked, open, fields, requests, saving, awaiting,
                     saved, error, submitted, outdated>>
  BY DEF P!Elsewhere, P!screen
<1>3. PICK form : form = P!FieldsOf(owner)
  OBVIOUS
<1>4. P!FieldsOf(owner)' = form /\ \A u : P!FieldsOf(u)' = P!FieldsOf(u)
  BY <1>2, <1>3 DEF P!FieldsOf
<1>5. owner \in Users /\ profiles[owner] \in [form -> P!Values] /\ f \in form /\ value \in P!Values
  BY <1>3, FieldsOfUsers DEF EditingInv, EditingTypeOK, P!Values
<1>6. PICK row : row = [profiles[owner] EXCEPT ![f] = value]
  OBVIOUS
<1>7. row \in [form -> P!Values] /\ \A g \in form : g # f => row[g] = profiles[owner][g]
  BY <1>5, <1>6
<1>8. /\ profiles' = [u \in Users |-> profiles'[u]] /\ profiles'[owner] = row
      /\ \A u \in Users : u # owner => profiles'[u] = profiles[u]
  BY <1>1, <1>5, <1>6 DEF EditingInv, EditingTypeOK
<1>9. \A u \in Users : profiles'[u] \in [P!FieldsOf(u) -> P!Values]
  BY <1>3, <1>7, <1>8 DEF EditingInv, EditingTypeOK
<1>10. EditingTypeOK'
  BY <1>2, <1>3, <1>4, <1>8, <1>9 DEF EditingInv, EditingTypeOK
<1>11. SendsSubmitted'
  BY <1>2, <1>3, <1>4 DEF EditingInv, SendsSubmitted
<1>12. \A g \in form : Arrived(g) => Arrived(g)'
  BY <1>2, <1>7, <1>8 DEF Arrived, P!Droppable
<1>13. \A g : OnItsWay(g) => OnItsWay(g)'
  BY <1>2 DEF OnItsWay
<1>14. NothingIsForgotten'
  BY <1>2, <1>3, <1>4, <1>12, <1>13 DEF EditingInv, NothingIsForgotten
<1> QED BY <1>10, <1>11, <1>14 DEF EditingInv

LEMMA EditingStep == P!NoneAssumption /\ EditingInv /\ [P!Next]_(P!vars) => EditingInv'
<1> SUFFICES ASSUME P!NoneAssumption, EditingInv, [P!Next]_(P!vars) PROVE EditingInv'
  OBVIOUS
<1>1. CASE UNCHANGED P!vars
  <2>1. UNCHANGED <<editor, role, profiles, owner, copy, kept, asked, open, fields, requests, saving,
                    awaiting, saved, error, submitted, outdated, elsewhere>>
    BY <1>1 DEF P!vars
  <2>2. PICK form : form = P!FieldsOf(owner)
    OBVIOUS
  <2>3. P!FieldsOf(owner)' = form /\ \A u : P!FieldsOf(u)' = P!FieldsOf(u)
    BY <2>1, <2>2 DEF P!FieldsOf
  <2>4. EditingTypeOK'
    BY <2>1, <2>2, <2>3 DEF EditingInv, EditingTypeOK
  <2>5. SendsSubmitted' /\ NothingIsForgotten'
    BY <2>1, SavesAreLeftAlone
  <2> QED BY <2>4, <2>5 DEF EditingInv
<1>2. CASE \E f \in (IF owner = None THEN {} ELSE P!FieldsOf(owner)), v \in P!Values :
             v \in P!Typable(f) /\ P!Type(f, v)
  BY <1>2, EditingReads
<1>3. CASE \E f \in (IF owner = None THEN {} ELSE P!Compared(owner)) : P!Elsewhere(f)
  BY <1>3, EditingElsewhere
<1> QED BY <1>1, <1>2, <1>3, EditingReads, EditingSaves, EditingAnswers, EditingInvalidates,
           EditingEnds DEF P!Next

\* When all is answered, nothing is on its way.
LEMMA SavedHasArrived == EditingInv => P!SavedIsStored
<1> SUFFICES ASSUME EditingInv, saved, ~error, P!Idle, NEW f \in P!FieldsOf(owner)
             PROVE  Arrived(f)
  BY DEF P!SavedIsStored, Arrived
<1>1. submitted # None
  BY DEF EditingInv, SendsSubmitted
<1>2. ~OnItsWay(f)
  BY DEF P!Idle, OnItsWay
<1> QED BY <1>1, <1>2 DEF EditingInv, NothingIsForgotten

-----------------------------------------------------------------------------
(* The composition.                                                        *)

\* A step of one part leaves the others alone.
LEMMA EachOnItsOwn ==
  ASSUME [ClientsNext]_clientVars
  PROVE  /\ [Next]_vars /\ [J!Next]_(J!vars) /\ [Q!Next]_(Q!vars) /\ [S!Next]_(S!vars)
         /\ [P!Next]_(P!vars) /\ [R!Next]_(R!vars)
<1>1. CASE UNCHANGED clientVars
  BY <1>1 DEF clientVars, jVars, qVars, sVars, cVars, pVars, rVars, J!vars, Q!vars, S!vars, P!vars, R!vars
<1>2. CASE ClientsNext
  BY <1>2 DEF ClientsNext, jVars, qVars, sVars, cVars, pVars, rVars,
              J!vars, Q!vars, S!vars, P!vars, R!vars
<1> QED BY <1>1, <1>2

\* The session's part of the invariant, and that of the screens and the forms.
SessionInv == Shape /\ QueueIsServed /\ IdentityInv /\ FreshInv
FormsInv   == PostingInv /\ QuotingInv /\ RegisteringInv /\ EditingInv

LEMMA ClientsHold == ClientsSpec => [](SessionInv /\ ScreenInv /\ FormsInv)
<1> DEFINE ClientsInv == SessionInv /\ ScreenInv /\ FormsInv
<1>1. ClientsInit => ClientsInv
  BY ShapeInit, QueueInit, IdentityInit, FreshInit, ClientAssumption, ScreenStart,
     PostingStart, QuotingStart, RegisteringStart, EditingStart
     DEF ClientsInit, SessionInv, FormsInv
<1>2. ClientsInv /\ [ClientsNext]_clientVars => ClientsInv'
  <2> SUFFICES ASSUME ClientsInv, [ClientsNext]_clientVars PROVE ClientsInv'
    OBVIOUS
  <2>1. SessionInv'
    BY EachOnItsOwn, ShapeStep, QueueStep, IdentityStep, FreshStep DEF SessionInv
  <2>2. ScreenInv'
    BY EachOnItsOwn, ScreenStep, ClientAssumption
  <2>3. FormsInv'
    BY EachOnItsOwn, PostingStep, QuotingStep, RegisteringStep, EditingStep, ClientAssumption
       DEF FormsInv
  <2> QED BY <2>1, <2>2, <2>3
<1> QED BY <1>1, <1>2, PTL DEF ClientsSpec

\* A call in the queue waits for a refresh that is under way, unless it was in the queue
\* when one failed.  (mobile api/client.ts:50-60, 83-85)
THEOREM QueueServed == ClientsSpec => []QueueIsServed
<1>1. SessionInv => QueueIsServed
  BY DEF SessionInv
<1> QED BY ClientsHold, <1>1, PTL

\* The tokens are those of the user the screens are for, unless tokens were cleared or
\* replaced while a refresh was under way.  (authStore.ts:22-30, login.tsx:26-28)
THEOREM IdentityIsOne == ClientsSpec => []OneIdentity
<1>1. SessionInv => OneIdentity
  BY DEF SessionInv, IdentityInv
<1> QED BY ClientsHold, <1>1, PTL

\* No session is revoked for reuse unless an answer with its newest token got lost.
\* (mobile api/client.ts:49-103, web api/client.ts:80-109)
THEOREM ReuseIsAccident == ClientsSpec => []DeadByAccident
<1>1. SessionInv => DeadByAccident
  BY DEF SessionInv, FreshInv
<1> QED BY ClientsHold, <1>1, PTL

\* A screen on a job that is at rest shows its own last acknowledged action, or something
\* newer.  (mobile (customer)/jobs/[id].tsx:127-131, web jobs/[id]/page.tsx:336-339)
THEOREM ScreensShowActions == ClientsSpec => []OwnActionShown
<1>1. ScreenInv => OwnActionShown
  BY DEF ScreenInv, WillShow, OwnActionShown, S!OwnActionShown
<1> QED BY ClientsHold, <1>1, PTL

\* What a screen that is up to date offers is accepted, but for three known cases.
\* (web jobs/[id]/page.tsx:247-310, 384-386, 420-428, job.service.ts)
THEOREM ScreensKnowRefusals == ClientsSpec => []OnlyKnownRefusals
<1>1. ScreenInv => OnlyKnownRefusals
  BY OffersAreAccepted, ClientAssumption DEF OnlyKnownRefusals, S!OnlyKnownRefusals
<1> QED BY ClientsHold, <1>1, PTL

\* A job, a quote or a registration that its form lets through is accepted but for the known
\* gaps, and what is stored twice, or said to have failed, is an answer lost.
\* (job.schema.ts:21-107, 160-209, 003:213-243, auth.service.ts:50-62)
THEOREM GapsAreKnown == ClientsSpec => []OnlyKnownGaps
<1>1. FormsInv => OnlyKnownGaps
  <2> SUFFICES ASSUME FormsInv PROVE OnlyKnownGaps
    OBVIOUS
  <2>1. J!OnlyKnownGaps /\ J!DuplicatesAreLost
    BY JobGapsAreKnown DEF FormsInv, PostingInv
  <2>2. Q!OnlyKnownQuoteGaps
    BY QuoteGapsAreKnown, ClientAssumption DEF FormsInv
  <2>3. R!OnlyTakenRefused
    BY RefusalsAreKnown, ClientAssumption DEF FormsInv
  <2> QED BY <2>1, <2>2, <2>3 DEF OnlyKnownGaps
<1> QED BY ClientsHold, <1>1, PTL

\* A profile the screen says was saved is stored, but for what the form leaves out, another
\* device writes, or was compared with a copy no longer right.  (web profile/page.tsx:342)
THEOREM SavesAreStored == ClientsSpec => []SavedIsStored
<1>1. FormsInv => SavedIsStored
  BY SavedHasArrived DEF FormsInv, SavedIsStored
<1> QED BY ClientsHold, <1>1, PTL

=============================================================================
