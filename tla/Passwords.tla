------------------------------ MODULE Passwords -------------------------------
(***************************************************************************)
(* The password, reset links and sessions of one user: login,              *)
(* forgotPassword and resetPassword of auth.service.ts, and                *)
(* updateUserStatus of admin.service.ts, which ends sessions too.          *)
(*                                                                         *)
(* A session is the refresh token that opened it; what becomes of it under *)
(* rotation is RefreshTokens.  Passwords are numbered: 0 is the registered *)
(* one, and every reset writes a new one.                                  *)
(***************************************************************************)
EXTENDS Integers, Sequences, FiniteSets

CONSTANTS Requests,     \* calls under way
          MaxLinks,     \* bound on the reset links issued
          MaxSessions,  \* bound on the logins
          MaxPassword   \* bound on the resets

VARIABLES status,    \* users.status
          password,  \* users.password_hash
          links,     \* auth_tokens of type password_reset, in the order of the INSERTs
          sessions,  \* refresh tokens: the password and the status they were opened with
          call,      \* what each request is doing
          crowd      \* history: most requests ever between revoking and inserting links

vars == <<status, password, links, sessions, call, crowd>>

\* What an administrator may set.  "active" stands for "pending_verification" too, which
\* nothing here tells from it.
Statuses == {"active", "suspended", "banned", "deleted"}
Idle == [at |-> "idle"]

\* uses and readers are history: password changes made through the link, and the most
\* resets that ever had read it as good at once.
Link == [used : BOOLEAN, revoked : BOOLEAN, expired : BOOLEAN,
         uses : 0..MaxPassword, readers : 0..Cardinality(Requests)]

\* banned is history: the login found the user banned already.  So is missed: a revocation
\* that had to end the session ran before its INSERT, or was cut short.
Session == [password : 0..MaxPassword, banned : BOOLEAN, revoked : BOOLEAN, missed : BOOLEAN]

TypeOK ==
  /\ status \in Statuses
  /\ password \in 0..MaxPassword
  /\ links \in Seq(Link)
  /\ sessions \in Seq(Session)
  /\ call \in [Requests -> {Idle}
        \cup [at : {"sign"}, password : 0..MaxPassword, banned : BOOLEAN, missed : BOOLEAN]
        \cup [at : {"revokeLinks", "insertLink", "endSessions"}]
        \cup [at : {"write"}, link : DOMAIN links]
        \cup [at : {"setStatus"}, status : Statuses]]
  /\ crowd \in 0..Cardinality(Requests)

Init == /\ status = "active" /\ password = 0
        /\ links = <<>> /\ sessions = <<>>
        /\ call = [r \in Requests |-> Idle]
        /\ crowd = 0

Goes(r, next) == call' = [call EXCEPT ![r] = next]
Inserting  == {r \in Requests : call[r].at = "insertLink"}
Reading(l) == {r \in Requests : call[r].at = "write" /\ call[r].link = l}
Live       == {l \in DOMAIN links : ~links[l].used /\ ~links[l].revoked}

-----------------------------------------------------------------------------
(* login.                                                                  *)

\* A login that goes on, with what it has read of the user.
LoggingIn == [at |-> "sign", password |-> password, banned |-> status = "banned", missed |-> FALSE]

\* Mutant: the status is not looked at.
LoginAnyStatus(r) ==
  /\ call[r] = Idle
  /\ Goes(r, LoggingIn)
  /\ UNCHANGED <<status, password, links, sessions, crowd>>

\* findByEmail; the right password, and an account neither suspended nor deleted.  A banned
\* one is not refused.
Login(r) ==
  /\ call[r] = Idle
  /\ status \notin {"suspended", "deleted"}
  /\ Goes(r, LoggingIn)
  /\ UNCHANGED <<status, password, links, sessions, crowd>>

\* signRefreshToken, after the bcrypt comparison and the profile.
SignRefreshToken(r) ==
  /\ call[r].at = "sign" /\ Len(sessions) < MaxSessions
  /\ sessions' = Append(sessions, [password |-> call[r].password,
                                   banned   |-> call[r].banned,
                                   revoked  |-> FALSE,
                                   missed   |-> call[r].missed])
  /\ Goes(r, Idle)
  /\ UNCHANGED <<status, password, links, crowd>>

-----------------------------------------------------------------------------
(* forgotPassword.                                                         *)

ForgotPassword(r) ==
  /\ call[r] = Idle /\ Len(links) < MaxLinks
  /\ Goes(r, [at |-> "revokeLinks"])
  /\ UNCHANGED <<status, password, links, sessions, crowd>>

\* Mutant: only expired links are revoked.
RevokeExpiredLinks(r) ==
  /\ call[r].at = "revokeLinks"
  /\ links' = [l \in DOMAIN links |-> [links[l] EXCEPT !.revoked = @ \/ links[l].expired]]
  /\ Goes(r, [at |-> "insertLink"])
  /\ crowd' = IF crowd <= Cardinality(Inserting) THEN crowd + 1 ELSE crowd
  /\ UNCHANGED <<status, password, sessions>>

RevokeLinks(r) ==
  /\ call[r].at = "revokeLinks"
  /\ links' = [l \in DOMAIN links |-> [links[l] EXCEPT !.revoked = TRUE]]
  /\ Goes(r, [at |-> "insertLink"])
  /\ crowd' = IF crowd <= Cardinality(Inserting) THEN crowd + 1 ELSE crowd
  /\ UNCHANGED <<status, password, sessions>>

InsertLink(r) ==
  /\ call[r].at = "insertLink" /\ Len(links) < MaxLinks
  /\ links' = Append(links, [used |-> FALSE, revoked |-> FALSE, expired |-> FALSE,
                             uses |-> 0, readers |-> 0])
  /\ Goes(r, Idle)
  /\ UNCHANGED <<status, password, sessions, crowd>>

ExpireLink(l) ==
  /\ l \in DOMAIN links /\ ~links[l].expired
  /\ links' = [links EXCEPT ![l].expired = TRUE]
  /\ UNCHANGED <<status, password, sessions, call, crowd>>

-----------------------------------------------------------------------------
(* resetPassword.                                                          *)

\* The SELECT and its three checks.
ResetPassword(r) ==
  /\ call[r] = Idle
  /\ \E l \in Live :
       /\ ~links[l].expired
       /\ Goes(r, [at |-> "write", link |-> l])
       /\ links' = [links EXCEPT ![l].readers =
                      IF @ <= Cardinality(Reading(l)) THEN @ + 1 ELSE @]
  /\ UNCHANGED <<status, password, sessions, crowd>>

\* Mutant: used_at is forgotten.
WritePasswordOnly(r) ==
  /\ call[r].at = "write" /\ password < MaxPassword
  /\ password' = password + 1
  /\ links' = [links EXCEPT ![call[r].link].uses = @ + 1]
  /\ Goes(r, [at |-> "endSessions"])
  /\ UNCHANGED <<status, sessions, crowd>>

\* The transaction of the two UPDATEs, by id alone.
WritePassword(r) ==
  /\ call[r].at = "write" /\ password < MaxPassword
  /\ password' = password + 1
  /\ links' = [links EXCEPT ![call[r].link].used = TRUE, ![call[r].link].uses = @ + 1]
  /\ Goes(r, [at |-> "endSessions"])
  /\ UNCHANGED <<status, sessions, crowd>>

-----------------------------------------------------------------------------
(* updateUserStatus.                                                       *)

UpdateUserStatus(r) ==
  /\ call[r] = Idle
  /\ \E s \in Statuses : Goes(r, [at |-> "setStatus", status |-> s])
  /\ UNCHANGED <<status, password, links, sessions, crowd>>

\* adminUpdateUserStatus; a suspension or a ban goes on to invalidateAllTokens.
SetStatus(r) ==
  /\ call[r].at = "setStatus"
  /\ status' = call[r].status
  /\ Goes(r, IF call[r].status \in {"suspended", "banned"}
             THEN [at |-> "endSessions"] ELSE Idle)
  /\ UNCHANGED <<password, links, sessions, crowd>>

-----------------------------------------------------------------------------
\* revokeAllUserTokens and the UPDATE of invalidateAllTokens: the sessions there are.
\* A login that has not inserted its token yet is missed.
EndSessions(r) ==
  /\ call[r].at = "endSessions"
  /\ sessions' = [s \in DOMAIN sessions |-> [sessions[s] EXCEPT !.revoked = TRUE]]
  /\ call' = [s \in Requests |->
                IF s = r THEN Idle
                ELSE IF call[s].at = "sign" THEN [call[s] EXCEPT !.missed = TRUE]
                ELSE call[s]]
  /\ UNCHANGED <<status, password, links, crowd>>

\* A statement fails, the process dies, or Redis refuses the key that invalidateAllTokens
\* sets before its UPDATE: every session is missed by a revocation not run.
Fail(r) ==
  /\ call[r] # Idle
  /\ IF call[r].at = "endSessions"
     THEN /\ sessions' = [s \in DOMAIN sessions |-> [sessions[s] EXCEPT !.missed = TRUE]]
          /\ call' = [s \in Requests |->
                        IF s = r THEN Idle
                        ELSE IF call[s].at = "sign" THEN [call[s] EXCEPT !.missed = TRUE]
                        ELSE call[s]]
     ELSE Goes(r, Idle) /\ UNCHANGED sessions
  /\ UNCHANGED <<status, password, links, crowd>>

Next == \/ \E r \in Requests :
             \/ Login(r) \/ SignRefreshToken(r)
             \/ ForgotPassword(r) \/ RevokeLinks(r) \/ InsertLink(r)
             \/ ResetPassword(r) \/ WritePassword(r)
             \/ UpdateUserStatus(r) \/ SetStatus(r)
             \/ EndSessions(r) \/ Fail(r)
        \/ \E l \in DOMAIN links : ExpireLink(l)

Spec == Init /\ [][Next]_vars

-----------------------------------------------------------------------------
\* A session, open or being opened, that a reset, a suspension or a ban has outdated.  Not
\* so one that was opened under the ban itself, nor any by a deletion.
Outdated(session) ==
  \/ session.password # password
  \/ status = "suspended"
  \/ status = "banned" /\ ~session.banned

\* "User must re-authenticate", "Invalidate tokens when suspending or banning": an outdated
\* session is ended as soon as the requests that outdated it are done.  The only ones left
\* are those whose login was under way when the revocation ran, or whose revocation was cut
\* short.  (auth.service.ts:401, admin.service.ts:66-76)
OldSessionsEnd ==
  \A s \in DOMAIN sessions :
    ~sessions[s].revoked /\ Outdated(sessions[s]) =>
      sessions[s].missed \/ \E r \in Requests : call[r].at = "endSessions"

\* "Revoke any existing reset tokens" and the INSERT are two statements: there are never
\* more links a reset would accept than requests that once ran between the two side by
\* side.  (auth.service.ts:338-348)
ResetLinksBounded == Cardinality(Live) + Cardinality(Inserting) <= crowd

\* A link's used_at is checked before bcrypt and set, unchecked, after it: a link changes
\* the password at most once for every reset that had read it as good at the same time,
\* and never again once it was used.  (auth.service.ts:379-398)
LinkUseBounded ==
  \A l \in DOMAIN links :
    /\ links[l].uses + Cardinality(Reading(l)) <= links[l].readers
    /\ links[l].uses > 0 => links[l].used

=============================================================================
