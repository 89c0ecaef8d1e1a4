--------------------------- MODULE RefreshTokens ----------------------------
(***************************************************************************)
(* Refresh-token families of one user: src/backend/src/services/           *)
(* jwt.service.ts with the callers in auth.service.ts (login, register,    *)
(* logout, refresh, the revocation after resetPassword).                   *)
(*                                                                         *)
(* rotateRefreshToken checks the row with an autocommit SELECT, marks it   *)
(* used in a transaction, inserts the child through another connection of  *)
(* the pool - so the child is visible before, and without, the commit -    *)
(* and links it.  Revocations are single UPDATEs: each sees the rows of    *)
(* its snapshot and waits for the row locks of open rotations.             *)
(*                                                                         *)
(* A token is its row's id and its secret at once.  Every row has a family *)
(* (migration 008 filled in the old ones).  Device, address and agent      *)
(* hashes are metadata and left out.                                       *)
(***************************************************************************)
EXTENDS Naturals

CONSTANTS Tokens,    \* refresh tokens that may be issued: the bound on logins
          Families,  \* token_family_id values: the bound on sessions
          Requests,  \* requests being handled at the same time
          NoToken, NoFamily,
          MayFail    \* whether a handler may die between two statements

ASSUME NoTokenAssumption  == NoToken \notin Tokens
ASSUME NoFamilyAssumption == NoFamily \notin Families
ASSUME MayFailAssumption  == MayFail \in BOOLEAN

VARIABLES family,     \* token_family_id; NoFamily before the INSERT
          parent,     \* parent_token_id
          used,       \* used_at IS NOT NULL
          revoked,    \* revoked_at IS NOT NULL
          replacedBy, \* replaced_by_token_id
          expired,    \* expires_at has passed
          held,       \* tokens a client has received
          req         \* what each request is doing

row  == <<family, parent, used, revoked, replacedBy, expired>>
vars == <<row, held, req>>

Ops == {"none", "login", "refresh", "logout", "resetPassword"}
Steps == {"idle", "markUsed", "sign", "commit", "answer", "snapshot", "revoke"}

\* A request: its next statement, the token presented, the family and the child
\* it issues, and the rows the UPDATE it runs has seen.
Idle == [op |-> "none", step |-> "idle", token |-> NoToken, fam |-> NoFamily,
         child |-> NoToken, rows |-> {}]
RequestState ==
  [op : Ops, step : Steps, token : Tokens \cup {NoToken},
   fam : Families \cup {NoFamily}, child : Tokens \cup {NoToken}, rows : SUBSET Tokens]

Init == /\ family     = [t \in Tokens |-> NoFamily]
        /\ parent     = [t \in Tokens |-> NoToken]
        /\ used       = [t \in Tokens |-> FALSE]
        /\ revoked    = [t \in Tokens |-> FALSE]
        /\ replacedBy = [t \in Tokens |-> NoToken]
        /\ expired    = [t \in Tokens |-> FALSE]
        /\ held       = {}
        /\ req        = [r \in Requests |-> Idle]

-----------------------------------------------------------------------------
Issued(t) == family[t] # NoFamily
\* crypto.randomBytes and randomUUID: never a value in use, or about to be.
FreshToken(t)  == ~Issued(t) /\ \A r \in Requests : req[r].child # t
FreshFamily(f) == /\ \A t \in Tokens : family[t] # f
                  /\ \A r \in Requests : req[r].fam # f

\* Mutant: the family is revoked before the ROLLBACK.
RotatingStill(r) == req[r].op = "refresh" /\ req[r].step \notin {"idle", "markUsed"}

\* The row lock of a rotation, from its first UPDATE to COMMIT or ROLLBACK.
Rotating(r) == req[r].op = "refresh" /\ req[r].step \in {"sign", "commit"}
NeverLocked(t) == FALSE   \* mutant: no transaction around the two UPDATEs
Locked(t)   == \E r \in Requests : Rotating(r) /\ req[r].token = t

Begin(r, op, step, t, f, c) ==
  /\ req[r] = Idle
  /\ req' = [req EXCEPT ![r] = [op |-> op, step |-> step, token |-> t, fam |-> f,
                                child |-> c, rows |-> {}]]
  /\ UNCHANGED <<row, held>>

Goto(r, step) == req' = [req EXCEPT ![r].step = step]
Done(r)       == req' = [req EXCEPT ![r] = Idle]

-----------------------------------------------------------------------------
(* Requests.                                                               *)

Login(r, f, c) ==
  /\ FreshFamily(f) /\ FreshToken(c)
  /\ Begin(r, "login", "sign", NoToken, f, c)

\* rotateRefreshToken up to the transaction: the SELECT and the three checks.
RotateRefreshToken(r, t, c) ==
  /\ t \in held
  /\ ~revoked[t] /\ ~expired[t]
  /\ IF used[t] \/ replacedBy[t] # NoToken
     THEN Begin(r, "refresh", "snapshot", t, family[t], NoToken)
     ELSE FreshToken(c) /\ Begin(r, "refresh", "markUsed", t, family[t], c)

Logout(r, t) == t \in held /\ Begin(r, "logout", "snapshot", t, family[t], NoToken)

\* revokeAllUserTokens, which resetPassword calls last.
ResetPassword(r) == Begin(r, "resetPassword", "snapshot", NoToken, NoFamily, NoToken)

-----------------------------------------------------------------------------
(* Statements.                                                             *)

\* UPDATE ... SET used_at WHERE used_at IS NULL AND revoked_at IS NULL.  No row:
\* ROLLBACK, and the error handler revokes the family.
MarkUsed(r) == LET t == req[r].token IN
  /\ req[r].step = "markUsed"
  /\ ~Locked(t)
  /\ IF used[t] \/ revoked[t]
     THEN req' = [req EXCEPT ![r].step = "snapshot", ![r].child = NoToken]
     ELSE Goto(r, "sign")
  /\ UNCHANGED <<row, held>>

\* The INSERT of signRefreshToken, on a connection of its own.
SignRefreshToken(r) == LET c == req[r].child IN
  /\ req[r].step = "sign"
  /\ family' = [family EXCEPT ![c] = req[r].fam]
  /\ parent' = [parent EXCEPT ![c] = req[r].token]
  /\ Goto(r, IF req[r].op = "login" THEN "answer" ELSE "commit")
  /\ UNCHANGED <<used, revoked, replacedBy, expired, held>>

\* UPDATE ... SET replaced_by_token_id, and COMMIT.
Commit(r) == LET t == req[r].token IN
  /\ req[r].step = "commit"
  /\ used' = [used EXCEPT ![t] = TRUE]
  /\ replacedBy' = [replacedBy EXCEPT ![t] = req[r].child]
  /\ Goto(r, "answer")
  /\ UNCHANGED <<family, parent, revoked, expired, held>>

\* The response reaches the client.
Answer(r) ==
  /\ req[r].step = "answer"
  /\ held' = held \cup {req[r].child}
  /\ Done(r)
  /\ UNCHANGED row

\* The rows a revoking UPDATE sees when it starts.
InScope(r, t) ==
  /\ Issued(t) /\ ~revoked[t]
  /\ CASE req[r].op = "logout"  -> t = req[r].token
       [] req[r].op = "refresh" -> family[t] = req[r].fam
       [] OTHER                 -> TRUE

Snapshot(r) ==
  /\ req[r].step = "snapshot"
  /\ req' = [req EXCEPT ![r].step = "revoke",
                        ![r].rows = {t \in Tokens : InScope(r, t)}]
  /\ UNCHANGED <<row, held>>

Revoke(r) == LET rows == req[r].rows IN
  /\ req[r].step = "revoke"
  /\ \A t \in rows : ~Locked(t)
  /\ used'    = [t \in Tokens |-> used[t] \/ t \in rows]
  /\ revoked' = [t \in Tokens |-> revoked[t] \/ t \in rows]
  /\ Done(r)
  /\ UNCHANGED <<family, parent, replacedBy, expired, held>>

-----------------------------------------------------------------------------
\* All tokens live equally long, so a parent expires before its child.
Expire(t) == /\ Issued(t) /\ ~expired[t]
             /\ parent[t] # NoToken => expired[parent[t]]
             /\ expired' = [expired EXCEPT ![t] = TRUE]
             /\ UNCHANGED <<family, parent, used, revoked, replacedBy, held, req>>

\* The handler dies: an open transaction rolls back, the child's INSERT stays,
\* an answer is lost.
Fail(r) == /\ MayFail
           /\ req[r] # Idle
           /\ Done(r)
           /\ UNCHANGED <<row, held>>

Proceed(r) == \/ MarkUsed(r) \/ SignRefreshToken(r) \/ Commit(r)
              \/ Answer(r) \/ Snapshot(r) \/ Revoke(r)

Next == \/ \E r \in Requests :
             \/ \E f \in Families, c \in Tokens : Login(r, f, c)
             \/ \E t, c \in Tokens : RotateRefreshToken(r, t, c)
             \/ \E t \in Tokens : Logout(r, t)
             \/ ResetPassword(r)
             \/ Proceed(r)
             \/ Fail(r)
        \/ \E t \in Tokens : Expire(t)

Spec == Init /\ [][Next]_vars

\* Continuations run and row locks are queued: see JobLifecycle.
FairSpec == Spec /\ \A r \in Requests : SF_vars(Proceed(r))

-----------------------------------------------------------------------------
(* Properties.                                                             *)

TypeOK == /\ family     \in [Tokens -> Families \cup {NoFamily}]
          /\ parent     \in [Tokens -> Tokens \cup {NoToken}]
          /\ used       \in [Tokens -> BOOLEAN]
          /\ revoked    \in [Tokens -> BOOLEAN]
          /\ replacedBy \in [Tokens -> Tokens \cup {NoToken}]
          /\ expired    \in [Tokens -> BOOLEAN]
          /\ held       \subseteq Tokens
          /\ req        \in [Requests -> RequestState]

\* Tokens a client holds, or is about to receive.
Delivered(t) == t \in held \/ \E r \in Requests : req[r].step = "answer" /\ req[r].child = t
Usable(t) == Delivered(t) /\ ~used[t]

\* A refresh token buys at most one successor, however many requests present it
\* at once and however often a rotation dies between INSERT and COMMIT.
SingleUse ==
  \A c, d \in Tokens :
    Delivered(c) /\ Delivered(d) /\ parent[c] # NoToken /\ parent[c] = parent[d] => c = d

\* Of every session at most one token still works.
OneUsablePerFamily ==
  \A c, d \in Tokens : Usable(c) /\ Usable(d) /\ family[c] = family[d] => c = d

\* The chain the tables record is the chain of rotations: a successor is in its
\* parent's family, points back, and its parent is used.
ChainIsConsistent ==
  \A t \in Tokens : replacedBy[t] # NoToken =>
    /\ used[t]
    /\ parent[replacedBy[t]] = t
    /\ family[replacedBy[t]] = family[t]

\* A revoked token is never exchanged, even if it was revoked after the rotation
\* had read it as good.
RevokedNeverRotates ==
  [][\A t \in Tokens : revoked[t] => replacedBy'[t] = replacedBy[t]]_vars

\* The handlers implement the promise of SessionContract.
Contract == INSTANCE SessionContract
  WITH usable <- [f \in Families |-> {t \in Tokens : Usable(t) /\ family[t] = f}],
       opened <- {f \in Families : \E t \in Tokens : family[t] = f},
       spent  <- {t \in Tokens : used[t]}
ImplementsContract == Contract!Spec

\* Every request is answered, although revocations wait for rotations.
RequestsFinish == \A r \in Requests : req[r] # Idle ~> req[r] = Idle

-----------------------------------------------------------------------------
(* The inductive invariant behind the safety properties.                   *)

\* Which statements each operation runs, and with what arguments.
Shape(p) ==
  \/ p = Idle
  \/ /\ p.op = "login" /\ p.step \in {"sign", "answer"}
     /\ p.token = NoToken /\ p.fam \in Families /\ p.child \in Tokens
  \/ /\ p.op = "refresh" /\ p.token \in Tokens /\ p.fam \in Families
     /\ \/ p.step \in {"markUsed", "sign", "commit", "answer"} /\ p.child \in Tokens
        \/ p.step \in {"snapshot", "revoke"} /\ p.child = NoToken
  \/ /\ p.op \in {"logout", "resetPassword"} /\ p.step \in {"snapshot", "revoke"}
     /\ p.child = NoToken

WellFormed == \A r \in Requests : Shape(req[r])

\* A token or family a request has drawn is nobody else's and in no row yet.
DrawnIsFresh ==
  \A r \in Requests : LET p == req[r] IN
    /\ p.step \in {"markUsed", "sign"} => ~Issued(p.child)
    /\ p.op = "login" /\ p.step = "sign" => \A t \in Tokens : family[t] # p.fam
    /\ \A s \in Requests \ {r} :
         /\ p.child # NoToken => req[s].child # p.child
         /\ p.op = "login" /\ p.step = "sign" => req[s].fam # p.fam

RowsWellFormed ==
  \A t \in Tokens :
    /\ ~Issued(t) => /\ ~used[t] /\ t \notin held
                     /\ parent[t] = NoToken /\ replacedBy[t] = NoToken
    /\ revoked[t] => used[t]
    /\ parent[t] # NoToken => Issued(parent[t])

\* What a rotation or login in progress has read and written is still so.
ProgressHolds ==
  \A r \in Requests : LET p == req[r] IN
    /\ p.op = "refresh" => /\ p.token \in held
                           /\ family[p.token] = p.fam
    /\ Rotating(r) => ~used[p.token]
    /\ p.step \in {"commit", "answer"} => /\ family[p.child] = p.fam
                                          /\ parent[p.child] = p.token
                                          /\ p.child \notin held
    /\ p.op = "refresh" /\ p.step = "answer" => replacedBy[p.token] = p.child
    /\ \A t \in p.rows : Issued(t)

LocksExclude ==
  \A r, s \in Requests : Rotating(r) /\ Rotating(s) /\ req[r].token = req[s].token => r = s

\* A delivered successor is the one its parent's row names.
SuccessorRecorded ==
  \A c \in Tokens : Delivered(c) /\ parent[c] # NoToken => replacedBy[parent[c]] = c

IInv == /\ TypeOK /\ WellFormed /\ DrawnIsFresh /\ RowsWellFormed /\ ProgressHolds
        /\ LocksExclude /\ ChainIsConsistent /\ SuccessorRecorded /\ OneUsablePerFamily
=============================================================================
