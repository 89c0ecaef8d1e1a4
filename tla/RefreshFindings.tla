-------------------------- MODULE RefreshFindings ---------------------------
(***************************************************************************)
(* What the documentation and a comment say of refresh tokens, where the   *)
(* handlers of RefreshTokens do something else.  Each is refuted in place  *)
(* of the properties of TokenRace.cfg.                                     *)
(***************************************************************************)
EXTENDS MCRefreshTokens

\* backend/README.md, Auth Hardening: "Reuse detection revokes the entire refresh
\* token family for the user" - when that UPDATE has run, every row of the family
\* is revoked.
ReuseRevokesFamily ==
  [][\A r \in Requests :
       req[r].op = "refresh" /\ req[r].step = "revoke" /\ req'[r] = Idle =>
         \A t \in Tokens : family[t] = req[r].fam => revoked'[t]]_vars

\* auth.service.ts, resetPassword: "Revoke all refresh tokens - user must
\* re-authenticate" - when that UPDATE has run, no token obtained by a mere refresh
\* still works.
ResetEndsSessions ==
  [][\A r \in Requests :
       req[r].op = "resetPassword" /\ req[r].step = "revoke" /\ req'[r] = Idle =>
         \A t \in Tokens : parent[t] # NoToken => revoked'[t]]_vars
=============================================================================
