---------------------------- MODULE AccountFindings ----------------------------
(***************************************************************************)
(* What is said of accounts and of the rate limits and the code does not   *)
(* do.                                                                     *)
(***************************************************************************)
EXTENDS MCAccounts

Revoking == \E r \in Requests : pCall[r].at = "endSessions"

\* "Your account has been permanently banned." (admin.service.ts:82): a banned user has no
\* session but one a race or a failure explains.  Login does not refuse the user.
BannedStayOut ==
  status = "banned" => \A s \in DOMAIN sessions :
    sessions[s].revoked \/ sessions[s].missed \/ Revoking

\* "Account not found" (auth.service.ts:159): so has a deleted user.  A deletion ends none.
DeletedStayOut ==
  status = "deleted" => \A s \in DOMAIN sessions :
    sessions[s].revoked \/ sessions[s].missed \/ Revoking

\* "Fail-open when Redis is unavailable." (rateLimit.middleware.ts:237): without Redis a
\* request is not refused.
FailsOpen ==
  [][redis # "up" => \A r \in Requests : answer'[r] # answer[r] => answer'[r] = "passed"]_lVars

\* "chat flood control" and the other purposes of user limits (backend/README.md:161-166):
\* a window lets no more than the limit through.
DbLimitHolds == dbPassed <= MaxRequests

\* "15m" (backend/README.md:157): a window ends.  A key without expiry does not, and who has
\* used up the limit is refused for good.
WindowsEnd == count > MaxRequests => ttl > 0 \/ \E r \in Requests : limited[r] = "first"

=============================================================================
