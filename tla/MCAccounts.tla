------------------------------ MODULE MCAccounts ------------------------------
(***************************************************************************)
(* Registration and Passwords write different columns and rows of a user,  *)
(* and the rate limits keep counters of their own, so a behaviour is about *)
(* one of them.  Registration is this module's own, the others instances.  *)
(***************************************************************************)
EXTENDS Registration, FiniteSets, TLC

CONSTANTS MaxResetLinks, MaxSessions, MaxPassword,
          MaxRequests, Window, MaxCount

VARIABLES status, password, resets, sessions, pCall, crowd,
          count, ttl, redis, limited, answer, passed, accident, action, dbPassed,
          about

P == INSTANCE Passwords WITH MaxLinks <- MaxResetLinks, links <- resets, call <- pCall
L == INSTANCE Limits WITH call <- limited

aVars == vars
pVars == <<status, password, resets, sessions, pCall, crowd>>
lVars == <<count, ttl, redis, limited, answer, passed, accident, action, dbPassed>>
accountVars == <<aVars, pVars, lVars, about>>

\* What a behaviour is not about starts in one way.
AccountsInit ==
  /\ Init /\ P!Init /\ L!Init
  /\ about \in {"registration", "passwords", "limits"}
  /\ about = "registration" \/ dev
  /\ about = "limits" \/ action = "post_job"

AccountsNext ==
  /\ \/ about = "registration" /\ Next /\ UNCHANGED <<pVars, lVars>>
     \/ about = "passwords"    /\ P!Next /\ UNCHANGED <<aVars, lVars>>
     \/ about = "limits"       /\ L!Next /\ UNCHANGED <<aVars, pVars>>
  /\ UNCHANGED about

AccountsSpec == AccountsInit /\ [][AccountsNext]_accountVars

\* The instance's assumption.
ASSUME AccountAssumption == L!LimitAssumption

Interchangeable == Permutations(Requests) \cup Permutations(Phones)

\* Sessions end with the password or the status they depend on (auth.service.ts:401).
OldSessionsEnd == P!OldSessionsEnd

\* No more acceptable reset links than racing requests (the same, :338-348).
ResetLinksBounded == P!ResetLinksBounded

\* A reset link works once for every reset that read it as good together (the same, :379-398).
LinkUseBounded == P!LinkUseBounded

\* The limit holds within a window, and windows end but by accident (redis.ts:36-57).
LimitHolds == L!LimitHolds

=============================================================================
