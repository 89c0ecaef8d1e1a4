-------------------------------- MODULE MCLive --------------------------------
(***************************************************************************)
(* That requests finish, for those on jobs and for those on refresh tokens. *)
(* The two write different tables, so a behaviour is about one of them; the *)
(* other stays as it was, with no request that fairness could ask to go on. *)
(***************************************************************************)
EXTENDS Integers

CONSTANTS Requests, MayFail,
          Jobs, Providers, NoJob, NoQuote, MaxEdits, Kept,
          Tokens, Families, NoToken, NoFamily

VARIABLES jobStatus, expirySet, awardedQuote, edits, quoteStatus, jobReq, told,
          family, parent, used, revoked, replacedBy, expired, held, tokenReq,
          about

J == INSTANCE JobLifecycle WITH req <- jobReq
T == INSTANCE RefreshTokens WITH req <- tokenReq

jVars == <<jobStatus, expirySet, awardedQuote, edits, quoteStatus, jobReq, told>>
tVars == <<family, parent, used, revoked, replacedBy, expired, held, tokenReq>>
vars  == <<jVars, tVars, about>>

Init == J!Init /\ T!Init /\ about \in {"jobs", "tokens"}

Next == /\ \/ about = "jobs"   /\ J!Next /\ UNCHANGED tVars
           \/ about = "tokens" /\ T!Next /\ UNCHANGED jVars
        /\ UNCHANGED about

\* The fairness of the two modules: a lock that keeps becoming free is got in the end.
Spec == /\ Init /\ [][Next]_vars
        /\ \A r \in Requests : /\ SF_jVars(J!Proceed(r))
                               /\ SF_tVars(T!Proceed(r))

\* Every request on a job ends, whatever locks the others take (job.repo.ts:454-497).
JobRequestsFinish == J!RequestsFinish

\* Every request on a token ends, whatever locks the others take (jwt.service.ts:143-230).
TokenRequestsFinish == T!RequestsFinish
=============================================================================
