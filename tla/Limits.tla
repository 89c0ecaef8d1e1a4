-------------------------------- MODULE Limits --------------------------------
(***************************************************************************)
(* The two rate limiters: ipRateLimit, a counter in Redis that expires,    *)
(* and dbRateLimit, a row of rate_limit_events per user, action and        *)
(* window.  One key of each; time counts in ticks.                         *)
(***************************************************************************)
EXTENDS Naturals

CONSTANTS Requests,    \* calls under way
          MaxRequests, \* the limit
          Window,      \* length of the window
          MaxCount     \* bound: how far a counter counts

LimitAssumption == MaxRequests \in Nat \ {0} /\ Window \in Nat \ {0}

VARIABLES count,    \* the counter; 0 when the key is missing
          ttl,      \* its time to live; 0 for ever
          redis,    \* the client's connection: up, down, or closed for good
          call,     \* "idle", or "first" between INCR and EXPIRE
          answer,   \* history: what became of the last request of each caller
          passed,   \* history: requests let through since the key was made
          accident, \* history: who had to set the time to live died, or lost Redis
          action,   \* the action a user is limited in
          dbPassed  \* history: requests dbRateLimit let through in the window

vars == <<count, ttl, redis, call, answer, passed, accident, action, dbPassed>>

-----------------------------------------------------------------------------
(* The database.                                                           *)

DbActions == {"post_job", "post_job_weekly", "submit_quote", "submit_quote_weekly", "send_message",
              "browse_feed", "list_conversations", "list_messages", "phone_otp"}

\* The CHECK of action_key.
KnownActions == {"post_job", "post_job_weekly", "submit_quote", "submit_quote_weekly", "send_message",
                 "send_message_global", "login_attempt", "register", "password_reset", "phone_otp",
                 "submit_report", "upload_file"}

Target  == {"user_id", "action_key", "window_start"}
Indexes == {[columns |-> Target, partial |-> TRUE],
            [columns |-> {"ip_address", "action_key", "window_start"}, partial |-> TRUE]}

\* PostgreSQL takes a partial index for the target of ON CONFLICT only if that repeats the
\* condition of the index, which this one does not: the INSERT is an error.
Inferred == \E i \in Indexes : i.columns = Target /\ ~i.partial

CheckDbRateLimit(n) == IF Inferred /\ action \in KnownActions THEN {n + 1} ELSE {}

Init == /\ count = 0 /\ ttl = 0 /\ redis = "up"
        /\ call = [r \in Requests |-> "idle"]
        /\ answer = [r \in Requests |-> "none"]
        /\ passed = 0 /\ accident = FALSE
        /\ action \in DbActions /\ dbPassed = 0

\* Fails open.
DbRateLimit ==
  /\ dbPassed < MaxCount
  /\ \A n \in CheckDbRateLimit(dbPassed) : n <= MaxRequests
  /\ dbPassed' = dbPassed + 1
  /\ UNCHANGED <<count, ttl, redis, call, answer, passed, accident, action>>

-----------------------------------------------------------------------------
(* Redis.                                                                  *)

Answers(r, allowed) ==
  /\ answer' = [answer EXCEPT ![r] = IF allowed THEN "passed" ELSE "refused"]
  /\ passed' = IF allowed THEN passed + 1 ELSE passed

\* redisRateLimit: INCR and TTL in a pipeline.  The first goes on to set the expiry.
IncrAndTtl(r) ==
  /\ call[r] = "idle" /\ redis = "up" /\ count < MaxCount
  /\ count' = count + 1
  /\ IF count = 0
     THEN call' = [call EXCEPT ![r] = "first"] /\ UNCHANGED <<answer, passed>>
     ELSE Answers(r, count' <= MaxRequests) /\ UNCHANGED call
  /\ UNCHANGED <<ttl, redis, accident, action, dbPassed>>

\* exec() resolves with an error for each command: count is undefined, and undefined is not
\* <= the limit.  The INCR may have run, if the connection was lost with its answer; nobody
\* then sets an expiry of the key that it made.
IncrFails(r) ==
  /\ call[r] = "idle" /\ redis # "up"
  /\ Answers(r, FALSE)
  /\ \/ UNCHANGED <<count, accident>>
     \/ redis = "down" /\ count < MaxCount
        /\ count' = count + 1 /\ accident' = (accident \/ count = 0)
  /\ UNCHANGED <<ttl, redis, call, action, dbPassed>>

\* Mutant: the key is set to 1 with the expiry.
SetWithExpiry(r) ==
  /\ call[r] = "first"
  /\ call' = [call EXCEPT ![r] = "idle"]
  /\ Answers(r, TRUE)
  /\ IF redis = "up" THEN ttl' = Window /\ count' = 1 /\ UNCHANGED accident
                     ELSE accident' = TRUE /\ UNCHANGED <<ttl, count>>
  /\ UNCHANGED <<redis, action, dbPassed>>

\* EXPIRE rejects without Redis, which ipRateLimit lets pass.
Expire(r) ==
  /\ call[r] = "first"
  /\ call' = [call EXCEPT ![r] = "idle"]
  /\ Answers(r, TRUE)
  /\ IF redis = "up" THEN ttl' = Window /\ UNCHANGED accident
                     ELSE accident' = TRUE /\ UNCHANGED ttl
  /\ UNCHANGED <<count, redis, action, dbPassed>>

Tick ==
  /\ ttl > 0
  /\ ttl' = ttl - 1
  /\ IF ttl = 1 THEN count' = 0 /\ passed' = 0 ELSE UNCHANGED <<count, passed>>
  /\ UNCHANGED <<redis, call, answer, accident, action, dbPassed>>

\* The connection drops, and is restored, or given up after five attempts.
Connection ==
  /\ \/ redis = "up"   /\ redis' = "down"
     \/ redis = "down" /\ redis' \in {"up", "closed"}
  /\ UNCHANGED <<count, ttl, call, answer, passed, accident, action, dbPassed>>

Restart ==
  /\ redis' = "up"
  /\ call' = [r \in Requests |-> "idle"]
  /\ accident' = (accident \/ \E r \in Requests : call[r] = "first")
  /\ UNCHANGED <<count, ttl, answer, passed, action, dbPassed>>

Next == \/ \E r \in Requests : IncrAndTtl(r) \/ IncrFails(r) \/ Expire(r)
        \/ Tick \/ Connection \/ Restart \/ DbRateLimit

Spec == Init /\ [][Next]_vars

-----------------------------------------------------------------------------
\* A key lets no more than the limit through for as long as it lives, whatever requests, lost
\* connections and restarts meet; and a key that lives for ever will be given its expiry, or
\* who had to has died or lost Redis after the INCR.  (redis.ts:41-50)
LimitHolds ==
  /\ passed <= MaxRequests
  /\ count > 0 /\ ttl = 0 => accident \/ \E r \in Requests : call[r] = "first"

=============================================================================
