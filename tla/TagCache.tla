------------------------------ MODULE TagCache ------------------------------
(***************************************************************************)
(* The read-through cache with tag invalidation:                           *)
(* src/backend/src/services/cache.service.ts (getOrSetJson, addKeyTags,    *)
(* invalidateTag, invalidateTags) and the services that read through it or *)
(* invalidate after a write.                                               *)
(*                                                                         *)
(* Each Redis command is atomic; between two commands of one request other *)
(* requests run.  What a loader returns is abstracted to the number of     *)
(* writes it has seen.  Hit and miss counters are left out, and so is the  *)
(* expiry of a tag set (a day, against minutes for an entry).              *)
(***************************************************************************)
EXTENDS Naturals, Sequences

CONSTANTS Keys,        \* cache keys
          Tags,        \* invalidation tags
          TagsOf,      \* the tags each key is stored with
          Writes,      \* kinds of database write
          Changes,     \* the keys whose loader returns something else after it
          Invalidates, \* the tags its handler invalidates afterwards, in order
          Requests,    \* requests being handled at the same time
          NoEntry,     \* a key Redis does not hold
          TTL,         \* seconds an entry lives
          MaxWrites    \* bound on database writes

ASSUME TagAssumption  == TagsOf \in [Keys -> SUBSET Tags]
ASSUME WriteAssumption == /\ Changes \in [Writes -> SUBSET Keys]
                          /\ Invalidates \in [Writes -> Seq(Tags)]
ASSUME BoundAssumption == TTL \in Nat \ {0} /\ MaxWrites \in Nat

VARIABLES version, \* how many writes have changed what loader(key) returns
          stored,  \* the cached entry of each key: its version and seconds left
          tagSet,  \* the Redis set of keys kept for each tag
          req,     \* what each request is doing
          alone    \* in this behaviour requests run one after another and none fails

vars == <<version, stored, tagSet, req, alone>>

Versions == 0..MaxWrites
Entries  == [version : Versions, left : 1..TTL]

\* The keys a write changes that its handler also reaches by one of their tags.
Refreshes == [w \in Writes |->
  {k \in Changes[w] : \E i \in DOMAIN Invalidates[w] : Invalidates[w][i] \in TagsOf[k]}]

\* A request: a reader of a key with the version it loaded, or a writer with the
\* tags still to invalidate and the keys it read from the first of them.
Idle == [step |-> "idle"]
RequestState ==
  {Idle}
    \cup [step : {"load"}, key : Keys]
    \cup [step : {"set", "tag"}, key : Keys, loaded : Versions]
    \cup [step : {"members"}, write : Writes, todo : Nat]
    \cup [step : {"delKeys", "delTag"}, write : Writes, todo : Nat, keys : SUBSET Keys]

Init == /\ version = [k \in Keys |-> 0]
        /\ stored  = [k \in Keys |-> NoEntry]
        /\ tagSet  = [t \in Tags |-> {}]
        /\ req     = [r \in Requests |-> Idle]
        /\ alone   \in BOOLEAN

Quiet     == \A r \in Requests : req[r] = Idle
Begins(r) == req[r] = Idle /\ (alone => Quiet)

-----------------------------------------------------------------------------
(* getOrSetJson.                                                           *)

\* GET finds nothing; a hit returns at once and changes nothing.
Miss(r, k) ==
  /\ Begins(r)
  /\ stored[k] = NoEntry
  /\ req' = [req EXCEPT ![r] = [step |-> "load", key |-> k]]
  /\ UNCHANGED <<version, stored, tagSet>>

Load(r) ==
  /\ req[r].step = "load"
  /\ req' = [req EXCEPT ![r] = [step |-> "set", key |-> req[r].key,
                                loaded |-> version[req[r].key]]]
  /\ UNCHANGED <<version, stored, tagSet>>

\* SET key value EX ttl.
Set(r) ==
  /\ req[r].step = "set"
  /\ stored' = [stored EXCEPT ![req[r].key] = [version |-> req[r].loaded, left |-> TTL]]
  /\ req' = [req EXCEPT ![r].step = "tag"]
  /\ UNCHANGED <<version, tagSet>>

AddKeyTags(r) == LET k == req[r].key IN
  /\ req[r].step = "tag"
  /\ tagSet' = [t \in Tags |-> IF t \in TagsOf[k] THEN tagSet[t] \cup {k} ELSE tagSet[t]]
  /\ req' = [req EXCEPT ![r] = Idle]
  /\ UNCHANGED <<version, stored>>

-----------------------------------------------------------------------------
(* A write, then invalidateTags.                                           *)

\* Mutant: the last tag is skipped.
InvalidatingButLast(w, i) == IF i >= Len(Invalidates[w]) THEN Idle
                             ELSE [step |-> "members", write |-> w, todo |-> i]

\* The request state of a writer with the tags from position i on to invalidate.
Invalidating(w, i) == IF i > Len(Invalidates[w]) THEN Idle
                      ELSE [step |-> "members", write |-> w, todo |-> i]

Write(r, w) ==
  /\ Begins(r)
  /\ \A k \in Changes[w] : version[k] < MaxWrites   \* the bound
  /\ version' = [k \in Keys |-> IF k \in Changes[w] THEN version[k] + 1 ELSE version[k]]
  /\ req' = [req EXCEPT ![r] = Invalidating(w, 1)]
  /\ UNCHANGED <<stored, tagSet>>

Tag(r) == Invalidates[req[r].write][req[r].todo]

Members(r) ==
  /\ req[r].step = "members"
  /\ req' = [req EXCEPT ![r] = [step |-> "delKeys", write |-> req[r].write,
                                todo |-> req[r].todo, keys |-> tagSet[Tag(r)]]]
  /\ UNCHANGED <<version, stored, tagSet>>

DelKeys(r) ==
  /\ req[r].step = "delKeys"
  /\ stored' = [k \in Keys |-> IF k \in req[r].keys THEN NoEntry ELSE stored[k]]
  /\ req' = [req EXCEPT ![r].step = "delTag"]
  /\ UNCHANGED <<version, tagSet>>

DelTag(r) ==
  /\ req[r].step = "delTag"
  /\ tagSet' = [tagSet EXCEPT ![Tag(r)] = {}]
  /\ req' = [req EXCEPT ![r] = Invalidating(req[r].write, req[r].todo + 1)]
  /\ UNCHANGED <<version, stored>>

-----------------------------------------------------------------------------
\* A second passes: Redis drops the entries whose time is up.
NeverAged(e) == e   \* mutant: entries are kept
Aged(e) == IF e = NoEntry \/ e.left = 1 THEN NoEntry ELSE [e EXCEPT !.left = @ - 1]
Tick == /\ stored' = [k \in Keys |-> Aged(stored[k])]
        /\ UNCHANGED <<version, tagSet, req>>

\* The handler dies or Redis refuses a command: what was done stays.
Fail(r) == /\ ~alone
           /\ req[r] # Idle
           /\ req' = [req EXCEPT ![r] = Idle]
           /\ UNCHANGED <<version, stored, tagSet>>

Proceed(r) == \/ Load(r) \/ Set(r) \/ AddKeyTags(r)
              \/ Members(r) \/ DelKeys(r) \/ DelTag(r)

Step == \/ \E r \in Requests :
             \/ \E k \in Keys : Miss(r, k)
             \/ \E w \in Writes : Write(r, w)
             \/ Proceed(r)
             \/ Fail(r)
        \/ Tick

Next == Step /\ UNCHANGED alone

Spec == Init /\ [][Next]_vars

\* Node runs every continuation, and time passes.
FairSpec == Spec /\ WF_vars(Tick /\ UNCHANGED alone)
                 /\ \A r \in Requests : WF_vars(Proceed(r) /\ UNCHANGED alone)

-----------------------------------------------------------------------------
(* Properties.                                                             *)

Fresh(k) == stored[k] = NoEntry \/ stored[k].version = version[k]

TypeOK == /\ version \in [Keys -> Versions]
          /\ stored  \in [Keys -> Entries \cup {NoEntry}]
          /\ tagSet  \in [Tags -> SUBSET Keys]
          /\ req     \in [Requests -> RequestState]
          /\ alone   \in BOOLEAN

\* The keys which every write that changes them also refreshes.
Kept == {k \in Keys : \A w \in Writes : k \in Changes[w] => k \in Refreshes[w]}

\* When requests follow one another, between two of them no entry of such a key is
\* older than the database: the tag sets still list every key they should when the
\* next write comes.  (cache.service.ts:57-96)
QuietMeansFresh == alone /\ Quiet => \A k \in Kept : Fresh(k)

\* However readers and writers race and die, once writes have ended every entry that
\* is stale goes away: lost invalidations cost at most the TTL.
StaleEntriesDie == <>[](\A k \in Keys : Fresh(k))

-----------------------------------------------------------------------------
(* The cache as a register.                                                *)

Writing(r) == req[r].step \in {"members", "delKeys", "delTag"}

\* What the write under way will have removed from the cache when it ends.
Due == UNION {Refreshes[req[r].write] : r \in {r \in Requests : Writing(r)}}

\* What a read that comes now is answered with.
Served == [k \in Keys |-> IF stored[k] = NoEntry THEN version[k] ELSE stored[k].version]

Register == INSTANCE CacheContract
              WITH current <- version, served <- Served, due <- Due, orderly <- alone

\* Of the keys a write refreshes, a read during it is answered with the old value or the
\* new one, and never with the old one once the new one was answered, and after it with
\* the new one, whatever was stale before; no other key goes back; and nothing is ever
\* answered that no write has made, even when requests overlap and fail.
\* (cache.service.ts:21-96)
ImplementsRegister == Register!Spec
=============================================================================
