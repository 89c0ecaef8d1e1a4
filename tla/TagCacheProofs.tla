---------------------------- MODULE TagCacheProofs ----------------------------
(***************************************************************************)
(* Proof that requests which follow one another leave no entry stale that  *)
(* a write has refreshed, for any keys, tags, writes and invalidations.    *)
(*                                                                         *)
(* The invariant says which keys a writer still has to remove, and that    *)
(* the tag sets list every entry there is but the one being stored.        *)
(***************************************************************************)
EXTENDS TagCache, TLAPS

\* Some tag invalidated from position i on is one of the key's.
Covers(w, k, i) == \E j \in DOMAIN Invalidates[w] : j >= i /\ Invalidates[w][j] \in TagsOf[k]

StoreOK ==
  /\ version = [k \in Keys |-> version[k]]
  /\ stored = [k \in Keys |-> stored[k]]
  /\ \A k \in Keys : stored[k] = NoEntry \/ DOMAIN stored[k] = {"version", "left"}
  /\ tagSet = [t \in Tags |-> tagSet[t]]

RequestOK(x) ==
  /\ "step" \in DOMAIN x
  /\ x.step \in {"load", "set", "tag"} => x.key \in Keys
  /\ x.step \in {"members", "delKeys", "delTag"} =>
       x.write \in Writes /\ x.todo \in DOMAIN Invalidates[x.write]

RequestsOK == req = [r \in Requests |-> req[r]] /\ \A r \in Requests : RequestOK(req[r])

Typed == StoreOK /\ RequestsOK

OneAtATime == \A r, s \in Requests : req[r] # Idle /\ req[s] # Idle => r = s

\* An entry is listed under all its tags, or its reader is about to list it.
Listed ==
  \A k \in Keys : \/ stored[k] = NoEntry
                  \/ \E r \in Requests : req[r].step = "tag" /\ req[r].key = k
                  \/ \A t \in TagsOf[k] : k \in tagSet[t]

\* The position from which on a writer still removes keys.
From(r) == IF req[r].step = "delTag" THEN req[r].todo + 1 ELSE req[r].todo

\* What the writer under way refreshes and is stale it will still remove, and a key that
\* every write refreshes is stale at most while one is under way.
Promised ==
  /\ \A r \in Requests : Writing(r) =>
       \A k \in Refreshes[req[r].write] : Fresh(k) \/ Covers(req[r].write, k, From(r))
  /\ \A k \in Kept : \/ Fresh(k)
                     \/ \E r \in Requests : Writing(r) /\ k \in Refreshes[req[r].write]

\* What a request has read is still so.
Remembered ==
  \A r \in Requests :
    /\ req[r].step = "set" => req[r].loaded = version[req[r].key]
    /\ req[r].step \in {"delKeys", "delTag"} => req[r].keys = tagSet[Tag(r)]
    /\ req[r].step = "delTag" => \A k \in req[r].keys \cap Keys : stored[k] = NoEntry

Alone == OneAtATime /\ Listed /\ Promised /\ Remembered

FreshInv == alone => Typed /\ Alone

-----------------------------------------------------------------------------
LEMMA FreshInit == Init => FreshInv
<1> SUFFICES ASSUME Init PROVE Typed /\ Alone
  BY DEF FreshInv
<1>1. Typed
  BY DEF Init, Typed, StoreOK, RequestsOK, RequestOK, Idle
<1>2. Alone
  BY DEF Init, Alone, OneAtATime, Listed, Promised, Remembered, Fresh, Idle, Kept, Writing
<1> QED BY <1>1, <1>2

\* A request that begins while requests are alone finds nothing stale of what is kept.
LEMMA QuietIsFresh == Alone /\ Quiet => \A k \in Kept : Fresh(k)
<1> SUFFICES ASSUME Alone, Quiet, NEW k \in Kept PROVE Fresh(k)
  OBVIOUS
<1>1. \A r \in Requests : req[r].step = "idle"
  BY DEF Quiet, Idle
<1>2. \A r \in Requests : ~Writing(r)
  BY <1>1 DEF Writing
<1> QED BY <1>2 DEF Alone, Promised

\* A writer goes on with a tag that is there, or has no tag left.
LEMMA NextTag ==
  ASSUME NEW w \in Writes, NEW i \in Nat \ {0}
  PROVE  \/ Invalidating(w, i) = Idle /\ \A j \in DOMAIN Invalidates[w] : j < i
         \/ /\ Invalidating(w, i) = [step |-> "members", write |-> w, todo |-> i]
            /\ i \in DOMAIN Invalidates[w]
<1>1. Invalidates[w] \in Seq(Tags)
  BY WriteAssumption
<1>2. DOMAIN Invalidates[w] = 1..Len(Invalidates[w]) /\ Len(Invalidates[w]) \in Nat
  BY <1>1
<1> QED BY <1>2 DEF Invalidating

LEMMA FirstTag ==
  ASSUME NEW w \in Writes
  PROVE  \/ Invalidating(w, 1) = Idle /\ ~\E j \in DOMAIN Invalidates[w] : j >= 1
         \/ /\ Invalidating(w, 1) = [step |-> "members", write |-> w, todo |-> 1]
            /\ 1 \in DOMAIN Invalidates[w]
<1>1. Invalidates[w] \in Seq(Tags)
  BY WriteAssumption
<1>2. DOMAIN Invalidates[w] = 1..Len(Invalidates[w]) /\ Len(Invalidates[w]) \in Nat
  BY <1>1
<1> QED BY <1>2 DEF Invalidating

LEMMA FirstTags ==
  ASSUME NEW w \in Writes, NEW i \in DOMAIN Invalidates[w]
  PROVE  i \in Nat /\ i >= 1
<1>1. Invalidates[w] \in Seq(Tags)
  BY WriteAssumption
<1> QED BY <1>1

LEMMA OneRequest ==
  ASSUME RequestsOK, NEW r \in Requests, NEW x, RequestOK(x), req' = [req EXCEPT ![r] = x]
  PROVE  RequestsOK'
  BY DEF RequestsOK

LEMMA TypedStep == Typed /\ Step => Typed'
<1> SUFFICES ASSUME Typed, Step PROVE Typed'
  OBVIOUS
<1> USE WriteAssumption DEF Typed, StoreOK
<1>1. ASSUME NEW r \in Requests, NEW k \in Keys, Miss(r, k) PROVE Typed'
  <2> DEFINE x == [step |-> "load", key |-> k]
  <2>1. req' = [req EXCEPT ![r] = x]
    BY <1>1 DEF Miss
  <2>2. RequestOK(x)
    BY <1>1 DEF Miss, RequestsOK, RequestOK, Idle
  <2>3. StoreOK'
    BY <1>1 DEF Miss
  <2> QED BY <2>1, <2>2, <2>3, OneRequest
<1>2. ASSUME NEW r \in Requests, NEW w \in Writes, Write(r, w) PROVE Typed'
  <2> DEFINE x == Invalidating(w, 1)
  <2>1. req' = [req EXCEPT ![r] = x]
    BY <1>2 DEF Write
  <2>2. RequestOK(x)
    BY FirstTag DEF RequestOK, Idle
  <2>3. StoreOK'
    BY <1>2 DEF Write
  <2> QED BY <2>1, <2>2, <2>3, OneRequest
<1>3. ASSUME NEW r \in Requests, Load(r) PROVE Typed'
  <2> DEFINE x == [step |-> "set", key |-> req[r].key, loaded |-> version[req[r].key]]
  <2>1. req' = [req EXCEPT ![r] = x]
    BY <1>3 DEF Load
  <2>2. RequestOK(x)
    BY <1>3 DEF Load, RequestsOK, RequestOK, Idle
  <2>3. StoreOK'
    BY <1>3 DEF Load
  <2> QED BY <2>1, <2>2, <2>3, OneRequest
<1>4. ASSUME NEW r \in Requests, Set(r) PROVE Typed'
  <2> DEFINE x == [req[r] EXCEPT !.step = "tag"]
  <2>1. req' = [req EXCEPT ![r] = x]
    BY <1>4 DEF Set
  <2>2. RequestOK(x)
    BY <1>4 DEF Set, RequestsOK, RequestOK, Idle
  <2>3. StoreOK'
    BY <1>4 DEF Set
  <2> QED BY <2>1, <2>2, <2>3, OneRequest
<1>5. ASSUME NEW r \in Requests, AddKeyTags(r) PROVE Typed'
  <2> DEFINE x == Idle
  <2>1. req' = [req EXCEPT ![r] = x]
    BY <1>5 DEF AddKeyTags
  <2>2. RequestOK(x)
    BY <1>5 DEF AddKeyTags, RequestsOK, RequestOK, Idle
  <2>3. StoreOK'
    BY <1>5 DEF AddKeyTags
  <2> QED BY <2>1, <2>2, <2>3, OneRequest
<1>6. ASSUME NEW r \in Requests, Members(r) PROVE Typed'
  <2> DEFINE x == [step |-> "delKeys", write |-> req[r].write, todo |-> req[r].todo,
                  keys |-> tagSet[Tag(r)]]
  <2>1. req' = [req EXCEPT ![r] = x]
    BY <1>6 DEF Members
  <2>2. RequestOK(x)
    BY <1>6 DEF Members, RequestsOK, RequestOK, Idle
  <2>3. StoreOK'
    BY <1>6 DEF Members
  <2> QED BY <2>1, <2>2, <2>3, OneRequest
<1>7. ASSUME NEW r \in Requests, DelKeys(r) PROVE Typed'
  <2> DEFINE x == [req[r] EXCEPT !.step = "delTag"]
  <2>1. req' = [req EXCEPT ![r] = x]
    BY <1>7 DEF DelKeys
  <2>2. RequestOK(x)
    BY <1>7 DEF DelKeys, RequestsOK, RequestOK, Idle
  <2>3. StoreOK'
    BY <1>7 DEF DelKeys
  <2> QED BY <2>1, <2>2, <2>3, OneRequest
<1>8. ASSUME NEW r \in Requests, DelTag(r) PROVE Typed'
  <2> DEFINE x == Invalidating(req[r].write, req[r].todo + 1)
  <2>1. req' = [req EXCEPT ![r] = x]
    BY <1>8 DEF DelTag
  <2>2. RequestOK(x)
    <3>1. req[r].write \in Writes /\ req[r].todo + 1 \in Nat \ {0}
      BY <1>8 DEF DelTag, RequestsOK, RequestOK
    <3> QED BY <3>1, NextTag DEF RequestOK, Idle
  <2>3. StoreOK'
    BY <1>8 DEF DelTag
  <2> QED BY <2>1, <2>2, <2>3, OneRequest
<1>9. ASSUME NEW r \in Requests, Fail(r) PROVE Typed'
  <2> DEFINE x == Idle
  <2>1. req' = [req EXCEPT ![r] = x]
    BY <1>9 DEF Fail
  <2>2. RequestOK(x)
    BY <1>9 DEF Fail, RequestsOK, RequestOK, Idle
  <2>3. StoreOK'
    BY <1>9 DEF Fail
  <2> QED BY <2>1, <2>2, <2>3, OneRequest
<1>10. CASE Tick
  <2>1. StoreOK'
    BY <1>10 DEF Tick, Aged
  <2>2. RequestsOK'
    BY <1>10 DEF Tick, RequestsOK
  <2> QED BY <2>1, <2>2
<1> QED BY <1>1, <1>2, <1>3, <1>4, <1>5, <1>6, <1>7, <1>8, <1>9, <1>10 DEF Step, Proceed

\* Who is at work when requests run one after another.
Solo(r) == \A s \in Requests : s # r => req[s] = Idle /\ req[s].step = "idle"

LEMMA AloneStep ==
  ASSUME alone, Typed, Alone, Step
  PROVE  Alone'
<1> USE TagAssumption, WriteAssumption
<1> USE DEF Typed, StoreOK, RequestsOK, RequestOK, Alone, Idle
<1>1. ASSUME NEW r \in Requests, NEW k \in Keys, Miss(r, k) PROVE Alone'
  <2>1. Solo(r)
    BY <1>1 DEF Miss, Begins, Quiet, Solo, OneAtATime
  <2>2. OneAtATime'
    BY <1>1, <2>1 DEF Miss, Begins, Solo, OneAtATime
  <2>3. Listed'
    <3>1. /\ \A s \in Requests : req[s].step = "idle"
          /\ UNCHANGED <<stored, tagSet>>
      BY <1>1 DEF Miss, Begins, Quiet
    <3> QED BY <3>1 DEF Listed
  <2>4. Promised'
    <3>1. ~Writing(r)' /\ UNCHANGED <<version, stored>>
      BY <1>1 DEF Miss, Writing
    <3> QED BY <1>1, <2>1, <3>1, QuietIsFresh DEF Miss, Begins, Promised, Fresh, Solo, Writing
  <2>5. Remembered'
    BY <1>1, <2>1 DEF Miss, Begins, Solo, Remembered, Tag
  <2> QED BY <2>2, <2>3, <2>4, <2>5
<1>2. ASSUME NEW r \in Requests, NEW w \in Writes, Write(r, w) PROVE Alone'
  <2>1. Solo(r)
    BY <1>2 DEF Write, Begins, Invalidating, Quiet, Solo, OneAtATime
  <2>2. OneAtATime'
    BY <1>2, <2>1 DEF Write, Begins, Invalidating, Solo, OneAtATime
  <2>3. Listed'
    <3>1. /\ \A s \in Requests : req[s].step = "idle"
          /\ UNCHANGED <<stored, tagSet>>
      BY <1>2 DEF Write, Begins, Quiet
    <3> QED BY <3>1 DEF Listed
  <2>4. Promised'
    <3>1. ASSUME NEW k \in Refreshes[w]
          PROVE  /\ Covers(w, k, 1)
                 /\ req'[r] = [step |-> "members", write |-> w, todo |-> 1]
      <4>1. Covers(w, k, 1)
        BY <3>1, FirstTags DEF Covers, Refreshes
      <4>2. \E j \in DOMAIN Invalidates[w] : j >= 1
        BY <4>1 DEF Covers
      <4>3. Invalidating(w, 1) = [step |-> "members", write |-> w, todo |-> 1]
        BY <4>2, FirstTag
      <4> QED BY <1>2, <4>1, <4>3 DEF Write
    <3>2. ASSUME NEW s \in Requests, Writing(s)'
          PROVE  s = r /\ req'[s].write = w /\ From(s)' = 1
      BY <1>2, <2>1, <3>2, FirstTag DEF Write, Solo, Writing, From
    <3>3. ASSUME NEW k \in Kept
          PROVE  Fresh(k)' \/ (Writing(r)' /\ k \in Refreshes[req'[r].write])
      <4>1. k \in Keys /\ Fresh(k) /\ stored'[k] = stored[k]
        BY <1>2, QuietIsFresh DEF Write, Begins, Kept
      <4>2. CASE k \notin Changes[w]
        BY <1>2, <4>1, <4>2 DEF Write, Fresh
      <4>3. CASE k \in Changes[w]
        BY <3>1, <4>3 DEF Kept, Writing
      <4> QED BY <4>2, <4>3
    <3> QED BY <3>1, <3>2, <3>3 DEF Promised, Covers
  <2>5. Remembered'
    BY <1>2, <2>1 DEF Write, Begins, Invalidating, Solo, Remembered, Tag
  <2> QED BY <2>2, <2>3, <2>4, <2>5
<1>3. ASSUME NEW r \in Requests, Load(r) PROVE Alone'
  <2>1. Solo(r)
    BY <1>3 DEF Load, Quiet, Solo, OneAtATime
  <2>2. OneAtATime'
    BY <1>3, <2>1 DEF Load, Solo, OneAtATime
  <2>3. Listed'
    BY <1>3, <2>1 DEF Load, Solo, Listed
  <2>4. Promised'
    BY <1>3, <2>1 DEF Load, Solo, Promised, Fresh, Writing, From
  <2>5. Remembered'
    BY <1>3, <2>1 DEF Load, Solo, Remembered, Tag
  <2> QED BY <2>2, <2>3, <2>4, <2>5
<1>4. ASSUME NEW r \in Requests, Set(r) PROVE Alone'
  <2>1. Solo(r)
    BY <1>4 DEF Set, Quiet, Solo, OneAtATime
  <2>2. OneAtATime'
    BY <1>4, <2>1 DEF Set, Solo, OneAtATime
  <2>3. Listed'
    <3> SUFFICES ASSUME NEW k \in Keys
                 PROVE  \/ stored'[k] = NoEntry
                        \/ req'[r].step = "tag" /\ req'[r].key = k
                        \/ \A t \in TagsOf[k] : k \in tagSet'[t]
      BY DEF Listed
    <3>1. req'[r].step = "tag" /\ req'[r].key = req[r].key /\ tagSet' = tagSet
      <4>1. req'[r] = [req[r] EXCEPT !.step = "tag"] /\ "step" \in DOMAIN req[r]
        BY <1>4 DEF Set
      <4>2. tagSet' = tagSet
        BY <1>4 DEF Set
      <4> QED BY ONLY <4>1, <4>2
    <3>2. CASE k = req[r].key
      BY <3>1, <3>2
    <3>3. CASE k # req[r].key
      <4>1. stored'[k] = stored[k] /\ req[r].step = "set"
        BY <1>4, <3>3 DEF Set
      <4> QED BY <2>1, <3>1, <4>1 DEF Listed, Solo
    <3> QED BY <3>2, <3>3
  <2>4. Promised'
    <3>1. \A s \in Requests : ~Writing(s) /\ ~Writing(s)'
      <4>1. req'[r].step = "tag"
        <5>1. req'[r] = [req[r] EXCEPT !.step = "tag"] /\ "step" \in DOMAIN req[r]
          BY <1>4 DEF Set
        <5> QED BY ONLY <5>1
      <4> QED BY <1>4, <2>1, <4>1 DEF Set, Solo, Writing
    <3>2. \A k \in Kept : k \in Keys /\ Fresh(k)
      BY <3>1 DEF Promised, Kept
    <3>3. /\ req[r].loaded = version[req[r].key] /\ version' = version
          /\ stored' = [stored EXCEPT ![req[r].key] = [version |-> req[r].loaded, left |-> TTL]]
      BY <1>4 DEF Set, Remembered
    <3> QED BY <3>1, <3>2, <3>3 DEF Promised, Fresh
  <2>5. Remembered'
    BY <1>4, <2>1 DEF Set, Solo, Remembered, Tag
  <2> QED BY <2>2, <2>3, <2>4, <2>5
<1>5. ASSUME NEW r \in Requests, AddKeyTags(r) PROVE Alone'
  <2>1. Solo(r)
    BY <1>5 DEF AddKeyTags, Quiet, Solo, OneAtATime
  <2>2. OneAtATime'
    BY <1>5, <2>1 DEF AddKeyTags, Solo, OneAtATime
  <2>3. Listed'
    BY <1>5, <2>1 DEF AddKeyTags, Solo, Listed
  <2>4. Promised'
    BY <1>5, <2>1 DEF AddKeyTags, Solo, Promised, Fresh, Writing, From
  <2>5. Remembered'
    BY <1>5, <2>1 DEF AddKeyTags, Solo, Remembered, Tag
  <2> QED BY <2>2, <2>3, <2>4, <2>5
<1>6. ASSUME NEW r \in Requests, Members(r) PROVE Alone'
  <2>1. Solo(r)
    BY <1>6 DEF Members, Quiet, Solo, OneAtATime
  <2>2. OneAtATime'
    BY <1>6, <2>1 DEF Members, Solo, OneAtATime
  <2>3. Listed'
    BY <1>6, <2>1 DEF Members, Solo, Listed
  <2>4. Promised'
    BY <1>6, <2>1 DEF Members, Solo, Promised, Fresh, Writing, From
  <2>5. Remembered'
    BY <1>6, <2>1 DEF Members, Solo, Remembered, Tag
  <2> QED BY <2>2, <2>3, <2>4, <2>5
<1>7. ASSUME NEW r \in Requests, DelKeys(r) PROVE Alone'
  <2>1. Solo(r)
    BY <1>7 DEF DelKeys, Quiet, Solo, OneAtATime
  <2>2. OneAtATime'
    BY <1>7, <2>1 DEF DelKeys, Solo, OneAtATime
  <2>3. Listed'
    BY <1>7, <2>1 DEF DelKeys, Solo, Listed
  <2>4. Promised'
    <3>1. /\ req[r].step = "delKeys" /\ version' = version /\ Writing(r)
          /\ \A k \in Keys : stored'[k] = IF k \in req[r].keys THEN NoEntry ELSE stored[k]
      BY <1>7 DEF DelKeys, Writing
    <3>2. /\ req'[r].step = "delTag" /\ req'[r].write = req[r].write
          /\ req'[r].todo = req[r].todo
      <4>1. req'[r] = [req[r] EXCEPT !.step = "delTag"] /\ "step" \in DOMAIN req[r]
        BY <1>7 DEF DelKeys
      <4> QED BY ONLY <4>1
    <3>3. \A k \in Keys : Fresh(k) => Fresh(k)'
      BY <3>1 DEF Fresh
    <3>4. \A s \in Requests : Writing(s)' => s = r
      BY <1>7, <2>1 DEF DelKeys, Solo, Writing
    <3>5. \A k \in Kept : Fresh(k)' \/ (Writing(r)' /\ k \in Refreshes[req'[r].write])
      BY <2>1, <3>2, <3>3 DEF Promised, Kept, Solo, Writing
    <3>6. ASSUME NEW k \in Refreshes[req[r].write], ~Fresh(k)'
          PROVE  Covers(req[r].write, k, req[r].todo + 1)
      <4>k. k \in Keys
        BY <3>1, <3>6 DEF Refreshes, Writing
      <4>s. ~Fresh(k) /\ k \notin req[r].keys
        BY <3>1, <3>3, <3>6, <4>k DEF Fresh
      <4>1. Covers(req[r].write, k, req[r].todo)
        BY <3>1, <3>6, <4>s DEF Promised, From
      <4>2. Tag(r) \notin TagsOf[k]
        BY <2>1, <3>1, <4>k, <4>s DEF Listed, Solo, Remembered, Fresh
      <4>3. Covers(req[r].write, k, req[r].todo + 1)
        <5>1. PICK j \in DOMAIN Invalidates[req[r].write] :
                j >= req[r].todo /\ Invalidates[req[r].write][j] \in TagsOf[k]
          BY <4>1 DEF Covers
        <5>2. j # req[r].todo
          BY <4>2, <5>1 DEF Tag
        <5>3. j \in Nat /\ req[r].todo \in Nat
          BY <3>1, <5>1 DEF Writing
        <5> QED BY <5>1, <5>2, <5>3 DEF Covers
      <4> QED BY <4>3
    <3> QED BY <3>2, <3>4, <3>5, <3>6 DEF Promised, From, Covers
  <2>5. Remembered'
    BY <1>7, <2>1 DEF DelKeys, Solo, Remembered, Tag
  <2> QED BY <2>2, <2>3, <2>4, <2>5
<1>8. ASSUME NEW r \in Requests, DelTag(r) PROVE Alone'
  <2>1. Solo(r)
    BY <1>8 DEF DelTag, Invalidating, Quiet, Solo, OneAtATime
  <2>2. OneAtATime'
    BY <1>8, <2>1 DEF DelTag, Invalidating, Solo, OneAtATime
  <2>3. Listed'
    <3>1. /\ req[r].step = "delTag" /\ stored' = stored
          /\ tagSet' = [tagSet EXCEPT ![Tag(r)] = {}]
      BY <1>8 DEF DelTag
    <3>2. \A k \in Keys : stored[k] # NoEntry =>
            Tag(r) \notin TagsOf[k] /\ \A t \in TagsOf[k] : k \in tagSet[t]
      BY <2>1, <3>1 DEF Listed, Solo, Remembered
    <3> QED BY <3>1, <3>2 DEF Listed
  <2>4. Promised'
    <3> DEFINE w == req[r].write
               i == req[r].todo + 1
    <3>1. /\ w \in Writes /\ i \in Nat \ {0} /\ UNCHANGED <<version, stored>>
          /\ req' = [req EXCEPT ![r] = Invalidating(w, i)] /\ Writing(r) /\ From(r) = i
      BY <1>8 DEF DelTag, Writing, From
    <3>2. \A k \in Refreshes[w] : Fresh(k) \/ Covers(w, k, i)
      BY <3>1 DEF Promised
    <3>3. \A k \in Kept : Fresh(k) \/ k \in Refreshes[w]
      BY <2>1, <3>1 DEF Promised, Solo, Writing
    <3> HIDE DEF w, i
    <3>4. CASE Invalidating(w, i) = [step |-> "members", write |-> w, todo |-> i]
      <4>1. req'[r] = [step |-> "members", write |-> w, todo |-> i]
        BY <3>1, <3>4
      <4>2. \A s \in Requests : Writing(s)' => s = r
        BY <2>1, <3>1 DEF Solo, Writing
      <4>3. Writing(r)' /\ req'[r].write = w /\ From(r)' = i
        BY <4>1 DEF Writing, From
      <4>4. /\ \A k \in Refreshes[w] : Fresh(k)' \/ Covers(w, k, i)
            /\ \A k \in Kept : Fresh(k)' \/ k \in Refreshes[w]
        BY <3>1, <3>2, <3>3 DEF Fresh
      <4> QED BY <4>2, <4>3, <4>4 DEF Promised, Covers
    <3>5. CASE Invalidating(w, i) = Idle /\ \A j \in DOMAIN Invalidates[w] : j < i
      <4>1. \A k \in Refreshes[w] : Fresh(k)
        BY <3>1, <3>2, <3>5, FirstTags DEF Covers
      <4>2. \A s \in Requests : ~Writing(s)'
        BY <2>1, <3>1, <3>5 DEF Solo, Writing
      <4> QED BY <3>1, <3>3, <4>1, <4>2 DEF Promised, Fresh
    <3> QED BY <3>1, <3>4, <3>5, NextTag
  <2>5. Remembered'
    BY <1>8, <2>1 DEF DelTag, Invalidating, Solo, Remembered, Tag
  <2> QED BY <2>2, <2>3, <2>4, <2>5
<1>9. CASE Tick
  <2>1. Listed'
    BY <1>9 DEF Tick, Aged, Listed
  <2>2. Promised'
    <3>1. \A k \in Keys : Fresh(k) => Fresh(k)'
      BY <1>9 DEF Tick, Aged, Fresh
    <3>2. /\ \A k \in Kept : k \in Keys
          /\ \A r \in Requests : Writing(r) => \A k \in Refreshes[req[r].write] : k \in Keys
      BY DEF Kept, Refreshes, Writing
    <3>3. /\ req' = req
          /\ \A r \in Requests : (Writing(r)' <=> Writing(r)) /\ From(r)' = From(r)
      BY <1>9 DEF Tick, Writing, From
    <3> QED BY <3>1, <3>2, <3>3 DEF Promised, Covers
  <2>3. (OneAtATime /\ Remembered)'
    BY <1>9 DEF Tick, Aged, OneAtATime, Remembered, Tag
  <2> QED BY <2>1, <2>2, <2>3
<1> QED BY <1>1, <1>2, <1>3, <1>4, <1>5, <1>6, <1>7, <1>8, <1>9 DEF Step, Proceed, Fail

\* Requests that follow one another never read an old value of a key that every write
\* changing it refreshes, a provider's own profile for one.  (cache.service.ts:57-96)
THEOREM QuietIsNeverStale == Spec => []QuietMeansFresh
<1>1. FreshInv /\ [Next]_vars => FreshInv'
  <2>1. FreshInv /\ Step /\ UNCHANGED alone => FreshInv'
    BY TypedStep, AloneStep DEF FreshInv
  <2>2. FreshInv /\ UNCHANGED vars => FreshInv'
    <3> SUFFICES ASSUME FreshInv, UNCHANGED vars PROVE FreshInv'
      OBVIOUS
    <3>1. UNCHANGED Typed
      BY DEF vars, Typed, StoreOK, RequestsOK
    <3>2. UNCHANGED Alone
      BY DEF vars, Alone, OneAtATime, Listed, Promised, Remembered, Fresh, Writing, From, Tag,
             Covers
    <3> QED BY <3>1, <3>2 DEF FreshInv, vars
  <2> QED BY <2>1, <2>2 DEF Next
<1>2. FreshInv => QuietMeansFresh
  BY QuietIsFresh DEF FreshInv, QuietMeansFresh
<1> QED BY FreshInit, <1>1, <1>2, PTL DEF Spec

-----------------------------------------------------------------------------
(* The cache as a register.                                                *)

\* Nothing stored or read is newer than the database.
NotAhead ==
  /\ \A k \in Keys : /\ version[k] \in Nat
                     /\ stored[k] # NoEntry => stored[k].version \in 0..version[k]
  /\ \A r \in Requests :
       req[r].step \in {"set", "tag"} => req[r].loaded \in 0..version[req[r].key]

RegisterInv == Typed /\ NotAhead /\ (alone => Alone)

\* A step changes the database by whole writes, of some keys each.
LEMMA VersionsGrow ==
  ASSUME Typed, Step
  PROVE  \E K \in SUBSET Keys : version' = Register!After(K)
<1>1. CASE version' = version
  <2>1. version' = Register!After({})
    BY <1>1 DEF Register!After, Typed, StoreOK
  <2> QED BY <2>1
<1>2. ASSUME NEW r \in Requests, NEW w \in Writes, Write(r, w)
      PROVE  version' = Register!After(Changes[w]) /\ Changes[w] \in SUBSET Keys
  BY <1>2, WriteAssumption DEF Write, Register!After
<1>3. version' = version \/ \E r \in Requests, w \in Writes : Write(r, w)
  BY DEF Step, Proceed, Miss, Load, Set, AddKeyTags, Members, DelKeys, DelTag, Fail, Tick
<1> QED BY <1>1, <1>2, <1>3

LEMMA NotAheadStep ==
  ASSUME Typed, NotAhead, Step
  PROVE  NotAhead'
<1>1. PICK K \in SUBSET Keys : version' = Register!After(K)
  BY VersionsGrow
<1>2. \A k \in Keys : version'[k] \in Nat /\ 0..version[k] \subseteq 0..version'[k]
  BY <1>1 DEF NotAhead, Register!After
<1>3. ASSUME NEW k \in Keys, stored'[k] # NoEntry PROVE stored'[k].version \in 0..version[k]
  <2>1. CASE stored'[k] = stored[k]
    BY <1>3, <2>1 DEF NotAhead
  <2>2. ASSUME NEW r \in Requests, Set(r) PROVE stored'[k].version \in 0..version[k]
    BY <1>3, <2>2 DEF Set, NotAhead, Typed, StoreOK
  <2>3. ASSUME NEW r \in Requests, DelKeys(r) PROVE stored'[k] = stored[k]
    BY <1>3, <2>3 DEF DelKeys
  <2>4. CASE Tick
    BY <1>3, <2>4 DEF Tick, Aged, NotAhead, Typed, StoreOK
  <2>5. \/ stored' = stored \/ Tick
        \/ \E r \in Requests : Set(r) \/ DelKeys(r)
    BY DEF Step, Proceed, Miss, Load, AddKeyTags, Members, DelTag, Fail, Write
  <2> QED BY <2>1, <2>2, <2>3, <2>4, <2>5
<1>4. ASSUME NEW s \in Requests, req'[s].step \in {"set", "tag"}
      PROVE  /\ req'[s].key \in Keys /\ req'[s].loaded \in 0..version[req'[s].key]
  <2>1. CASE req'[s] = req[s]
    BY <1>4, <2>1 DEF NotAhead, Typed, RequestsOK, RequestOK
  <2>2. CASE Load(s)
    BY <1>4, <2>2 DEF Load, NotAhead, Typed, RequestsOK, RequestOK
  <2>3. CASE Set(s)
    <3>1. req'[s] = [req[s] EXCEPT !.step = "tag"] /\ req[s].step = "set" /\ "step" \in DOMAIN req[s]
      BY <2>3 DEF Set, Typed, RequestsOK, RequestOK
    <3>2. req'[s].key = req[s].key /\ req'[s].loaded = req[s].loaded
      BY <3>1
    <3> QED BY <3>1, <3>2 DEF NotAhead, Typed, RequestsOK, RequestOK
  <2>4. CASE DelKeys(s)
    BY <1>4, <2>4 DEF DelKeys, Typed, RequestsOK, RequestOK
  <2>5. \/ req'[s] = req[s] \/ req'[s].step \notin {"set", "tag"}
        \/ Load(s) \/ Set(s) \/ DelKeys(s)
    <3>1. ASSUME NEW r \in Requests, NEW x, req' = [req EXCEPT ![r] = x],
                 s = r => x.step \notin {"set", "tag"}
          PROVE  req'[s] = req[s] \/ req'[s].step \notin {"set", "tag"}
      BY <3>1 DEF Typed, RequestsOK
    <3>2. ASSUME NEW r \in Requests, Load(r) \/ Set(r) \/ DelKeys(r)
          PROVE  req'[s] = req[s] \/ s = r
      BY <3>2 DEF Load, Set, DelKeys, Typed, RequestsOK
    <3>3. ASSUME NEW r \in Requests, NEW k \in Keys, Miss(r, k)
          PROVE  req'[s] = req[s] \/ req'[s].step \notin {"set", "tag"}
      BY <3>1, <3>3 DEF Miss
    <3>4. ASSUME NEW r \in Requests, NEW w \in Writes, Write(r, w)
          PROVE  req'[s] = req[s] \/ req'[s].step \notin {"set", "tag"}
      BY <3>1, <3>4, FirstTag DEF Write, Idle
    <3>5. ASSUME NEW r \in Requests, AddKeyTags(r) \/ Fail(r)
          PROVE  req'[s] = req[s] \/ req'[s].step \notin {"set", "tag"}
      BY <3>1, <3>5 DEF AddKeyTags, Fail, Idle
    <3>6. ASSUME NEW r \in Requests, Members(r)
          PROVE  req'[s] = req[s] \/ req'[s].step \notin {"set", "tag"}
      BY <3>1, <3>6 DEF Members
    <3>7. ASSUME NEW r \in Requests, DelTag(r)
          PROVE  req'[s] = req[s] \/ req'[s].step \notin {"set", "tag"}
      <4>1. Invalidating(req[r].write, req[r].todo + 1).step \notin {"set", "tag"}
        BY DEF Invalidating, Idle
      <4> QED BY <3>1, <3>7, <4>1 DEF DelTag
    <3> QED BY <3>2, <3>3, <3>4, <3>5, <3>6, <3>7 DEF Step, Proceed, Tick
  <2> QED BY <1>4, <2>1, <2>2, <2>3, <2>4, <2>5
<1> QED BY <1>2, <1>3, <1>4 DEF NotAhead

\* Of two states, the first and the second alike.
LEMMA ServedIs ==
  /\ DOMAIN Served = Keys /\ DOMAIN Served' = Keys
  /\ \A k \in Keys : Served[k] = IF stored[k] = NoEntry THEN version[k] ELSE stored[k].version
  /\ \A k \in Keys : Served'[k] = IF stored'[k] = NoEntry THEN version'[k] ELSE stored'[k].version
  BY DEF Served

LEMMA RegisterInvariance == RegisterInv /\ [Next]_vars => RegisterInv'
<1> SUFFICES ASSUME RegisterInv, [Next]_vars PROVE RegisterInv'
  OBVIOUS
<1>1. CASE Next
  <2>1. Step /\ alone' = alone
    BY <1>1 DEF Next
  <2>2. Typed' /\ NotAhead'
    BY <2>1, TypedStep, NotAheadStep DEF RegisterInv
  <2>3. alone => Alone'
    BY <2>1, AloneStep DEF RegisterInv
  <2> QED BY <2>1, <2>2, <2>3 DEF RegisterInv
<1>2. CASE UNCHANGED vars
  <2>1. UNCHANGED Typed
    BY <1>2 DEF vars, Typed, StoreOK, RequestsOK
  <2>2. UNCHANGED Alone
    BY <1>2 DEF vars, Alone, OneAtATime, Listed, Promised, Remembered, Fresh, Writing, From, Tag, Covers
  <2>3. UNCHANGED NotAhead /\ UNCHANGED alone
    BY <1>2 DEF vars, NotAhead
  <2> QED BY <2>1, <2>2, <2>3 DEF RegisterInv
<1> QED BY <1>1, <1>2

\* What is due are keys.
LEMMA DueKeys == (Typed => Due \subseteq Keys) /\ (Typed' => Due' \subseteq Keys)
  BY WriteAssumption DEF Typed, RequestsOK, RequestOK, Due, Writing, Refreshes

\* When requests overlap or fail, the cache invents nothing.
LEMMA SlipStep ==
  ASSUME RegisterInv, Step, UNCHANGED alone, ~alone
  PROVE  Register!Next
<1>1. PICK K \in SUBSET Keys : version' = Register!After(K)
  BY VersionsGrow DEF RegisterInv
<1>2. NotAhead'
  BY NotAheadStep DEF RegisterInv
<1>3. \A k \in Keys : Served'[k] \in 0..version'[k]
  BY <1>2, ServedIs DEF NotAhead
<1>4. Due' \subseteq Keys
  BY TypedStep, DueKeys DEF RegisterInv
<1>5. Register!Slip(K)
  BY <1>1, <1>3, <1>4 DEF Register!Slip
<1> QED BY <1>5 DEF Register!Next

\* When they follow one another it is a register.
LEMMA OrderlyStep ==
  ASSUME RegisterInv, Step, UNCHANGED alone, alone
  PROVE  Register!Next
<1>1. Alone /\ Alone' /\ Typed /\ Typed'
  BY AloneStep, TypedStep DEF RegisterInv
<1>2. ASSUME version' = version, \A k \in Keys : Served'[k] \in {Served[k], version[k]},
             Due' = Due
      PROVE  Register!Next
  <2>1. Register!CatchUp
    BY <1>2 DEF Register!CatchUp
  <2> QED BY <2>1 DEF Register!Next
<1>3. ASSUME NEW r \in Requests, Solo(r), \A s \in Requests : s # r => req'[s] = req[s]
      PROVE  /\ Due = IF Writing(r) THEN Refreshes[req[r].write] ELSE {}
             /\ Due' = IF Writing(r)' THEN Refreshes[req'[r].write] ELSE {}
  BY <1>3 DEF Due, Writing, Solo
<1>4. ASSUME NEW r \in Requests, req[r] # Idle PROVE Solo(r)
  BY <1>1, <1>4 DEF Solo, Alone, OneAtATime, Idle
<1>5. ASSUME NEW r \in Requests, Quiet PROVE Solo(r) /\ ~Writing(r)
  BY <1>5 DEF Quiet, Solo, Idle, Writing
<1>6. ASSUME NEW r \in Requests, NEW k \in Keys, Miss(r, k) PROVE Register!Next
  <2>1. Due' = Due
    BY <1>1, <1>3, <1>5, <1>6 DEF Miss, Begins, Writing, Typed, RequestsOK
  <2> QED BY <1>2, <1>6, <2>1, ServedIs DEF Miss
<1>7. ASSUME NEW r \in Requests, Load(r) PROVE Register!Next
  <2>1. Solo(r) /\ ~Writing(r)
    BY <1>4, <1>7 DEF Load, Idle, Writing
  <2>2. Due' = Due
    BY <1>1, <1>3, <1>7, <2>1 DEF Load, Writing, Typed, RequestsOK
  <2> QED BY <1>2, <1>7, <2>2, ServedIs DEF Load
<1>8. ASSUME NEW r \in Requests, Set(r) PROVE Register!Next
  <2>1. Solo(r) /\ ~Writing(r)
    BY <1>4, <1>8 DEF Set, Idle, Writing
  <2>2. [req[r] EXCEPT !.step = "tag"].step = "tag"
    BY <1>1, <1>8 DEF Set, Typed, RequestsOK, RequestOK
  <2>3. Due' = Due
    BY <1>1, <1>3, <1>8, <2>1, <2>2 DEF Set, Writing, Typed, RequestsOK
  <2>4. /\ version' = version /\ req[r].loaded = version[req[r].key]
        /\ stored' = [stored EXCEPT ![req[r].key] = [version |-> req[r].loaded, left |-> TTL]]
    BY <1>1, <1>8 DEF Set, Alone, Remembered
  <2>5. \A k \in Keys : stored'[k] = stored[k]
                         \/ stored'[k] = [version |-> version[k], left |-> TTL]
    BY <1>1, <2>4 DEF Typed, StoreOK
  <2>6. \A k \in Keys : Served'[k] \in {Served[k], version[k]}
    BY <2>4, <2>5, ServedIs
  <2> QED BY <1>2, <2>3, <2>4, <2>6
<1>9. ASSUME NEW r \in Requests, AddKeyTags(r) PROVE Register!Next
  <2>1. Solo(r) /\ ~Writing(r)
    BY <1>4, <1>9 DEF AddKeyTags, Idle, Writing
  <2>2. Due' = Due
    BY <1>1, <1>3, <1>9, <2>1 DEF AddKeyTags, Idle, Writing, Typed, RequestsOK
  <2> QED BY <1>2, <1>9, <2>2, ServedIs DEF AddKeyTags
<1>10. ASSUME NEW r \in Requests, Members(r) PROVE Register!Next
  <2>1. Solo(r) /\ Writing(r)
    BY <1>4, <1>10 DEF Members, Idle, Writing
  <2>2. Due' = Due
    BY <1>1, <1>3, <1>10, <2>1 DEF Members, Writing, Typed, RequestsOK
  <2> QED BY <1>2, <1>10, <2>2, ServedIs DEF Members
<1>11. ASSUME NEW r \in Requests, DelKeys(r) PROVE Register!Next
  <2>1. Solo(r) /\ Writing(r)
    BY <1>4, <1>11 DEF DelKeys, Idle, Writing
  <2> DEFINE x == [req[r] EXCEPT !.step = "delTag"]
  <2>2. x.step = "delTag" /\ x.write = req[r].write
    BY <1>1, <1>11 DEF DelKeys, Typed, RequestsOK, RequestOK
  <2>3. req' = [req EXCEPT ![r] = x]
    BY <1>11 DEF DelKeys
  <2> HIDE DEF x
  <2>4. Due' = Due
    BY <1>1, <1>3, <2>1, <2>2, <2>3 DEF Writing, Typed, RequestsOK
  <2> QED BY <1>2, <1>11, <2>4, ServedIs DEF DelKeys
<1>12. ASSUME NEW r \in Requests, DelTag(r) PROVE Register!Next
  <2> DEFINE x == Invalidating(req[r].write, req[r].todo + 1)
  <2>1. Solo(r) /\ Writing(r)
    BY <1>4, <1>12 DEF DelTag, Idle, Writing
  <2>d. /\ Due = Refreshes[req[r].write]
        /\ Due' = IF x.step \in {"members", "delKeys", "delTag"}
                  THEN Refreshes[x.write] ELSE {}
    BY <1>1, <1>3, <1>12, <2>1 DEF DelTag, Writing, Typed, RequestsOK
  <2>2. version' = version /\ \A k \in Keys : Served'[k] = Served[k]
    BY <1>12, ServedIs DEF DelTag
  <2>3. req[r].write \in Writes /\ req[r].todo + 1 \in Nat \ {0} /\ From(r) = req[r].todo + 1
    <3>1. req[r].write \in Writes /\ req[r].todo \in DOMAIN Invalidates[req[r].write]
      BY <1>1, <1>12 DEF DelTag, Typed, RequestsOK, RequestOK
    <3> QED BY <1>12, <3>1, FirstTags DEF DelTag, From
  <2>4. CASE x = [step |-> "members", write |-> req[r].write, todo |-> req[r].todo + 1]
    <3>1. Due' = Due
      BY <2>d, <2>4
    <3> QED BY <1>2, <2>2, <3>1
  <2>5. CASE x = Idle /\ \A j \in DOMAIN Invalidates[req[r].write] : j < req[r].todo + 1
    <3>1. Due' = {}
      BY <2>d, <2>5 DEF Idle
    <3>2. \A k \in Due : Fresh(k)
      BY <1>1, <2>1, <2>d, <2>3, <2>5, FirstTags DEF Alone, Promised, Covers
    <3>3. \A k \in Due : k \in Keys /\ Served[k] = version[k]
      BY <2>d, <2>3, <3>2, WriteAssumption, ServedIs DEF Refreshes, Fresh
    <3>4. CASE Due = {}
      BY <1>2, <2>2, <3>1, <3>4
    <3>5. CASE Due # {}
      <4>1. Served' = Served
        BY <2>2 DEF Served
      <4>2. Register!End
        BY <1>12, <2>2, <3>1, <3>3, <3>5, <4>1 DEF Register!End
      <4> QED BY <4>2 DEF Register!Next
    <3> QED BY <3>4, <3>5
  <2> QED BY <2>3, <2>4, <2>5, NextTag
<1>13. ASSUME NEW r \in Requests, NEW w \in Writes, Write(r, w) PROVE Register!Next
  <2>1. Solo(r) /\ ~Writing(r)
    BY <1>5, <1>13 DEF Write, Begins
  <2>d. /\ Due = {}
        /\ Due' = IF Invalidating(w, 1).step \in {"members", "delKeys", "delTag"}
                  THEN Refreshes[Invalidating(w, 1).write] ELSE {}
    BY <1>1, <1>3, <1>13, <2>1 DEF Write, Writing, Typed, RequestsOK
  <2>2. version' = Register!After(Changes[w])
    BY <1>13, WriteAssumption DEF Write, Register!After
  <2>3. \A k \in Keys : Served'[k] \in {Served[k], version'[k]}
    BY <1>13, ServedIs DEF Write
  <2>4. Due' = Refreshes[w]
    <3>1. CASE Invalidating(w, 1) = Idle /\ ~\E j \in DOMAIN Invalidates[w] : j >= 1
      <4>1. Refreshes[w] = {}
        BY <3>1, FirstTags DEF Refreshes
      <4> QED BY <2>d, <3>1, <4>1 DEF Idle
    <3>2. CASE Invalidating(w, 1) = [step |-> "members", write |-> w, todo |-> 1]
      BY <2>d, <3>2
    <3> QED BY <3>1, <3>2, FirstTag
  <2>5. Register!Replace(w)
    BY <2>d, <2>2, <2>3, <2>4 DEF Register!Replace
  <2> QED BY <2>5 DEF Register!Next
<1>14. CASE Tick
  <2>1. version' = version /\ Due' = Due
    BY <1>14 DEF Tick, Due, Writing
  <2>2. \A k \in Keys : Served'[k] \in {Served[k], version[k]}
    BY <1>1, <1>14, <2>1, ServedIs DEF Tick, Aged, Typed, StoreOK
  <2> QED BY <1>2, <2>1, <2>2
<1> QED BY <1>6, <1>7, <1>8, <1>9, <1>10, <1>11, <1>12, <1>13, <1>14 DEF Step, Proceed, Fail

\* Of the keys a write refreshes the cache is an atomic register while requests follow one
\* another, whatever other writes left stale; the others only catch up; and it invents
\* nothing when requests overlap or fail.  (cache.service.ts:57-96)
THEOREM CacheIsRegister == Spec => ImplementsRegister
<1>1. Init => Register!Init
  BY DEF Init, Register!Init, Served, Due, Writing, Idle
<1>2. Init => RegisterInv
  <2> SUFFICES ASSUME Init PROVE RegisterInv
    OBVIOUS
  <2>1. Typed
    BY DEF Init, Typed, StoreOK, RequestsOK, RequestOK, Idle
  <2>2. NotAhead
    BY DEF Init, NotAhead, Idle
  <2> QED BY <2>1, <2>2, FreshInit DEF RegisterInv, FreshInv
<1>3. RegisterInv /\ [Next]_vars => RegisterInv'
  BY RegisterInvariance
<1>4. RegisterInv /\ [Next]_vars => [Register!Next]_(Register!contractVars)
  <2> SUFFICES ASSUME RegisterInv, [Next]_vars
               PROVE  Register!Next \/ UNCHANGED Register!contractVars
    OBVIOUS
  <2>1. CASE UNCHANGED vars
    BY <2>1 DEF vars, Register!contractVars, Served, Due, Writing
  <2>2. CASE Step /\ UNCHANGED alone
    BY <2>2, SlipStep, OrderlyStep
  <2> QED BY <2>1, <2>2 DEF Next
<1> QED BY <1>1, <1>2, <1>3, <1>4, PTL DEF Spec, ImplementsRegister, Register!Spec
=============================================================================
