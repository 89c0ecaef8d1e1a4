---------------------------- MODULE CacheFindings ----------------------------
(***************************************************************************)
(* What backend/README.md ("Invalidation Rules") says of the cache and the *)
(* code does not do.  Both are refuted in place of the properties of       *)
(* Cache.cfg, the first also with the Feed definitions of MCTagCache.      *)
(***************************************************************************)
EXTENDS MCTagCache

\* "Provider/customer/profile updates invalidate provider directory/profile cache
\* tags.", "Job lifecycle writes (`publish`, `patch`, `award`, `cancel`, etc.) invalidate
\* feed summary cache tag.": once the requests that came one after another are over, no
\* page shows a reviewer's old name, and no feed a job cancelled since.
WritesInvalidate == alone /\ Quiet => \A k \in Keys : Fresh(k)

\* A write invalidates by tag, so every cached entry can be reached through each of
\* its tags, but for the moment between SET and SADD.  A reader that tags its entry
\* between the SMEMBERS and the DEL of an invalidation loses the tag again, and
\* the next write no longer reaches the entry.
EntriesAreTagged ==
  \A k \in Keys : stored[k] # NoEntry =>
    \/ \A t \in TagsOf[k] : k \in tagSet[t]
    \/ \E r \in Requests : req[r].step = "tag" /\ req[r].key = k
=============================================================================
