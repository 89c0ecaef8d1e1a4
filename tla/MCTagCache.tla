----------------------------- MODULE MCTagCache -----------------------------
(***************************************************************************)
(* The keys, tags and writes of the two cached areas: provider profiles    *)
(* with the category directory (profile.service.ts, reviews, verifications *)
(* and admin services) and provider feeds (job.service.ts).                *)
(***************************************************************************)
EXTENDS TagCache

\* getPublicProviderProfile of one provider and getCategoryProviders of a page with
\* two; a provider's update changes the provider's own profile and the page.  The page
\* also shows the names of reviewers, so that a customer's updateMyProfile changes it
\* ("rename"); it invalidates nothing.
ProfileKeys == {"profile1", "page"}
ProfileTags == {"provider1", "provider2", "directory", "category"}
ProfileTagsOf ==
  [k \in ProfileKeys |-> CASE k = "profile1" -> {"directory", "provider1"}
                           [] OTHER          -> {"directory", "category"}]
ProfileWrites == {"update1", "update2", "rename"}
ProfileChanges ==
  [w \in ProfileWrites |-> IF w = "update1" THEN {"profile1", "page"}
                                            ELSE {"page"}]
ProfileInvalidates ==
  [w \in ProfileWrites |-> CASE w = "update1" -> <<"provider1", "directory">>
                             [] w = "update2" -> <<"provider2", "directory">>
                             [] w = "rename"  -> <<>>]

\* getProviderFeed for two providers; every write to a job a provider can see
\* changes both feeds, and all handlers but cancelJob invalidate them.
FeedKeys   == {"feed1", "feed2"}
FeedTags   == {"feed-summaries", "provider-feed1", "provider-feed2"}
FeedTagsOf == [k \in FeedKeys |->
  {"feed-summaries", IF k = "feed1" THEN "provider-feed1" ELSE "provider-feed2"}]
FeedWrites      == {"awardJob", "cancelJob"}
FeedChanges     == [w \in FeedWrites |-> FeedKeys]
FeedInvalidates == [w \in FeedWrites |-> IF w = "cancelJob" THEN <<>> ELSE <<"feed-summaries">>]

\* Which writes refresh all they change, and which nothing.
Reached(w, changes, invalidates, tagsOf) ==
  {k \in changes[w] : \E i \in DOMAIN invalidates[w] : invalidates[w][i] \in tagsOf[k]}
ASSUME ProfilesAreRefreshed == \A w \in ProfileWrites :
  Reached(w, ProfileChanges, ProfileInvalidates, ProfileTagsOf)
    = IF w = "rename" THEN {} ELSE ProfileChanges[w]
ASSUME FeedsAreRefreshed == \A w \in FeedWrites :
  Reached(w, FeedChanges, FeedInvalidates, FeedTagsOf)
    = IF w = "cancelJob" THEN {} ELSE FeedKeys
=============================================================================
