------------------------- MODULE ConversationFindings -------------------------
(***************************************************************************)
(* What the chat screens and a comment on the provider feed say, and the   *)
(* code does not do.                                                       *)
(* Each is refuted in place of the invariants of Conversations.cfg.        *)
(***************************************************************************)
EXTENDS MCConversations

\* "Load message history": once a page with messages has been loaded, an open screen
\* shows some.  The web page sets them in onSuccess, which useQuery does not have;
\* the screen stays empty until an event arrives.
HistoryIsLoaded ==
  [][\A s \in screen : \A i \in DOMAIN answers[s] :
       answers[s][i].kind = "load" /\ answers[s][i].page # {}
         /\ answers'[s] = Without(answers[s], i) => shown'[s] # {}]_vars

\* Leaving a conversation leaves its room.  A leave that arrives while the query of
\* the join is running has no effect, and the socket joins afterwards.
ClosedMeansLeft == \A s \in room \cup joining : s \in screen

\* What was read counts as read: a message of the other side that is not counted as
\* unread was in a page the side has asked for.  The screens mark the whole
\* conversation at once on opening, before or after its page was read.
UncountedIsSeen ==
  \A s \in screen : ~Calling(s) /\ unread[s] = 0 =>
    \A i \in Ids \ deleted : messages[i] = Other(s) => i \in shown[s]

\* "Cursor pagination: encode { created_at, id } as base64 JSON for stable ordering."
\* (job.repo.ts:348): a walk of the feed shows no job twice, whatever its order.  Sorted by
\* budget or distance, a page may hold an old job that the cursor of a newer one admits again.
FeedNeverRepeats ==
  list \in L!Feeds =>
    \A m, n \in DOMAIN walk.pages : m # n => walk.pages[m] \cap walk.pages[n] = {}

\* And it shows every job that was open all along.
FeedSkipsNone == (list \in L!Feeds /\ walk.begun /\ walk.at = 0) => steady \subseteq L!ShownRows
=============================================================================
