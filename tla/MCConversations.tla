--------------------------- MODULE MCConversations ---------------------------
(***************************************************************************)
(* What a client is shown page by page: the messages of a conversation, on *)
(* one side's screen at a time, in a browser and in the app, and the rows  *)
(* of a listing.  The two share nothing, so a behaviour is about one.      *)
(***************************************************************************)
EXTENDS Conversations

CONSTANTS Lists, Uuids, MaxTime, Limits, MaxWrites, MaxStarts,
          Topics \* what behaviours are about

VARIABLES rows, limit, list, wanted, walk, steady, writes,
          about

L == INSTANCE Listings WITH Ids <- Uuids

listVars == <<rows, limit, list, wanted, walk, steady, writes>>
pageVars == <<vars, listVars, about>>

\* The instance's assumption.
ASSUME PageAssumption == L!ListingAssumption

\* What a behaviour is not about starts in one way.
PagesInit ==
  /\ Init /\ L!Init /\ about \in Topics
  /\ about = "conversation" \/ setting = CHOOSE any \in Settings : TRUE
  /\ \/ about = "listing"
     \/ /\ rows = <<>> /\ wanted = {TRUE}
        /\ list = CHOOSE any \in Lists : TRUE
        /\ limit = CHOOSE any \in Limits : TRUE

PagesNext ==
  /\ \/ about = "conversation" /\ Next /\ UNCHANGED listVars
     \/ about = "listing" /\ L!Next /\ UNCHANGED vars
  /\ UNCHANGED about

PagesSpec == PagesInit /\ [][PagesNext]_pageVars

Web    == [s \in Sides |-> IF s = "customer" THEN "web" ELSE "away"]
Mobile == [s \in Sides |-> IF s = "customer" THEN "away" ELSE "mobile"]
OneScreen == {[app |-> Web, inOrder |-> TRUE],
              [app |-> Mobile, inOrder |-> TRUE], [app |-> Mobile, inOrder |-> FALSE]}

\* No row of a listing is answered twice in a walk (job.repo.ts:403-428).
NoneTwice == L!NoneTwice

\* What a walk skips is of the millisecond of a page's last row (notifications.repo.ts:95-100).
OnlySameMilliSkipped == L!OnlySameMilliSkipped
=============================================================================
