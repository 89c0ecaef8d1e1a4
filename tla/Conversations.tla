---------------------------- MODULE Conversations ----------------------------
(***************************************************************************)
(* One conversation of a job: services/messaging.service.ts with the       *)
(* trigger of migration 004, the rooms of src/backend/src/app.ts and       *)
(* socket.events.ts, and the chat screens of both clients,                 *)
(* web/.../messages/[id]/page.tsx and mobile/.../messages/[id].tsx with    *)
(* their socket clients.                                                   *)
(*                                                                         *)
(* A message is its position in the order of created_at, and a page or a   *)
(* screen the set of messages in it: the order they are listed in, bodies, *)
(* voice attachments and the checks on them are left out (a refused        *)
(* message is a call that fails), and so are the in-app notice and the     *)
(* admins, who read along and delete.  useQuery is TanStack Query 5: it    *)
(* has no onSuccess, and does not call queryFn while its data is fresh.    *)
(***************************************************************************)
EXTENDS Integers, Sequences, FiniteSets

CONSTANTS Settings,    \* what a behaviour may be: the app of each side, "web", "mobile" or
                       \* "away" for a side whose screen is not followed, and whether
                       \* answers arrive in the order they were given
          Openers,     \* requests to open the conversation
          PageSize,    \* messages in a page of listMessages
          MaxMessages, \* bound on the messages inserted
          MaxEpisodes, \* bound on how often a side opens its screen or loses its connection
          MaxDeletes   \* bound on the messages deleted

Sides == {"customer", "provider"}
Other(s) == IF s = "customer" THEN "provider" ELSE "customer"

ASSUME SettingAssumption ==
  Settings \subseteq [app : [Sides -> {"web", "mobile", "away"}], inOrder : BOOLEAN]
ASSUME BoundAssumption == /\ PageSize \in Nat \ {0}
                          /\ {MaxMessages, MaxEpisodes, MaxDeletes} \subseteq Nat

VARIABLES exists,    \* the conversations row is there
          opening,   \* what each request to open it is doing
          messages,  \* the sender of each message
          deleted,   \* messages with is_deleted
          unread,    \* customer_unread and provider_unread
          post,      \* what sendMessage is doing for each side
          connected, \* sides whose socket is connected, hence in its user room
          joining,   \* sides whose request to join the conversation room is being checked
          room,      \* sides whose socket is in the conversation room
          screen,    \* sides whose chat screen is open
          cached,    \* sides whose useQuery holds fresh messages
          shown,     \* the messages on each screen
          asked,     \* GET requests of each screen the server has not handled
          answers,   \* answers on their way to each screen
          marks,     \* markAsRead requests of each side under way
          episodes,  \* how often each side opened its screen or lost its connection
          heard,     \* history: the last event that reached each open screen
          setting    \* what this behaviour is

server == <<exists, opening, messages, deleted, unread, post>>
socket == <<connected, joining, room>>
client == <<screen, cached, shown, asked, answers, marks>>
vars == <<server, socket, client, episodes, heard, setting>>

app     == setting.app
inOrder == setting.inOrder
Ids     == 1..Len(messages)

\* Mutant: listMessages without is_deleted = FALSE.
PageOfAll(upto, gone) == {i \in 1..upto : i <= PageSize}

\* listMessages: the oldest PageSize messages up to a point that are not deleted.
Page(upto, gone) == {i \in (1..upto) \ gone : Cardinality((1..i) \ gone) <= PageSize}

NothingHeard == [well |-> FALSE, upto |-> 0, gone |-> {}]
NothingAsked == [load |-> 0, event |-> 0]

Init == /\ exists = FALSE
        /\ opening   = [r \in Openers |-> "idle"]
        /\ messages  = <<>> /\ deleted = {}
        /\ unread    = [s \in Sides |-> 0]
        /\ post      = [s \in Sides |-> "idle"]
        /\ connected = {} /\ joining = {} /\ room = {}
        /\ screen    = {} /\ cached = {}
        /\ shown     = [s \in Sides |-> {}]
        /\ asked     = [s \in Sides |-> NothingAsked]
        /\ answers   = [s \in Sides |-> <<>>]
        /\ marks     = [s \in Sides |-> 0]
        /\ episodes  = [s \in Sides |-> 0]
        /\ heard     = [s \in Sides |-> NothingHeard]
        /\ setting   \in Settings

-----------------------------------------------------------------------------
(* openConversation.                                                       *)

\* The job is read and may be in any status; a conversation that exists is returned.
\* Nothing looks at the job again.
OpenConversation(r) ==
  /\ opening[r] = "idle"
  /\ \E jobOpen \in BOOLEAN :
       opening' = [opening EXCEPT ![r] = IF jobOpen /\ ~exists THEN "insert" ELSE "done"]
  /\ UNCHANGED <<exists, messages, deleted, unread, post, socket, client, episodes, heard>>

\* The INSERT, refused by UNIQUE (job_id, customer_id, provider_id) if another came first.
CreateConversation(r) ==
  /\ opening[r] = "insert"
  /\ exists' = TRUE
  /\ opening' = [opening EXCEPT ![r] = "done"]
  /\ UNCHANGED <<messages, deleted, unread, post, socket, client, episodes, heard>>

-----------------------------------------------------------------------------
(* Sockets.                                                                *)

Connect(s) ==
  /\ app[s] # "away" /\ s \notin connected
  /\ connected' = connected \cup {s}
  /\ UNCHANGED <<joining, room, server, client, episodes, heard>>

\* A reconnected socket is in its user room only: no client joins again.
Disconnect(s) ==
  /\ s \in connected /\ episodes[s] < MaxEpisodes   \* the bound
  /\ connected' = connected \ {s}
  /\ joining'   = joining \ {s}
  /\ room'      = room \ {s}
  /\ episodes'  = [episodes EXCEPT ![s] = @ + 1]
  /\ UNCHANGED <<server, client, heard>>

\* joinConversationRoom's query has found the participant, or failed.
JoinConversationRoom(s) ==
  /\ s \in joining
  /\ joining' = joining \ {s}
  /\ room' \in {room, room \cup {s}}
  /\ UNCHANGED <<connected, server, client, episodes, heard>>

\* How many messageCreated events the screen of s handles for one message: the new
\* event comes through both rooms, and the web's client forwards the legacy event of
\* the user room as well, the one whose payload names the conversation.
EventsFor(s, sender) ==
  IF s \notin connected \/ s \notin screen THEN 0
  ELSE (IF s \in room THEN 1 ELSE 0)
       + (IF s = sender THEN 0 ELSE IF app[s] = "web" THEN 2 ELSE 1)

-----------------------------------------------------------------------------
(* The chat screen.                                                        *)

Calling(s) == asked[s] # NothingAsked \/ answers[s] # <<>> \/ marks[s] > 0

\* The screen mounts: it asks for the messages unless they are cached, joins the room
\* and marks the conversation as read at once.
OpenScreen(s) ==
  /\ exists /\ \A r \in Openers : opening[r] = "done"
  /\ app[s] # "away" /\ s \notin screen /\ episodes[s] < MaxEpisodes   \* the bound
  /\ ~Calling(s)   \* the bound: the calls of the last visit have ended
  /\ screen'  = screen \cup {s}
  /\ episodes' = [episodes EXCEPT ![s] = @ + 1]
  /\ shown'   = [shown EXCEPT ![s] = {}]
  /\ asked'   = [asked EXCEPT ![s].load = IF s \in cached THEN 0 ELSE 1]
  /\ marks'   = [marks EXCEPT ![s] = 1]
  /\ joining' = IF s \in connected THEN joining \cup {s} ELSE joining
  /\ heard'   = [heard EXCEPT ![s] = NothingHeard]
  /\ UNCHANGED <<cached, answers, connected, room, server>>

\* The screen unmounts; leaving overtakes a join that is still being checked.
CloseScreen(s) ==
  /\ s \in screen
  /\ screen' = screen \ {s}
  /\ room'   = room \ {s}
  /\ shown'  = [shown EXCEPT ![s] = {}]
  /\ heard'  = [heard EXCEPT ![s] = NothingHeard]
  /\ UNCHANGED <<cached, asked, answers, marks, connected, joining, server, episodes>>

\* staleTime is over; an open screen does not notice.
CacheExpires(s) ==
  /\ s \in cached \ screen /\ cached' = cached \ {s}
  /\ UNCHANGED <<screen, shown, asked, answers, marks, server, socket, episodes, heard>>

\* The elements of a sequence, and the sequence without its i-th.
Elements(q) == {q[i] : i \in DOMAIN q}
Without(q, i) == SubSeq(q, 1, i - 1) \o SubSeq(q, i + 1, Len(q))

Answer(s, a) == answers' = [answers EXCEPT ![s] = Append(@, a)]

\* The server handles a GET.
ListMessages(s, kind) ==
  /\ asked[s][kind] > 0
  /\ asked' = [asked EXCEPT ![s][kind] = @ - 1]
  /\ Answer(s, [kind |-> kind, page |-> Page(Len(messages), deleted)])
  /\ UNCHANGED <<screen, cached, shown, marks, server, socket, episodes, heard>>

\* Mutant: the mobile screen does not mark after an event.
MarkNever(s) == UNCHANGED marks
\* Only the mobile screen marks the conversation as read after an event, even unmounted.
MarkAfterEvent(s) ==
  marks' = [marks EXCEPT ![s] = IF app[s] = "mobile" THEN @ + 1 ELSE @]

\* An answer arrives: a page after an event or, on mobile, after loading replaces what
\* is shown, the sent message is added unless it is there.
Receive(s, i) == LET a == answers[s][i] IN
  /\ i \in DOMAIN answers[s] /\ (inOrder => i = 1)
  /\ answers' = [answers EXCEPT ![s] = Without(@, i)]
  /\ cached'  = IF a.kind = "load" THEN cached \cup {s} ELSE cached
  /\ shown'   = [shown EXCEPT ![s] =
                  CASE s \notin screen                     -> @
                    [] a.kind = "own"                     -> @ \cup a.page
                    [] a.kind = "load" /\ app[s] = "web" -> @
                    [] OTHER                              -> a.page]
  /\ IF a.kind = "event" THEN MarkAfterEvent(s) ELSE UNCHANGED marks
  /\ UNCHANGED <<screen, asked, server, socket, episodes, heard>>

\* A GET fails, on its way or in the server: the screens wait for the next event.
GetFails(s, kind) ==
  /\ asked[s][kind] > 0
  /\ asked' = [asked EXCEPT ![s][kind] = @ - 1]
  /\ heard' = [heard EXCEPT ![s].well = FALSE]
  /\ UNCHANGED <<screen, cached, shown, answers, marks, server, socket, episodes>>

MarkAsRead(s) ==
  /\ marks[s] > 0
  /\ marks'  = [marks EXCEPT ![s] = @ - 1]
  /\ unread' = [unread EXCEPT ![s] = 0]
  /\ UNCHANGED <<exists, opening, messages, deleted, post, socket,
                 screen, cached, shown, asked, answers, episodes, heard>>

MarkFails(s) ==
  /\ marks[s] > 0
  /\ marks' = [marks EXCEPT ![s] = @ - 1]
  /\ heard' = [heard EXCEPT ![s].well = FALSE]
  /\ UNCHANGED <<screen, cached, shown, asked, answers, server, socket, episodes>>

-----------------------------------------------------------------------------
(* sendMessage and deleteMessage.                                          *)

\* The Send button: not while an earlier message of the screen is being sent.
MaySend(s) == /\ s \in screen \/ app[s] = "away"
              /\ post[s] = "idle" /\ \A a \in Elements(answers[s]) : a.kind # "own"

Send(s) ==
  /\ exists /\ MaySend(s)
  /\ Len(messages) + Cardinality({v \in Sides : post[v] = "insert"}) < MaxMessages \* the bound
  /\ post' = [post EXCEPT ![s] = "insert"]
  /\ UNCHANGED <<exists, opening, messages, deleted, unread, socket, client, episodes, heard>>

\* createMessage and the trigger messages_increment_unread.
CreateMessage(s) ==
  /\ post[s] = "insert"
  /\ messages' = Append(messages, s)
  /\ unread'   = [unread EXCEPT ![Other(s)] = @ + 1]
  /\ post'     = [post EXCEPT ![s] = "emit"]
  /\ UNCHANGED <<exists, opening, deleted, socket, client, episodes, heard>>

\* Each open screen the message's event reaches asks for the messages.
Announce(sender) ==
  LET reached == {s \in Sides : EventsFor(s, sender) > 0} IN
  /\ asked' = [s \in Sides |-> [asked[s] EXCEPT !.event = @ + EventsFor(s, sender)]]
  /\ heard' = [s \in Sides |->
       IF s \in reached THEN [well |-> TRUE, upto |-> Len(messages), gone |-> deleted]
       ELSE heard[s]]

\* The message a sender's request inserted: its last one.
Inserted(s) == CHOOSE i \in Ids : messages[i] = s /\ \A j \in Ids : messages[j] = s => j <= i

Emit(s) ==
  /\ post[s] = "emit"
  /\ Announce(s)
  /\ post' = [post EXCEPT ![s] = "idle"]
  /\ IF app[s] = "away" THEN UNCHANGED answers
     ELSE Answer(s, [kind |-> "own", page |-> {Inserted(s)}])
  /\ UNCHANGED <<exists, opening, messages, deleted, unread, socket,
                 screen, cached, shown, marks, episodes>>

\* The request fails: refused, or its process dies before or after the INSERT.
PostFails(s) ==
  /\ post[s] # "idle"
  /\ post' = [post EXCEPT ![s] = "idle"]
  /\ UNCHANGED <<exists, opening, messages, deleted, unread, socket, client, episodes, heard>>

\* softDeleteMessage by the sender or an admin: the counters stay, and no screen
\* listens to the event.
DeleteMessage(i) ==
  /\ i \in Ids \ deleted /\ Cardinality(deleted) < MaxDeletes   \* the bound
  /\ deleted' = deleted \cup {i}
  /\ UNCHANGED <<exists, opening, messages, unread, post, socket, client, episodes, heard>>

-----------------------------------------------------------------------------
Step == \/ \E r \in Openers : OpenConversation(r) \/ CreateConversation(r)
        \/ \E s \in Sides :
             \/ Connect(s) \/ Disconnect(s) \/ JoinConversationRoom(s)
             \/ OpenScreen(s) \/ CloseScreen(s) \/ CacheExpires(s)
             \/ \E kind \in {"load", "event"} : ListMessages(s, kind) \/ GetFails(s, kind)
             \/ \E i \in DOMAIN answers[s] : Receive(s, i)
             \/ MarkAsRead(s) \/ MarkFails(s)
             \/ Send(s) \/ CreateMessage(s) \/ Emit(s) \/ PostFails(s)
        \/ \E i \in Ids : DeleteMessage(i)

Next == Step /\ UNCHANGED setting

Spec == Init /\ [][Next]_vars

-----------------------------------------------------------------------------
(* Properties.                                                             *)

Kinds == {"load", "event", "own"}
SeqsOf(S, n) == UNION {[1..k -> S] : k \in 0..n}

TypeOK == /\ exists \in BOOLEAN /\ setting \in Settings
          /\ opening \in [Openers -> {"idle", "insert", "done"}]
          /\ messages \in SeqsOf(Sides, MaxMessages)
          /\ deleted \subseteq Ids
          /\ unread \in [Sides -> 0..MaxMessages]
          /\ post \in [Sides -> {"idle", "insert", "emit"}]
          /\ UNION {connected, screen, cached} \subseteq Sides
          /\ joining \cup room \subseteq connected
          /\ \A s \in Sides :
               /\ shown[s] \subseteq Ids
               /\ asked[s].load \in 0..1 /\ asked[s].event \in Nat
               /\ \A a \in Elements(answers[s]) : a.kind \in Kinds /\ a.page \subseteq Ids
               /\ marks[s] \in Nat /\ episodes[s] \in 0..MaxEpisodes
               /\ heard[s].upto \in 0..Len(messages)

\* Once its calls have ended, an open screen shows the page the last event announced,
\* less what was deleted since, and nothing of the other side that had been deleted by
\* then: joins that are late or lost, reconnections and the double events of the two
\* rooms included.  It needs answers in order; when one overtakes another it fails.
ScreenCatchesUp ==
  \A s \in screen : inOrder /\ ~Calling(s) /\ heard[s].well =>
    /\ Page(heard[s].upto, heard[s].gone) \ deleted \subseteq shown[s]
    /\ \A i \in heard[s].gone : messages[i] = Other(s) => i \notin shown[s]

\* A mobile screen that heard of a message and whose calls have ended counts nothing up
\* to that message as unread, whatever messages, marks and answers crossed.
OpenScreenIsRead ==
  \A s \in screen : app[s] = "mobile" /\ ~Calling(s) /\ heard[s].well =>
    unread[s] <= Cardinality({i \in Ids : i > heard[s].upto /\ messages[i] = Other(s)})
=============================================================================
