-------------------------- MODULE ConversationProofs --------------------------
(***************************************************************************)
(* Proofs about one conversation and its two chat screens, for any number  *)
(* of messages, deletions, visits and calls, any page size, and any apps   *)
(* on the two sides; and about a walk through any listing, for any table,  *)
(* page size and number of writes and walks.                               *)
(***************************************************************************)
EXTENDS MCConversations, FiniteSetTheorems, NaturalsInduction, TLAPS

-----------------------------------------------------------------------------
(* Pages.                                                                  *)

\* A set that loses elements counts no more than before.
LEMMA Fewer ==
  ASSUME NEW A, IsFiniteSet(A), NEW B, B \subseteq A
  PROVE  IsFiniteSet(B) /\ Cardinality(B) \in Nat /\ Cardinality(A) \in Nat
         /\ Cardinality(B) <= Cardinality(A)
  BY FS_Subset, FS_CardinalityType

\* One that loses x, which it had, counts one less.
LEMMA OneLess ==
  ASSUME NEW A, IsFiniteSet(A), NEW x \in A, NEW B, B \subseteq A, x \notin B
  PROVE  Cardinality(B) + 1 <= Cardinality(A)
<1>1. IsFiniteSet(A \ {x}) /\ Cardinality(A \ {x}) = Cardinality(A) - 1
  BY FS_RemoveElement
<1>2. B \subseteq A \ {x}
  OBVIOUS
<1> QED BY <1>1, <1>2, Fewer

\* What was in a page and was not deleted is in every later one: messages come after
\* those there were, and deletions only move a message forward.
LEMMA PageKeeps ==
  ASSUME NEW m \in Nat, NEW n \in Nat, m <= n, NEW gone, NEW g, gone \subseteq g
  PROVE  Page(m, gone) \ g \subseteq Page(n, g)
<1> SUFFICES ASSUME NEW i \in Page(m, gone), i \notin g
             PROVE  i \in Page(n, g)
  OBVIOUS
<1>1. i \in 1..m /\ i \notin gone /\ Cardinality((1..i) \ gone) <= PageSize
  BY DEF Page
<1>2. i \in (1..n) \ g
  BY <1>1
<1>3. IsFiniteSet((1..i) \ gone)
  BY <1>1, FS_Interval, FS_Subset
<1>4. (1..i) \ g \subseteq (1..i) \ gone
  OBVIOUS
<1>5. Cardinality((1..i) \ g) <= Cardinality((1..i) \ gone)
      /\ Cardinality((1..i) \ g) \in Nat /\ Cardinality((1..i) \ gone) \in Nat
  BY <1>3, <1>4, Fewer
<1>6. Cardinality((1..i) \ g) <= PageSize
  BY <1>1, <1>5, BoundAssumption
<1> QED BY <1>2, <1>6 DEF Page

\* A page has messages up to its point that were not deleted.
LEMMA PageHolds == \A n \in Nat : \A g : Page(n, g) \subseteq (1..n) \ g
  BY DEF Page

\* A non-empty set of naturals with a bound has a greatest element.
LEMMA Greatest ==
  ASSUME NEW n \in Nat, NEW A \in SUBSET (1..n), A # {}
  PROVE  \E i \in A : \A j \in A : j <= i
<1> DEFINE Bounds == {b \in Nat : \A j \in A : j <= b}
<1>1. n \in Bounds
  OBVIOUS
<1>2. PICK b \in Bounds : \A c \in Bounds : <<c, b>> \notin OpToRel(<, Nat)
  BY <1>1, NatLessThanWellFounded, WFMin
<1>3. b \in A
  <2>1. b \in Nat /\ \A j \in A : j <= b
    BY <1>2
  <2>2. ASSUME b \notin A PROVE FALSE
    <3>1. PICK j \in A : TRUE
      OBVIOUS
    <3>2. b - 1 \in Bounds
      BY <2>1, <2>2, <3>1
    <3>3. <<b - 1, b>> \in OpToRel(<, Nat)
      BY <2>1, <3>2 DEF OpToRel
    <3> QED BY <1>2, <3>2, <3>3
  <2> QED BY <2>2
<1> QED BY <1>2, <1>3

-----------------------------------------------------------------------------
(* The invariant.                                                          *)

Answers == [kind : Kinds, page : SUBSET Nat]
Heard   == [well : BOOLEAN, upto : Nat, gone : SUBSET Nat]

ConversationTypeOK ==
  /\ messages \in Seq(Sides) /\ deleted \subseteq Ids
  /\ unread \in [Sides -> Nat]
  /\ post \in [Sides -> {"idle", "insert", "emit"}]
  /\ screen \subseteq Sides
  /\ shown \in [Sides -> SUBSET Nat]
  /\ asked \in [Sides -> [{"load", "event"} -> Nat]]
  /\ answers \in [Sides -> Seq(Answers)]
  /\ marks \in [Sides -> Nat]
  /\ heard \in [Sides -> Heard]

\* A screen that heard of a message heard of what there was then.
HeardOK == \A s \in Sides : heard[s].upto \in 0..Len(messages) /\ heard[s].gone \subseteq deleted

\* A message that is being announced is there, and an answer to Send holds messages of
\* its sender.
OwnMessages ==
  \A s \in Sides :
    /\ post[s] = "emit" => \E i \in Ids : messages[i] = s
    /\ \A i \in DOMAIN answers[s] : answers[s][i].kind = "own" =>
         \A m \in answers[s][i].page : m \in Ids /\ messages[m] = s

\* What ScreenCatchesUp asks of a screen, asked of any page it may come to show.
CaughtUp(s, page) ==
  /\ Page(heard[s].upto, heard[s].gone) \ deleted \subseteq page
  /\ \A i \in heard[s].gone : messages[i] = Other(s) => i \notin page

\* From its k-th answer on, a screen whose answers come in order is caught up; 0 is what
\* it shows.
Settled(s, k) ==
  /\ IF k = 0 THEN CaughtUp(s, shown[s]) ELSE answers[s][k].kind = "event"
  /\ \A i \in DOMAIN answers[s] :
       i >= k /\ answers[s][i].kind # "own" => CaughtUp(s, answers[s][i].page)

\* A screen that heard an event will ask, or is caught up from some answer on.
WillCatchUp ==
  \A s \in screen : inOrder /\ heard[s].well =>
    \/ asked[s].event > 0
    \/ \E k \in 0..Len(answers[s]) : Settled(s, k)

\* The messages of the other side that s heard nothing of yet.
Later(s) == {i \in Ids : i > heard[s].upto /\ messages[i] = Other(s)}

\* A mobile screen that heard an event will mark the conversation, or has no others unread.
WillBeRead ==
  \A s \in screen : app[s] = "mobile" /\ heard[s].well =>
    \/ asked[s].event > 0
    \/ \E i \in DOMAIN answers[s] : answers[s][i].kind = "event"
    \/ marks[s] > 0
    \/ unread[s] <= Cardinality(Later(s))

Shape == ConversationTypeOK /\ HeardOK /\ OwnMessages

ConversationInv == Shape /\ WillCatchUp /\ WillBeRead

LEMMA ConversationStart == Init => ConversationInv
<1> SUFFICES ASSUME Init PROVE ConversationInv
  OBVIOUS
<1>1. ConversationTypeOK
  BY DEF Init, ConversationTypeOK, Answers, Heard, NothingHeard, NothingAsked, Ids, Sides
<1> QED BY <1>1 DEF Init, ConversationInv, Shape, HeardOK, OwnMessages, WillCatchUp,
     WillBeRead, NothingHeard, Ids, Sides

\* How many events reach a screen.
LEMMA EventsAreNat == ASSUME NEW s, NEW v PROVE EventsFor(s, v) \in Nat
  BY DEF EventsFor

\* The message a request announces is one its sender inserted.
LEMMA InsertedIsOwn ==
  ASSUME ConversationTypeOK, NEW s \in Sides, \E i \in Ids : messages[i] = s
  PROVE  Inserted(s) \in Ids /\ messages[Inserted(s)] = s
<1> DEFINE Mine == {i \in Ids : messages[i] = s}
<1>1. Len(messages) \in Nat
  BY DEF ConversationTypeOK
<1>4. Mine \in SUBSET (1..Len(messages)) /\ Mine # {}
  BY DEF Ids
<1>2. \E i \in Mine : \A j \in Mine : j <= i
  BY <1>1, <1>4, Greatest
<1>3. \E i \in Ids : messages[i] = s /\ \A j \in Ids : messages[j] = s => j <= i
  BY <1>2
<1> QED BY <1>3 DEF Inserted

\* The sequence without its i-th element: those before keep their place, those after move
\* up by one.
LEMMA WithoutOne ==
  ASSUME NEW S, NEW q \in Seq(S), NEW i \in 1..Len(q)
  PROVE  /\ Without(q, i) \in Seq(S)
         /\ Len(Without(q, i)) = Len(q) - 1
         /\ \A j \in 1..(Len(q) - 1) :
              Without(q, i)[j] = IF j < i THEN q[j] ELSE q[j + 1]
<1> DEFINE a == SubSeq(q, 1, i - 1)
           b == SubSeq(q, i + 1, Len(q))
<1>1. a \in Seq(S) /\ Len(a) = i - 1 /\ \A j \in 1..(i - 1) : a[j] = q[j]
  OBVIOUS
<1>2. b \in Seq(S) /\ Len(b) = Len(q) - i /\ \A j \in 1..(Len(q) - i) : b[j] = q[i + j]
  OBVIOUS
<1>3. Without(q, i) = a \o b
  BY DEF Without
<1> HIDE DEF a, b
<1>4. Without(q, i) \in Seq(S) /\ Len(Without(q, i)) = Len(q) - 1
  BY <1>1, <1>2, <1>3
<1>5. ASSUME NEW j \in 1..(Len(q) - 1)
      PROVE  Without(q, i)[j] = IF j < i THEN q[j] ELSE q[j + 1]
  <2>1. CASE j < i
    BY <1>1, <1>2, <1>3, <2>1
  <2>2. CASE ~(j < i)
    <3>1. (a \o b)[j] = b[j - (i - 1)]
      BY <1>1, <1>2, <2>2
    <3>2. j - (i - 1) \in 1..(Len(q) - i) /\ i + (j - (i - 1)) = j + 1
      BY <2>2
    <3> QED BY <1>2, <1>3, <3>1, <3>2, <2>2
  <2> QED BY <2>1, <2>2
<1> QED BY <1>4, <1>5

\* The page of the messages there are.
LEMMA PageIsSet == ConversationTypeOK => Page(Len(messages), deleted) \in SUBSET Nat
<1> SUFFICES ASSUME ConversationTypeOK PROVE Page(Len(messages), deleted) \in SUBSET Nat
  OBVIOUS
<1>1. Len(messages) \in Nat
  BY DEF ConversationTypeOK
<1> QED BY <1>1, PageHolds

\* Whatever is appended to what is on its way to s is an answer.
LEMMA AnswerAdded ==
  ASSUME ConversationTypeOK, NEW s \in Sides, NEW a \in Answers, Answer(s, a)
  PROVE  /\ answers' \in [Sides -> Seq(Answers)]
         /\ \A v \in Sides : v # s => answers'[v] = answers[v]
         /\ Len(answers'[s]) = Len(answers[s]) + 1
         /\ \A i \in 1..Len(answers[s]) : answers'[s][i] = answers[s][i]
         /\ answers'[s][Len(answers[s]) + 1] = a
<1>1. answers'[s] = Append(answers[s], a) /\ answers[s] \in Seq(Answers)
  BY DEF ConversationTypeOK, Answer
<1>2. \A v \in Sides : v # s => answers'[v] = answers[v]
  BY DEF ConversationTypeOK, Answer
<1>3. answers' \in [Sides -> Seq(Answers)]
  BY DEF ConversationTypeOK, Answer
<1> QED BY <1>1, <1>2, <1>3

\* One answer has arrived.
LEMMA AnswerGone ==
  ASSUME ConversationTypeOK, NEW s \in Sides, NEW i \in 1..Len(answers[s]),
         answers' = [answers EXCEPT ![s] = Without(@, i)]
  PROVE  /\ answers' \in [Sides -> Seq(Answers)]
         /\ \A v \in Sides : v # s => answers'[v] = answers[v]
         /\ Len(answers'[s]) = Len(answers[s]) - 1
         /\ \A j \in 1..(Len(answers[s]) - 1) :
              answers'[s][j] = IF j < i THEN answers[s][j] ELSE answers[s][j + 1]
<1>1. answers'[s] = Without(answers[s], i) /\ answers[s] \in Seq(Answers)
  BY DEF ConversationTypeOK
<1>2. Without(answers[s], i) \in Seq(Answers)
  BY <1>1, WithoutOne
<1>3. \A v \in Sides : v # s => answers'[v] = answers[v]
  BY DEF ConversationTypeOK
<1>4. answers' \in [Sides -> Seq(Answers)]
  BY <1>2 DEF ConversationTypeOK
<1> QED BY <1>1, <1>3, <1>4, WithoutOne

\* The steps between messages, screens, calls and answers that are no concern of the
\* invariant.
LEMMA QuietSteps ==
  ASSUME NEW s, OpenConversation(s) \/ CreateConversation(s) \/ Connect(s) \/ Disconnect(s)
                \/ JoinConversationRoom(s) \/ CacheExpires(s) \/ Send(s) \/ PostFails(s),
         ConversationTypeOK, setting' = setting
  PROVE  /\ UNCHANGED <<messages, deleted, unread, screen, shown, asked, answers, marks, heard>>
         /\ \A v \in Sides : post'[v] = "emit" => post[v] = "emit"
         /\ post' \in [Sides -> {"idle", "insert", "emit"}]
<1> USE DEF server, client
<1>1. CASE OpenConversation(s)
  BY <1>1 DEF OpenConversation, ConversationTypeOK
<1>2. CASE CreateConversation(s)
  BY <1>2 DEF CreateConversation, ConversationTypeOK
<1>3. CASE Connect(s)
  BY <1>3 DEF Connect, ConversationTypeOK
<1>4. CASE Disconnect(s)
  BY <1>4 DEF Disconnect, ConversationTypeOK
<1>5. CASE JoinConversationRoom(s)
  BY <1>5 DEF JoinConversationRoom, ConversationTypeOK
<1>6. CASE CacheExpires(s)
  BY <1>6 DEF CacheExpires, ConversationTypeOK
<1>7. CASE Send(s)
  BY <1>7 DEF Send, ConversationTypeOK
<1>8. CASE PostFails(s)
  BY <1>8 DEF PostFails, ConversationTypeOK
<1> QED BY <1>1, <1>2, <1>3, <1>4, <1>5, <1>6, <1>7, <1>8

-----------------------------------------------------------------------------
(* The shape of the state.                                                 *)

LEMMA ShapeOfQuiet ==
  ASSUME Shape, UNCHANGED <<messages, deleted, unread, screen, shown, asked, answers, marks, heard>>,
         \A v \in Sides : post'[v] = "emit" => post[v] = "emit",
         post' \in [Sides -> {"idle", "insert", "emit"}]
  PROVE  Shape'
<1>1. ConversationTypeOK'
  BY DEF Shape, ConversationTypeOK, Ids
<1>2. HeardOK'
  BY DEF Shape, HeardOK
<1>3. OwnMessages'
  BY DEF Shape, OwnMessages, Ids
<1> QED BY <1>1, <1>2, <1>3 DEF Shape

LEMMA ShapeOfScreen ==
  ASSUME Shape, NEW s \in Sides, OpenScreen(s) \/ CloseScreen(s)
  PROVE  Shape'
<1> USE DEF server
<1>1. UNCHANGED <<messages, deleted, unread, post, answers>>
  BY DEF OpenScreen, CloseScreen
<1>2. asked' \in [Sides -> [{"load", "event"} -> Nat]] /\ marks' \in [Sides -> Nat]
  <2>1. CASE OpenScreen(s)
    <3>1. marks' \in [Sides -> Nat]
      BY <2>1 DEF OpenScreen, Shape, ConversationTypeOK
    <3>2. asked' \in [Sides -> [{"load", "event"} -> Nat]]
      BY <2>1 DEF OpenScreen, Shape, ConversationTypeOK
    <3> QED BY <3>1, <3>2
  <2>2. CASE CloseScreen(s)
    BY <2>2 DEF CloseScreen, Shape, ConversationTypeOK
  <2> QED BY <2>1, <2>2
<1>3. /\ heard' = [heard EXCEPT ![s] = NothingHeard]
      /\ shown' = [shown EXCEPT ![s] = {}]
      /\ screen' \subseteq Sides
  BY DEF OpenScreen, CloseScreen, Shape, ConversationTypeOK
<1>4. heard' \in [Sides -> Heard] /\ shown' \in [Sides -> SUBSET Nat]
  BY <1>3 DEF Shape, ConversationTypeOK, Heard, NothingHeard
<1>5. ConversationTypeOK'
  BY <1>1, <1>2, <1>3, <1>4 DEF Shape, ConversationTypeOK, Ids
<1>6. HeardOK'
  BY <1>1, <1>3 DEF Shape, ConversationTypeOK, HeardOK, NothingHeard
<1>7. OwnMessages'
  BY <1>1 DEF Shape, OwnMessages, Ids
<1> QED BY <1>5, <1>6, <1>7 DEF Shape

\* What is left of the calls asked for, when one is handled or fails.
LEMMA AskedLess ==
  ASSUME ConversationTypeOK, NEW s \in Sides, NEW kind \in {"load", "event"},
         asked[s][kind] > 0, asked' = [asked EXCEPT ![s][kind] = @ - 1]
  PROVE  /\ asked' \in [Sides -> [{"load", "event"} -> Nat]]
         /\ \A v \in Sides : v # s => asked'[v] = asked[v]
         /\ kind = "load" => asked'[s].event = asked[s].event
<1>1. asked \in [Sides -> [{"load", "event"} -> Nat]]
  BY DEF ConversationTypeOK
<1>2. asked' \in [Sides -> [{"load", "event"} -> Nat]]
  BY <1>1
<1>3. \A v \in Sides : v # s => asked'[v] = asked[v]
  BY <1>1
<1>4. kind = "load" => asked'[s].event = asked[s].event
  BY <1>1
<1> QED BY <1>2, <1>3, <1>4

LEMMA ShapeOfFailure ==
  ASSUME Shape, NEW s \in Sides,
         (\E kind \in {"load", "event"} : GetFails(s, kind)) \/ MarkFails(s) \/ MarkAsRead(s)
  PROVE  Shape'
<1> USE DEF server
<1>1. UNCHANGED <<messages, deleted, post, screen, shown, answers>>
  BY DEF GetFails, MarkFails, MarkAsRead
<1>2. asked' \in [Sides -> [{"load", "event"} -> Nat]]
  <2>1. CASE \E kind \in {"load", "event"} : GetFails(s, kind)
    <3>1. PICK kind \in {"load", "event"} : GetFails(s, kind)
      BY <2>1
    <3> QED BY <3>1, AskedLess DEF GetFails, Shape
  <2>2. CASE MarkFails(s) \/ MarkAsRead(s)
    BY <2>2 DEF MarkFails, MarkAsRead, Shape, ConversationTypeOK
  <2> QED BY <2>1, <2>2
<1>3. unread' \in [Sides -> Nat] /\ marks' \in [Sides -> Nat]
  <2>1. CASE \E kind \in {"load", "event"} : GetFails(s, kind)
    BY <2>1 DEF GetFails, Shape, ConversationTypeOK
  <2>2. CASE MarkFails(s)
    BY <2>2 DEF MarkFails, Shape, ConversationTypeOK
  <2>3. CASE MarkAsRead(s)
    BY <2>3 DEF MarkAsRead, Shape, ConversationTypeOK
  <2> QED BY <2>1, <2>2, <2>3
<1>4. heard' = heard \/ heard' = [heard EXCEPT ![s].well = FALSE]
  BY DEF GetFails, MarkFails, MarkAsRead
<1>5. /\ heard' \in [Sides -> Heard]
      /\ \A v \in Sides : heard'[v].upto = heard[v].upto /\ heard'[v].gone = heard[v].gone
  <2>1. heard \in [Sides -> Heard]
    BY DEF Shape, ConversationTypeOK
  <2>2. CASE heard' = [heard EXCEPT ![s].well = FALSE]
    <3>1. /\ [heard[s] EXCEPT !.well = FALSE] \in Heard
          /\ [heard[s] EXCEPT !.well = FALSE].upto = heard[s].upto
          /\ [heard[s] EXCEPT !.well = FALSE].gone = heard[s].gone
      BY <2>1 DEF Heard
    <3>2. heard' = [heard EXCEPT ![s] = [heard[s] EXCEPT !.well = FALSE]]
      BY <2>2
    <3> QED BY <2>1, <3>1, <3>2
  <2> QED BY <1>4, <2>1, <2>2
<1>6. ConversationTypeOK'
  BY <1>1, <1>2, <1>3, <1>5 DEF Shape, ConversationTypeOK, Ids
<1>7. HeardOK'
  BY <1>1, <1>5 DEF Shape, HeardOK
<1>8. OwnMessages'
  BY <1>1 DEF Shape, OwnMessages, Ids
<1> QED BY <1>6, <1>7, <1>8 DEF Shape

LEMMA ShapeOfList ==
  ASSUME Shape, NEW s \in Sides, NEW kind \in {"load", "event"}, ListMessages(s, kind)
  PROVE  Shape'
<1> USE DEF server
<1> DEFINE new == [kind |-> kind, page |-> Page(Len(messages), deleted)]
<1>1. UNCHANGED <<messages, deleted, unread, post, screen, shown, marks, heard>>
  BY DEF ListMessages
<1>2. asked' \in [Sides -> [{"load", "event"} -> Nat]]
  BY AskedLess DEF ListMessages, Shape
<1>3. new \in Answers /\ new.kind # "own" /\ Answer(s, new)
  <2>1. Page(Len(messages), deleted) \in SUBSET Nat
    BY PageIsSet DEF Shape
  <2> QED BY <2>1 DEF Answers, Kinds, ListMessages
<1> HIDE DEF new
<1>4. /\ answers' \in [Sides -> Seq(Answers)]
      /\ \A v \in Sides : v # s => answers'[v] = answers[v]
      /\ Len(answers'[s]) = Len(answers[s]) + 1
      /\ \A i \in 1..Len(answers[s]) : answers'[s][i] = answers[s][i]
      /\ answers'[s][Len(answers[s]) + 1] = new
  BY <1>3, AnswerAdded DEF Shape
<1>5. ConversationTypeOK'
  BY <1>1, <1>2, <1>4 DEF Shape, ConversationTypeOK, Ids
<1>6. HeardOK'
  BY <1>1 DEF Shape, HeardOK
<1>7. OwnMessages'
  <2> SUFFICES ASSUME NEW v \in Sides, NEW i \in DOMAIN answers'[v], answers'[v][i].kind = "own"
               PROVE  \A m \in answers'[v][i].page : m \in Ids /\ messages[m] = v
    BY <1>1 DEF Shape, OwnMessages, Ids
  <2>1. answers[v] \in Seq(Answers) /\ answers'[v] \in Seq(Answers)
    BY <1>4 DEF Shape, ConversationTypeOK
  <2>2. i \in DOMAIN answers[v] /\ answers[v][i] = answers'[v][i]
    <3>1. CASE v # s
      BY <1>4, <3>1
    <3>2. CASE v = s
      BY <1>3, <1>4, <2>1, <3>2
    <3> QED BY <3>1, <3>2
  <2> QED BY <2>2 DEF Shape, OwnMessages
<1> QED BY <1>5, <1>6, <1>7 DEF Shape

LEMMA ShapeOfReceive ==
  ASSUME Shape, NEW s \in Sides, NEW i \in DOMAIN answers[s], Receive(s, i)
  PROVE  Shape'
<1> USE DEF server
<1>0. i \in 1..Len(answers[s]) /\ answers[s] \in Seq(Answers) /\ answers[s][i] \in Answers
  BY DEF Shape, ConversationTypeOK
<1>1. UNCHANGED <<messages, deleted, unread, post, screen, asked, heard>>
  BY DEF Receive
<1>2. marks' \in [Sides -> Nat]
  <2>1. marks' = marks \/ marks' = [marks EXCEPT ![s] = IF app[s] = "mobile" THEN @ + 1 ELSE @]
    BY DEF Receive, MarkAfterEvent
  <2>2. marks \in [Sides -> Nat]
    BY DEF Shape, ConversationTypeOK
  <2> QED BY <2>1, <2>2
<1>3. shown' \in [Sides -> SUBSET Nat]
  BY <1>0 DEF Receive, Shape, ConversationTypeOK, Answers
<1>4. /\ answers' \in [Sides -> Seq(Answers)]
      /\ \A v \in Sides : v # s => answers'[v] = answers[v]
      /\ Len(answers'[s]) = Len(answers[s]) - 1
      /\ \A j \in 1..(Len(answers[s]) - 1) :
           answers'[s][j] = IF j < i THEN answers[s][j] ELSE answers[s][j + 1]
  BY <1>0, AnswerGone DEF Shape, Receive
<1>5. ConversationTypeOK'
  BY <1>1, <1>2, <1>3, <1>4 DEF Shape, ConversationTypeOK, Ids
<1>6. HeardOK'
  BY <1>1 DEF Shape, HeardOK
<1>7. OwnMessages'
  <2> SUFFICES ASSUME NEW v \in Sides, NEW j \in DOMAIN answers'[v], answers'[v][j].kind = "own"
               PROVE  \A m \in answers'[v][j].page : m \in Ids /\ messages[m] = v
    BY <1>1 DEF Shape, OwnMessages, Ids
  <2>1. answers[v] \in Seq(Answers) /\ answers'[v] \in Seq(Answers)
    BY <1>4 DEF Shape, ConversationTypeOK
  <2>2. \E k \in DOMAIN answers[v] : answers[v][k] = answers'[v][j]
    <3>1. CASE v # s
      BY <1>4, <3>1
    <3>2. CASE v = s
      BY <1>4, <2>1, <3>2
    <3> QED BY <3>1, <3>2
  <2> QED BY <2>2 DEF Shape, OwnMessages
<1> QED BY <1>5, <1>6, <1>7 DEF Shape

\* A message more: the others stay what they were.
LEMMA MessageAdded ==
  ASSUME ConversationTypeOK, NEW s \in Sides, messages' = Append(messages, s)
  PROVE  /\ messages' \in Seq(Sides) /\ Len(messages') = Len(messages) + 1
         /\ Len(messages) \in Nat /\ Ids' = Ids \cup {Len(messages) + 1}
         /\ \A i \in Ids : messages'[i] = messages[i]
         /\ messages'[Len(messages) + 1] = s
<1>1. messages \in Seq(Sides)
  BY DEF ConversationTypeOK
<1>2. messages' \in Seq(Sides) /\ Len(messages') = Len(messages) + 1 /\ Len(messages) \in Nat
  BY <1>1
<1>3. Ids' = 1..(Len(messages) + 1) /\ Ids = 1..Len(messages)
  BY <1>2 DEF Ids
<1> QED BY <1>1, <1>2, <1>3

LEMMA ShapeOfCreate ==
  ASSUME Shape, NEW s \in Sides, CreateMessage(s)
  PROVE  Shape'
<1> USE DEF client
<1>1. UNCHANGED <<deleted, screen, shown, asked, answers, marks, heard>>
  BY DEF CreateMessage
<1>2. /\ messages' \in Seq(Sides) /\ Len(messages') = Len(messages) + 1
      /\ Len(messages) \in Nat /\ Ids' = Ids \cup {Len(messages) + 1}
      /\ \A i \in Ids : messages'[i] = messages[i]
      /\ messages'[Len(messages) + 1] = s
  BY MessageAdded DEF Shape, CreateMessage
<1>3. unread' \in [Sides -> Nat] /\ post' \in [Sides -> {"idle", "insert", "emit"}]
  <2>1. PICK o \in Sides : o = Other(s)
    BY DEF Other, Sides
  <2>2. unread' = [unread EXCEPT ![Other(s)] = @ + 1] /\ unread \in [Sides -> Nat]
    BY DEF CreateMessage, Shape, ConversationTypeOK
  <2>3. post' = [post EXCEPT ![s] = "emit"]
    BY DEF CreateMessage
  <2>4. post' \in [Sides -> {"idle", "insert", "emit"}]
    BY <2>3 DEF Shape, ConversationTypeOK
  <2>5. unread' = [unread EXCEPT ![o] = @ + 1]
    BY <2>1, <2>2
  <2>6. unread' \in [Sides -> Nat]
    BY <2>2, <2>5
  <2> QED BY <2>4, <2>6
<1>4. ConversationTypeOK'
  <2>1. deleted' \subseteq Ids'
    BY <1>1, <1>2 DEF Shape, ConversationTypeOK
  <2> QED BY <1>1, <1>2, <1>3, <2>1 DEF Shape, ConversationTypeOK
<1>5. HeardOK'
  BY <1>1, <1>2 DEF Shape, HeardOK
<1>6. OwnMessages'
  <2>1. ASSUME NEW v \in Sides, post'[v] = "emit" PROVE \E i \in Ids' : messages'[i] = v
    <3>1. CASE v = s
      BY <1>2, <3>1
    <3>2. CASE v # s
      <4>1. post[v] = "emit"
        BY <2>1, <3>2 DEF CreateMessage, Shape, ConversationTypeOK
      <4> QED BY <1>2, <4>1 DEF Shape, OwnMessages
    <3> QED BY <3>1, <3>2
  <2>2. ASSUME NEW v \in Sides, NEW i \in DOMAIN answers[v], answers[v][i].kind = "own",
               NEW m \in answers[v][i].page
        PROVE  m \in Ids' /\ messages'[m] = v
    BY <1>2, <2>2 DEF Shape, OwnMessages
  <2> QED BY <1>1, <2>1, <2>2 DEF OwnMessages
<1> QED BY <1>4, <1>5, <1>6 DEF Shape

\* What an announcement does to a screen that it reaches, and to one that it does not.
LEMMA Announced ==
  ASSUME ConversationTypeOK, NEW v, Announce(v), NEW s \in Sides
  PROVE  /\ asked' \in [Sides -> [{"load", "event"} -> Nat]]
         /\ heard' \in [Sides -> Heard]
         /\ \/ EventsFor(s, v) > 0 /\ asked'[s].event > 0
               /\ heard'[s] = [well |-> TRUE, upto |-> Len(messages), gone |-> deleted]
            \/ asked'[s].event = asked[s].event /\ heard'[s] = heard[s]
<1> DEFINE now == [well |-> TRUE, upto |-> Len(messages), gone |-> deleted]
<1>0. Len(messages) \in Nat /\ deleted \in SUBSET Nat
  BY DEF ConversationTypeOK, Ids
<1>1. now \in Heard
  BY <1>0 DEF Heard
<1>2. heard' = [u \in Sides |-> IF EventsFor(u, v) > 0 THEN now ELSE heard[u]]
  BY DEF Announce
<1> HIDE DEF now
<1>3. heard' \in [Sides -> Heard]
  BY <1>1, <1>2 DEF ConversationTypeOK
<1>4. \A u \in Sides : EventsFor(u, v) \in Nat
  BY EventsAreNat
<1>5. ASSUME NEW u \in Sides
      PROVE  /\ asked'[u] \in [{"load", "event"} -> Nat]
             /\ asked'[u].event = asked[u].event + EventsFor(u, v)
             /\ asked[u].event \in Nat
  <2>1. asked[u] \in [{"load", "event"} -> Nat]
    BY DEF ConversationTypeOK
  <2>2. asked'[u] = [asked[u] EXCEPT !.event = @ + EventsFor(u, v)]
    BY DEF Announce
  <2> QED BY <1>4, <2>1, <2>2
<1>6. asked' = [u \in Sides |-> asked'[u]]
  BY DEF Announce
<1>7. asked' \in [Sides -> [{"load", "event"} -> Nat]]
  BY <1>5, <1>6
<1>8. CASE EventsFor(s, v) > 0
  <2>1. heard'[s] = now
    BY <1>2, <1>8
  <2>2. asked'[s].event > 0
    BY <1>4, <1>5, <1>8
  <2> QED BY <1>3, <1>7, <1>8, <2>1, <2>2 DEF now
<1>9. CASE EventsFor(s, v) = 0
  BY <1>2, <1>3, <1>5, <1>7, <1>9
<1> QED BY <1>4, <1>8, <1>9

\* The answers after an Emit: those there were, and the sender's own message.
LEMMA EmitAnswers ==
  ASSUME Shape, NEW s \in Sides, Emit(s)
  PROVE  /\ answers' \in [Sides -> Seq(Answers)]
         /\ \A v \in Sides :
              \/ answers'[v] = answers[v]
              \/ /\ v = s /\ Len(answers'[v]) = Len(answers[v]) + 1
                 /\ \A i \in 1..Len(answers[v]) : answers'[v][i] = answers[v][i]
                 /\ answers'[v][Len(answers[v]) + 1].kind = "own"
                 /\ answers'[v][Len(answers[v]) + 1].page = {Inserted(s)}
         /\ Inserted(s) \in Ids /\ messages[Inserted(s)] = s
<1> DEFINE new == [kind |-> "own", page |-> {Inserted(s)}]
<1>1. Inserted(s) \in Ids /\ messages[Inserted(s)] = s
  BY InsertedIsOwn DEF Shape, OwnMessages, Emit
<1>2. new \in Answers /\ new.kind = "own" /\ new.page = {Inserted(s)}
  BY <1>1 DEF Answers, Kinds, Ids
<1>3. answers' = answers \/ Answer(s, new)
  BY DEF Emit
<1> HIDE DEF new
<1>4. CASE answers' = answers
  BY <1>1, <1>4 DEF Shape, ConversationTypeOK
<1>5. CASE Answer(s, new)
  BY <1>1, <1>2, <1>5, AnswerAdded DEF Shape
<1> QED BY <1>3, <1>4, <1>5

LEMMA ShapeOfEmit ==
  ASSUME Shape, NEW s \in Sides, Emit(s)
  PROVE  Shape'
<1>1. UNCHANGED <<messages, deleted, unread, screen, shown, marks>> /\ Ids' = Ids
  BY DEF Emit, Ids
<1>2. post' \in [Sides -> {"idle", "insert", "emit"}] /\ \A v \in Sides : post'[v] = "emit" => post[v] = "emit"
  BY DEF Emit, Shape, ConversationTypeOK
<1>3. Announce(s)
  BY DEF Emit
<1>4. answers' \in [Sides -> Seq(Answers)]
  BY EmitAnswers
<1>5. ConversationTypeOK'
  BY <1>1, <1>2, <1>3, <1>4, Announced DEF Shape, ConversationTypeOK
<1>6. HeardOK'
  <2> SUFFICES ASSUME NEW v \in Sides
               PROVE  heard'[v].upto \in 0..Len(messages) /\ heard'[v].gone \subseteq deleted
    BY <1>1 DEF HeardOK
  <2>1. \/ heard'[v] = [well |-> TRUE, upto |-> Len(messages), gone |-> deleted]
        \/ heard'[v] = heard[v]
    BY <1>3, Announced DEF Shape
  <2>2. Len(messages) \in Nat
    BY DEF Shape, ConversationTypeOK
  <2> QED BY <2>1, <2>2 DEF Shape, HeardOK
<1>7. OwnMessages'
  <2>1. \A v \in Sides : post'[v] = "emit" => \E i \in Ids' : messages'[i] = v
    BY <1>1, <1>2 DEF Shape, OwnMessages
  <2>2. ASSUME NEW v \in Sides, NEW i \in DOMAIN answers'[v], answers'[v][i].kind = "own",
               NEW m \in answers'[v][i].page
        PROVE  m \in Ids' /\ messages'[m] = v
    <3>1. answers[v] \in Seq(Answers) /\ answers'[v] \in Seq(Answers)
      BY <1>4 DEF Shape, ConversationTypeOK
    <3>2. CASE answers'[v] = answers[v]
      BY <1>1, <2>2, <3>2 DEF Shape, OwnMessages
    <3>3. CASE answers'[v] # answers[v]
      <4>1. /\ v = s /\ Len(answers'[v]) = Len(answers[v]) + 1
            /\ \A j \in 1..Len(answers[v]) : answers'[v][j] = answers[v][j]
            /\ answers'[v][Len(answers[v]) + 1].page = {Inserted(s)}
            /\ Inserted(s) \in Ids /\ messages[Inserted(s)] = s
        BY <3>3, EmitAnswers
      <4>2. CASE i \in DOMAIN answers[v]
        <5>1. answers'[v][i] = answers[v][i]
          BY <3>1, <4>1, <4>2
        <5> QED BY <1>1, <2>2, <4>2, <5>1 DEF Shape, OwnMessages
      <4>3. CASE i \notin DOMAIN answers[v]
        <5>1. i = Len(answers[v]) + 1
          BY <3>1, <4>1, <4>3
        <5> QED BY <1>1, <2>2, <4>1, <5>1
      <4> QED BY <4>2, <4>3
    <3> QED BY <3>2, <3>3
  <2> QED BY <2>1, <2>2 DEF OwnMessages
<1> QED BY <1>5, <1>6, <1>7 DEF Shape

LEMMA ShapeOfDelete ==
  ASSUME Shape, NEW m \in Ids, DeleteMessage(m)
  PROVE  Shape'
<1> USE DEF client
<1>1. /\ UNCHANGED <<messages, unread, post, screen, shown, asked, answers, marks, heard>>
      /\ deleted' = deleted \cup {m} /\ Ids' = Ids
  BY DEF DeleteMessage, Ids
<1>2. ConversationTypeOK'
  BY <1>1 DEF Shape, ConversationTypeOK
<1>3. HeardOK'
  BY <1>1 DEF Shape, HeardOK
<1>4. OwnMessages'
  BY <1>1 DEF Shape, OwnMessages
<1> QED BY <1>2, <1>3, <1>4 DEF Shape

-----------------------------------------------------------------------------
(* A mobile screen that heard of a message is read.                        *)

LEMMA LaterIsFinite ==
  ASSUME Shape, NEW s
  PROVE  IsFiniteSet(Later(s)) /\ Cardinality(Later(s)) \in Nat
<1>1. IsFiniteSet(Ids)
  <2>1. Len(messages) \in Nat
    BY DEF Shape, ConversationTypeOK
  <2> QED BY <2>1, FS_Interval DEF Ids
<1> QED BY <1>1, Fewer DEF Later

\* What one screen, of s, needs for its part of WillBeRead.
ReadSoon(s) ==
  \/ asked[s].event > 0
  \/ \E i \in DOMAIN answers[s] : answers[s][i].kind = "event"
  \/ marks[s] > 0
  \/ unread[s] <= Cardinality(Later(s))

\* Nothing of that changes.
LEMMA ReadStays ==
  ASSUME WillBeRead,
         NEW v \in screen, app[v] = "mobile", heard[v].well,
         asked'[v].event = asked[v].event, answers'[v] = answers[v], marks'[v] = marks[v],
         unread'[v] = unread[v], heard'[v] = heard[v], messages' = messages
  PROVE  ReadSoon(v)'
BY DEF WillBeRead, ReadSoon, Later, Ids

LEMMA ReadStep ==
  ASSUME Shape, Shape', WillBeRead, Next
  PROVE  WillBeRead'
<1> USE DEF server, client
<1> SUFFICES ASSUME NEW v \in screen', app'[v] = "mobile", heard'[v].well
             PROVE  ReadSoon(v)'
  BY DEF WillBeRead, ReadSoon
<1>0. app'[v] = app[v] /\ v \in Sides /\ Step
  BY DEF Next, app, Shape, ConversationTypeOK
<1>1. ASSUME NEW s, OpenConversation(s) \/ CreateConversation(s) \/ Connect(s) \/ Disconnect(s)
             \/ JoinConversationRoom(s) \/ CacheExpires(s) \/ Send(s) \/ PostFails(s)
      PROVE  ReadSoon(v)'
  BY <1>0, <1>1, QuietSteps, ReadStays DEF Shape, Next
<1>2. ASSUME NEW s \in Sides, OpenScreen(s) \/ CloseScreen(s) PROVE ReadSoon(v)'
  <2>1. /\ heard' = [heard EXCEPT ![s] = NothingHeard]
        /\ v # s => v \in screen
        /\ UNCHANGED <<messages, answers, unread>>
    BY <1>2 DEF OpenScreen, CloseScreen
  <2>2. v # s /\ heard'[v] = heard[v]
    BY <1>0, <2>1 DEF Shape, ConversationTypeOK, NothingHeard
  <2>3. asked'[v] = asked[v] /\ marks'[v] = marks[v]
    BY <1>0, <1>2, <2>2 DEF OpenScreen, CloseScreen, Shape, ConversationTypeOK
  <2> QED BY <1>0, <2>1, <2>2, <2>3, ReadStays
<1>3. ASSUME NEW s \in Sides, NEW kind \in {"load", "event"}, ListMessages(s, kind)
      PROVE  ReadSoon(v)'
  <2> DEFINE new == [kind |-> kind, page |-> Page(Len(messages), deleted)]
  <2>1. UNCHANGED <<messages, deleted, unread, screen, shown, marks, heard>>
    BY <1>3 DEF ListMessages
  <2>2. new \in Answers
    <3>1. Page(Len(messages), deleted) \in SUBSET Nat
      BY PageIsSet DEF Shape
    <3> QED BY <3>1 DEF Answers, Kinds
  <2>3. new.kind = kind /\ Answer(s, new)
    BY <1>3 DEF ListMessages
  <2> HIDE DEF new
  <2>4. /\ \A u \in Sides : u # s => answers'[u] = answers[u]
        /\ Len(answers'[s]) = Len(answers[s]) + 1
        /\ \A i \in 1..Len(answers[s]) : answers'[s][i] = answers[s][i]
        /\ answers'[s][Len(answers[s]) + 1] = new
    BY <2>2, <2>3, AnswerAdded DEF Shape
  <2>5. /\ \A u \in Sides : u # s => asked'[u] = asked[u]
        /\ kind = "load" => asked'[s].event = asked[s].event
    BY <1>3, AskedLess DEF ListMessages, Shape
  <2>6. answers[s] \in Seq(Answers) /\ answers'[s] \in Seq(Answers)
    BY DEF Shape, ConversationTypeOK
  <2>7. CASE v # s
    BY <1>0, <2>1, <2>4, <2>5, <2>7, ReadStays
  <2>8. CASE v = s /\ kind = "event"
    BY <2>3, <2>4, <2>6, <2>8 DEF ReadSoon
  <2>9. CASE v = s /\ kind = "load"
    <3>1. ReadSoon(v)
      BY <1>0, <2>1 DEF WillBeRead, ReadSoon
    <3>2. (\E i \in DOMAIN answers[v] : answers[v][i].kind = "event")
          => \E i \in DOMAIN answers'[v] : answers'[v][i].kind = "event"
      BY <2>4, <2>6, <2>9
    <3>3. Later(v)' = Later(v)
      BY <2>1 DEF Later, Ids
    <3> QED BY <2>1, <2>5, <2>9, <3>1, <3>2, <3>3 DEF ReadSoon
  <2> QED BY <2>7, <2>8, <2>9
<1>4. ASSUME NEW s \in Sides, NEW i \in DOMAIN answers[s], Receive(s, i) PROVE ReadSoon(v)'
  <2>1. UNCHANGED <<messages, deleted, unread, screen, asked, heard>>
    BY <1>4 DEF Receive
  <2>2. i \in 1..Len(answers[s]) /\ answers[s] \in Seq(Answers) /\ answers'[s] \in Seq(Answers)
    <3>1. answers[s] \in Seq(Answers) /\ answers'[s] \in Seq(Answers)
      BY DEF Shape, ConversationTypeOK
    <3> QED BY <3>1
  <2>3. /\ \A u \in Sides : u # s => answers'[u] = answers[u]
        /\ Len(answers'[s]) = Len(answers[s]) - 1
        /\ \A j \in 1..(Len(answers[s]) - 1) :
             answers'[s][j] = IF j < i THEN answers[s][j] ELSE answers[s][j + 1]
    BY <1>4, <2>2, AnswerGone DEF Shape, Receive
  <2>4. /\ marks \in [Sides -> Nat]
        /\ marks' = IF answers[s][i].kind = "event" /\ app[s] = "mobile"
                    THEN [marks EXCEPT ![s] = @ + 1] ELSE marks
    <3>1. marks \in [Sides -> Nat]
      BY DEF Shape, ConversationTypeOK
    <3> QED BY <1>4, <3>1 DEF Receive, MarkAfterEvent
  <2>5. CASE v # s
    BY <1>0, <2>1, <2>3, <2>4, <2>5, ReadStays
  <2>6. CASE v = s /\ answers[s][i].kind = "event"
    BY <1>0, <2>4, <2>6 DEF ReadSoon
  <2>7. CASE v = s /\ answers[s][i].kind # "event"
    <3>1. ReadSoon(v)
      BY <1>0, <2>1 DEF WillBeRead, ReadSoon
    <3>2. ASSUME NEW k \in DOMAIN answers[v], answers[v][k].kind = "event"
          PROVE  \E j \in DOMAIN answers'[v] : answers'[v][j].kind = "event"
      <4>1. k # i /\ k \in 1..Len(answers[s])
        BY <2>2, <2>7, <3>2
      <4>2. CASE k < i
        <5>1. k \in 1..(Len(answers[s]) - 1)
          BY <2>2, <4>1, <4>2
        <5> QED BY <2>2, <2>3, <2>7, <3>2, <4>2, <5>1
      <4>3. CASE k > i
        <5>1. k - 1 \in 1..(Len(answers[s]) - 1) /\ ~(k - 1 < i) /\ (k - 1) + 1 = k
          BY <2>2, <4>1, <4>3
        <5> QED BY <2>2, <2>3, <2>7, <3>2, <5>1
      <4> QED BY <2>2, <4>1, <4>2, <4>3
    <3>3. Later(v)' = Later(v)
      BY <2>1 DEF Later, Ids
    <3> QED BY <2>1, <2>4, <2>7, <3>1, <3>2, <3>3 DEF ReadSoon
  <2> QED BY <2>5, <2>6, <2>7
<1>5. ASSUME NEW s \in Sides, NEW kind \in {"load", "event"}, GetFails(s, kind)
      PROVE  ReadSoon(v)'
  <2>1. /\ UNCHANGED <<messages, unread, screen, answers, marks>>
        /\ heard' = [heard EXCEPT ![s].well = FALSE]
    BY <1>5 DEF GetFails
  <2>2. v # s /\ heard'[v] = heard[v]
    BY <1>0, <2>1 DEF Shape, ConversationTypeOK, Heard
  <2>3. asked'[v] = asked[v]
    BY <1>0, <1>5, <2>2, AskedLess DEF GetFails, Shape
  <2> QED BY <1>0, <2>1, <2>2, <2>3, ReadStays
<1>6. ASSUME NEW s \in Sides, MarkAsRead(s) PROVE ReadSoon(v)'
  <2>1. /\ UNCHANGED <<messages, screen, answers, asked, heard>>
        /\ marks' = [marks EXCEPT ![s] = @ - 1]
        /\ unread' = [unread EXCEPT ![s] = 0]
    BY <1>6 DEF MarkAsRead
  <2>2. CASE v # s
    BY <1>0, <2>1, <2>2, ReadStays DEF Shape, ConversationTypeOK
  <2>3. CASE v = s
    <3>1. unread'[v] = 0
      BY <1>0, <2>1, <2>3 DEF Shape, ConversationTypeOK
    <3>2. Cardinality(Later(v)) \in Nat /\ Later(v)' = Later(v)
      BY <2>1, LaterIsFinite DEF Later, Ids
    <3> QED BY <3>1, <3>2 DEF ReadSoon
  <2> QED BY <2>2, <2>3
<1>7. ASSUME NEW s \in Sides, MarkFails(s) PROVE ReadSoon(v)'
  <2>1. /\ UNCHANGED <<messages, unread, screen, answers, asked>>
        /\ heard' = [heard EXCEPT ![s].well = FALSE]
        /\ marks' = [marks EXCEPT ![s] = @ - 1]
    BY <1>7 DEF MarkFails
  <2>2. v # s /\ heard'[v] = heard[v]
    BY <1>0, <2>1 DEF Shape, ConversationTypeOK, Heard
  <2>3. marks'[v] = marks[v]
    BY <2>1, <2>2 DEF Shape, ConversationTypeOK
  <2> QED BY <1>0, <2>1, <2>2, <2>3, ReadStays
<1>8. ASSUME NEW s \in Sides, CreateMessage(s) PROVE ReadSoon(v)'
  <2>1. UNCHANGED <<deleted, screen, shown, asked, answers, marks, heard>>
    BY <1>8 DEF CreateMessage
  <2>2. /\ Len(messages) \in Nat /\ Ids' = Ids \cup {Len(messages) + 1}
        /\ \A i \in Ids : messages'[i] = messages[i]
        /\ messages'[Len(messages) + 1] = s
    BY <1>8, MessageAdded DEF Shape, CreateMessage
  <2>3. ReadSoon(v)
    BY <1>0, <2>1 DEF WillBeRead, ReadSoon
  <2>4. Later(v) \subseteq Later(v)'
    BY <2>1, <2>2 DEF Later
  <2>5. /\ IsFiniteSet(Later(v)) /\ IsFiniteSet(Later(v)')
        /\ Cardinality(Later(v)) \in Nat /\ Cardinality(Later(v)') \in Nat
    <3>1. Len(messages') \in Nat
      BY DEF Shape, ConversationTypeOK
    <3>2. IsFiniteSet(Ids')
      BY <3>1, FS_Interval DEF Ids
    <3>3. Later(v)' \subseteq Ids'
      BY DEF Later
    <3> QED BY <3>2, <3>3, Fewer, LaterIsFinite
  <2>6. Cardinality(Later(v)) <= Cardinality(Later(v)')
    BY <2>4, <2>5, Fewer
  <2>7. CASE v # Other(s)
    <3>1. unread'[v] = unread[v] /\ unread[v] \in Nat
      BY <1>0, <1>8, <2>7 DEF CreateMessage, Shape, ConversationTypeOK
    <3> QED BY <2>1, <2>3, <2>5, <2>6, <3>1 DEF ReadSoon
  <2>8. CASE v = Other(s)
    <3>1. unread'[v] = unread[v] + 1 /\ unread[v] \in Nat
      BY <1>0, <1>8, <2>8 DEF CreateMessage, Shape, ConversationTypeOK
    <3>2. Other(v) = s
      BY <2>8 DEF Other, Sides
    <3>3. Len(messages) + 1 \in Later(v)' /\ Len(messages) + 1 \notin Later(v)
      <4>1. heard[v].upto \in 0..Len(messages)
        BY <1>0 DEF Shape, HeardOK
      <4> QED BY <2>1, <2>2, <3>2, <4>1 DEF Later, Ids
    <3>4. Cardinality(Later(v)) + 1 <= Cardinality(Later(v)')
      BY <2>4, <2>5, <3>3, OneLess
    <3> QED BY <2>1, <2>3, <2>5, <3>1, <3>4 DEF ReadSoon
  <2> QED BY <2>7, <2>8
<1>9. ASSUME NEW s \in Sides, Emit(s) PROVE ReadSoon(v)'
  <2>1. UNCHANGED <<messages, deleted, unread, screen, shown, marks>> /\ Announce(s)
    BY <1>9 DEF Emit
  <2>2. CASE asked'[v].event > 0
    BY <2>2 DEF ReadSoon
  <2>3. CASE asked'[v].event = asked[v].event /\ heard'[v] = heard[v]
    <3>1. ReadSoon(v)
      BY <1>0, <2>1, <2>3 DEF WillBeRead, ReadSoon
    <3>2. answers[v] \in Seq(Answers) /\ answers'[v] \in Seq(Answers)
      BY <1>0 DEF Shape, ConversationTypeOK
    <3>3. ASSUME NEW k \in DOMAIN answers[v], answers[v][k].kind = "event"
          PROVE  \E j \in DOMAIN answers'[v] : answers'[v][j].kind = "event"
      <4>1. CASE answers'[v] = answers[v]
        BY <3>3, <4>1
      <4>2. CASE answers'[v] # answers[v]
        <5>1. /\ Len(answers'[v]) = Len(answers[v]) + 1
              /\ \A i \in 1..Len(answers[v]) : answers'[v][i] = answers[v][i]
          BY <1>0, <1>9, <4>2, EmitAnswers
        <5> QED BY <3>2, <3>3, <5>1
      <4> QED BY <4>1, <4>2
    <3>4. Later(v)' = Later(v)
      BY <2>1, <2>3 DEF Later, Ids
    <3> QED BY <2>1, <2>3, <3>1, <3>3, <3>4 DEF ReadSoon
  <2> QED BY <1>0, <2>1, <2>2, <2>3, Announced DEF Shape
<1>10. ASSUME NEW m \in Ids, DeleteMessage(m) PROVE ReadSoon(v)'
  BY <1>0, <1>10, ReadStays DEF DeleteMessage
<1> QED BY <1>0, <1>1, <1>2, <1>3, <1>4, <1>5, <1>6, <1>7, <1>8, <1>9, <1>10 DEF Step

-----------------------------------------------------------------------------
(* A screen whose answers come in order catches up.                        *)

\* What one screen, of s, needs for its part of WillCatchUp.
CatchSoon(s) == asked[s].event > 0 \/ \E k \in 0..Len(answers[s]) : Settled(s, k)

\* A page of the messages there are is caught up with whatever was heard.
LEMMA NewPageCaughtUp ==
  ASSUME Shape, NEW s \in Sides
  PROVE  CaughtUp(s, Page(Len(messages), deleted))
<1>1. /\ heard[s].upto \in Nat /\ Len(messages) \in Nat /\ heard[s].upto <= Len(messages)
      /\ heard[s].gone \subseteq deleted
  <2>1. Len(messages) \in Nat
    BY DEF Shape, ConversationTypeOK
  <2> QED BY <2>1 DEF Shape, HeardOK
<1>2. Page(heard[s].upto, heard[s].gone) \ deleted \subseteq Page(Len(messages), deleted)
  BY <1>1, PageKeeps
<1>3. Page(Len(messages), deleted) \subseteq (1..Len(messages)) \ deleted
  BY <1>1, PageHolds
<1> QED BY <1>1, <1>2, <1>3 DEF CaughtUp

\* A page stays caught up, when messages are added or deleted.
LEMMA CaughtUpStays ==
  ASSUME Shape, NEW s \in Sides, NEW page, CaughtUp(s, page),
         heard'[s] = heard[s], deleted \subseteq deleted',
         \A i \in Ids : messages'[i] = messages[i]
  PROVE  CaughtUp(s, page)'
<1>1. heard[s].gone \subseteq Ids
  BY DEF Shape, HeardOK, ConversationTypeOK
<1>2. Page(heard'[s].upto, heard'[s].gone) \ deleted' \subseteq page
  BY DEF CaughtUp
<1>3. \A i \in heard'[s].gone : messages'[i] = Other(s) => i \notin page
  BY <1>1 DEF CaughtUp
<1> QED BY <1>2, <1>3 DEF CaughtUp

\* So does a screen that nothing reaches.
LEMMA CatchStays ==
  ASSUME Shape, WillCatchUp, NEW v \in screen, inOrder, heard[v].well,
         asked'[v].event = asked[v].event, answers'[v] = answers[v], shown'[v] = shown[v],
         heard'[v] = heard[v], deleted \subseteq deleted',
         \A i \in Ids : messages'[i] = messages[i]
  PROVE  CatchSoon(v)'
<1>0. v \in Sides
  BY DEF Shape, ConversationTypeOK
<1>1. CASE asked[v].event > 0
  BY <1>1 DEF CatchSoon
<1>2. CASE \E k \in 0..Len(answers[v]) : Settled(v, k)
  <2>1. PICK k \in 0..Len(answers[v]) : Settled(v, k)
    BY <1>2
  <2>2. ASSUME NEW page, CaughtUp(v, page) PROVE CaughtUp(v, page)'
    BY <1>0, <2>2, CaughtUpStays
  <2>3. PICK p : p = shown[v]
    OBVIOUS
  <2>4. CASE k = 0
    <3>1. CaughtUp(v, p)'
      BY <2>1, <2>2, <2>3, <2>4 DEF Settled
    <3>2. CaughtUp(v, shown[v])'
      BY <2>3, <3>1 DEF CaughtUp
    <3>3. ASSUME NEW i \in DOMAIN answers[v], i >= k, answers[v][i].kind # "own"
          PROVE  CaughtUp(v, answers[v][i].page)'
      <4>1. PICK q : q = answers[v][i].page
        OBVIOUS
      <4>2. CaughtUp(v, q)'
        BY <2>1, <2>2, <3>3, <4>1 DEF Settled
      <4> QED BY <4>1, <4>2 DEF CaughtUp
    <3>4. Settled(v, k)'
      BY <2>4, <3>2, <3>3 DEF Settled
    <3> QED BY <3>4 DEF CatchSoon
  <2>5. CASE k # 0
    <3>3. ASSUME NEW i \in DOMAIN answers[v], i >= k, answers[v][i].kind # "own"
          PROVE  CaughtUp(v, answers[v][i].page)'
      <4>1. PICK q : q = answers[v][i].page
        OBVIOUS
      <4>2. CaughtUp(v, q)'
        BY <2>1, <2>2, <3>3, <4>1 DEF Settled
      <4> QED BY <4>1, <4>2 DEF CaughtUp
    <3>4. Settled(v, k)'
      BY <2>1, <2>5, <3>3 DEF Settled
    <3> QED BY <3>4 DEF CatchSoon
  <2> QED BY <2>4, <2>5
<1> QED BY <1>1, <1>2 DEF WillCatchUp

\* A further answer that is caught up, or the sender's own, unsettles nothing.
LEMMA MoreAnswers ==
  ASSUME Shape, Shape', NEW v \in Sides, NEW k \in 0..Len(answers[v]), Settled(v, k),
         UNCHANGED <<messages, deleted, shown>>, heard'[v] = heard[v],
         Len(answers'[v]) = Len(answers[v]) + 1,
         \A i \in 1..Len(answers[v]) : answers'[v][i] = answers[v][i],
         NEW a, a = answers'[v][Len(answers[v]) + 1],
         a.kind = "own" \/ CaughtUp(v, a.page)
  PROVE  CatchSoon(v)'
<1>1. answers[v] \in Seq(Answers) /\ answers'[v] \in Seq(Answers)
  BY DEF Shape, ConversationTypeOK
<1>2. k \in 0..Len(answers'[v]) /\ k \in 0..Len(answers[v])
  BY <1>1
<1>3. IF k = 0 THEN CaughtUp(v, shown[v])' ELSE answers'[v][k].kind = "event"
  BY <1>1 DEF Settled, CaughtUp
<1>4. ASSUME NEW i \in DOMAIN answers'[v], i >= k, answers'[v][i].kind # "own"
      PROVE  CaughtUp(v, answers[v][i].page)'
  <2>1. CASE i \in DOMAIN answers[v]
    <3>1. answers'[v][i] = answers[v][i]
      BY <1>1, <2>1
    <3>2. CaughtUp(v, answers[v][i].page)
      BY <1>4, <2>1, <3>1 DEF Settled
    <3> QED BY <3>1, <3>2 DEF CaughtUp
  <2>2. CASE i \notin DOMAIN answers[v]
    <3>1. answers'[v][i] = a
      BY <1>1, <2>2
    <3>2. CaughtUp(v, a.page)
      BY <1>4, <3>1
    <3> QED BY <3>1, <3>2 DEF CaughtUp
  <2> QED BY <2>1, <2>2
<1>5. Settled(v, k)'
  BY <1>3, <1>4 DEF Settled
<1> QED BY <1>2, <1>5 DEF CatchSoon

LEMMA CatchStep ==
  ASSUME Shape, Shape', WillCatchUp, Next
  PROVE  WillCatchUp'
<1> USE DEF server, client
<1> SUFFICES ASSUME NEW v \in screen', inOrder', heard'[v].well
             PROVE  CatchSoon(v)'
  BY DEF WillCatchUp, CatchSoon
<1>0. inOrder /\ v \in Sides /\ Step /\ setting' = setting
  BY DEF Next, inOrder, Shape, ConversationTypeOK
<1>1. ASSUME NEW s, OpenConversation(s) \/ CreateConversation(s) \/ Connect(s) \/ Disconnect(s)
             \/ JoinConversationRoom(s) \/ CacheExpires(s) \/ Send(s) \/ PostFails(s)
      PROVE  CatchSoon(v)'
  <2>1. UNCHANGED <<messages, deleted, unread, screen, shown, asked, answers, marks, heard>>
    BY <1>0, <1>1, QuietSteps DEF Shape
  <2> QED BY <1>0, <2>1, CatchStays
<1>2. ASSUME NEW s \in Sides, OpenScreen(s) \/ CloseScreen(s) PROVE CatchSoon(v)'
  <2>1. /\ heard' = [heard EXCEPT ![s] = NothingHeard]
        /\ v # s => v \in screen
        /\ UNCHANGED <<messages, deleted, answers>>
        /\ shown' = [shown EXCEPT ![s] = {}]
    BY <1>2 DEF OpenScreen, CloseScreen
  <2>2. v # s /\ heard'[v] = heard[v]
    BY <1>0, <2>1 DEF Shape, ConversationTypeOK, NothingHeard
  <2>3. asked'[v] = asked[v] /\ shown'[v] = shown[v]
    BY <1>0, <1>2, <2>1, <2>2 DEF OpenScreen, CloseScreen, Shape, ConversationTypeOK
  <2> QED BY <1>0, <2>1, <2>2, <2>3, CatchStays
<1>3. ASSUME NEW s \in Sides, NEW kind \in {"load", "event"}, ListMessages(s, kind)
      PROVE  CatchSoon(v)'
  <2>1. UNCHANGED <<messages, deleted, unread, screen, shown, marks, heard>>
    BY <1>3 DEF ListMessages
  <2>2. PICK page : page = Page(Len(messages), deleted)
    OBVIOUS
  <2>3. page \in SUBSET Nat /\ CaughtUp(s, page)
    BY <2>2, PageIsSet, NewPageCaughtUp DEF Shape
  <2>4. PICK new \in Answers : new.kind = kind /\ new.page = page /\ Answer(s, new)
    BY <1>3, <2>2, <2>3 DEF ListMessages, Answers, Kinds
  <2>5. /\ \A u \in Sides : u # s => answers'[u] = answers[u]
        /\ Len(answers'[s]) = Len(answers[s]) + 1
        /\ \A i \in 1..Len(answers[s]) : answers'[s][i] = answers[s][i]
        /\ answers'[s][Len(answers[s]) + 1] = new
    BY <2>4, AnswerAdded DEF Shape
  <2>6. /\ \A u \in Sides : u # s => asked'[u] = asked[u]
        /\ kind = "load" => asked'[s].event = asked[s].event
    BY <1>3, AskedLess DEF ListMessages, Shape
  <2>7. answers[s] \in Seq(Answers) /\ answers'[s] \in Seq(Answers)
    BY DEF Shape, ConversationTypeOK
  <2>8. CASE v # s
    BY <1>0, <2>1, <2>5, <2>6, <2>8, CatchStays
  <2>9. CASE v = s /\ kind = "event"
    <3>1. PICK n : n = Len(answers[s]) + 1
      OBVIOUS
    <3>2. n \in 0..Len(answers'[v]) /\ n # 0 /\ answers'[v][n] = new
      BY <2>5, <2>7, <2>9, <3>1
    <3>3. ASSUME NEW i \in DOMAIN answers'[v], i >= n
          PROVE  CaughtUp(v, answers[v][i].page)'
      <4>1. i = n
        BY <2>5, <2>7, <2>9, <3>1, <3>3
      <4> QED BY <2>1, <2>3, <2>4, <2>9, <3>2, <4>1 DEF CaughtUp
    <3>4. Settled(v, n)'
      BY <2>4, <2>9, <3>2, <3>3 DEF Settled
    <3> QED BY <3>2, <3>4 DEF CatchSoon
  <2>10. CASE v = s /\ kind = "load"
    <3>1. CASE asked[v].event > 0
      BY <2>6, <2>10, <3>1 DEF CatchSoon
    <3>2. CASE ~(asked[v].event > 0)
      <4>1. PICK k \in 0..Len(answers[v]) : Settled(v, k)
        BY <1>0, <2>1, <3>2 DEF WillCatchUp
      <4> QED BY <1>0, <2>1, <2>3, <2>4, <2>5, <2>10, <4>1, MoreAnswers
    <3> QED BY <3>1, <3>2
  <2> QED BY <2>8, <2>9, <2>10
<1>4. ASSUME NEW s \in Sides, NEW i \in DOMAIN answers[s], Receive(s, i) PROVE CatchSoon(v)'
  <2>1. UNCHANGED <<messages, deleted, unread, screen, asked, heard>> /\ i = 1
    BY <1>0, <1>4 DEF Receive
  <2>2. /\ answers[s] \in Seq(Answers) /\ answers'[s] \in Seq(Answers)
        /\ shown \in [Sides -> SUBSET Nat]
    BY DEF Shape, ConversationTypeOK
  <2>3. i \in 1..Len(answers[s]) /\ Len(answers[s]) \in Nat
    BY <2>2
  <2>4. /\ \A u \in Sides : u # s => answers'[u] = answers[u]
        /\ Len(answers'[s]) = Len(answers[s]) - 1
        /\ \A j \in 1..(Len(answers[s]) - 1) : answers'[s][j] = answers[s][j + 1]
    <3>1. /\ \A u \in Sides : u # s => answers'[u] = answers[u]
          /\ Len(answers'[s]) = Len(answers[s]) - 1
          /\ \A j \in 1..(Len(answers[s]) - 1) :
               answers'[s][j] = IF j < i THEN answers[s][j] ELSE answers[s][j + 1]
      BY <1>4, <2>3, AnswerGone DEF Shape, Receive
    <3>2. \A j \in 1..(Len(answers[s]) - 1) : ~(j < i)
      BY <2>1
    <3> QED BY <3>1, <3>2
  <2>5. PICK a : a = answers[s][1]
    OBVIOUS
  <2>6. /\ \A u \in Sides : u # s => shown'[u] = shown[u]
        /\ s \in screen =>
             shown'[s] = CASE a.kind = "own"                     -> shown[s] \cup a.page
                           [] a.kind = "load" /\ app[s] = "web" -> shown[s]
                           [] OTHER                              -> a.page
    BY <1>4, <2>1, <2>2, <2>5 DEF Receive
  <2>7. CASE v # s
    BY <1>0, <2>1, <2>4, <2>6, <2>7, CatchStays
  <2>8. CASE v = s
    <3>1. CASE asked[v].event > 0
      BY <2>1, <3>1 DEF CatchSoon
    <3>2. CASE ~(asked[v].event > 0)
      <4>1. PICK k \in 0..Len(answers[v]) : Settled(v, k)
        BY <1>0, <2>1, <3>2 DEF WillCatchUp
      <4>2. PICK n : n = IF k = 0 THEN 0 ELSE k - 1
        OBVIOUS
      <4>3. n \in 0..Len(answers'[v])
        BY <2>3, <2>4, <2>8, <4>2
      <4>4. n # 0 => answers'[v][n].kind = "event"
        <5> SUFFICES ASSUME n # 0 PROVE answers'[v][n].kind = "event"
          OBVIOUS
        <5>1. k > 1 /\ n = k - 1 /\ n \in 1..(Len(answers[s]) - 1) /\ n + 1 = k
          BY <2>3, <2>8, <4>2
        <5> QED BY <2>4, <2>8, <4>1, <5>1 DEF Settled
      <4>5. ASSUME NEW j \in DOMAIN answers'[v], j >= n, answers'[v][j].kind # "own"
            PROVE  CaughtUp(v, answers[v][j].page)'
        <5>1. j \in 1..(Len(answers[s]) - 1) /\ j + 1 >= k /\ j + 1 \in DOMAIN answers[s]
          BY <2>2, <2>3, <2>4, <2>8, <4>2, <4>5
        <5>2. answers'[v][j] = answers[v][j + 1]
          BY <2>4, <2>8, <5>1
        <5>3. CaughtUp(v, answers[v][j + 1].page)
          BY <2>8, <4>1, <4>5, <5>1, <5>2 DEF Settled
        <5> QED BY <2>1, <5>2, <5>3 DEF CaughtUp
      <4>6. n = 0 => CaughtUp(v, shown'[v])
        <5> SUFFICES ASSUME n = 0 PROVE CaughtUp(v, shown'[v])
          OBVIOUS
        <5>1. k = 0 \/ k = 1
          BY <2>3, <4>2
        <5>2. k = 0 => CaughtUp(v, shown[v])
          BY <4>1 DEF Settled
        <5>3. k = 1 => a.kind = "event"
          BY <2>5, <2>8, <4>1 DEF Settled
        <5>4. a.kind # "own" => CaughtUp(v, a.page)
          BY <2>1, <2>5, <2>8, <4>1, <5>1 DEF Settled
        <5>5. CASE a.kind = "own"
          <6>1. k = 0
            BY <5>1, <5>3, <5>5
          <6>2. shown'[v] = shown[v] \cup a.page
            BY <2>1, <2>6, <2>8, <5>5
          <6>3. \A m \in a.page : messages[m] = v
            BY <2>1, <2>5, <2>8, <5>5 DEF Shape, OwnMessages
          <6>4. v # Other(v)
            BY <1>0 DEF Sides, Other
          <6> QED BY <5>2, <6>1, <6>2, <6>3, <6>4 DEF CaughtUp
        <5>6. CASE a.kind = "load" /\ app[s] = "web"
          <6>1. k = 0 /\ shown'[v] = shown[v]
            BY <2>1, <2>6, <2>8, <5>1, <5>3, <5>6
          <6> QED BY <5>2, <6>1
        <5>7. CASE a.kind # "own" /\ ~(a.kind = "load" /\ app[s] = "web")
          <6>1. shown'[v] = a.page
            BY <2>1, <2>6, <2>8, <5>7
          <6> QED BY <5>4, <5>7, <6>1
        <5> QED BY <5>5, <5>6, <5>7
      <4>7. n = 0 => CaughtUp(v, shown[v])'
        BY <2>1, <4>6 DEF CaughtUp
      <4>8. Settled(v, n)'
        BY <4>4, <4>5, <4>7 DEF Settled
      <4> QED BY <4>3, <4>8 DEF CatchSoon
    <3> QED BY <3>1, <3>2
  <2> QED BY <2>7, <2>8
<1>5. ASSUME NEW s \in Sides, NEW kind \in {"load", "event"}, GetFails(s, kind)
      PROVE  CatchSoon(v)'
  <2>1. /\ UNCHANGED <<messages, deleted, shown, screen, answers>>
        /\ heard' = [heard EXCEPT ![s].well = FALSE]
    BY <1>5 DEF GetFails
  <2>2. v # s /\ heard'[v] = heard[v]
    BY <1>0, <2>1 DEF Shape, ConversationTypeOK, Heard
  <2>3. asked'[v] = asked[v]
    BY <1>0, <1>5, <2>2, AskedLess DEF GetFails, Shape
  <2> QED BY <1>0, <2>1, <2>2, <2>3, CatchStays
<1>6. ASSUME NEW s \in Sides, MarkAsRead(s) PROVE CatchSoon(v)'
  <2>1. UNCHANGED <<messages, deleted, screen, shown, answers, asked, heard>>
    BY <1>6 DEF MarkAsRead
  <2> QED BY <1>0, <2>1, CatchStays
<1>7. ASSUME NEW s \in Sides, MarkFails(s) PROVE CatchSoon(v)'
  <2>1. /\ UNCHANGED <<messages, deleted, shown, screen, answers, asked>>
        /\ heard' = [heard EXCEPT ![s].well = FALSE]
    BY <1>7 DEF MarkFails
  <2>2. v # s /\ heard'[v] = heard[v]
    BY <1>0, <2>1 DEF Shape, ConversationTypeOK, Heard
  <2> QED BY <1>0, <2>1, <2>2, CatchStays
<1>8. ASSUME NEW s \in Sides, CreateMessage(s) PROVE CatchSoon(v)'
  <2>1. UNCHANGED <<deleted, screen, shown, asked, answers, marks, heard>>
    BY <1>8 DEF CreateMessage
  <2>2. \A i \in Ids : messages'[i] = messages[i]
    BY <1>8, MessageAdded DEF Shape, CreateMessage
  <2> QED BY <1>0, <2>1, <2>2, CatchStays
<1>9. ASSUME NEW s \in Sides, Emit(s) PROVE CatchSoon(v)'
  <2>1. UNCHANGED <<messages, deleted, unread, screen, shown, marks>> /\ Announce(s)
    BY <1>9 DEF Emit
  <2>2. CASE asked'[v].event > 0
    BY <2>2 DEF CatchSoon
  <2>3. CASE asked'[v].event = asked[v].event /\ heard'[v] = heard[v] /\ ~(asked'[v].event > 0)
    <3>1. CASE answers'[v] = answers[v]
      BY <1>0, <2>1, <2>3, <3>1, CatchStays
    <3>2. CASE answers'[v] # answers[v]
      <4>1. /\ Len(answers'[v]) = Len(answers[v]) + 1
            /\ \A i \in 1..Len(answers[v]) : answers'[v][i] = answers[v][i]
            /\ answers'[v][Len(answers[v]) + 1].kind = "own"
        BY <1>0, <1>9, <3>2, EmitAnswers
      <4>2. PICK k \in 0..Len(answers[v]) : Settled(v, k)
        BY <1>0, <2>1, <2>3 DEF WillCatchUp
      <4>3. PICK a : a = answers'[v][Len(answers[v]) + 1]
        OBVIOUS
      <4> QED BY <1>0, <2>1, <2>3, <4>1, <4>2, <4>3, MoreAnswers
    <3> QED BY <3>1, <3>2
  <2> QED BY <1>0, <2>1, <2>2, <2>3, Announced DEF Shape
<1>10. ASSUME NEW m \in Ids, DeleteMessage(m) PROVE CatchSoon(v)'
  <2>1. UNCHANGED <<messages, screen, shown, asked, answers, heard>> /\ deleted \subseteq deleted'
    BY <1>10 DEF DeleteMessage
  <2> QED BY <1>0, <2>1, CatchStays
<1> QED BY <1>0, <1>1, <1>2, <1>3, <1>4, <1>5, <1>6, <1>7, <1>8, <1>9, <1>10 DEF Step

-----------------------------------------------------------------------------
(* The theorems.                                                           *)

LEMMA ShapeStep == Shape /\ Next => Shape'
<1> SUFFICES ASSUME Shape, Next PROVE Shape'
  OBVIOUS
<1>0. Step /\ setting' = setting
  BY DEF Next
<1>1. ASSUME NEW s, OpenConversation(s) \/ CreateConversation(s) \/ Connect(s) \/ Disconnect(s)
             \/ JoinConversationRoom(s) \/ CacheExpires(s) \/ Send(s) \/ PostFails(s)
      PROVE  Shape'
  BY <1>0, <1>1, QuietSteps, ShapeOfQuiet DEF Shape
<1> QED BY <1>0, <1>1, ShapeOfScreen, ShapeOfList, ShapeOfReceive, ShapeOfFailure,
     ShapeOfCreate, ShapeOfEmit, ShapeOfDelete DEF Step

LEMMA ConversationStep == ConversationInv /\ [Next]_vars => ConversationInv'
<1> SUFFICES ASSUME ConversationInv, [Next]_vars PROVE ConversationInv'
  OBVIOUS
<1>1. CASE Next
  BY <1>1, ShapeStep, CatchStep, ReadStep DEF ConversationInv
<1>2. CASE UNCHANGED vars
  <2>1. UNCHANGED <<messages, deleted, unread, post, screen, shown, asked, answers, marks,
                    heard, setting>>
    BY <1>2 DEF vars, server, client
  <2>2. Shape'
    BY <2>1, ShapeOfQuiet DEF ConversationInv, Shape, ConversationTypeOK
  <2>3. WillCatchUp'
    <3> SUFFICES ASSUME NEW v \in screen, inOrder, heard[v].well PROVE CatchSoon(v)'
      BY <2>1 DEF WillCatchUp, CatchSoon, inOrder
    <3> QED BY <2>1, CatchStays DEF ConversationInv
  <2>4. WillBeRead'
    <3> SUFFICES ASSUME NEW v \in screen, app[v] = "mobile", heard[v].well PROVE ReadSoon(v)'
      BY <2>1 DEF WillBeRead, ReadSoon, app
    <3> QED BY <2>1, ReadStays DEF ConversationInv
  <2> QED BY <2>2, <2>3, <2>4 DEF ConversationInv
<1> QED BY <1>1, <1>2

\* Of a screen that makes no call and has no answers under way.
LEMMA Settling ==
  ASSUME Shape, NEW s \in Sides, ~Calling(s)
  PROVE  asked[s].event = 0 /\ answers[s] = <<>> /\ marks[s] = 0
BY DEF Calling, NothingAsked, Shape, ConversationTypeOK

-----------------------------------------------------------------------------
(* The walk through a listing.                                             *)

AnyRow == [at : Nat, mine : BOOLEAN, column : BOOLEAN, key : Nat]
AnyList == L!ByTime \cup L!Feeds \cup {"audit"}

\* The listings whose cursor follows their order.
Followed == list \notin L!Sorted

ListingTypeOK ==
  /\ list \in AnyList
  /\ DOMAIN rows \subseteq Uuids /\ rows = [i \in DOMAIN rows |-> rows[i]]
  /\ \A i \in DOMAIN rows : rows[i] \in AnyRow
  /\ walk \in [begun : BOOLEAN, pages : Seq(SUBSET DOMAIN rows), ends : SUBSET DOMAIN rows,
               at : {0} \cup DOMAIN rows, starts : Nat]
  /\ walk.begun \/ (walk.pages = <<>> /\ walk.at = 0)
  /\ steady \subseteq L!Matching

\* Every row shown stands before the cursor, or is the cursor.
CursorIsLast ==
  Followed /\ walk.at # 0 => \A i \in L!ShownRows : i = walk.at \/ L!Before(i, walk.at)

Skipped(i) ==
  /\ list \in L!ByTime
  /\ \E last \in walk.ends : i # last /\ L!Milli(rows[i].at) = L!Milli(rows[last].at)

\* A row that matched all along was shown, is still to come, or was skipped.
SteadyStays ==
  Followed /\ walk.begun =>
    \A i \in steady \ L!ShownRows : Skipped(i) \/ (walk.at # 0 /\ L!After(i, walk.at))

ListingInv == ListingTypeOK /\ CursorIsLast /\ L!NoneTwice /\ SteadyStays

\* toISOString keeps the order of times, and never goes ahead of them.
LEMMA MilliIsFloor ==
  ASSUME NEW t \in Nat, NEW u \in Nat
  PROVE  /\ L!Milli(t) \in Nat /\ L!Milli(t) <= t /\ t <= L!Milli(t) + 1
         /\ L!Milli(L!Milli(t)) = L!Milli(t)
         /\ t <= u => L!Milli(t) <= L!Milli(u)
  BY DEF L!Milli

\* The times a listing compares.
LEMMA TimesAreNumbers ==
  ASSUME ListingTypeOK, NEW i \in DOMAIN rows
  PROVE  /\ L!Time(i) \in Nat /\ i \in Nat \ {0}
         /\ list \in L!ByTime => L!Time(i) = rows[i].at
         /\ list \notin L!ByTime /\ list # "audit" => L!Milli(L!Time(i)) = L!Time(i)
<1>1. rows[i].at \in Nat
  BY DEF ListingTypeOK, AnyRow
<1>2. i \in Nat \ {0}
  BY PageAssumption DEF ListingTypeOK, L!ListingAssumption
<1>3. CASE list \in L!Feeds
  BY <1>1, <1>2, <1>3, MilliIsFloor DEF L!Time, L!ByTime, L!Feeds, L!Sorted
<1>4. CASE list \notin L!Feeds
  BY <1>1, <1>2, <1>4 DEF L!Time, ListingTypeOK, AnyList
<1> QED BY <1>3, <1>4

\* The order of the listings whose cursor follows it.
LEMMA OrderIs ==
  ASSUME Followed, NEW i, NEW j
  PROVE  L!Before(i, j) <=> IF list = "audit" THEN i > j ELSE L!Newer(i, j)
<1>1. CASE list = "audit"
  BY <1>1 DEF L!Before
<1>2. CASE list # "audit"
  BY <1>2 DEF L!Before, L!Sorted, Followed
<1> QED BY <1>1, <1>2

\* What a cursor leaves behind: nothing shown comes again, and what it admits comes after
\* all that was shown.
LEMMA CursorMovesOn ==
  ASSUME ListingTypeOK, Followed, NEW i \in DOMAIN rows, NEW last \in DOMAIN rows,
         i = last \/ L!Before(i, last)
  PROVE  /\ ~L!After(i, last)
         /\ \A j \in DOMAIN rows : L!After(j, last) => L!Before(i, j)
<1>1. i \in Nat /\ last \in Nat /\ L!Time(i) \in Nat /\ L!Time(last) \in Nat
  BY TimesAreNumbers
<1>2. PICK m \in Nat : m = L!Milli(L!Time(last)) /\ m <= L!Time(last)
  BY <1>1, MilliIsFloor
<1>3. CASE list = "audit"
  BY <1>1, <1>3, OrderIs, TimesAreNumbers DEF L!After
<1>4. CASE list # "audit"
  <2>1. L!Time(i) > L!Time(last) \/ (L!Time(i) = L!Time(last) /\ i <= last)
    BY <1>1, <1>4, OrderIs DEF L!Newer
  <2>2. ~L!After(i, last)
    BY <1>1, <1>2, <1>4, <2>1 DEF L!After
  <2>3. ASSUME NEW j \in DOMAIN rows, L!After(j, last) PROVE L!Before(i, j)
    <3>1. j \in Nat /\ L!Time(j) \in Nat
      BY TimesAreNumbers
    <3>2. L!Time(j) < m \/ (L!Time(j) = m /\ j > last)
      BY <1>2, <1>4, <2>3 DEF L!After
    <3>3. L!Newer(i, j)
      BY <1>1, <1>2, <2>1, <3>1, <3>2 DEF L!Newer
    <3> QED BY <1>4, <3>3, OrderIs
  <2> QED BY <2>2, <2>3
<1> QED BY <1>3, <1>4

\* And what it loses: rows of its own millisecond.
LEMMA CursorSkips ==
  ASSUME ListingTypeOK, Followed, NEW i \in DOMAIN rows, NEW last \in DOMAIN rows,
         L!Before(last, i)
  PROVE  \/ L!After(i, last)
         \/ list \in L!ByTime /\ i # last /\ L!Milli(rows[i].at) = L!Milli(rows[last].at)
<1>1. i \in Nat /\ last \in Nat /\ L!Time(i) \in Nat /\ L!Time(last) \in Nat
  BY TimesAreNumbers
<1>2. CASE list = "audit"
  BY <1>1, <1>2, OrderIs DEF L!After
<1>3. CASE list # "audit" /\ list \notin L!ByTime
  <2>1. L!Milli(L!Time(last)) = L!Time(last)
    BY <1>3, TimesAreNumbers
  <2>2. L!Newer(last, i)
    BY <1>3, OrderIs
  <2> QED BY <1>1, <1>3, <2>1, <2>2 DEF L!After, L!Newer
<1>4. CASE list # "audit" /\ list \in L!ByTime
  <2>1. L!Time(i) = rows[i].at /\ L!Time(last) = rows[last].at
    BY <1>4, TimesAreNumbers
  <2>2. L!Newer(last, i)
    BY <1>4, OrderIs
  <2>3. PICK m \in Nat : m = L!Milli(L!Time(last)) /\ L!Time(last) <= m + 1 /\ L!Milli(m) = m
    BY <1>1, MilliIsFloor
  <2>4. CASE L!After(i, last)
    BY <2>4
  <2>5. CASE ~L!After(i, last)
    <3>1. m <= L!Time(i) /\ L!Time(i) <= L!Time(last) /\ i # last
      BY <1>1, <1>4, <2>2, <2>3, <2>5 DEF L!After, L!Newer
    <3>2. L!Milli(L!Time(i)) = m
      <4>1. m <= L!Milli(L!Time(i)) /\ L!Milli(L!Time(i)) <= m /\ L!Milli(L!Time(i)) \in Nat
        BY <1>1, <2>3, <3>1, MilliIsFloor
      <4> QED BY <4>1
    <3> QED BY <1>4, <2>1, <2>3, <3>1, <3>2
  <2> QED BY <2>4, <2>5
<1> QED BY <1>2, <1>3, <1>4

\* What matches is in the table.
LEMMA MatchingIsRows ==
  ASSUME list \in AnyList
  PROVE  L!Matching \subseteq DOMAIN rows
<1>1. CASE list = "notifications"
  BY <1>1 DEF L!Matching, L!FindNotificationsByUser, L!Feeds, L!Sorted
<1>2. CASE list = "users"
  BY <1>2 DEF L!Matching, L!ListUsers, L!Feeds, L!Sorted
<1>3. CASE list = "jobs"
  BY <1>3 DEF L!Matching, L!ListJobsAdmin, L!Feeds, L!Sorted
<1>4. CASE list = "myJobs"
  BY <1>4 DEF L!Matching, L!FindJobsByCustomer, L!Feeds, L!Sorted
<1>5. CASE list = "reports"
  BY <1>5 DEF L!Matching, L!ListReports, L!Feeds, L!Sorted
<1>6. CASE list = "userDisputes"
  BY <1>6 DEF L!Matching, L!FindDisputesByUser, L!Feeds, L!Sorted
<1>7. CASE list = "disputes"
  BY <1>7 DEF L!Matching, L!FindAllDisputes, L!Feeds, L!Sorted
<1>8. CASE list = "reviews"
  BY <1>8 DEF L!Matching, L!FindReviewsByProvider, L!Feeds, L!Sorted
<1>9. CASE list = "myVerifications"
  BY <1>9 DEF L!Matching, L!ListByProvider, L!Feeds, L!Sorted
<1>10. CASE list = "verifications"
  BY <1>10 DEF L!Matching, L!ListAll, L!Feeds, L!Sorted
<1>11. CASE list = "audit"
  BY <1>11 DEF L!Matching, L!ListAuditLogs, L!Feeds, L!Sorted
<1>12. CASE list \in L!Feeds
  BY <1>12 DEF L!Matching, L!FindProviderFeed, L!Feeds, L!Sorted
<1> QED BY <1>1, <1>2, <1>3, <1>4, <1>5, <1>6, <1>7, <1>8, <1>9, <1>10, <1>11, <1>12
        DEF AnyList, L!ByTime

\* It goes on matching while its row is what it was.
LEMMA MatchingIsKept ==
  ASSUME list \in AnyList, UNCHANGED <<list, wanted>>,
         \A i \in DOMAIN rows : i \in DOMAIN rows' /\ rows'[i] = rows[i]
  PROVE  L!Matching \subseteq L!Matching'
<1>1. CASE list = "notifications"
  BY <1>1 DEF L!Matching, L!FindNotificationsByUser, L!Feeds, L!Sorted
<1>2. CASE list = "users"
  BY <1>2 DEF L!Matching, L!ListUsers, L!Feeds, L!Sorted
<1>3. CASE list = "jobs"
  BY <1>3 DEF L!Matching, L!ListJobsAdmin, L!Feeds, L!Sorted
<1>4. CASE list = "myJobs"
  BY <1>4 DEF L!Matching, L!FindJobsByCustomer, L!Feeds, L!Sorted
<1>5. CASE list = "reports"
  BY <1>5 DEF L!Matching, L!ListReports, L!Feeds, L!Sorted
<1>6. CASE list = "userDisputes"
  BY <1>6 DEF L!Matching, L!FindDisputesByUser, L!Feeds, L!Sorted
<1>7. CASE list = "disputes"
  BY <1>7 DEF L!Matching, L!FindAllDisputes, L!Feeds, L!Sorted
<1>8. CASE list = "reviews"
  BY <1>8 DEF L!Matching, L!FindReviewsByProvider, L!Feeds, L!Sorted
<1>9. CASE list = "myVerifications"
  BY <1>9 DEF L!Matching, L!ListByProvider, L!Feeds, L!Sorted
<1>10. CASE list = "verifications"
  BY <1>10 DEF L!Matching, L!ListAll, L!Feeds, L!Sorted
<1>11. CASE list = "audit"
  BY <1>11 DEF L!Matching, L!ListAuditLogs, L!Feeds, L!Sorted
<1>12. CASE list \in L!Feeds
  BY <1>12 DEF L!Matching, L!FindProviderFeed, L!Feeds, L!Sorted
<1> QED BY <1>1, <1>2, <1>3, <1>4, <1>5, <1>6, <1>7, <1>8, <1>9, <1>10, <1>11, <1>12
        DEF AnyList, L!ByTime

\* A page turned adds its rows to those shown.
LEMMA PageIsShown ==
  ASSUME ListingTypeOK, NEW page \in SUBSET DOMAIN rows, NEW last \in {0} \cup DOMAIN rows,
         L!Turn(page, last)
  PROVE  /\ walk'.pages \in Seq(SUBSET DOMAIN rows) /\ walk'.begun /\ walk'.at = last
         /\ walk'.ends = walk.ends \cup ({last} \ {0})
         /\ walk' \in [begun : BOOLEAN, pages : Seq(SUBSET DOMAIN rows), ends : SUBSET DOMAIN rows,
                       at : {0} \cup DOMAIN rows, starts : Nat]
         /\ DOMAIN walk'.pages = DOMAIN walk.pages \cup {Len(walk.pages) + 1}
         /\ Len(walk.pages) + 1 \notin DOMAIN walk.pages
         /\ walk'.pages[Len(walk.pages) + 1] = page
         /\ \A n \in DOMAIN walk.pages : walk'.pages[n] = walk.pages[n]
         /\ L!ShownRows' = L!ShownRows \cup page
<1>1. PICK pages \in Seq(SUBSET DOMAIN rows) : pages = walk.pages
  BY DEF ListingTypeOK
<1>2. walk' = [begun |-> TRUE, pages |-> Append(pages, page), ends |-> walk.ends \cup ({last} \ {0}),
               at |-> last, starts |-> walk.starts]
  BY <1>1 DEF L!Turn
<1>3. /\ Append(pages, page) \in Seq(SUBSET DOMAIN rows)
      /\ Len(pages) \in Nat /\ DOMAIN pages = 1..Len(pages)
      /\ DOMAIN Append(pages, page) = 1..(Len(pages) + 1)
      /\ Append(pages, page)[Len(pages) + 1] = page
      /\ \A n \in 1..Len(pages) : Append(pages, page)[n] = pages[n]
  BY <1>1
<1>4. walk'.pages = Append(pages, page) /\ walk'.begun /\ walk'.at = last
      /\ walk'.ends = walk.ends \cup ({last} \ {0})
  BY <1>2
<1>5. walk.ends \in SUBSET DOMAIN rows /\ walk.starts \in Nat
  BY DEF ListingTypeOK
<1>6. walk' \in [begun : BOOLEAN, pages : Seq(SUBSET DOMAIN rows), ends : SUBSET DOMAIN rows,
                 at : {0} \cup DOMAIN rows, starts : Nat]
  BY <1>2, <1>3, <1>5
<1>7. 1..(Len(pages) + 1) = (1..Len(pages)) \cup {Len(pages) + 1} /\ Len(pages) + 1 \notin 1..Len(pages)
  BY <1>3
<1>8. L!ShownRows' = L!ShownRows \cup page
  <2>1. L!ShownRows' = UNION {Append(pages, page)[n] : n \in (1..Len(pages)) \cup {Len(pages) + 1}}
    BY <1>3, <1>4, <1>7 DEF L!ShownRows
  <2>2. L!ShownRows = UNION {pages[n] : n \in 1..Len(pages)}
    BY <1>1, <1>3 DEF L!ShownRows
  <2> QED BY <1>3, <2>1, <2>2
<1> QED BY <1>1, <1>3, <1>4, <1>6, <1>7, <1>8

\* Turning a page: from the beginning, or from the cursor on.
LEMMA WalkGoesOn ==
  ASSUME ListingInv, NEW is \in SUBSET DOMAIN rows, L!Answer(is),
         UNCHANGED <<rows, list, wanted>>,
         steady' \subseteq L!Matching,
         Followed /\ ~walk.begun => steady' \subseteq is,
         Followed /\ walk.begun =>
           /\ steady' = steady /\ walk.at # 0
           /\ is = {i \in L!Matching : L!After(i, walk.at)}
  PROVE  ListingInv'
<1>1. PICK page \in SUBSET is, last \in is \cup {0} :
        /\ L!IsPage(page, is) /\ (IF page = is THEN last = 0 ELSE L!IsLast(last, page))
        /\ L!Turn(page, last)
  BY DEF L!Answer
<1>2. page \in SUBSET DOMAIN rows /\ last \in {0} \cup DOMAIN rows
  BY <1>1
<1>3. /\ walk'.begun /\ walk'.at = last /\ walk'.ends = walk.ends \cup ({last} \ {0})
      /\ walk' \in [begun : BOOLEAN, pages : Seq(SUBSET DOMAIN rows), ends : SUBSET DOMAIN rows,
                    at : {0} \cup DOMAIN rows, starts : Nat]
      /\ L!ShownRows' = L!ShownRows \cup page
  BY <1>1, <1>2, PageIsShown DEF ListingInv
<1>4. \A i, j : (L!Before(i, j)' <=> L!Before(i, j)) /\ (L!After(i, j)' <=> L!After(i, j))
  BY DEF L!Before, L!After, L!Newer, L!Time
<1>5. L!Matching' = L!Matching
  BY DEF L!Matching, L!FindNotificationsByUser, L!ListUsers, L!ListJobsAdmin, L!FindJobsByCustomer,
         L!ListReports, L!FindDisputesByUser, L!FindAllDisputes, L!FindReviewsByProvider,
         L!ListByProvider, L!ListAll, L!ListAuditLogs, L!FindProviderFeed
<1>6. ListingTypeOK'
  BY <1>3, <1>5 DEF ListingInv, ListingTypeOK
<1>7. 0 \notin DOMAIN rows
  BY PageAssumption DEF ListingInv, ListingTypeOK, L!ListingAssumption
<1>8. page # is => /\ last # 0 /\ last \in page
                   /\ \A i \in page : i = last \/ L!Before(i, last)
                   /\ \A j \in is \ page : L!Before(last, j)
  BY <1>1, <1>2, <1>7 DEF L!IsLast, L!IsPage
<1>9. ~walk.begun => L!ShownRows = {} /\ walk.pages = <<>>
  BY DEF ListingInv, ListingTypeOK, L!ShownRows
<1>10. L!ShownRows \subseteq DOMAIN rows
  BY DEF ListingInv, ListingTypeOK, L!ShownRows
<1>11. ASSUME Followed, walk.begun PROVE \A i \in L!ShownRows : i \notin is /\ \A j \in is : L!Before(i, j)
  <2>1. walk.at \in DOMAIN rows /\ walk.at # 0
    BY <1>11 DEF ListingInv, ListingTypeOK
  <2> QED BY <1>10, <1>11, <2>1, CursorMovesOn DEF ListingInv, CursorIsLast
<1>12. CursorIsLast'
  <2> SUFFICES ASSUME Followed, last # 0, NEW i \in L!ShownRows \cup page
               PROVE  i = last \/ L!Before(i, last)
    BY <1>3, <1>4 DEF CursorIsLast, Followed
  <2>1. page # is
    BY <1>1
  <2> QED BY <1>8, <1>9, <1>11, <2>1
<1>13. L!NoneTwice'
  <2>1. PICK before : before = walk.pages
    OBVIOUS
  <2>2. PICK pages : pages = walk'.pages
    OBVIOUS
  <2>3. /\ DOMAIN pages = DOMAIN before \cup {Len(before) + 1} /\ Len(before) + 1 \notin DOMAIN before
        /\ pages[Len(before) + 1] = page /\ \A n \in DOMAIN before : pages[n] = before[n]
    BY <1>1, <1>2, <2>1, <2>2, PageIsShown DEF ListingInv
  <2>4. Followed => \A n \in DOMAIN before : before[n] \cap page = {}
    BY <1>9, <1>11, <2>1 DEF L!ShownRows
  <2>5. Followed => \A m, n \in DOMAIN pages : m # n => pages[m] \cap pages[n] = {}
    BY <2>1, <2>3, <2>4 DEF ListingInv, L!NoneTwice, Followed
  <2> QED BY <2>2, <2>5 DEF L!NoneTwice, Followed
<1>14. SteadyStays'
  <2> SUFFICES ASSUME Followed, NEW i \in steady', i \notin L!ShownRows, i \notin page
               PROVE  Skipped(i)' \/ (last # 0 /\ L!After(i, last))
    BY <1>3, <1>4 DEF SteadyStays, Followed
  <2>1. CASE i \in is
    <3>1. page # is /\ last \in DOMAIN rows /\ last # 0 /\ L!Before(last, i) /\ i \in DOMAIN rows
      BY <1>2, <1>8, <2>1
    <3>2. L!After(i, last)
          \/ (list \in L!ByTime /\ i # last /\ L!Milli(rows[i].at) = L!Milli(rows[last].at))
      BY <3>1, CursorSkips DEF ListingInv
    <3> QED BY <1>3, <3>1, <3>2 DEF Skipped
  <2>2. CASE i \notin is
    <3>1. walk.begun /\ i \in steady /\ i \in L!Matching /\ ~L!After(i, walk.at)
      BY <2>2
    <3>2. Skipped(i)
      BY <3>1 DEF ListingInv, SteadyStays
    <3> QED BY <1>3, <3>2 DEF Skipped
  <2> QED BY <2>1, <2>2
<1> QED BY <1>6, <1>12, <1>13, <1>14 DEF ListingInv

\* What Row offers is a row.
LEMMA AnyRowsAre == L!ListingAssumption => L!Row \subseteq AnyRow
<1> SUFFICES ASSUME L!ListingAssumption, NEW r \in L!Row PROVE r \in AnyRow
  OBVIOUS
<1>1. r \in L!Columns
  BY DEF L!Row
<1>2. 0..MaxTime \subseteq Nat /\ 1..2 \subseteq Nat /\ {1} \subseteq Nat /\ {TRUE} \subseteq BOOLEAN
  BY DEF L!ListingAssumption
<1> QED BY <1>1, <1>2 DEF L!Columns, AnyRow

\* The listings start right.
LEMMA ListingStart == L!Init => ListingInv
<1> SUFFICES ASSUME L!Init PROVE ListingInv
  OBVIOUS
<1>1. list \in AnyList
  BY PageAssumption DEF L!Init, L!ListingAssumption, AnyList
<1>2. PICK is \in SUBSET Uuids : rows \in [is -> L!Row]
  BY DEF L!Init
<1>3. L!Row \subseteq AnyRow
  BY PageAssumption, AnyRowsAre
<1>4. DOMAIN rows = is /\ rows = [i \in is |-> rows[i]] /\ \A i \in is : rows[i] \in AnyRow
  BY <1>2, <1>3
<1>5. walk = [begun |-> FALSE, pages |-> <<>>, ends |-> {}, at |-> 0, starts |-> 0] /\ steady = {}
  BY DEF L!Init, L!NoWalk
<1>6. walk \in [begun : BOOLEAN, pages : Seq(SUBSET DOMAIN rows), ends : SUBSET DOMAIN rows,
               at : {0} \cup DOMAIN rows, starts : Nat]
  BY <1>5
<1>7. ListingTypeOK
  BY <1>1, <1>4, <1>5, <1>6 DEF ListingTypeOK
<1> QED BY <1>5, <1>7 DEF ListingInv, CursorIsLast, L!NoneTwice, SteadyStays

\* A walk starts over: nothing is shown.
LEMMA WalkStartsOver ==
  ASSUME ListingInv, L!StartOver
  PROVE  ListingInv'
<1>1. PICK starts \in Nat : starts = walk.starts + 1
  BY DEF ListingInv, ListingTypeOK
<1>2. walk' = [begun |-> FALSE, pages |-> <<>>, ends |-> {}, at |-> 0, starts |-> starts] /\ steady' = {}
  BY <1>1 DEF L!StartOver, L!NoWalk
<1>3. rows' = rows /\ list' \in AnyList
  <2>1. CASE list \in L!Feeds
    BY <2>1 DEF L!StartOver, AnyList
  <2>2. CASE list \notin L!Feeds
    BY <2>2 DEF L!StartOver, ListingInv, ListingTypeOK
  <2> QED BY <2>1, <2>2
<1>4. walk' \in [begun : BOOLEAN, pages : Seq(SUBSET DOMAIN rows'), ends : SUBSET DOMAIN rows',
                at : {0} \cup DOMAIN rows', starts : Nat]
  BY <1>2
<1>5. walk'.pages = <<>> /\ walk'.at = 0 /\ ~walk'.begun
  BY <1>2
<1>6. ListingTypeOK'
  BY <1>2, <1>3, <1>4, <1>5 DEF ListingInv, ListingTypeOK
<1> QED BY <1>5, <1>6 DEF ListingInv, CursorIsLast, L!NoneTwice, SteadyStays

\* Rows may come, and columns change, without what was shown or skipped moving.
LEMMA WalkIsKept ==
  ASSUME ListingInv, UNCHANGED <<list, walk>>,
         DOMAIN rows \subseteq DOMAIN rows', DOMAIN rows' \subseteq Uuids,
         rows' = [i \in DOMAIN rows' |-> rows'[i]],
         \A i \in DOMAIN rows' : rows'[i] \in AnyRow,
         \A i \in DOMAIN rows : rows'[i].at = rows[i].at /\ rows'[i].key = rows[i].key,
         steady' \subseteq steady, steady' \subseteq L!Matching'
  PROVE  ListingInv'
<1>1. ListingTypeOK'
  <2>1. Seq(SUBSET DOMAIN rows) \subseteq Seq(SUBSET DOMAIN rows')
    OBVIOUS
  <2>2. walk \in [begun : BOOLEAN, pages : Seq(SUBSET DOMAIN rows), ends : SUBSET DOMAIN rows,
                 at : {0} \cup DOMAIN rows, starts : Nat]
    BY DEF ListingInv, ListingTypeOK
  <2>3. walk' \in [begun : BOOLEAN, pages : Seq(SUBSET DOMAIN rows'), ends : SUBSET DOMAIN rows',
                  at : {0} \cup DOMAIN rows', starts : Nat]
    BY <2>1, <2>2
  <2> QED BY <2>3 DEF ListingInv, ListingTypeOK
<1>2. walk.ends \subseteq DOMAIN rows /\ walk.at \in {0} \cup DOMAIN rows
  BY DEF ListingInv, ListingTypeOK
<1>3. L!ShownRows \subseteq DOMAIN rows /\ L!ShownRows' = L!ShownRows
  BY DEF ListingInv, ListingTypeOK, L!ShownRows
<1>4. steady \subseteq DOMAIN rows
  BY MatchingIsRows DEF ListingInv, ListingTypeOK
<1>5. \A i \in DOMAIN rows : L!Time(i)' = L!Time(i)
  BY DEF L!Time
<1>6. \A i, j \in DOMAIN rows : (L!Newer(i, j)' <=> L!Newer(i, j)) /\ (L!After(i, j)' <=> L!After(i, j))
  BY <1>5 DEF L!Newer, L!After
<1>7. Followed => \A i, j \in DOMAIN rows : L!Before(i, j)' <=> L!Before(i, j)
  BY <1>6 DEF L!Before, Followed
<1>8. CursorIsLast'
  BY <1>2, <1>3, <1>7 DEF ListingInv, CursorIsLast, Followed
<1>9. L!NoneTwice'
  BY DEF ListingInv, L!NoneTwice
<1>10. SteadyStays'
  <2> SUFFICES ASSUME Followed, walk.begun, NEW i \in steady', i \notin L!ShownRows
               PROVE  Skipped(i)' \/ (walk.at # 0 /\ L!After(i, walk.at)')
    BY <1>3 DEF SteadyStays, Followed
  <2>1. i \in DOMAIN rows
    BY <1>4
  <2>2. CASE Skipped(i)
    BY <1>2, <2>1, <2>2 DEF Skipped
  <2>3. CASE walk.at # 0 /\ L!After(i, walk.at)
    BY <1>2, <1>6, <2>1, <2>3
  <2> QED BY <2>2, <2>3 DEF ListingInv, SteadyStays
<1> QED BY <1>1, <1>8, <1>9, <1>10 DEF ListingInv

\* A row is inserted.
LEMMA RowComes ==
  ASSUME ListingInv, L!Insert
  PROVE  ListingInv'
<1>1. PICK i \in Uuids \ DOMAIN rows, r \in L!Row :
        rows' = [j \in DOMAIN rows \cup {i} |-> IF j = i THEN r ELSE rows[j]]
  BY DEF L!Insert
<1>2. UNCHANGED <<limit, list, wanted, walk, steady>>
  BY DEF L!Insert
<1>3. r \in AnyRow
  BY <1>1, PageAssumption, AnyRowsAre
<1>4. DOMAIN rows' = DOMAIN rows \cup {i} /\ rows' = [j \in DOMAIN rows' |-> rows'[j]]
      /\ \A j \in DOMAIN rows : rows'[j] = rows[j]
  BY <1>1
<1>5. \A j \in DOMAIN rows' : rows'[j] \in AnyRow
  BY <1>1, <1>3, <1>4 DEF ListingInv, ListingTypeOK
<1>6. DOMAIN rows' \subseteq Uuids
  BY <1>4 DEF ListingInv, ListingTypeOK
<1>7. L!Matching \subseteq L!Matching'
  BY <1>2, <1>4, MatchingIsKept DEF ListingInv, ListingTypeOK
<1>8. steady' = steady /\ steady' \subseteq L!Matching'
  BY <1>2, <1>7 DEF ListingInv, ListingTypeOK
<1> QED BY <1>2, <1>4, <1>5, <1>6, <1>8, WalkIsKept

\* The column of a row changes.
LEMMA RowChanges ==
  ASSUME ListingInv, L!Change
  PROVE  ListingInv'
<1>1. PICK i \in DOMAIN rows : rows' = [rows EXCEPT ![i].column = ~@]
  BY DEF L!Change
<1>2. UNCHANGED <<limit, list, wanted, walk>> /\ steady' = steady \cap L!Matching'
  BY DEF L!Change
<1>3. rows = [j \in DOMAIN rows |-> rows[j]] /\ \A j \in DOMAIN rows : rows[j] \in AnyRow
  BY DEF ListingInv, ListingTypeOK
<1>4. DOMAIN rows' = DOMAIN rows /\ rows' = [j \in DOMAIN rows' |-> rows'[j]]
  BY <1>1, <1>3
<1>5. \A j \in DOMAIN rows : rows'[j] \in AnyRow /\ rows'[j].at = rows[j].at /\ rows'[j].key = rows[j].key
  BY <1>1, <1>3 DEF AnyRow
<1>6. DOMAIN rows' \subseteq Uuids
  BY <1>4 DEF ListingInv, ListingTypeOK
<1> QED BY <1>2, <1>4, <1>5, <1>6, WalkIsKept

\* Every step of a walk keeps all this.
LEMMA ListingStep ==
  ASSUME ListingInv, [L!Next]_(L!vars)
  PROVE  ListingInv'
<1>1. CASE L!FirstPage
  <2>1. UNCHANGED <<rows, list, wanted>> /\ steady' = L!Matching /\ ~walk.begun /\ L!Answer(L!Matching)
    BY <1>1 DEF L!FirstPage
  <2>2. L!Matching \in SUBSET DOMAIN rows
    BY MatchingIsRows DEF ListingInv, ListingTypeOK
  <2> QED BY <2>1, <2>2, WalkGoesOn
<1>2. CASE L!NextPage
  <2>1. UNCHANGED <<rows, list, wanted, steady>> /\ walk.at # 0
        /\ L!Answer({i \in L!Matching : L!After(i, walk.at)})
    BY <1>2 DEF L!NextPage
  <2>2. walk.begun /\ steady \subseteq L!Matching
    BY <2>1 DEF ListingInv, ListingTypeOK
  <2>3. {i \in L!Matching : L!After(i, walk.at)} \in SUBSET DOMAIN rows
    BY MatchingIsRows DEF ListingInv, ListingTypeOK
  <2> QED BY <2>1, <2>2, <2>3, WalkGoesOn
<1>3. CASE L!StartOver
  BY <1>3, WalkStartsOver
<1>4. CASE L!Insert
  BY <1>4, RowComes
<1>5. CASE L!Change
  BY <1>5, RowChanges
<1>6. CASE UNCHANGED L!vars
  <2>1. UNCHANGED <<rows, limit, list, wanted, walk, steady, writes>>
    BY <1>6 DEF L!vars
  <2>2. L!Matching' = L!Matching
    BY <2>1 DEF L!Matching, L!FindNotificationsByUser, L!ListUsers, L!ListJobsAdmin, L!FindJobsByCustomer,
                L!ListReports, L!FindDisputesByUser, L!FindAllDisputes, L!FindReviewsByProvider,
                L!ListByProvider, L!ListAll, L!ListAuditLogs, L!FindProviderFeed
  <2> QED BY <2>1, <2>2, WalkIsKept DEF ListingInv, ListingTypeOK
<1> QED BY <1>1, <1>2, <1>3, <1>4, <1>5, <1>6 DEF L!Next

\* At the end of a walk what stays to come is nothing.
LEMMA SkippedAtTheEnd == ListingInv => L!OnlySameMilliSkipped
  BY DEF ListingInv, SteadyStays, Skipped, Followed, L!OnlySameMilliSkipped

-----------------------------------------------------------------------------
(* The client's pages.                                                     *)

\* The conversation and the listing share nothing.
LEMMA ApartOnPages ==
  ASSUME [PagesNext]_pageVars
  PROVE  [Next]_vars /\ [L!Next]_(L!vars)
<1>1. UNCHANGED listVars => UNCHANGED L!vars
  BY DEF listVars, L!vars
<1>2. UNCHANGED pageVars => UNCHANGED vars /\ UNCHANGED listVars
  BY DEF pageVars
<1> QED BY <1>1, <1>2 DEF PagesNext

\* However joins, losses of connection, double events, deletions and calls interleave: a
\* screen that heard an event, and whose calls came back in order, shows the page that was
\* announced and nothing of the other side that was deleted before.
\* (mobile/app/(tabs)/messages/[id].tsx:173-191, web/src/app/(dashboard)/messages/[id]/page.tsx:26-67)
THEOREM ScreensCatchUp == PagesSpec => []ScreenCatchesUp
<1>1. PagesInit => ConversationInv
  BY ConversationStart DEF PagesInit
<1>2. ConversationInv /\ [PagesNext]_pageVars => ConversationInv'
  BY ConversationStep, ApartOnPages
<1>3. ConversationInv => ScreenCatchesUp
  <2> SUFFICES ASSUME ConversationInv, NEW s \in screen, inOrder, ~Calling(s), heard[s].well
               PROVE  CaughtUp(s, shown[s])
    BY DEF ScreenCatchesUp, CaughtUp
  <2>1. s \in Sides
    BY DEF ConversationInv, Shape, ConversationTypeOK
  <2>2. asked[s].event = 0 /\ answers[s] = <<>>
    BY <2>1, Settling DEF ConversationInv
  <2>3. \E k \in 0..Len(answers[s]) : Settled(s, k)
    BY <2>2 DEF ConversationInv, WillCatchUp
  <2>4. Settled(s, 0)
    BY <2>2, <2>3
  <2> QED BY <2>4 DEF Settled
<1> QED BY <1>1, <1>2, <1>3, PTL DEF PagesSpec

\* A mobile screen marks after every event, and whatever overtakes what, no message up to
\* the one it heard of stays counted as unread once its calls have ended.
\* (mobile/app/(tabs)/messages/[id].tsx:181, messaging.repo.ts markAsRead)
THEOREM OpenScreensAreRead == PagesSpec => []OpenScreenIsRead
<1>1. PagesInit => ConversationInv
  BY ConversationStart DEF PagesInit
<1>2. ConversationInv /\ [PagesNext]_pageVars => ConversationInv'
  BY ConversationStep, ApartOnPages
<1>3. ConversationInv => OpenScreenIsRead
  <2> SUFFICES ASSUME ConversationInv, NEW s \in screen, app[s] = "mobile", ~Calling(s),
                      heard[s].well
               PROVE  unread[s] <= Cardinality(Later(s))
    BY DEF OpenScreenIsRead, Later
  <2>1. s \in Sides
    BY DEF ConversationInv, Shape, ConversationTypeOK
  <2>2. asked[s].event = 0 /\ answers[s] = <<>> /\ marks[s] = 0
    BY <2>1, Settling DEF ConversationInv
  <2> QED BY <2>2 DEF ConversationInv, WillBeRead
<1> QED BY <1>1, <1>2, <1>3, PTL DEF PagesSpec

\* Whatever is inserted or changes between two pages, no walk through a listing answers
\* a row twice, the sorted feeds aside.  (job.repo.ts:403-428)
THEOREM NoneIsTwice == PagesSpec => []NoneTwice
<1>1. PagesInit => ListingInv
  BY ListingStart DEF PagesInit
<1>2. ListingInv /\ [PagesNext]_pageVars => ListingInv'
  BY ListingStep, ApartOnPages
<1>3. ListingInv => NoneTwice
  BY DEF ListingInv, NoneTwice
<1> QED BY <1>1, <1>2, <1>3, PTL DEF PagesSpec

\* And one that came to its end has shown every row that matched throughout, but for rows
\* of the same millisecond as the last row of a page.  (notifications.repo.ts:95-100)
THEOREM OnlyMillisAreSkipped == PagesSpec => []OnlySameMilliSkipped
<1>1. PagesInit => ListingInv
  BY ListingStart DEF PagesInit
<1>2. ListingInv /\ [PagesNext]_pageVars => ListingInv'
  BY ListingStep, ApartOnPages
<1>3. ListingInv => OnlySameMilliSkipped
  BY SkippedAtTheEnd DEF OnlySameMilliSkipped
<1> QED BY <1>1, <1>2, <1>3, PTL DEF PagesSpec
=============================================================================
