------------------------------- MODULE Listings -------------------------------
(***************************************************************************)
(* The keyset listings of the API: a client walks one of them page by page *)
(* with the cursor each answer carries, while rows are inserted and        *)
(* change.  The cursor holds created_at as toISOString prints it, in       *)
(* milliseconds; the column is a timestamptz, in microseconds.  Only the   *)
(* feed compares published_at, which publishJob sets from a JavaScript     *)
(* Date; audit logs page by their serial id.                               *)
(*                                                                         *)
(* A row is its uuid, its time, whose it is, one column that a query can   *)
(* filter on and that may change (status, is_read, is_hidden), and what    *)
(* the feed may be sorted by, a budget or a distance.  Two units of time   *)
(* make a millisecond.  A page is the set of its rows.  Page-size caps,    *)
(* further filters and the base64 of the cursor are left out.              *)
(***************************************************************************)
EXTENDS Integers, Sequences, FiniteSets

CONSTANTS Lists,     \* the listings walked
          Ids,       \* uuids, in their order
          MaxTime,   \* bound on the time of a row
          Limits,    \* page sizes a query may ask for
          MaxWrites, \* bound on the rows inserted or changed during the walk
          MaxStarts  \* bound on how often the client starts from the first page

ByTime == {"notifications", "users", "jobs", "myJobs", "reports", "userDisputes",
           "disputes", "reviews", "verifications", "myVerifications"}
\* The provider feed sorts by time, by either budget or by distance; its cursor, by time.
Sorted == {"feedHigh", "feedLow", "feedNear"}
Feeds  == {"feed"} \cup Sorted

ListingAssumption ==
  /\ Ids \subseteq Nat \ {0} /\ Limits \subseteq Nat \ {0}
  /\ {MaxTime, MaxWrites, MaxStarts} \subseteq Nat
  /\ Lists \subseteq ByTime \cup Feeds \cup {"audit"}

VARIABLES rows,    \* the rows of the table, by uuid
          limit,   \* the page size asked for
          list,    \* the listing walked
          wanted,  \* values of the filter column the query accepts
          walk,    \* the pages shown, the last row of each, and where the client stands
          steady,  \* history: rows that matched the query in every state since the first page
          writes   \* how often a row was inserted or changed

vars == <<rows, limit, list, wanted, walk, steady, writes>>

NoWalk == [begun |-> FALSE, pages |-> <<>>, ends |-> {}, at |-> 0, starts |-> 0]

\* What can differ between rows of the table, as far as the query looks at it.  A row of
\* somebody else matches nothing: one stands for all.
Columns == [at     : 0..MaxTime,
            mine   : IF list \in {"users", "jobs", "reports", "disputes", "verifications"}
                     THEN {TRUE} ELSE BOOLEAN,
            column : IF list = "audit" THEN {TRUE} ELSE BOOLEAN,
            key    : IF list \in Feeds THEN 1..2 ELSE {1}]
Row == {r \in Columns : ~r.mine => r.at = 0 /\ r.column /\ r.key = 1}

\* toISOString.
Milli(t) == 2 * (t \div 2)

\* findNotificationsByUser, with is_read as the filter.
FindNotificationsByUser == {i \in DOMAIN rows : rows[i].mine /\ rows[i].column \in wanted}
\* listUsers, by role, status and search.
ListUsers == {i \in DOMAIN rows : rows[i].column \in wanted}
\* listJobsAdmin, by status, category and customer.
ListJobsAdmin == {i \in DOMAIN rows : rows[i].column \in wanted}
\* findJobsByCustomerPaginated, by status.
FindJobsByCustomer == {i \in DOMAIN rows : rows[i].mine /\ rows[i].column \in wanted}
\* listReports, by status and entity type.
ListReports == {i \in DOMAIN rows : rows[i].column \in wanted}
\* findDisputesByUser: raised by the user or against them.
FindDisputesByUser == {i \in DOMAIN rows : rows[i].mine /\ rows[i].column \in wanted}
\* findAllDisputes, by status.
FindAllDisputes == {i \in DOMAIN rows : rows[i].column \in wanted}
\* findReviewsByProvider: the column is is_hidden, and hidden reviews are left out.
FindReviewsByProvider == {i \in DOMAIN rows : rows[i].mine /\ ~rows[i].column}
\* listByProvider and listAll of the verifications, by status.
ListByProvider == {i \in DOMAIN rows : rows[i].mine /\ rows[i].column \in wanted}
ListAll == {i \in DOMAIN rows : rows[i].column \in wanted}
\* listAuditLogs: nothing changes an audit row.
ListAuditLogs == {i \in DOMAIN rows : rows[i].mine}
\* findProviderFeed: the column says that the job is posted or quoting.
FindProviderFeed == {i \in DOMAIN rows : rows[i].mine /\ rows[i].column}

Matching == CASE list = "notifications"   -> FindNotificationsByUser
              [] list = "users"           -> ListUsers
              [] list = "jobs"            -> ListJobsAdmin
              [] list = "myJobs"          -> FindJobsByCustomer
              [] list = "reports"         -> ListReports
              [] list = "userDisputes"    -> FindDisputesByUser
              [] list = "disputes"        -> FindAllDisputes
              [] list = "reviews"         -> FindReviewsByProvider
              [] list = "myVerifications" -> ListByProvider
              [] list = "verifications"   -> ListAll
              [] list = "audit"           -> ListAuditLogs
              [] list \in Feeds           -> FindProviderFeed

\* published_at comes from a Date, created_at from NOW().
Time(i) == IF list \in Feeds THEN Milli(rows[i].at) ELSE rows[i].at

Newer(i, j) == Time(i) > Time(j) \/ (Time(i) = Time(j) /\ i < j)

\* ORDER BY of each listing.
Before(i, j) ==
  CASE list = "audit"    -> i > j
    [] list = "feedHigh" -> \/ rows[i].key > rows[j].key
                            \/ rows[i].key = rows[j].key /\ Newer(i, j)
    [] list \in {"feedLow", "feedNear"} -> \/ rows[i].key < rows[j].key
                                           \/ rows[i].key = rows[j].key /\ Newer(i, j)
    [] OTHER             -> Newer(i, j)

\* Mutant: rows of the cursor's time are taken whatever their id.
AfterLoose(i, last) ==
  IF list = "audit" THEN i <= last
  ELSE Time(i) < Milli(Time(last)) \/ Time(i) = Milli(Time(last))

\* The condition the cursor of a page's last row adds to the next query.
After(i, last) ==
  IF list = "audit" THEN i < last
  ELSE \/ Time(i) < Milli(Time(last))
       \/ Time(i) = Milli(Time(last)) /\ i > last

Init == /\ list \in Lists /\ limit \in Limits
        /\ wanted \in {{TRUE}, {TRUE, FALSE}}
        /\ \E is \in SUBSET Ids : rows \in [is -> Row]
        /\ walk = NoWalk
        /\ steady = {}
        /\ writes = 0

\* LIMIT: the first rows in the order of the listing.
IsPage(page, is) ==
  /\ page \subseteq is /\ Cardinality(page) <= limit
  /\ page # is => Cardinality(page) = limit
  /\ \A i \in page, j \in is \ page : Before(i, j)

IsLast(i, page) == i \in page /\ \A j \in page \ {i} : Before(j, i)

Turn(page, last) ==
  walk' = [begun  |-> TRUE,
           pages  |-> Append(walk.pages, page),
           ends   |-> walk.ends \cup ({last} \ {0}),
           at     |-> last,
           starts |-> walk.starts]

\* Mutant: the cursor is taken from the extra row that tells whether there are more.
AnswerSkipping(is) ==
  \E page \in SUBSET is, last \in is \cup {0} :
    /\ IsPage(page, is)
    /\ IF page = is THEN last = 0
       ELSE last \in is \ page /\ \A j \in (is \ page) \ {last} : Before(last, j)
    /\ Turn(page, last)

\* buildPage: pageSize + 1 rows are read, the last one only to know that there are more.
Answer(is) ==
  \E page \in SUBSET is, last \in is \cup {0} :
    /\ IsPage(page, is)
    /\ IF page = is THEN last = 0 ELSE IsLast(last, page)
    /\ Turn(page, last)

FirstPage ==
  /\ ~walk.begun
  /\ Answer(Matching)
  /\ steady' = Matching
  /\ UNCHANGED <<limit, rows, list, wanted, writes>>

\* fetchNextPage with the last answer's nextCursor.
NextPage ==
  /\ walk.at # 0
  /\ Answer({i \in Matching : After(i, walk.at)})
  /\ UNCHANGED <<limit, rows, list, wanted, steady, writes>>

\* The screen is refreshed, or another sort is chosen: a walk of its own.
StartOver ==
  /\ walk.begun /\ walk.starts < MaxStarts
  /\ walk' = [NoWalk EXCEPT !.starts = walk.starts + 1]
  /\ steady' = {}
  /\ list' \in IF list \in Feeds THEN Feeds \cap Lists ELSE {list}
  /\ UNCHANGED <<limit, rows, wanted, writes>>

\* A new row: NOW() is when its transaction began, so it may be older than rows shown.
Insert ==
  /\ writes < MaxWrites
  /\ \E i \in Ids \ DOMAIN rows, r \in Row :
       rows' = [j \in DOMAIN rows \cup {i} |-> IF j = i THEN r ELSE rows[j]]
  /\ writes' = writes + 1
  /\ UNCHANGED <<limit, list, wanted, walk, steady>>

\* A notification is read, a job taken, a dispute resolved, a review hidden.
Change ==
  /\ writes < MaxWrites /\ list # "audit"
  /\ \E i \in DOMAIN rows : rows' = [rows EXCEPT ![i].column = ~@]
  /\ writes' = writes + 1
  /\ UNCHANGED <<limit, list, wanted, walk>>
  /\ steady' = steady \cap Matching'

Next == FirstPage \/ NextPage \/ StartOver \/ Insert \/ Change

Spec == Init /\ [][Next]_vars

-----------------------------------------------------------------------------
ShownRows == UNION {walk.pages[n] : n \in DOMAIN walk.pages}

\* No row is answered twice in one walk, whatever is inserted or changes meanwhile; the
\* sorted feeds aside, whose cursor does not follow their order.
\* (job.repo.ts:403-428, notifications.repo.ts:76-84)
NoneTwice ==
  list \notin Sorted =>
    \A m, n \in DOMAIN walk.pages : m # n => walk.pages[m] \cap walk.pages[n] = {}

\* A walk that came to its end has shown every row that matched all along, but for rows
\* created in the same millisecond as the last row of a page; sorted feeds aside.
\* Audit logs and the newest feed lose none.  (notifications.repo.ts:95-100)
OnlySameMilliSkipped ==
  (walk.begun /\ walk.at = 0 /\ list \notin Sorted) =>
    \A i \in steady \ ShownRows :
      /\ list \in ByTime
      /\ \E last \in walk.ends : i # last /\ Milli(rows[i].at) = Milli(rows[last].at)

=============================================================================
