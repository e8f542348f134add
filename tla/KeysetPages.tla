----------------------------- MODULE KeysetPages -----------------------------
(***************************************************************************)
(* Walking a list page by page with the cursors of utils/cursor.go while    *)
(* the table changes: registrations of an event (ListByEventCursor, by      *)
(* created_at ascending), events (EventsRepo.ListCursor, by start_at        *)
(* ascending) and jobs (JobsRepo.ListCursor, by updated_at descending).     *)
(*                                                                         *)
(* One client walks one list.  A page is one SELECT.  Ids and sort keys are *)
(* numbers; a cursor is the key and the id of the last row of a page, which *)
(* its encoding keeps exactly.  A row that a filter, deleted_at or DELETE   *)
(* takes out of the list is not in the list.                                *)
(*                                                                         *)
(* The page of events without a cursor may come from the cache of           *)
(* ListEvents, as it was when somebody's request computed it; how old it    *)
(* may be is EventLifecycle's matter, here it may have any age.             *)
(***************************************************************************)
EXTENDS Integers, FiniteSets

CONSTANTS
    Ids,            \* ids of rows, below MaxId
    MaxId,
    MinusKeys,      \* sort keys (timestamps) are -MinusKeys .. MaxKey; 0 is the epoch
    MaxKey,
    Limits,         \* page sizes; the client may ask for another every time
    MaxChanges,     \* bound: changes of the table
    NoPage

Keys == -MinusKeys .. MaxKey

ASSUME PagesAssumption ==
    /\ Ids \subseteq Nat
    /\ MaxId \in Nat /\ \A i \in Ids : i < MaxId
    /\ MaxKey \in Nat /\ MinusKeys \in Nat
    /\ Limits \subseteq Nat \ {0}
    /\ MaxChanges \in Nat
    /\ NoPage \notin [rows : SUBSET Ids, more : BOOLEAN, key : Int, id : Int]

VARIABLES
    list,           \* which list is walked
    rows,           \* the ids that are in the list
    hidden,         \* the event whose registrations are listed is deleted
    key,            \* the sort key of each row
    clock,          \* the latest timestamp handed out so far
    cache,          \* the cached first page of the list of events, or NoPage
    walk,           \* "first" page, "more" pages, or "done"
    afterKey,       \* the cursor
    afterID,
    shown,          \* how often the walk has shown each row
    moved,          \* history: rows that entered, left or changed their key since the
                    \* first page was computed (for the client, or the one in the cache)
    changes

vars == <<list, rows, hidden, key, clock, cache, walk, afterKey, afterID, shown, moved, changes>>

Lists == {"registrations", "events", "jobs"}

Descending == list = "jobs"

\* An answer: its rows, whether there is a nextCursor, and which.
Answer == [rows : SUBSET Ids, more : BOOLEAN, key : Int, id : Int]

TypeOK ==
    /\ list \in Lists
    /\ rows \subseteq Ids
    /\ hidden \in BOOLEAN
    /\ key \in [Ids -> Keys]
    /\ clock \in 0 .. MaxKey
    /\ cache \in Answer \cup {NoPage}
    /\ walk \in {"first", "more", "done"}
    /\ afterKey \in Int
    /\ afterID \in Int
    /\ shown \in [Ids -> Nat]
    /\ moved \subseteq Ids
    /\ changes \in Nat

\* start_at is what the admin says, and nothing bounds it.  created_at and updated_at
\* are the time at which the handler or the statement began; it may take effect after
\* later ones.
Stamp(k) == list # "events" => k \in 0 .. clock

\* The cursor of a request without one: the epoch and the smallest UUID, or the year
\* 9999 and the largest, with the years 1970 to 9999 for the clock.
FirstCursor ==
    /\ afterKey = IF Descending THEN MaxKey + 1 ELSE 0
    /\ afterID = IF Descending THEN MaxId ELSE -1

Init ==
    /\ list \in Lists
    /\ rows \in SUBSET Ids
    /\ hidden = FALSE
    /\ clock \in 0 .. MaxKey
    /\ key \in [Ids -> Keys]
    /\ \A i \in Ids : Stamp(key[i])
    /\ cache = NoPage
    /\ walk = "first"
    /\ FirstCursor
    /\ shown = [i \in Ids |-> 0]
    /\ moved = {}
    /\ changes = 0

-----------------------------------------------------------------------------
(* The page.                                                                *)

\* Row comparison of (key, id) pairs.
Less(k, i, l, m) == k < l \/ (k = l /\ i < m)

\* Row i comes before row m in the order of the list.
Before(i, m) ==
    IF Descending THEN Less(key[m], m, key[i], i) ELSE Less(key[i], i, key[m], m)

AfterInclusive(i) ==
    IF Descending THEN ~Less(afterKey, afterID, key[i], i) ELSE ~Less(key[i], i, afterKey, afterID)

AfterByKeyAlone(i) == IF Descending THEN key[i] < afterKey ELSE key[i] > afterKey

\* The keyset condition of the WHERE clause.
After(i) ==
    IF Descending THEN Less(key[i], i, afterKey, afterID) ELSE Less(afterKey, afterID, key[i], i)

Listed == IF hidden THEN {} ELSE rows

Rest == {i \in Listed : After(i)}

\* The rows up to last, in the order of the list.
Upto(last) == {i \in Rest : i = last \/ Before(i, last)}

\* No more than limit rows are left: there is no nextCursor.
LastPage == [rows |-> Rest, more |-> FALSE, key |-> afterKey, id |-> afterID]

\* nextCursor is the key and the id of the last row, in JSON and base64.  A timestamp
\* keeps its nanoseconds there, and Postgres has microseconds.
FullPage(last) == [rows |-> Upto(last), more |-> TRUE, key |-> key[last], id |-> last]

\* ORDER BY ... LIMIT limit + 1, of which limit rows are returned.
Answers(limit) ==
    IF Cardinality(Rest) <= limit
    THEN {LastPage}
    ELSE {FullPage(last) : last \in {i \in Rest : Cardinality(Upto(i)) = limit}}

\* The client reads an answer.  It will ask for no first page again, so the cache
\* matters no more.
Show(a) ==
    /\ shown' = [i \in Ids |-> IF i \in a.rows THEN shown[i] + 1 ELSE shown[i]]
    /\ walk' = IF a.more THEN "more" ELSE "done"
    /\ afterKey' = a.key
    /\ afterID' = a.id
    /\ cache' = NoPage
    /\ UNCHANGED <<list, rows, hidden, key, clock, changes>>

\* A page read from the table: every page with a cursor, and a first page that is not
\* in the cache, or with a total.
NextPage(limit) ==
    /\ walk # "done"
    /\ \E a \in Answers(limit) : Show(a)
    /\ moved' = IF walk = "first" THEN {} ELSE moved

\* The first page of the list of events from the cache, with the cursor stored there.
Hit ==
    /\ walk = "first" /\ cache # NoPage
    /\ Show(cache)
    /\ UNCHANGED moved

\* A request of any client misses the cache, and stores the page it reads.
Fill(limit) ==
    /\ list = "events" /\ walk = "first"
    /\ cache' \in Answers(limit)
    /\ moved' = {}
    /\ UNCHANGED <<list, rows, hidden, key, clock, walk, afterKey, afterID, shown, changes>>

\* The entry expires or is dropped; a change of an event need not have dropped it.
Drop ==
    /\ cache # NoPage
    /\ cache' = NoPage
    /\ moved' = {}
    /\ UNCHANGED <<list, rows, hidden, key, clock, walk, afterKey, afterID, shown, changes>>

-----------------------------------------------------------------------------
(* The table changes.                                                       *)

Changed(ids) ==
    /\ changes < MaxChanges
    /\ changes' = changes + 1
    /\ moved' = IF walk = "first" /\ cache = NoPage THEN {} ELSE moved \cup ids
    /\ UNCHANGED <<list, clock, cache, walk, afterKey, afterID, shown>>

\* A row enters the list: created, restored, or by a status that matches the filter.
\* created_at of a registration is its own for ever.
Enter(i, k) ==
    /\ i \notin rows
    /\ Stamp(k)
    /\ rows' = rows \cup {i}
    /\ key' = [key EXCEPT ![i] = k]
    /\ Changed({i})
    /\ UNCHANGED hidden

\* An event is moved to another date; any write to a job sets its updated_at.
Move(i, k) ==
    /\ list \in {"events", "jobs"}
    /\ i \in rows
    /\ Stamp(k)
    /\ key' = [key EXCEPT ![i] = k]
    /\ Changed({i})
    /\ UNCHANGED <<rows, hidden>>

\* A registration is cancelled, an event deleted, a job leaves the filtered status.
Leave(i) ==
    /\ i \in rows
    /\ rows' = rows \ {i}
    /\ Changed({i})
    /\ UNCHANGED <<hidden, key>>

\* The event is deleted or restored: its registrations stay, and none is listed.
DeleteOrRestore ==
    /\ list = "registrations"
    /\ hidden' = ~hidden
    /\ Changed(rows)
    /\ UNCHANGED <<rows, key>>

Tick ==
    /\ clock < MaxKey
    /\ clock' = clock + 1
    /\ UNCHANGED <<list, rows, hidden, key, cache, walk, afterKey, afterID, shown, moved, changes>>

-----------------------------------------------------------------------------
Next ==
    \/ \E limit \in Limits : NextPage(limit) \/ Fill(limit)
    \/ Hit
    \/ Drop
    \/ \E i \in Ids : Leave(i) \/ \E k \in Keys : Enter(i, k) \/ Move(i, k)
    \/ DeleteOrRestore
    \/ Tick

Spec == Init /\ [][Next]_vars

-----------------------------------------------------------------------------
(* Properties.                                                              *)

\* No row is shown twice unless it moved after the first page was computed, whatever
\* else was inserted, moved or removed and however the page size varied.  For the list
\* of events that may be before the client began: its first page may be a cached one.
RepeatedOnlyIfMoved == \A i \in Ids \ moved : shown[i] <= 1

\* When there is no next cursor, the client has seen every row that was there since
\* the first page was computed and stayed where it was, except an event dated before
\* 1970: the first cursor is the epoch, and the client has seen none of those.
WalkComplete ==
    walk = "done" => \A i \in Listed \ moved : shown[i] = IF key[i] >= 0 THEN 1 ELSE 0
=============================================================================
