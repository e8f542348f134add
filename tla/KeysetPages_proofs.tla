------------------------- MODULE KeysetPages_proofs -------------------------
(***************************************************************************)
(* Keyset pagination, proved for every table, every page size, every        *)
(* cached first page and every number of changes.                           *)
(***************************************************************************)
EXTENDS KeysetPages, TLAPS

\* Row i comes after the cursor (k, n).
Beyond(i, k, n) ==
    IF Descending THEN Less(key[i], i, k, n) ELSE Less(k, n, key[i], i)

\* A walk ever comes to row i: every row but an event dated before the epoch.
Due(i) == key[i] >= 0

\* Answer a is the first page of the list as the rows outside ids make it up.
FirstPage(a, ids) ==
    /\ a \in Answer
    /\ ~Descending => a.key >= 0
    /\ \A i \in Ids \ ids :
          i \in a.rows <=> i \in Listed /\ Due(i) /\ (a.more => ~Beyond(i, a.key, a.id))

\* Where the walk stands, row by row: a row that has not moved was shown once if it is
\* in the list and the cursor is past it, and not at all otherwise.
Progress ==
    walk # "first" =>
        \A i \in Ids \ moved :
            shown[i] = IF i \in Listed /\ Due(i) /\ (walk = "done" \/ ~After(i)) THEN 1 ELSE 0

\* Before the first page the cursor is the first one and nothing has been shown.
Fresh ==
    walk = "first" => FirstCursor /\ \A i \in Ids : shown[i] = 0

\* The cached page is the first page of the list of events, but for the rows that moved
\* since; without one nothing counts as moved before the client begins.
CacheKnown ==
    /\ cache # NoPage => list = "events" /\ walk = "first" /\ FirstPage(cache, moved)
    /\ cache = NoPage /\ walk = "first" => moved = {}

\* Only an event can be dated before the epoch, and no cursor is before it.
KeysKnown ==
    /\ list # "events" => \A i \in Ids : key[i] >= 0
    /\ ~Descending => afterKey >= 0

PagesInv == TypeOK /\ Progress /\ Fresh /\ CacheKnown /\ KeysKnown

\* Integers, and a row that a walk comes to is dated after the epoch.
LEMMA RowFacts ==
    ASSUME TypeOK, KeysKnown, NEW i \in Ids
    PROVE  /\ key[i] \in Int /\ key[i] <= MaxKey /\ i \in Int /\ i > -1 /\ i < MaxId
           /\ MaxKey \in Int /\ MaxId \in Int
           /\ After(i) => Due(i)
  <1>1. /\ key[i] \in Int /\ key[i] <= MaxKey /\ i \in Int /\ i > -1 /\ i < MaxId
        /\ MaxKey \in Int /\ MaxId \in Int
    BY PagesAssumption DEF TypeOK, Keys
  <1>2. After(i) => Due(i)
    <2>1. CASE Descending
      BY <2>1 DEF Descending, KeysKnown, Due
    <2>2. CASE ~Descending
      BY <1>1, <2>2 DEF KeysKnown, Due, After, Less, TypeOK
    <2> QED
      BY <2>1, <2>2
  <1> QED
    BY <1>1, <1>2

\* The cursor of the first request leaves out nothing that is due.
LEMMA FirstCursorFacts ==
    ASSUME TypeOK, KeysKnown, FirstCursor, NEW i \in Ids
    PROVE  After(i) <=> Due(i)
  BY RowFacts DEF FirstCursor, After, Due, Less, TypeOK

\* The order of a list is an order of (key, id) pairs: up to the last row of a page,
\* and beyond it.
LEMMA Trichotomy ==
    ASSUME TypeOK, KeysKnown, NEW last \in Ids, After(last), NEW i \in Ids
    PROVE  /\ After(i) => ((i = last \/ Before(i, last)) <=> ~Beyond(i, key[last], last))
           /\ ~After(i) => ~Beyond(i, key[last], last)
  <1>1. /\ key[i] \in Int /\ key[last] \in Int /\ i \in Int /\ last \in Int
        /\ afterKey \in Int /\ afterID \in Int
    BY RowFacts DEF TypeOK
  <1> QED
    BY <1>1 DEF After, Before, Beyond, Less

\* A page holds the rows between its cursor and the next.
LEMMA AnswerFacts ==
    ASSUME TypeOK, KeysKnown, NEW limit \in Limits, NEW a \in Answers(limit)
    PROVE  /\ a \in Answer
           /\ ~Descending => a.key >= 0
           /\ \A i \in Ids :
                 /\ i \in a.rows <=> i \in Listed /\ After(i) /\ (a.more => ~Beyond(i, a.key, a.id))
                 /\ a.more /\ ~After(i) => ~Beyond(i, a.key, a.id)
  <1>0. Listed \subseteq Ids /\ Rest \subseteq Ids
    BY DEF Listed, Rest, TypeOK
  <1>1. CASE Cardinality(Rest) <= limit
    <2>1. a = LastPage
      BY <1>1 DEF Answers
    <2>2. a \in Answer /\ a.rows = Rest /\ a.more = FALSE /\ a.key = afterKey
      BY <1>0, <2>1 DEF LastPage, Answer, TypeOK
    <2> QED
      BY <1>0, <2>2 DEF Rest, KeysKnown
  <1>2. CASE ~(Cardinality(Rest) <= limit)
    <2>1. PICK last \in Rest : a = FullPage(last)
      BY <1>2 DEF Answers
    <2>2. last \in Ids /\ After(last) /\ key[last] \in Int /\ last \in Int
      BY <1>0, <2>1, RowFacts DEF Rest
    <2>3. Upto(last) \subseteq Ids
      BY <1>0 DEF Upto
    <2>4. /\ a \in Answer /\ a.rows = Upto(last) /\ a.more = TRUE
          /\ a.key = key[last] /\ a.id = last
      BY <2>1, <2>2, <2>3 DEF FullPage, Answer
    <2>5. ~Descending => a.key >= 0
      BY <2>2, <2>4, RowFacts DEF Due
    <2>6. \A i \in Ids :
             /\ After(i) => ((i = last \/ Before(i, last)) <=> ~Beyond(i, a.key, a.id))
             /\ ~After(i) => ~Beyond(i, a.key, a.id)
      BY <2>2, <2>4, Trichotomy
    <2> QED
      BY <1>0, <2>4, <2>5, <2>6 DEF Upto, Rest
  <1> QED
    BY <1>1, <1>2

\* An answer to the first request is the first page.
LEMMA FirstAnswer ==
    ASSUME TypeOK, KeysKnown, FirstCursor, NEW limit \in Limits, NEW a \in Answers(limit)
    PROVE  FirstPage(a, {})
  <1>1. \A i \in Ids : After(i) <=> Due(i)
    BY FirstCursorFacts
  <1> QED
    BY <1>1, AnswerFacts DEF FirstPage

\* No page has been read.
LEMMA PagesInit == Init => PagesInv
  <1> SUFFICES ASSUME Init PROVE PagesInv
    OBVIOUS
  <1> USE PagesAssumption
  <1>1. TypeOK
    <2>1. afterKey \in Int /\ afterID \in Int
      <3>1. MaxKey + 1 \in Int /\ MaxId \in Int
        OBVIOUS
      <3> QED
        BY <3>1 DEF Init, FirstCursor
    <2>2. shown \in [Ids -> Nat]
      BY DEF Init
    <2> QED
      BY <2>1, <2>2 DEF Init, TypeOK
  <1>2. KeysKnown
    BY DEF Init, Stamp, KeysKnown, FirstCursor
  <1>3. \A i \in Ids : shown[i] = 0
    BY DEF Init
  <1> QED
    BY <1>1, <1>2, <1>3 DEF Init, PagesInv, Progress, Fresh, CacheKnown

\* What the client has after reading an answer.
LEMMA ShowFacts ==
    ASSUME TypeOK, KeysKnown, NEW a \in Answer, ~Descending => a.key >= 0, Show(a),
           moved' \subseteq Ids
    PROVE  /\ TypeOK' /\ KeysKnown' /\ Fresh' /\ CacheKnown' /\ walk' # "first"
           /\ Listed' = Listed /\ (walk' = "done" <=> ~a.more)
           /\ \A i \in Ids : /\ shown'[i] = IF i \in a.rows THEN shown[i] + 1 ELSE shown[i]
                             /\ After(i)' <=> Beyond(i, a.key, a.id)
                             /\ Due(i)' <=> Due(i)
  <1>1. /\ UNCHANGED <<list, rows, hidden, key, clock, changes>>
        /\ cache' = NoPage /\ afterKey' = a.key /\ afterID' = a.id
        /\ walk' = IF a.more THEN "more" ELSE "done"
    BY DEF Show
  <1>2. a.key \in Int /\ a.id \in Int /\ a.more \in BOOLEAN
    BY DEF Answer
  <1>3. \A i \in Ids : shown'[i] = IF i \in a.rows THEN shown[i] + 1 ELSE shown[i]
    BY DEF Show
  <1>4. shown' \in [Ids -> Nat]
    BY DEF Show, TypeOK
  <1>5. TypeOK'
    BY <1>1, <1>2, <1>4 DEF TypeOK
  <1>6. walk' # "first" /\ (walk' = "done" <=> ~a.more)
    BY <1>1, <1>2
  <1>7. Descending' = Descending /\ Listed' = Listed
    BY <1>1 DEF Descending, Listed
  <1>8. KeysKnown' /\ Fresh' /\ CacheKnown'
    BY <1>1, <1>6, <1>7 DEF KeysKnown, Fresh, CacheKnown
  <1>9. \A i \in Ids : (After(i)' <=> Beyond(i, a.key, a.id)) /\ (Due(i)' <=> Due(i))
    BY <1>1, <1>7 DEF After, Beyond, Due, Less
  <1> QED
    BY <1>3, <1>5, <1>6, <1>7, <1>8, <1>9

\* Reading a first page, fresh or cached, begins the walk.
LEMMA FirstShown ==
    ASSUME PagesInv, walk = "first", NEW a, FirstPage(a, moved'), Show(a), moved' \subseteq Ids
    PROVE  PagesInv'
  <1>1. TypeOK /\ KeysKnown /\ \A i \in Ids : shown[i] = 0
    BY DEF PagesInv, Fresh
  <1>2. a \in Answer /\ (~Descending => a.key >= 0)
    BY DEF FirstPage
  <1>3. /\ TypeOK' /\ KeysKnown' /\ Fresh' /\ CacheKnown' /\ walk' # "first"
        /\ Listed' = Listed /\ (walk' = "done" <=> ~a.more)
        /\ \A i \in Ids : /\ shown'[i] = IF i \in a.rows THEN shown[i] + 1 ELSE shown[i]
                          /\ After(i)' <=> Beyond(i, a.key, a.id)
                          /\ Due(i)' <=> Due(i)
    BY <1>1, <1>2, ShowFacts
  <1>4. ASSUME NEW i \in Ids \ moved'
        PROVE  i \in a.rows <=> i \in Listed' /\ Due(i)' /\ (walk' = "done" \/ ~After(i)')
    BY <1>3 DEF FirstPage
  <1>5. ASSUME NEW i \in Ids PROVE shown'[i] = IF i \in a.rows THEN 1 ELSE 0
    BY <1>1, <1>3
  <1>6. Progress'
    BY <1>4, <1>5 DEF Progress
  <1> QED
    BY <1>3, <1>6 DEF PagesInv

\* A page shows the next rows once and moves the cursor past exactly those.
LEMMA PageKept ==
    ASSUME PagesInv, NEW limit \in Limits, NextPage(limit)
    PROVE  PagesInv'
  <1>1. PICK a \in Answers(limit) : Show(a)
    BY DEF NextPage
  <1>2. TypeOK /\ KeysKnown /\ walk # "done" /\ moved' = IF walk = "first" THEN {} ELSE moved
    BY DEF PagesInv, NextPage
  <1>3. CASE walk = "first"
    <2>1. FirstCursor /\ moved' = {}
      BY <1>2, <1>3 DEF PagesInv, Fresh
    <2>2. FirstPage(a, moved')
      BY <1>2, <2>1, FirstAnswer
    <2> QED
      BY <1>1, <1>3, <2>1, <2>2, FirstShown
  <1>4. CASE walk # "first"
    <2>1. moved' = moved /\ moved' \subseteq Ids
      BY <1>2, <1>4 DEF TypeOK
    <2>2. /\ a \in Answer
          /\ ~Descending => a.key >= 0
          /\ \A i \in Ids :
                /\ i \in a.rows <=> i \in Listed /\ After(i) /\ (a.more => ~Beyond(i, a.key, a.id))
                /\ a.more /\ ~After(i) => ~Beyond(i, a.key, a.id)
      BY <1>2, AnswerFacts
    <2>3. /\ TypeOK' /\ KeysKnown' /\ Fresh' /\ CacheKnown' /\ walk' # "first"
          /\ Listed' = Listed /\ (walk' = "done" <=> ~a.more)
          /\ \A i \in Ids : /\ shown'[i] = IF i \in a.rows THEN shown[i] + 1 ELSE shown[i]
                            /\ After(i)' <=> Beyond(i, a.key, a.id)
                            /\ Due(i)' <=> Due(i)
      BY <1>1, <1>2, <2>1, <2>2, ShowFacts
    <2>4. ASSUME NEW i \in Ids \ moved
          PROVE  shown[i] = IF i \in Listed /\ Due(i) /\ ~After(i) THEN 1 ELSE 0
      BY <1>2, <1>4 DEF PagesInv, Progress
    <2>5. ASSUME NEW i \in Ids \ moved
          PROVE  shown'[i] = IF i \in Listed' /\ Due(i)' /\ (walk' = "done" \/ ~After(i)')
                             THEN 1 ELSE 0
      <3>1. After(i) => Due(i)
        BY <1>2, RowFacts
      <3>2. CASE i \in a.rows
        BY <2>2, <2>3, <2>4, <3>1, <3>2
      <3>3. CASE i \notin a.rows
        BY <2>2, <2>3, <2>4, <3>1, <3>3
      <3> QED
        BY <3>2, <3>3
    <2>6. Progress'
      BY <2>1, <2>5 DEF Progress
    <2> QED
      BY <2>3, <2>6 DEF PagesInv
  <1> QED
    BY <1>3, <1>4

\* A change of the table keeps the types if it keeps those of the rows.
LEMMA ChangedTypes ==
    ASSUME TypeOK, NEW ids \in SUBSET Ids, Changed(ids),
           rows' \subseteq Ids, hidden' \in BOOLEAN, key' \in [Ids -> Keys]
    PROVE  TypeOK'
  <1>1. /\ UNCHANGED <<list, clock, cache, walk, afterKey, afterID, shown>>
        /\ changes' = changes + 1
        /\ moved' = {} \/ moved' = moved \cup ids
    BY Zenon DEF Changed
  <1>2. moved' \subseteq Ids /\ changes' \in Nat
    BY <1>1 DEF TypeOK
  <1> QED
    BY <1>1, <1>2 DEF TypeOK

\* A change of the table touches only the rows it moves.
LEMMA ChangeKept ==
    ASSUME PagesInv, TypeOK', KeysKnown', NEW ids \in SUBSET Ids, Changed(ids),
           \A i \in Ids \ ids : key'[i] = key[i] /\ (i \in Listed' <=> i \in Listed)
    PROVE  PagesInv'
  <1>1. /\ UNCHANGED <<list, cache, walk, afterKey, afterID, shown>>
        /\ moved' = IF walk = "first" /\ cache = NoPage THEN {} ELSE moved \cup ids
        /\ Descending' = Descending
    BY DEF Changed, Descending
  <1>2. \A i \in Ids \ ids : (After(i)' <=> After(i)) /\ (Due(i)' <=> Due(i))
    BY <1>1 DEF After, Due, Less
  <1>3. Fresh'
    BY <1>1 DEF PagesInv, Fresh, FirstCursor
  <1>4. Progress'
    BY <1>1, <1>2 DEF PagesInv, Progress
  <1>5. CacheKnown'
    <2>1. CASE cache = NoPage
      BY <1>1, <2>1 DEF CacheKnown
    <2>2. CASE cache # NoPage
      <3>1. FirstPage(cache, moved) /\ moved' = moved \cup ids /\ list = "events" /\ walk = "first"
        BY <1>1, <2>2 DEF PagesInv, CacheKnown
      <3>2. \A i \in Ids \ ids : Beyond(i, cache.key, cache.id)' <=> Beyond(i, cache.key, cache.id)
        BY <1>1 DEF Beyond, Less
      <3>3. FirstPage(cache, moved)'
        BY <1>1, <1>2, <3>1, <3>2 DEF FirstPage
      <3> QED
        BY <1>1, <2>2, <3>1, <3>3 DEF CacheKnown
    <2> QED
      BY <2>1, <2>2
  <1> QED
    BY <1>3, <1>4, <1>5 DEF PagesInv

\* Every step keeps the invariant.
LEMMA PagesStep ==
    ASSUME PagesInv, [Next]_vars
    PROVE  PagesInv'
  <1> USE PagesAssumption
  <1>0. TypeOK /\ Progress /\ Fresh /\ CacheKnown /\ KeysKnown
    BY DEF PagesInv
  <1>1. ASSUME NEW i \in Ids, NEW k \in Keys, Enter(i, k) \/ Move(i, k)
        PROVE  PagesInv'
    <2>1. /\ Changed({i}) /\ UNCHANGED hidden /\ Stamp(k)
          /\ key' = [key EXCEPT ![i] = k]
          /\ rows' = rows \/ rows' = rows \cup {i}
      BY <1>1 DEF Enter, Move
    <2>2. TypeOK'
      <3>1. rows' \subseteq Ids /\ key' \in [Ids -> Keys]
        BY <1>0, <2>1 DEF TypeOK
      <3>2. hidden' \in BOOLEAN
        BY <1>0, <2>1 DEF TypeOK
      <3> QED
        BY <1>0, <2>1, <3>1, <3>2, ChangedTypes
    <2>3. \A m \in Ids \ {i} : key'[m] = key[m] /\ (m \in Listed' <=> m \in Listed)
      BY <1>0, <2>1 DEF TypeOK, Listed
    <2>4. KeysKnown'
      BY <1>0, <2>1 DEF KeysKnown, Changed, Descending, Stamp, TypeOK
    <2> QED
      BY <2>1, <2>2, <2>3, <2>4, ChangeKept
  <1>2. ASSUME NEW i \in Ids, Leave(i) PROVE PagesInv'
    <2>0. /\ Changed({i}) /\ {i} \subseteq Ids
          /\ rows' \subseteq Ids /\ hidden' \in BOOLEAN /\ key' = key /\ key \in [Ids -> Keys]
      BY <1>0, <1>2 DEF Leave, TypeOK
    <2>1. TypeOK' /\ KeysKnown'
      <3>1. TypeOK'
        BY <1>0, <2>0, ChangedTypes
      <3>2. KeysKnown'
        BY <1>0, <2>0 DEF Changed, KeysKnown, Descending
      <3> QED
        BY <3>1, <3>2
    <2>2. \A m \in Ids \ {i} : key'[m] = key[m] /\ (m \in Listed' <=> m \in Listed)
      BY <1>2 DEF Leave, Listed
    <2> QED
      BY <1>2, <2>1, <2>2, ChangeKept DEF Leave
  <1>3. CASE DeleteOrRestore
    <2>0. /\ Changed(rows) /\ rows \subseteq Ids
          /\ rows' \subseteq Ids /\ hidden' \in BOOLEAN /\ key' = key /\ key \in [Ids -> Keys]
      BY <1>0, <1>3 DEF DeleteOrRestore, TypeOK
    <2>1. TypeOK' /\ KeysKnown'
      <3>1. TypeOK'
        BY <1>0, <2>0, ChangedTypes
      <3>2. KeysKnown'
        BY <1>0, <2>0 DEF Changed, KeysKnown, Descending
      <3> QED
        BY <3>1, <3>2
    <2>2. \A m \in Ids \ rows : key'[m] = key[m] /\ (m \in Listed' <=> m \in Listed)
      BY <1>3 DEF DeleteOrRestore, Listed
    <2> QED
      BY <1>0, <1>3, <2>1, <2>2, ChangeKept DEF DeleteOrRestore, TypeOK
  <1>4. CASE Hit
    <2>1. walk = "first" /\ cache # NoPage /\ Show(cache) /\ moved' = moved
      BY <1>4 DEF Hit
    <2>2. FirstPage(cache, moved') /\ moved' \subseteq Ids
      BY <1>0, <2>1 DEF CacheKnown, TypeOK
    <2> QED
      BY <2>1, <2>2, FirstShown
  <1>5. ASSUME NEW limit \in Limits, Fill(limit) PROVE PagesInv'
    <2>1. /\ UNCHANGED <<list, rows, hidden, key, clock, walk, afterKey, afterID, shown, changes>>
          /\ moved' = {} /\ list = "events" /\ walk = "first" /\ cache' \in Answers(limit)
      BY <1>5 DEF Fill
    <2>2. FirstPage(cache', {})
      BY <1>0, <2>1, FirstAnswer DEF Fresh
    <2>3. TypeOK' /\ KeysKnown' /\ Fresh' /\ Progress'
      BY <1>0, <2>1, <2>2 DEF FirstPage, TypeOK, KeysKnown, Fresh, FirstCursor, Progress, Descending
    <2>4. FirstPage(cache, moved)'
      BY <2>1, <2>2 DEF FirstPage, Listed, Due, Beyond, Less, Descending
    <2>5. CacheKnown'
      BY <2>1, <2>4 DEF CacheKnown
    <2> QED
      BY <2>3, <2>5 DEF PagesInv
  <1>6. CASE Drop
    <2>1. /\ UNCHANGED <<list, rows, hidden, key, clock, walk, afterKey, afterID, shown, changes>>
          /\ moved' = {} /\ cache' = NoPage /\ walk = "first"
      BY <1>0, <1>6 DEF Drop, CacheKnown
    <2>2. TypeOK' /\ KeysKnown' /\ Fresh' /\ Progress' /\ CacheKnown'
      BY <1>0, <2>1 DEF TypeOK, KeysKnown, Fresh, FirstCursor, Progress, CacheKnown, Descending
    <2> QED
      BY <2>2 DEF PagesInv
  <1>7. CASE Tick \/ UNCHANGED vars
    <2>1. /\ UNCHANGED <<list, rows, hidden, key, cache, walk, afterKey, afterID, shown, moved, changes>>
          /\ clock' \in 0 .. MaxKey
      BY <1>0, <1>7 DEF Tick, vars, TypeOK
    <2>2. TypeOK' /\ KeysKnown' /\ Fresh'
      BY <1>0, <2>1 DEF TypeOK, KeysKnown, Fresh, FirstCursor, Descending
    <2>3. Progress'
      BY <1>0, <2>1 DEF Progress, Listed, Due, After, Descending, Less
    <2>4. FirstPage(cache, moved)' <=> FirstPage(cache, moved)
      BY <2>1 DEF FirstPage, Listed, Due, Beyond, Less, Descending
    <2>5. CacheKnown'
      BY <1>0, <2>1, <2>4 DEF CacheKnown
    <2> QED
      BY <2>2, <2>3, <2>5 DEF PagesInv
  <1> QED
    BY <1>1, <1>2, <1>3, <1>4, <1>5, <1>6, <1>7, PageKept DEF Next

\* The invariant holds throughout.
LEMMA PagesAlways == Spec => []PagesInv
  BY PagesInit, PagesStep, PTL DEF Spec

\* The list, the cache, the cursor and the counts keep their types.
THEOREM PagesTypes == Spec => []TypeOK
  BY PagesAlways, PTL DEF PagesInv

\* No walk over any of the three lists, with or without a cached first page, shows a
\* row twice unless the row moved after that page was computed.
THEOREM NoRepetition == Spec => []RepeatedOnlyIfMoved
  <1>1. ASSUME PagesInv PROVE RepeatedOnlyIfMoved
    <2>1. \A i \in Ids \ moved : shown[i] = 0 \/ shown[i] = 1
      BY <1>1 DEF PagesInv, Progress, Fresh
    <2> QED
      BY <2>1 DEF RepeatedOnlyIfMoved
  <1> QED
    BY <1>1, PagesAlways, PTL

\* No walk that comes to its end has missed a row that stayed where it was since its
\* first page was computed, but for events dated before the epoch.
THEOREM NoOmission == Spec => []WalkComplete
  <1>1. ASSUME PagesInv PROVE WalkComplete
    <2>1. Listed \subseteq Ids
      BY <1>1 DEF PagesInv, TypeOK, Listed
    <2> QED
      BY <1>1, <2>1 DEF PagesInv, Progress, WalkComplete, Due
  <1> QED
    BY <1>1, PagesAlways, PTL
=============================================================================
