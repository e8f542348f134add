------------------------ MODULE EventLifecycle_proofs ------------------------
(***************************************************************************)
(* Safety of EventLifecycle for any number of events, requests and           *)
(* executions, and any lifetime of the cache's entries.                      *)
(***************************************************************************)
EXTENDS EventLifecycle, TLAPS

\* A page in hand is as old as its query at most, and the query within its deadline;
\* an entry's age and the time it has left make up at most the bound.
AgesBounded ==
    /\ \A l \in Listers :
          /\ list[l].pc = "store" => list[l].page \in Page /\ list[l].page.age <= list[l].timer
          /\ list[l].pc \in {"query", "store"} => list[l].timer <= QueryTimeout
    /\ cache # NoPage /\ left >= 0 => cache.age + left <= TTL + QueryTimeout

\* A page that missed no Clear was read after every Clear that is over.
PagesCurrent ==
    /\ cleared <= version
    /\ \A w \in Writers : write[w].version <= version
    /\ \A l \in Listers :
          list[l].pc = "store" /\ list[l].page.clear = "seen" => cleared <= list[l].page.version

\* A job is for an event that exists; an execution about to acknowledge it has
\* published the event or found it deleted.
JobsKnown ==
    /\ \A e \in Events :
          job[e].status # "absent" \/ e \in retrying => event[e].state # "absent"
    /\ \A x \in Execs : exec[x].pc # "idle" =>
          exec[x].event \in Events /\ event[exec[x].event].state # "absent"
    /\ \A x \in Execs : exec[x].pc = "ack" =>
          event[exec[x].event].published_at # 0 \/ exec[x].event \in missed

\* What may happen to the job of e without an execution of it doing anything.
Queueing(e) ==
    \/ PublishEvent(e) \/ Requeue(e) \/ RetryCheck(e) \/ RetryApply(e)
    \/ \E x \in Execs : Claim(x, e)

CacheInv == AgesBounded /\ ServedFresh /\ PagesCurrent /\ StaleOnlyByOverlap

PublishInv == JobsKnown /\ DoneMeansPublished

\* What an operation on a page does to its fields.
LEMMA PageFacts ==
    ASSUME NEW p \in Page
    PROVE  /\ p.version \in Nat /\ p.age \in Nat
           /\ Older(p) \in Page /\ Older(p).version = p.version /\ Older(p).clear = p.clear
           /\ p.age <= TTL + QueryTimeout => Older(p).age = p.age + 1
           /\ Older(p).age <= p.age + 1
           /\ Late(p) \in Page /\ Late(p).clear = "missed"
           /\ Late(p).version = p.version /\ Late(p).age = p.age
  BY EventsAssumption DEF Page, Older, Late

\* The statement by which an execution of f ends: the job gets the status or keeps it,
\* and the execution is over or goes on to MarkFailed.
JobWritten(x, f, status) ==
    /\ \A e \in Events \ {f} : job'[e] = job[e]
    /\ job'[f] = job[f] \/ job'[f].status = status
    /\ \A y \in Execs \ {x} : exec'[y] = exec[y]
    /\ exec'[x].pc = "idle" \/ (exec'[x].pc = "dead" /\ exec'[x].event = f)
    /\ UNCHANGED <<event, version, apiVars, retrying, missed>>

\* What WriteJob does to the job and to the execution.
LEMMA WriteFacts ==
    ASSUME TypeOK, NEW x \in Execs, exec[x].event \in Events,
           NEW status \in {"pending", "done", "failed"}, NEW attempts \in Nat,
           NEW pc \in {"idle", "dead"}, WriteJob(x, status, attempts, pc)
    PROVE  TypeOK' /\ JobWritten(x, exec[x].event, status)
  <1> DEFINE row == [status |-> status, attempts |-> attempts]
             next == IF pc = "idle" THEN NoExecution ELSE [exec[x] EXCEPT !.pc = pc]
  <1>1. row \in JobRow /\ row.status = status
    BY DEF JobRow
  <1>2. NoExecution \in Execution /\ NoExecution.pc = "idle"
    BY DEF Execution, NoExecution
  <1>3. next \in Execution /\ (next.pc = "idle" \/ (next.pc = "dead" /\ next.event = exec[x].event))
    BY <1>2 DEF TypeOK, Execution
  <1>4. /\ job' = job \/ job' = [job EXCEPT ![exec[x].event] = row]
        /\ \/ exec' = [exec EXCEPT ![x] = NoExecution]
           \/ exec' = [exec EXCEPT ![x] = next]
        /\ faults' \in Nat
        /\ UNCHANGED <<event, version, apiVars, retrying, missed>>
    BY DEF WriteJob, Fault, TypeOK
  <1> HIDE DEF row, next
  <1>5. job' \in [Events -> JobRow] /\ exec' \in [Execs -> Execution]
    BY <1>1, <1>2, <1>3, <1>4 DEF TypeOK
  <1>6. TypeOK'
    BY <1>4, <1>5 DEF TypeOK, apiVars
  <1>7. JobWritten(x, exec[x].event, status)
    BY <1>1, <1>2, <1>3, <1>4 DEF TypeOK, JobWritten
  <1> QED
    BY <1>6, <1>7

\* MarkDone, handleFailure and MarkFailed are such statements.
LEMMA EndingFacts ==
    ASSUME TypeOK, JobsKnown, NEW x \in Execs, MarkDone(x) \/ HandleFailure(x) \/ MarkFailed(x)
    PROVE  /\ TypeOK' /\ exec[x].event \in Events
           /\ \/ exec[x].pc = "ack" /\ JobWritten(x, exec[x].event, "done")
              \/ JobWritten(x, exec[x].event, "pending")
              \/ JobWritten(x, exec[x].event, "failed")
  <1>1. exec[x].event \in Events
    BY DEF MarkDone, HandleFailure, MarkFailed, JobsKnown
  <1>2. Attempts(x) \in Nat /\ Attempts(x) + 1 \in Nat
    BY <1>1 DEF Attempts, TypeOK, JobRow
  <1>3. CASE MarkDone(x)
    BY <1>1, <1>2, <1>3, WriteFacts DEF MarkDone
  <1>4. CASE HandleFailure(x)
    <2>1. CASE exec[x].attempts + 1 < MaxAttempts
      BY <1>1, <1>2, <1>4, <2>1, WriteFacts DEF HandleFailure
    <2>2. CASE ~(exec[x].attempts + 1 < MaxAttempts)
      BY <1>1, <1>2, <1>4, <2>2, WriteFacts DEF HandleFailure
    <2> QED
      BY <2>1, <2>2
  <1>5. CASE MarkFailed(x)
    BY <1>1, <1>2, <1>5, WriteFacts DEF MarkFailed
  <1> QED
    BY <1>3, <1>4, <1>5

\* Every step keeps the types.
LEMMA TypeStep == TypeOK /\ AgesBounded /\ JobsKnown /\ [Next]_vars => TypeOK'
  <1> SUFFICES ASSUME TypeOK, AgesBounded, JobsKnown, [Next]_vars PROVE TypeOK'
    OBVIOUS
  <1> USE EventsAssumption
  <1>1. ASSUME NEW l \in Listers, Get(l) \/ Evict(l) \/ Query(l) \/ QueryFails(l)
        PROVE  TypeOK'
    <2> USE DEF TypeOK, Request, publishVars
    <2>1. CASE Hit(l)
      <3>1. cache.age \in Nat
        BY <2>1, PageFacts DEF Hit
      <3> QED
        BY <2>1, <3>1 DEF Hit, Answer
    <2>2. CASE Miss(l) \/ Expired(l) \/ QueryFails(l)
      BY <2>2 DEF Miss, Expired, QueryFails, StartQuery, Idle
    <2>3. CASE Evict(l)
      BY <2>3 DEF Evict, StartQuery, Drop
    <2>4. CASE Query(l)
      <3>1. FreshPage \in Page
        BY DEF FreshPage, Page
      <3> QED
        BY <2>4, <3>1 DEF Query
    <2> QED
      BY <1>1, <2>1, <2>2, <2>3, <2>4 DEF Get
  <1>2. ASSUME NEW l \in Listers, Store(l)
        PROVE  TypeOK'
    BY <1>2 DEF Store, Answer, AgesBounded, TypeOK, Request, Page, publishVars
  <1>3. CASE Tick
    <2>1. cache' \in Page \cup {NoPage} /\ left' \in Int
      <3>1. cache # NoPage => Older(cache) \in Page
        BY PageFacts DEF TypeOK
      <3>2. cache' \in {cache, Older(cache)} /\ (cache = NoPage => cache' = NoPage)
        BY <1>3, Zenon DEF Tick
      <3>3. left' \in Int
        BY <1>3 DEF Tick, TypeOK
      <3> QED
        BY <3>1, <3>2, <3>3 DEF TypeOK
    <2>2. ASSUME NEW l \in Listers
          PROVE  list'[l] \in Request
      <3>1. list[l] \in Request /\ (list[l].pc = "store" => list[l].page \in Page)
        BY DEF TypeOK, AgesBounded
      <3>2. list[l].pc = "store" => Older(list[l].page) \in Page
        BY <3>1, PageFacts
      <3>3. CASE list[l].pc = "query"
        <4>1. list'[l] = [list[l] EXCEPT !.timer = list[l].timer + 1]
          BY <1>3, <3>3, Zenon DEF Tick
        <4> QED
          BY <3>1, <4>1 DEF Request
      <3>4. CASE list[l].pc = "store"
        <4>1. list'[l] = [pc |-> "store", page |-> Older(list[l].page),
                          timer |-> list[l].timer + 1]
          BY <1>3, <3>4 DEF Tick
        <4> QED
          BY <3>1, <3>2, <3>4, <4>1 DEF Request
      <3>5. CASE list[l].pc \notin {"query", "store"}
        BY <1>3, <3>1, <3>5 DEF Tick
      <3> QED
        BY <3>3, <3>4, <3>5
    <2>3. list' \in [Listers -> Request]
      BY <1>3, <2>2 DEF Tick
    <2> QED
      BY <1>3, <2>1, <2>3 DEF Tick, TypeOK, publishVars
  <1>4. ASSUME NEW w \in Writers, Clear(w)
        PROVE  TypeOK'
    <2>1. ASSUME NEW l \in Listers
          PROVE  list'[l] \in Request
      <3>1. list[l] \in Request /\ (list[l].pc = "store" => list[l].page \in Page)
        BY DEF TypeOK, AgesBounded
      <3>2. list[l].pc = "store" => Late(list[l].page) \in Page
        BY <3>1, PageFacts
      <3> QED
        BY <1>4, <3>1, <3>2 DEF Clear, Request
    <2>2. list' \in [Listers -> Request]
      BY <1>4, <2>1 DEF Clear
    <2> QED
      BY <1>4, <2>2 DEF Clear, Drop, Later, TypeOK, publishVars
  <1>5. ASSUME NEW w \in Writers, NEW e \in Events, Write(w, e)
        PROVE  TypeOK'
    <2>1. event' \in [Events -> EventRow]
      BY <1>5 DEF Write, Create, Update, Delete, Restore, RestoreActive, SetState, TypeOK, EventRow
    <2>2. /\ version' \in Nat /\ faults' \in Nat
          /\ write' \in [Writers -> [pc : {"idle", "clear"}, version : Nat]]
      BY <1>5 DEF Write, Create, Update, Delete, Restore, RestoreActive, SetState, Wrote, TypeOK
    <2>3. UNCHANGED <<cache, left, list, cleared, publishVars>>
      BY <1>5 DEF Write, Create, Update, Delete, Restore, RestoreActive, SetState
    <2> QED
      BY <2>1, <2>2, <2>3 DEF TypeOK, publishVars
  <1>6. ASSUME NEW e \in Events, Queueing(e)
        PROVE  TypeOK'
    <2>1. job' \in [Events -> JobRow]
      BY <1>6 DEF Queueing, PublishEvent, Claim, Requeue, RetryCheck, RetryApply, TypeOK, JobRow
    <2>2. exec' \in [Execs -> Execution]
      BY <1>6 DEF Queueing, PublishEvent, Claim, Requeue, RetryCheck, RetryApply, TypeOK, JobRow,
                  Execution
    <2>3. retrying' \subseteq Events /\ UNCHANGED <<event, version, apiVars, missed, faults>>
      BY <1>6 DEF Queueing, PublishEvent, Claim, Requeue, RetryCheck, RetryApply, TypeOK
    <2> QED
      BY <2>1, <2>2, <2>3 DEF TypeOK, apiVars
  <1>7. ASSUME NEW x \in Execs, MarkPublished(x) \/ PublishError(x)
        PROVE  TypeOK'
    <2>1. exec[x].event \in Events
      BY <1>7 DEF MarkPublished, PublishError, JobsKnown
    <2>2. event' \in [Events -> EventRow] /\ version' \in Nat
      <3>1. CASE Published(exec[x].event)
        BY <2>1, <3>1 DEF Published, TypeOK, EventRow
      <3>2. CASE UNCHANGED <<event, version>>
        BY <3>2 DEF TypeOK
      <3> QED
        BY <1>7, <3>1, <3>2 DEF MarkPublished, PublishError
    <2>3. missed' \subseteq Events /\ faults' \in Nat /\ UNCHANGED <<apiVars, job, retrying>>
      BY <1>7, <2>1 DEF MarkPublished, PublishError, Fault, TypeOK
    <2>4. exec' \in [Execs -> Execution]
      BY <1>7 DEF MarkPublished, PublishError, TypeOK, Execution
    <2> QED
      BY <2>2, <2>3, <2>4 DEF TypeOK, apiVars
  <1>8. ASSUME NEW x \in Execs, MarkDone(x) \/ HandleFailure(x) \/ MarkFailed(x) \/ Crash(x)
        PROVE  TypeOK'
    <2>1. CASE Crash(x)
      BY <2>1 DEF Crash, Fault, NoExecution, Execution, TypeOK, apiVars
    <2> QED
      BY <1>8, <2>1, EndingFacts
  <1>9. CASE UNCHANGED vars
    BY <1>9 DEF vars, TypeOK
  <1> QED
    BY <1>1, <1>2, <1>3, <1>4, <1>5, <1>6, <1>7, <1>8, <1>9 DEF Next, Load, Execute, Queueing

\* Reading, storing, ageing and dropping pages keep the cache's invariant.
LEMMA CacheStep == TypeOK /\ TypeOK' /\ CacheInv /\ [Next]_vars => CacheInv'
  <1> SUFFICES ASSUME TypeOK, TypeOK', CacheInv, [Next]_vars PROVE CacheInv'
    OBVIOUS
  <1> USE EventsAssumption
  <1>0. AgesBounded /\ ServedFresh /\ PagesCurrent /\ StaleOnlyByOverlap
    BY DEF CacheInv
  <1> USE <1>0
  \* The table may change under the pages: versions only grow.
  <1>1. ASSUME UNCHANGED <<cache, left, list, cleared>>, version <= version',
               \A w \in Writers : write'[w].version <= version'
        PROVE  CacheInv'
    BY <1>1 DEF TypeOK, CacheInv, AgesBounded, ServedFresh, PagesCurrent, StaleOnlyByOverlap
  \* A request that only moves on: no new page.
  <1>2. ASSUME NEW l \in Listers, UNCHANGED <<version, cleared, write>>,
               (cache' = cache /\ left' = left) \/ cache' = NoPage,
               list'[l].pc # "store", \A k \in Listers \ {l} : list'[k] = list[k],
               list'[l].pc = "query" => list'[l].timer <= QueryTimeout,
               list'[l].pc = "answered" => list'[l].timer <= TTL + QueryTimeout
        PROVE  CacheInv'
    <2>1. AgesBounded'
      BY <1>2 DEF AgesBounded
    <2>2. ServedFresh'
      BY <1>2 DEF ServedFresh
    <2>3. PagesCurrent'
      BY <1>2 DEF PagesCurrent
    <2>4. StaleOnlyByOverlap'
      BY <1>2 DEF StaleOnlyByOverlap
    <2> QED
      BY <2>1, <2>2, <2>3, <2>4 DEF CacheInv
  <1>3. ASSUME NEW l \in Listers, Hit(l)
        PROVE  CacheInv'
    <2>1. cache \in Page /\ left >= 0
      BY <1>3 DEF Hit, TypeOK
    <2>2. cache.age <= TTL + QueryTimeout
      BY <2>1, <1>3, PageFacts DEF Hit, AgesBounded, TypeOK
    <2>3. list'[l].pc = "answered" /\ list'[l].timer = cache.age
      BY <1>3 DEF Hit, Answer, TypeOK
    <2> QED
      BY <1>2, <1>3, <2>2, <2>3 DEF Hit, Answer, TypeOK
  <1>4. ASSUME NEW l \in Listers, Miss(l) \/ Expired(l) \/ Evict(l) \/ QueryFails(l)
        PROVE  CacheInv'
    BY <1>2, <1>4
    DEF Miss, Expired, Evict, QueryFails, StartQuery, Drop, Idle, TypeOK
  <1>5. ASSUME NEW l \in Listers, Query(l)
        PROVE  CacheInv'
    <2>1. /\ list'[l].pc = "store" /\ list'[l].page = FreshPage
          /\ list'[l].timer = list[l].timer /\ list[l].pc = "query"
          /\ \A k \in Listers \ {l} : list'[k] = list[k]
      BY <1>5 DEF Query, TypeOK
    <2>2. /\ FreshPage \in Page /\ FreshPage.age = 0 /\ FreshPage.version = version
          /\ list[l].timer \in Nat
      BY DEF FreshPage, Page, TypeOK, Request
    <2>3. UNCHANGED <<version, cache, left, write, cleared>>
      BY <1>5 DEF Query
    <2>4. AgesBounded'
      BY <2>1, <2>2, <2>3 DEF AgesBounded
    <2>5. ServedFresh' /\ StaleOnlyByOverlap'
      BY <2>1, <2>3 DEF ServedFresh, StaleOnlyByOverlap
    <2>6. PagesCurrent'
      BY <2>1, <2>2, <2>3 DEF PagesCurrent
    <2> QED
      BY <2>4, <2>5, <2>6 DEF CacheInv
  <1>6. ASSUME NEW l \in Listers, Store(l)
        PROVE  CacheInv'
    <2>1. /\ list[l].page \in Page /\ list[l].page.age <= list[l].timer
          /\ list[l].timer <= QueryTimeout /\ list[l].timer \in Nat
          /\ list[l].page.age \in Nat
      BY <1>6, PageFacts DEF Store, AgesBounded, TypeOK, Request
    <2>2. /\ cache' = list[l].page /\ left' = TTL
          /\ list'[l].pc = "answered" /\ list'[l].timer = list[l].page.age
          /\ \A k \in Listers \ {l} : list'[k] = list[k]
          /\ UNCHANGED <<version, write, cleared>>
      BY <1>6 DEF Store, Answer, TypeOK
    <2>3. AgesBounded' /\ ServedFresh'
      BY <2>1, <2>2 DEF AgesBounded, ServedFresh
    <2>4. PagesCurrent'
      BY <2>2 DEF PagesCurrent
    <2>5. StaleOnlyByOverlap'
      BY <1>6, <2>1, <2>2 DEF StaleOnlyByOverlap, PagesCurrent, Store, TypeOK, Page
    <2> QED
      BY <2>3, <2>4, <2>5 DEF CacheInv
  <1>7. CASE Tick
    <2>1. UNCHANGED <<version, write, cleared>>
      BY <1>7 DEF Tick
    <2>2. ASSUME NEW l \in Listers
          PROVE  /\ list'[l].pc = list[l].pc
                 /\ list[l].pc \in {"query", "store"} => list'[l].timer = list[l].timer + 1
                 /\ list[l].pc = "store" => list'[l].page = Older(list[l].page)
                 /\ list[l].pc \notin {"query", "store"} => list'[l] = list[l]
      BY <1>7 DEF Tick, TypeOK, Request
    <2>3. AgesBounded'
      <3>1. ASSUME NEW l \in Listers
            PROVE  /\ list'[l].pc = "store" =>
                         list'[l].page \in Page /\ list'[l].page.age <= list'[l].timer
                   /\ list'[l].pc \in {"query", "store"} => list'[l].timer <= QueryTimeout
        <4>1. list[l].timer \in Nat
          BY DEF TypeOK, Request
        <4>2. list[l].pc \in {"query", "store"} => list[l].timer < QueryTimeout
          BY <1>7 DEF Tick
        <4>3. list[l].pc = "store" =>
                 /\ list[l].page \in Page /\ list[l].page.age <= list[l].timer
                 /\ Older(list[l].page) \in Page
                 /\ list[l].page.age \in Nat /\ Older(list[l].page).age \in Nat
                 /\ Older(list[l].page).age <= list[l].page.age + 1
          BY PageFacts DEF AgesBounded
        <4> QED
          BY <2>2, <4>1, <4>2, <4>3
      <3>2. cache' # NoPage /\ left' >= 0 => cache'.age + left' <= TTL + QueryTimeout
        <4>1. SUFFICES ASSUME cache' # NoPage, left' >= 0
                       PROVE  cache'.age + left' <= TTL + QueryTimeout
          OBVIOUS
        <4>2. left >= 0 /\ left' = left - 1 /\ left \in Int
          BY <1>7, <4>1 DEF Tick, TypeOK
        <4>3. cache # NoPage /\ cache \in Page
          BY <1>7, <4>1 DEF Tick, TypeOK
        <4>4. cache' = Older(cache)
          BY <1>7, <4>2, <4>3, Zenon DEF Tick
        <4>5. cache.age \in Nat /\ cache.age + left <= TTL + QueryTimeout
          BY <4>2, <4>3, PageFacts DEF AgesBounded
        <4>6. Older(cache).age <= cache.age + 1 /\ Older(cache).age \in Nat
          BY <4>3, PageFacts
        <4> QED
          BY <4>2, <4>4, <4>5, <4>6
      <3> QED
        BY <3>1, <3>2 DEF AgesBounded
    <2>4. ServedFresh'
      BY <2>2 DEF ServedFresh
    <2>5. PagesCurrent'
      <3>1. ASSUME NEW l \in Listers, list'[l].pc = "store", list'[l].page.clear = "seen"
            PROVE  cleared <= list'[l].page.version
        <4>1. list[l].page \in Page /\ list'[l].page = Older(list[l].page) /\ list[l].pc = "store"
          BY <2>2, <3>1 DEF AgesBounded
        <4>2. /\ Older(list[l].page).version = list[l].page.version
              /\ Older(list[l].page).clear = list[l].page.clear
          BY <4>1, PageFacts
        <4> QED
          BY <3>1, <4>1, <4>2 DEF PagesCurrent
      <3> QED
        BY <2>1, <3>1 DEF PagesCurrent
    <2>6. StaleOnlyByOverlap'
      <3>1. cache # NoPage => /\ cache'.version = cache.version
                              /\ cache'.clear = cache.clear
        <4>1. cache # NoPage => /\ Older(cache).version = cache.version
                                /\ Older(cache).clear = cache.clear
          BY PageFacts DEF TypeOK
        <4>2. cache' = cache \/ cache' = Older(cache)
          BY <1>7, Zenon DEF Tick
        <4> QED
          BY <4>1, <4>2
      <3>2. cache' # NoPage => cache # NoPage
        BY <1>7, Zenon DEF Tick
      <3> QED
        BY <2>1, <3>1, <3>2 DEF StaleOnlyByOverlap
    <2> QED
      BY <2>3, <2>4, <2>5, <2>6 DEF CacheInv
  <1>8. ASSUME NEW w \in Writers, Clear(w)
        PROVE  CacheInv'
    <2>1. /\ cache' = NoPage /\ version' = version
          /\ cleared' \in {cleared, write[w].version} /\ cleared' <= version
          /\ write'[w].version = 0 /\ \A v \in Writers \ {w} : write'[v] = write[v]
      BY <1>8 DEF Clear, Drop, Later, PagesCurrent, TypeOK
    <2>2. ASSUME NEW l \in Listers
          PROVE  /\ list'[l].pc = list[l].pc /\ list'[l].timer = list[l].timer
                 /\ list[l].pc = "store" => list'[l].page = Late(list[l].page)
      BY <1>8 DEF Clear, TypeOK, Request
    <2>3. ASSUME NEW l \in Listers, list[l].pc = "store"
          PROVE  /\ list[l].page \in Page /\ Late(list[l].page) \in Page
                 /\ Late(list[l].page).age = list[l].page.age
                 /\ Late(list[l].page).clear = "missed"
      BY <2>3, PageFacts DEF AgesBounded
    <2>4. AgesBounded'
      BY <2>1, <2>2, <2>3 DEF AgesBounded
    <2>5. ServedFresh'
      BY <2>2 DEF ServedFresh
    <2>6. PagesCurrent'
      <3>1. \A v \in Writers : write'[v].version <= version
        BY <2>1 DEF PagesCurrent, TypeOK
      <3>2. ASSUME NEW l \in Listers, list'[l].pc = "store"
            PROVE  list'[l].page.clear = "missed"
        BY <2>2, <2>3, <3>2
      <3> QED
        BY <2>1, <3>1, <3>2 DEF PagesCurrent
    <2>7. StaleOnlyByOverlap'
      BY <2>1 DEF StaleOnlyByOverlap
    <2> QED
      BY <2>4, <2>5, <2>6, <2>7 DEF CacheInv
  <1>9. ASSUME NEW w \in Writers, NEW e \in Events, Write(w, e)
        PROVE  CacheInv'
    <2>1. UNCHANGED <<cache, left, list, cleared>> /\ version <= version'
      BY <1>9 DEF Write, Create, Update, Delete, Restore, RestoreActive, SetState, Wrote, TypeOK
    <2>2. \A v \in Writers : write'[v].version <= version'
      <3>1. CASE Wrote(w)
        BY <3>1 DEF Wrote, PagesCurrent, TypeOK
      <3>2. CASE RestoreActive(w, e)
        BY <3>2 DEF RestoreActive, PagesCurrent, TypeOK
      <3> QED
        BY <1>9, <3>1, <3>2 DEF Write, Create, Update, Delete, Restore, SetState
    <2> QED
      BY <1>1, <2>1, <2>2
  <1>10. ASSUME NEW e \in Events, Queueing(e)
         PROVE  CacheInv'
    <2>1. UNCHANGED <<apiVars, version>>
      BY <1>10 DEF Queueing, PublishEvent, Claim, Requeue, RetryCheck, RetryApply
    <2> QED
      BY <1>1, <2>1 DEF apiVars, PagesCurrent, TypeOK
  <1>11. ASSUME NEW x \in Execs, Execute(x) \/ Crash(x)
         PROVE  CacheInv'
    <2>1. UNCHANGED apiVars /\ version <= version'
      <3>1. version' \in {version, version + 1}
        <4>1. CASE MarkPublished(x)
          BY <4>1, Zenon DEF MarkPublished, Published
        <4>2. CASE PublishError(x)
          BY <4>2, Zenon DEF PublishError, Published
        <4> QED
          BY <1>11, <4>1, <4>2 DEF Execute, MarkDone, HandleFailure, MarkFailed, WriteJob, Crash
      <3>2. UNCHANGED apiVars
        BY <1>11 DEF Execute, MarkPublished, PublishError, MarkDone, HandleFailure, MarkFailed,
                     WriteJob, Crash
      <3> QED
        BY <3>1, <3>2 DEF TypeOK
    <2> QED
      BY <1>1, <2>1 DEF apiVars, PagesCurrent, TypeOK
  <1>12. CASE UNCHANGED vars
    BY <1>1, <1>12 DEF vars, PagesCurrent, TypeOK
  <1> QED
    BY <1>3, <1>4, <1>5, <1>6, <1>7, <1>8, <1>9, <1>10, <1>11, <1>12
    DEF Next, Get, Load, Queueing

\* Only MarkPublished sets published_at, and only where it is not set.
LEMMA PublishedKept ==
    ASSUME TypeOK, JobsKnown, [Next]_vars, NEW e \in Events, event[e].published_at # 0
    PROVE  event'[e].published_at = event[e].published_at
  <1>1. ASSUME NEW w \in Writers, NEW f \in Events, NEW from, NEW to, SetState(w, f, from, to)
        PROVE  event'[e].published_at = event[e].published_at
    BY <1>1 DEF SetState, TypeOK, EventRow
  <1>2. ASSUME NEW x \in Execs, MarkPublished(x) \/ PublishError(x)
        PROVE  event'[e].published_at = event[e].published_at
    <2>1. CASE Publishable(exec[x].event) /\ Published(exec[x].event)
      <3>1. exec[x].event # e /\ exec[x].event \in Events
        BY <1>2, <2>1 DEF Publishable, MarkPublished, PublishError, JobsKnown
      <3> QED
        BY <2>1, <3>1 DEF Published, TypeOK
    <2>2. CASE UNCHANGED <<event, version>>
      BY <2>2
    <2> QED
      BY <1>2, <2>1, <2>2 DEF MarkPublished, PublishError
  <1>3. CASE UNCHANGED event
    BY <1>3
  <1>4. (\E x \in Execs : MarkPublished(x) \/ PublishError(x)) \/ UNCHANGED event
        \/ \E w \in Writers, f \in Events : Create(w, f) \/ Update(w, f) \/ Delete(w, f) \/ Restore(w, f)
    BY DEF Next, Get, Hit, Miss, Expired, Load, Evict, Query, QueryFails, Store, Tick, Clear, Write,
           RestoreActive, PublishEvent, Requeue, RetryCheck, RetryApply, Claim, Execute, MarkDone,
           HandleFailure, MarkFailed, WriteJob, Crash, vars
  <1> QED
    BY <1>1, <1>2, <1>3, <1>4 DEF Create, Update, Delete, Restore

\* A job is acknowledged by an execution that published the event or found it deleted.
LEMMA PublishStep == TypeOK /\ PublishInv /\ [Next]_vars => PublishInv'
  <1> SUFFICES ASSUME TypeOK, PublishInv, [Next]_vars PROVE PublishInv'
    OBVIOUS
  <1> USE EventsAssumption
  <1>0. JobsKnown /\ DoneMeansPublished
    BY DEF PublishInv
  <1> USE <1>0
  <1>1. \A e \in Events : event[e].published_at # 0 => event'[e].published_at # 0
    BY PublishedKept
  <1>2. ASSUME UNCHANGED publishVars,
               \A e \in Events : event[e].state # "absent" => event'[e].state # "absent"
        PROVE  PublishInv'
    BY <1>1, <1>2 DEF publishVars, PublishInv, JobsKnown, DoneMeansPublished
  <1>3. ASSUME NEW w \in Writers, NEW f \in Events, NEW from,
               NEW to \in {"active", "deleted"}, SetState(w, f, from, to)
        PROVE  PublishInv'
    <2>1. \A e \in Events : event[e].state # "absent" => event'[e].state # "absent"
      BY <1>3 DEF SetState, TypeOK, EventRow
    <2> QED
      BY <1>2, <1>3, <2>1 DEF SetState
  <1>4. ASSUME NEW w \in Writers, NEW e \in Events, Write(w, e)
        PROVE  PublishInv'
    BY <1>2, <1>3, <1>4 DEF Write, Create, Update, Delete, Restore, RestoreActive
  <1>5. ASSUME NEW e \in Events, Queueing(e)
        PROVE  PublishInv'
    <2>1. /\ UNCHANGED <<event, missed>> /\ event[e].state # "absent"
          /\ \A f \in Events \ {e} : job'[f] = job[f] /\ (f \in retrying' => f \in retrying)
          /\ job'[e] = job[e] \/ job'[e].status # "done"
      BY <1>5 DEF Queueing, PublishEvent, Claim, Requeue, RetryCheck, RetryApply, JobsKnown,
                  TypeOK, JobRow
    <2>2. \A x \in Execs : exec'[x] = exec[x] \/ (exec'[x].pc = "mark" /\ exec'[x].event = e)
      BY <1>5 DEF Queueing, PublishEvent, Claim, Requeue, RetryCheck, RetryApply, TypeOK
    <2> QED
      BY <2>1, <2>2 DEF PublishInv, JobsKnown, DoneMeansPublished
  <1>6. ASSUME NEW x \in Execs, PublishError(x)
        PROVE  PublishInv'
    <2>1. exec[x].event \in Events /\ UNCHANGED <<job, retrying, missed>>
      BY <1>6 DEF PublishError, JobsKnown
    <2>2. \A e \in Events : event'[e].state = event[e].state
      BY <1>6, <2>1 DEF PublishError, Published, TypeOK, EventRow
    <2>3. /\ exec'[x].event = exec[x].event /\ exec'[x].pc = "fail"
          /\ \A y \in Execs \ {x} : exec'[y] = exec[y]
          /\ exec[x].pc # "idle"
      BY <1>6 DEF PublishError, TypeOK, Execution
    <2> QED
      BY <1>1, <2>1, <2>2, <2>3 DEF PublishInv, JobsKnown, DoneMeansPublished
  <1>7. ASSUME NEW x \in Execs, MarkPublished(x)
        PROVE  PublishInv'
    <2> DEFINE f == exec[x].event
    <2>1. /\ f \in Events /\ event[f].state \in {"active", "deleted"}
          /\ job' = job /\ retrying' = retrying
      BY <1>7 DEF MarkPublished, JobsKnown, TypeOK, EventRow
    <2>2. \A e \in Events : event'[e].state = event[e].state
      <3>1. CASE Publishable(f)
        BY <1>7, <2>1, <3>1 DEF MarkPublished, Published, TypeOK, EventRow
      <3>2. CASE ~Publishable(f)
        BY <1>7, <3>2 DEF MarkPublished
      <3> QED
        BY <3>1, <3>2
    <2>3. event'[f].published_at # 0 \/ f \in missed'
      <3>1. CASE Publishable(f)
        BY <1>7, <2>1, <3>1 DEF MarkPublished, Published, TypeOK, EventRow
      <3>2. CASE ~Publishable(f) /\ event[f].state = "active"
        BY <1>7, <1>1, <2>1, <3>2 DEF MarkPublished, Publishable
      <3>3. CASE event[f].state = "deleted"
        BY <1>7, <3>3 DEF MarkPublished
      <3> QED
        BY <2>1, <3>1, <3>2, <3>3
    <2>4. missed \subseteq missed'
      BY <1>7 DEF MarkPublished
    <2>5. /\ exec'[x].event = f /\ \A y \in Execs \ {x} : exec'[y] = exec[y]
          /\ exec[x].pc # "idle"
      BY <1>7 DEF MarkPublished, TypeOK
    <2>6. JobsKnown'
      BY <1>1, <2>1, <2>2, <2>3, <2>4, <2>5 DEF JobsKnown
    <2>7. DoneMeansPublished'
      BY <1>1, <2>1, <2>4 DEF DoneMeansPublished
    <2> QED
      BY <2>6, <2>7 DEF PublishInv
  <1>8. ASSUME NEW x \in Execs, MarkDone(x) \/ HandleFailure(x) \/ MarkFailed(x)
        PROVE  PublishInv'
    <2> DEFINE f == exec[x].event
    <2>1. PICK status \in {"pending", "done", "failed"} :
             JobWritten(x, f, status) /\ (status = "done" => exec[x].pc = "ack")
      BY <1>8, EndingFacts
    <2>2. f \in Events /\ event[f].state # "absent"
      BY <1>8 DEF MarkDone, HandleFailure, MarkFailed, JobsKnown
    <2>3. status = "done" => event[f].published_at # 0 \/ f \in missed
      BY <2>1 DEF JobsKnown
    <2> QED
      BY <2>1, <2>2, <2>3 DEF JobWritten, PublishInv, JobsKnown, DoneMeansPublished
  <1>9. ASSUME NEW x \in Execs, Crash(x)
        PROVE  PublishInv'
    BY <1>9 DEF Crash, NoExecution, PublishInv, JobsKnown, DoneMeansPublished, TypeOK
  <1>10. CASE (\E l \in Listers : Get(l) \/ Load(l)) \/ Tick \/ (\E w \in Writers : Clear(w))
              \/ UNCHANGED vars
    <2>1. UNCHANGED <<event, publishVars>>
      BY <1>10 DEF Get, Hit, Miss, Expired, Load, Evict, Query, QueryFails, Store, Tick, Clear,
                   vars, publishVars
    <2> QED
      BY <1>2, <2>1
  <1> QED
    BY <1>4, <1>5, <1>6, <1>7, <1>8, <1>9, <1>10 DEF Next, Execute, Queueing

EventInv == TypeOK /\ CacheInv /\ PublishInv

\* The parts hold together: at the start, and after every step.
LEMMA EventAlways == Spec => []EventInv
  <1>1. Init => EventInv
    BY EventsAssumption
    DEF Init, EventInv, TypeOK, EventRow, JobRow, Execution, NoExecution, Request, Idle, CacheInv, AgesBounded, ServedFresh,
        PagesCurrent, StaleOnlyByOverlap, PublishInv, JobsKnown, DoneMeansPublished
  <1>2. EventInv /\ [Next]_vars => EventInv'
    BY TypeStep, CacheStep, PublishStep DEF EventInv, CacheInv, PublishInv
  <1> QED
    BY <1>1, <1>2, PTL DEF Spec

\* Events, the cache, the handlers and the publish jobs keep their types.
THEOREM LifecycleTypes == Spec => []TypeOK
  BY EventAlways, PTL DEF EventInv

\* Whatever the interleaving of Get, Set, Clear and the late delete, no answer of
\* ListEvents is older than an entry's lifetime and one query.
THEOREM ListsAreFresh == Spec => []ServedFresh
  <1>1. EventInv => ServedFresh
    BY DEF EventInv, CacheInv
  <1> QED
    BY <1>1, EventAlways, PTL

\* After the Clear of a write the cache hides that write only by a page whose query
\* was under way at the Clear.
THEOREM ClearHidesNothing == Spec => []StaleOnlyByOverlap
  <1>1. EventInv => StaleOnlyByOverlap
    BY DEF EventInv, CacheInv
  <1> QED
    BY <1>1, EventAlways, PTL

\* A publish job that is done has published its event, or an execution of it found
\* the event deleted.
THEOREM DoneJobsPublished == Spec => []DoneMeansPublished
  <1>1. EventInv => DoneMeansPublished
    BY DEF EventInv, PublishInv
  <1> QED
    BY <1>1, EventAlways, PTL

\* However often a publish job is executed, published_at is written once.
THEOREM PublishingIsIdempotent == Spec => PublishedOnce
  <1>1. EventInv /\ [Next]_vars =>
           [\A e \in Events : event[e].published_at # 0
               => event'[e].published_at = event[e].published_at]_vars
    BY PublishedKept DEF EventInv, PublishInv
  <1> QED
    BY <1>1, EventAlways, PTL DEF Spec, PublishedOnce
=============================================================================
