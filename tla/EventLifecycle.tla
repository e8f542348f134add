---------------------------- MODULE EventLifecycle ----------------------------
(***************************************************************************)
(* Events: the admin's writes (handlers/events.go, events_repo.go), the      *)
(* cached first page of ListEvents (cache.go) and publishing through a job   *)
(* (handlers/jobs.go, the event.publish branch of execute).                  *)
(*                                                                         *)
(* The cache belongs to the API process and is dropped by its handlers after *)
(* their statement; the worker is another process and drops nothing.  A page *)
(* is the version of the table it was read from.  Cursor pages and pages     *)
(* with a total are never cached and are left out.  Time is relative: ages   *)
(* of pages, the time an entry has left, how long a query has been running.  *)
(* Of the queue (JobQueue) a publish job keeps its status and its attempts;  *)
(* leases have no length, so one may run out at any time.                    *)
(***************************************************************************)
EXTENDS Integers, FiniteSets

CONSTANTS
    Events, Listers, Writers, Execs,
    TTL,           \* lifetime of a cache entry
    QueryTimeout,  \* deadline of ListEvents' query
    MaxAttempts,   \* max_attempts of a publish job
    MaxVersion,    \* bound: admin writes are made up to this version
    MaxFaults,     \* bound: statements that fail or lose their answer, crashes
    NoPage, NoEvent

ASSUME EventsAssumption ==
    /\ TTL \in Nat /\ QueryTimeout \in Nat /\ MaxAttempts \in Nat
    /\ MaxVersion \in Nat /\ MaxFaults \in Nat
    /\ NoEvent \notin Events
    /\ NoPage \notin [version : Nat, age : Nat, clear : {"seen", "missed"}]

VARIABLES
    event,    \* the table events
    version,  \* counts the changes of the table
    cache,    \* the page in the cache, or NoPage
    left,     \* what is left of its lifetime, below zero when it has expired
    list,     \* ListEvents requests: the page read, how long the query has been running
    write,    \* admin requests
    job,      \* the publish job of each event
    exec,     \* executions of publish jobs, with the attempts their claim returned
    retrying, \* jobs that an admin has found failed and is about to put back
    cleared,  \* history: the newest version after whose write the cache was dropped
    missed,   \* history: events an execution found deleted
    faults

vars == <<event, version, cache, left, list, write, job, exec, retrying, cleared, missed,
          faults>>
apiVars == <<cache, left, list, write, cleared>>
publishVars == <<job, exec, retrying, missed>>

Page == [version : Nat, age : Nat, clear : {"seen", "missed"}]

EventRow == [state : {"absent", "active", "deleted"}, published_at : Nat]

Request == [pc : {"idle", "evict", "query", "store", "answered"},
            page : Page \cup {NoPage}, timer : Nat]

Idle == [pc |-> "idle", page |-> NoPage, timer |-> 0]

JobRow == [status : {"absent", "pending", "processing", "done", "failed"}, attempts : Nat]

Execution == [pc : {"idle", "mark", "ack", "fail", "dead"}, event : Events \cup {NoEvent},
              attempts : Nat]

NoExecution == [pc |-> "idle", event |-> NoEvent, attempts |-> 0]

TypeOK ==
    /\ event \in [Events -> EventRow]
    /\ version \in Nat
    /\ cache \in Page \cup {NoPage}
    /\ left \in Int
    /\ list \in [Listers -> Request]
    /\ write \in [Writers -> [pc : {"idle", "clear"}, version : Nat]]
    /\ job \in [Events -> JobRow]
    /\ exec \in [Execs -> Execution]
    /\ retrying \subseteq Events
    /\ cleared \in Nat
    /\ missed \subseteq Events
    /\ faults \in Nat

Init ==
    /\ event = [e \in Events |-> [state |-> "absent", published_at |-> 0]]
    /\ version = 0
    /\ cache = NoPage
    /\ left = -1
    /\ list = [l \in Listers |-> Idle]
    /\ write = [w \in Writers |-> [pc |-> "idle", version |-> 0]]
    /\ job = [e \in Events |-> [status |-> "absent", attempts |-> 0]]
    /\ exec = [x \in Execs |-> NoExecution]
    /\ retrying = {}
    /\ cleared = 0
    /\ missed = {}
    /\ faults = 0

-----------------------------------------------------------------------------
(* ListEvents: Get, the query and Set.                                      *)

Free(l) == list[l].pc \in {"idle", "answered"}

\* Of the answer only the age of its page is kept.
Answer(l, page) ==
    list' = [list EXCEPT ![l] = [pc |-> "answered", page |-> NoPage, timer |-> page.age]]

StartQuery(l) == list' = [list EXCEPT ![l] = [pc |-> "query", page |-> NoPage, timer |-> 0]]

HitSliding(l) ==
    /\ Free(l) /\ cache # NoPage /\ left >= 0
    /\ Answer(l, cache)
    /\ left' = TTL
    /\ UNCHANGED <<event, version, cache, write, cleared, publishVars, faults>>

HitIgnoringExpiry(l) ==
    /\ Free(l) /\ cache # NoPage
    /\ Answer(l, cache)
    /\ UNCHANGED <<event, version, cache, left, write, cleared, publishVars, faults>>

Drop == cache' = NoPage /\ left' = -1

\* Get: an entry is good up to and including its last instant.
Hit(l) ==
    /\ Free(l) /\ cache # NoPage /\ left >= 0
    /\ Answer(l, cache)
    /\ UNCHANGED <<event, version, cache, left, write, cleared, publishVars, faults>>

Miss(l) ==
    /\ Free(l) /\ cache = NoPage
    /\ StartQuery(l)
    /\ UNCHANGED <<event, version, cache, left, write, cleared, publishVars, faults>>

\* Get finds the entry expired and gives up the read lock before it takes the lock
\* to delete it ...
Expired(l) ==
    /\ Free(l) /\ cache # NoPage /\ left < 0
    /\ list' = [list EXCEPT ![l] = [pc |-> "evict", page |-> NoPage, timer |-> 0]]
    /\ UNCHANGED <<event, version, cache, left, write, cleared, publishVars, faults>>

\* ... and deletes whatever is there by then.
Evict(l) ==
    /\ list[l].pc = "evict"
    /\ Drop
    /\ StartQuery(l)
    /\ UNCHANGED <<event, version, write, cleared, publishVars, faults>>

FreshPage == [version |-> version, age |-> 0, clear |-> "seen"]

\* ListCursor.
Query(l) ==
    /\ list[l].pc = "query"
    /\ list' = [list EXCEPT ![l] =
          [pc |-> "store", page |-> FreshPage, timer |-> list[l].timer]]
    /\ UNCHANGED <<event, version, cache, left, write, cleared, publishVars, faults>>

QueryFails(l) ==
    /\ list[l].pc = "query"
    /\ list' = [list EXCEPT ![l] = Idle]
    /\ UNCHANGED <<event, version, cache, left, write, cleared, publishVars, faults>>

\* Set, and the answer.
Store(l) ==
    /\ list[l].pc = "store"
    /\ cache' = list[l].page
    /\ left' = TTL
    /\ Answer(l, list[l].page)
    /\ UNCHANGED <<event, version, write, cleared, publishVars, faults>>

\* An age past the largest that matters is not counted on.
Older(page) == [page EXCEPT !.age = IF @ > TTL + QueryTimeout THEN @ ELSE @ + 1]

\* Time passes.  A query is cut off at its deadline, and its page is stored at once.
Tick ==
    /\ \A l \in Listers : list[l].pc \in {"query", "store"} => list[l].timer < QueryTimeout
    /\ left' = IF left >= 0 THEN left - 1 ELSE left
    /\ cache' = IF cache # NoPage /\ left >= 0 THEN Older(cache) ELSE cache
    /\ list' = [l \in Listers |->
          CASE list[l].pc = "query" -> [list[l] EXCEPT !.timer = @ + 1]
            [] list[l].pc = "store" -> [pc |-> "store", page |-> Older(list[l].page), timer |-> list[l].timer + 1]
            [] OTHER -> list[l]]
    /\ UNCHANGED <<event, version, write, cleared, publishVars, faults>>

-----------------------------------------------------------------------------
(* CreateEvent, UpdateEvent, DeleteEvent, RestoreEvent: one statement, then  *)
(* Clear.  A statement that matches no row is answered 404 and changes       *)
(* nothing.                                                                 *)

\* The statement was applied; its error, if the answer is lost, skips the Clear.
Wrote(w) ==
    /\ version' = version + 1
    /\ \/ /\ write' = [write EXCEPT ![w] = [pc |-> "clear", version |-> version + 1]]
          /\ UNCHANGED faults
       \/ /\ faults < MaxFaults
          /\ faults' = faults + 1
          /\ UNCHANGED write

MayWrite(w) == write[w].pc = "idle" /\ version < MaxVersion

SetState(w, e, from, to) ==
    /\ MayWrite(w)
    /\ event[e].state = from
    /\ event' = [event EXCEPT ![e].state = to]
    /\ Wrote(w)
    /\ UNCHANGED <<cache, left, list, cleared, publishVars>>

Create(w, e) == SetState(w, e, "absent", "active")
Update(w, e) == SetState(w, e, "active", "active")
Delete(w, e) == SetState(w, e, "active", "deleted")
Restore(w, e) == SetState(w, e, "deleted", "active")

\* Restore of an event that is not deleted reads it, and drops the cache as well.
RestoreActive(w, e) ==
    /\ MayWrite(w)
    /\ event[e].state = "active"
    /\ write' = [write EXCEPT ![w] = [pc |-> "clear", version |-> version]]
    /\ UNCHANGED <<event, version, cache, left, list, cleared, publishVars, faults>>

Later(m, n) == IF m > n THEN m ELSE n

ClearForgotten(w) ==
    /\ write[w].pc = "clear"
    /\ cleared' = Later(cleared, write[w].version)
    /\ write' = [write EXCEPT ![w] = [pc |-> "idle", version |-> 0]]
    /\ UNCHANGED <<event, version, cache, left, list, publishVars, faults>>

Late(page) == [page EXCEPT !.clear = "missed"]

\* A page that a request has read and not yet stored misses the Clear.
Clear(w) ==
    /\ write[w].pc = "clear"
    /\ Drop
    /\ cleared' = Later(cleared, write[w].version)
    /\ write' = [write EXCEPT ![w] = [pc |-> "idle", version |-> 0]]
    /\ list' = [l \in Listers |->
          IF list[l].pc = "store" THEN [list[l] EXCEPT !.page = Late(@)] ELSE list[l]]
    /\ UNCHANGED <<event, version, publishVars, faults>>

-----------------------------------------------------------------------------
(* Publishing: the request, the life of the job, its execution.             *)

\* The job's idempotency key is the event's id.  Whether the event is deleted is not
\* asked (a client knows the ids of events that exist, or did).  A second request is
\* told alreadyEnqueued, whatever has become of the job.
PublishEvent(e) ==
    /\ event[e].state # "absent"
    /\ job[e].status = "absent"
    /\ job' = [job EXCEPT ![e].status = "pending"]
    /\ UNCHANGED <<event, version, apiVars, exec, retrying, missed, faults>>

ClaimOffByOne(x, e) ==
    /\ exec[x].pc = "idle"
    /\ job[e].status = "pending" /\ job[e].attempts + 1 < MaxAttempts
    /\ job' = [job EXCEPT ![e].status = "processing"]
    /\ exec' = [exec EXCEPT ![x] = [pc |-> "mark", event |-> e, attempts |-> job[e].attempts]]
    /\ UNCHANGED <<event, version, apiVars, retrying, missed, faults>>

\* ClaimNext gives the job to a goroutine.
Claim(x, e) ==
    /\ exec[x].pc = "idle"
    /\ job[e].status = "pending" /\ job[e].attempts < MaxAttempts
    /\ job' = [job EXCEPT ![e].status = "processing"]
    /\ exec' = [exec EXCEPT ![x] = [pc |-> "mark", event |-> e, attempts |-> job[e].attempts]]
    /\ UNCHANGED <<event, version, apiVars, retrying, missed, faults>>

\* RequeueStaleProcessing: the holder has crashed, or is slower than its lease.
Requeue(e) ==
    /\ job[e].status = "processing"
    /\ job' = [job EXCEPT ![e].status = "pending"]
    /\ UNCHANGED <<event, version, apiVars, exec, retrying, missed, faults>>

\* An admin's Retry: its check ...
RetryCheck(e) ==
    /\ job[e].status = "failed"
    /\ retrying' = retrying \cup {e}
    /\ UNCHANGED <<event, version, apiVars, job, exec, missed, faults>>

\* ... and its UPDATE, which does not look at the status again; there may be other
\* requests on their way.
RetryApply(e) ==
    /\ e \in retrying
    /\ retrying' \in {retrying, retrying \ {e}}
    /\ job' = [job EXCEPT ![e].status = "pending"]
    /\ UNCHANGED <<event, version, apiVars, exec, missed, faults>>

Publishable(e) == event[e].state = "active" /\ event[e].published_at = 0

Published(e) ==
    /\ event' = [event EXCEPT ![e].published_at = version + 1]
    /\ version' = version + 1

MarkPublishedAgain(x) ==
    LET e == exec[x].event IN
    /\ exec[x].pc = "mark"
    /\ exec' = [exec EXCEPT ![x].pc = "ack"]
    /\ IF event[e].state = "active" THEN Published(e) ELSE UNCHANGED <<event, version>>
    /\ missed' = IF event[e].state = "deleted" THEN missed \cup {e} ELSE missed
    /\ UNCHANGED <<apiVars, job, retrying, faults>>

\* MarkPublished; no row matched counts as already published, also when the event is
\* deleted.
MarkPublished(x) ==
    LET e == exec[x].event IN
    /\ exec[x].pc = "mark"
    /\ exec' = [exec EXCEPT ![x].pc = "ack"]
    /\ IF Publishable(e) THEN Published(e) ELSE UNCHANGED <<event, version>>
    /\ missed' = IF event[e].state = "deleted" THEN missed \cup {e} ELSE missed
    /\ UNCHANGED <<apiVars, job, retrying, faults>>

Fault == faults < MaxFaults /\ faults' = faults + 1

PublishErrorSwallowed(x) ==
    /\ exec[x].pc = "mark"
    /\ Fault
    /\ exec' = [exec EXCEPT ![x].pc = "ack"]
    /\ \/ Publishable(exec[x].event) /\ Published(exec[x].event)
       \/ UNCHANGED <<event, version>>
    /\ UNCHANGED <<apiVars, job, retrying, missed>>

\* Its UPDATE fails, or was applied and the answer is lost: execute returns the error.
PublishError(x) ==
    /\ exec[x].pc = "mark"
    /\ Fault
    /\ exec' = [exec EXCEPT ![x].pc = "fail"]
    /\ \/ Publishable(exec[x].event) /\ Published(exec[x].event)
       \/ UNCHANGED <<event, version>>
    /\ UNCHANGED <<apiVars, job, retrying, missed>>

\* One UPDATE of the job by id, whatever its status; when it fails, or its answer is
\* lost, the execution goes on at pc.
WriteJob(x, status, attempts, pc) ==
    LET written == [job EXCEPT ![exec[x].event] = [status |-> status, attempts |-> attempts]] IN
    /\ \/ /\ job' = written
          /\ exec' = [exec EXCEPT ![x] = NoExecution]
          /\ UNCHANGED faults
       \/ /\ Fault
          /\ job' \in {job, written}
          /\ exec' = [exec EXCEPT ![x] = IF pc = "idle" THEN NoExecution ELSE [@ EXCEPT !.pc = pc]]
    /\ UNCHANGED <<event, version, apiVars, retrying, missed>>

Attempts(x) == job[exec[x].event].attempts

MarkDone(x) ==
    /\ exec[x].pc = "ack"
    /\ WriteJob(x, "done", Attempts(x), "dead")

\* handleFailure: Reschedule while the claimed row had attempts left, else MarkFailed.
HandleFailure(x) ==
    /\ exec[x].pc = "fail"
    /\ IF exec[x].attempts + 1 < MaxAttempts
       THEN WriteJob(x, "pending", Attempts(x) + 1, "dead")
       ELSE WriteJob(x, "failed", Attempts(x), "idle")

\* MarkFailed after a MarkDone or a Reschedule that failed; its own error is ignored.
MarkFailed(x) ==
    /\ exec[x].pc = "dead"
    /\ WriteJob(x, "failed", Attempts(x), "idle")

Crash(x) ==
    /\ exec[x].pc # "idle"
    /\ Fault
    /\ exec' = [exec EXCEPT ![x] = NoExecution]
    /\ UNCHANGED <<event, version, apiVars, job, retrying, missed>>

-----------------------------------------------------------------------------
Get(l) == Hit(l) \/ Miss(l) \/ Expired(l)

Load(l) == Evict(l) \/ Query(l) \/ QueryFails(l) \/ Store(l)

Write(w, e) ==
    Create(w, e) \/ Update(w, e) \/ Delete(w, e) \/ Restore(w, e) \/ RestoreActive(w, e)

Execute(x) ==
    MarkPublished(x) \/ PublishError(x) \/ MarkDone(x) \/ HandleFailure(x) \/ MarkFailed(x)

Next ==
    \/ \E l \in Listers : Get(l) \/ Load(l)
    \/ \E w \in Writers : Clear(w) \/ \E e \in Events : Write(w, e)
    \/ \E e \in Events : PublishEvent(e) \/ Requeue(e) \/ RetryCheck(e) \/ RetryApply(e)
    \/ \E x \in Execs : Execute(x) \/ Crash(x) \/ \E e \in Events : Claim(x, e)
    \/ Tick

\* Handlers and executions that run go on, a queued job is claimed, the requeue loop
\* finds a lease that has run out, time passes.  No admin has to retry anything.
Fairness ==
    /\ \A l \in Listers : WF_vars(Load(l))
    /\ \A w \in Writers : WF_vars(Clear(w))
    /\ \A x \in Execs : WF_vars(Execute(x))
    /\ \A e \in Events : WF_vars(Requeue(e)) /\ WF_vars(\E x \in Execs : Claim(x, e))
    /\ WF_vars(Tick)

Spec == Init /\ [][Next]_vars /\ Fairness

-----------------------------------------------------------------------------
(* Properties.                                                              *)

\* A list is never older than the cache's lifetime and one query together, whatever
\* Set, Clear, expiry and the late delete in Get do in between.
ServedFresh ==
    \A l \in Listers :
        list[l].pc = "answered" => list[l].timer <= TTL + QueryTimeout

\* Once a handler has dropped the cache after its write, only a page whose query was
\* already under way can still hide that write.
StaleOnlyByOverlap ==
    cache # NoPage /\ cache.version < cleared => cache.clear = "missed"

\* published_at is the consumer's guard: executing a publish job again does not
\* publish again, be it after a lost answer, an outlived lease or a late retry.
PublishedOnce ==
    [][\A e \in Events : event[e].published_at # 0
          => event'[e].published_at = event[e].published_at]_vars

\* A publish job is done only if the event is published, or an execution found it
\* deleted.
DoneMeansPublished ==
    \A e \in Events :
        job[e].status = "done" => event[e].published_at # 0 \/ e \in missed

\* Dead-lettered, or pending with its attempts used up (by two executions at once).
GivenUp(e) ==
    \/ job[e].status = "failed"
    \/ job[e].status = "pending" /\ job[e].attempts >= MaxAttempts

\* A publish request is not lost, whatever fails on the way: the event is published,
\* an execution finds it deleted, or the job ends where an admin has to look for it.
PublishTakesEffect ==
    \A e \in Events :
        job[e].status # "absent" ~> event[e].published_at # 0 \/ e \in missed \/ GivenUp(e)

\* When the writes stop, what the cache would serve is current in the end: also after
\* writes that never dropped it and pages stored late.
EventuallyCurrent ==
    <>[](cache # NoPage /\ left >= 0 => cache.version = version)
=============================================================================
