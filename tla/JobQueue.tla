------------------------------ MODULE JobQueue ------------------------------
(***************************************************************************)
(* The jobs table of Postgres (internal/repo/postgres/jobs_repo.go), the    *)
(* worker processes that consume it (internal/queue/worker) and the admin   *)
(* endpoints that put dead-lettered jobs back (handlers/admin_jobs.go).     *)
(*                                                                         *)
(* One SQL statement is one step.  What a goroutine knows of its job is the *)
(* copy ClaimNext returned, which may be older than the row.  Time is       *)
(* abstracted to the two comparisons the statements make: `due' is          *)
(* run_at <= NOW(), `stale' is locked_at < NOW() - LockTTL.                 *)
(***************************************************************************)
EXTENDS Naturals, FiniteSets

CONSTANTS
    Jobs,           \* idempotency keys; each names at most one row
    Procs,          \* worker processes
    Slots,          \* goroutines of one process (cfg.Concurrency of them)
    Producer,       \* the loop of Run that claims, apart from the goroutines
    Admins,         \* concurrent admin requests
    MaxAttempts,    \* jobs.max_attempts
    RetryLimit,     \* the limit of reprocess-dead
    Outcomes,       \* what may come of a write: "ok", "lost", "unacked"
    LeaseOutlived,  \* may a lock expire while its holder is still at work?
    MaxFaults,      \* bound: crashes, signals and failed writes
    MaxRetries,     \* bound: admin requests
    NoJob, NoProc

\* The deployments the code allows: job.New turns a max_attempts <= 0 into 25.
ASSUME ConstantsAssumption ==
    /\ MaxAttempts \in [Jobs -> Nat \ {0}]
    /\ RetryLimit \in Nat \ {0}
    /\ Outcomes \subseteq {"ok", "lost", "unacked"}
    /\ LeaseOutlived \in BOOLEAN
    /\ MaxFaults \in Nat /\ MaxRetries \in Nat
    /\ NoJob \notin Jobs /\ NoProc \notin Procs /\ Producer \notin Slots

\* A deployment runs a number of worker processes, at least one, and each starts
\* cfg.Concurrency goroutines.
ASSUME DeploymentAssumption ==
    IsFiniteSet(Procs) /\ Procs # {} /\ IsFiniteSet(Slots)

VARIABLES
    jobs,       \* the table
    proc,       \* each process: "running", "stopping" (ctx cancelled) or "down"
    task,       \* what each producer and each goroutine is doing, with its copy
    admin,      \* the rows each admin request has decided to requeue
    faults,     \* faults so far
    retries,    \* admin requests so far
    succeeded,  \* history: how often execute() returned nil for each job
    overtaken   \* history: jobs an admin put back that were not dead letters any more

vars == <<jobs, proc, task, admin, faults, retries, succeeded, overtaken>>

-----------------------------------------------------------------------------
Tasks == Procs \X (Slots \cup {Producer})

Goroutines == Procs \X Slots

Statuses == {"absent", "pending", "processing", "done", "failed"}

\* A row: status, attempts, whether run_at has come, locked_by and whether the
\* lock is older than LockTTL.
Row == [status : Statuses, attempts : Nat, due : BOOLEAN,
        locked_by : Procs \cup {NoProc}, stale : BOOLEAN]

Pcs == {"idle", "handing", "exec", "mark_done", "reschedule", "mark_failed"}

Task == [pc : Pcs, job : Jobs \cup {NoJob}, attempts : Nat]

Idle == [pc |-> "idle", job |-> NoJob, attempts |-> 0]

AbsentRow == [status |-> "absent", attempts |-> 0, due |-> FALSE,
              locked_by |-> NoProc, stale |-> FALSE]

TypeOK ==
    /\ jobs \in [Jobs -> Row]
    /\ proc \in [Procs -> {"running", "stopping", "down"}]
    /\ task \in [Tasks -> Task]
    /\ admin \in [Admins -> SUBSET Jobs]
    /\ faults \in Nat
    /\ retries \in Nat
    /\ succeeded \in [Jobs -> Nat]
    /\ overtaken \in SUBSET Jobs

Init ==
    /\ jobs = [j \in Jobs |-> AbsentRow]
    /\ proc = [p \in Procs |-> "running"]
    /\ task = [t \in Tasks |-> Idle]
    /\ admin = [a \in Admins |-> {}]
    /\ faults = 0
    /\ retries = 0
    /\ succeeded = [j \in Jobs |-> 0]
    /\ overtaken = {}

-----------------------------------------------------------------------------
(* The statements, as functions from the old row to the new one.            *)

Unlocked(r, s) == [r EXCEPT !.status = s, !.locked_by = NoProc, !.stale = FALSE]

ClaimedRowWithoutLock(r, p) == [r EXCEPT !.status = "processing"]

ClaimedRow(r, p) ==
    [r EXCEPT !.status = "processing", !.locked_by = p, !.stale = FALSE]

DoneRow(r) == Unlocked(r, "done")

FailedRow(r) == Unlocked(r, "failed")

\* Reschedule increments the row's attempts, not the copy's, and the new run_at
\* lies in the future.
RescheduledRowLeakingLock(r) ==
    [r EXCEPT !.status = "pending", !.attempts = r.attempts + 1, !.due = FALSE]

RescheduledRow(r) ==
    [Unlocked(r, "pending") EXCEPT !.attempts = r.attempts + 1, !.due = FALSE]

\* A crash costs no attempt.
RequeuedRow(r) == Unlocked(r, "pending")

\* Retry sets run_at to NOW() and leaves attempts as they are.
RetriedRow(r) == [Unlocked(r, "pending") EXCEPT !.due = TRUE]

\* The WHERE clause of ClaimNext.  Its ORDER BY promises nothing: SKIP LOCKED
\* passes over whatever row another statement happens to hold.
ClaimableIgnoringStatus(j) ==
    /\ jobs[j].status \in {"pending", "processing"}
    /\ jobs[j].due
    /\ jobs[j].attempts < MaxAttempts[j]

Claimable(j) ==
    /\ jobs[j].status = "pending"
    /\ jobs[j].due
    /\ jobs[j].attempts < MaxAttempts[j]

RequeueableAny(j) == jobs[j].status = "processing"

\* The WHERE clause of RequeueStaleProcessing.
Requeueable(j) ==
    /\ jobs[j].status = "processing"
    /\ jobs[j].locked_by # NoProc
    /\ jobs[j].stale

Holds(t, j) == task[t].job = j

-----------------------------------------------------------------------------
(* The API's producers of jobs.                                             *)

\* job.New and JobsRepo.Create / CreateTx.  A second request with the same key
\* meets the unique index, reads the existing row and changes nothing.
Create(j, d) ==
    /\ jobs[j].status = "absent"
    /\ jobs' = [jobs EXCEPT ![j] = [AbsentRow EXCEPT !.status = "pending", !.due = d]]
    /\ UNCHANGED <<proc, task, admin, faults, retries, succeeded, overtaken>>

-----------------------------------------------------------------------------
(* The worker process: Run, runWorker, handleFailure.                       *)

\* A write made while ctx is cancelled is refused before it reaches Postgres;
\* any other may be lost on the way there ("lost") or applied with its
\* acknowledgement lost ("unacked").
Outcome(p, o) ==
    IF proc[p] = "stopping"
    THEN /\ o = "lost"
         /\ UNCHANGED faults
    ELSE /\ o \in Outcomes
         /\ o # "ok" => faults < MaxFaults
         /\ faults' = IF o = "ok" THEN faults ELSE faults + 1

Applied(o) == o \in {"ok", "unacked"}

\* ClaimNext by the producer of a running process that has handed over its last
\* claim.  A claim whose answer is lost stays locked with nobody working on it.
Claim(p, j, o) ==
    /\ proc[p] = "running"
    /\ task[<<p, Producer>>].pc = "idle"
    /\ Claimable(j)
    /\ Outcome(p, o)
    /\ jobs' = IF Applied(o) THEN [jobs EXCEPT ![j] = ClaimedRow(@, p)] ELSE jobs
    /\ task' = IF o = "ok"
               THEN [task EXCEPT ![<<p, Producer>>] =
                        [pc |-> "handing", job |-> j, attempts |-> jobs[j].attempts]]
               ELSE task
    /\ UNCHANGED <<proc, admin, retries, succeeded, overtaken>>

\* jobsCh <- j: the channel is unbuffered, so the claim waits in the producer
\* until a goroutine is free.  select may pick this branch after ctx.Done too.
HandOver(p, s) ==
    /\ proc[p] # "down"
    /\ task[<<p, Producer>>].pc = "handing"
    /\ task[<<p, s>>].pc = "idle"
    /\ task' = [task EXCEPT ![<<p, s>>] = [task[<<p, Producer>>] EXCEPT !.pc = "exec"],
                            ![<<p, Producer>>] = Idle]
    /\ UNCHANGED <<jobs, proc, admin, faults, retries, succeeded, overtaken>>

\* case <-ctx.Done() of the same select: the claimed job is dropped, its row
\* stays locked.
DropClaim(p) ==
    /\ proc[p] = "stopping"
    /\ task[<<p, Producer>>].pc = "handing"
    /\ task' = [task EXCEPT ![<<p, Producer>>] = Idle]
    /\ UNCHANGED <<jobs, proc, admin, faults, retries, succeeded, overtaken>>

\* handleFailure decides on the copy, not on the row.
AfterFailureOffByOne(c) ==
    IF c.attempts < MaxAttempts[c.job] THEN "reschedule" ELSE "mark_failed"

AfterFailure(c) ==
    IF c.attempts + 1 < MaxAttempts[c.job] THEN "reschedule" ELSE "mark_failed"

\* execute() returns nil (ok) or an error.
Execute(p, s, ok) ==
    LET t == <<p, s>> IN
    /\ proc[p] # "down"
    /\ task[t].pc = "exec"
    /\ task' = [task EXCEPT ![t].pc = IF ok THEN "mark_done" ELSE AfterFailure(task[t])]
    /\ succeeded' = IF ok THEN [succeeded EXCEPT ![task[t].job] = @ + 1] ELSE succeeded
    /\ UNCHANGED <<jobs, proc, admin, faults, retries, overtaken>>

\* MarkDone names only the id: it overwrites whatever the row says by now.  An
\* error sends the goroutine to MarkFailed("mark_done_failed").
MarkDone(p, s, o) ==
    LET t == <<p, s>> IN
    /\ proc[p] # "down"
    /\ task[t].pc = "mark_done"
    /\ Outcome(p, o)
    /\ jobs' = IF Applied(o) THEN [jobs EXCEPT ![task[t].job] = DoneRow(@)] ELSE jobs
    /\ task' = [task EXCEPT ![t] = IF o = "ok" THEN Idle ELSE [@ EXCEPT !.pc = "mark_failed"]]
    /\ UNCHANGED <<proc, admin, retries, succeeded, overtaken>>

\* handleFailure with attempts left; an error falls back to
\* MarkFailed("reschedule_failed").
Reschedule(p, s, o) ==
    LET t == <<p, s>> IN
    /\ proc[p] # "down"
    /\ task[t].pc = "reschedule"
    /\ Outcome(p, o)
    /\ jobs' = IF Applied(o) THEN [jobs EXCEPT ![task[t].job] = RescheduledRow(@)] ELSE jobs
    /\ task' = [task EXCEPT ![t] = IF o = "ok" THEN Idle ELSE [@ EXCEPT !.pc = "mark_failed"]]
    /\ UNCHANGED <<proc, admin, retries, succeeded, overtaken>>

\* The dead letter, and both fallbacks; its own error is ignored.
MarkFailed(p, s, o) ==
    LET t == <<p, s>> IN
    /\ proc[p] # "down"
    /\ task[t].pc = "mark_failed"
    /\ Outcome(p, o)
    /\ jobs' = IF Applied(o) THEN [jobs EXCEPT ![task[t].job] = FailedRow(@)] ELSE jobs
    /\ task' = [task EXCEPT ![t] = Idle]
    /\ UNCHANGED <<proc, admin, retries, succeeded, overtaken>>

\* requeueLoop's RequeueStaleProcessing: one statement for every stale row.
RequeueStale(p) ==
    /\ proc[p] = "running"
    /\ \E j \in Jobs : Requeueable(j)
    /\ jobs' = [j \in Jobs |-> IF Requeueable(j) THEN RequeuedRow(jobs[j]) ELSE jobs[j]]
    /\ UNCHANGED <<proc, task, admin, faults, retries, succeeded, overtaken>>

\* SIGTERM cancels the context every goroutine of the process derives its own
\* from.
Signal(p) ==
    /\ proc[p] = "running"
    /\ faults < MaxFaults
    /\ faults' = faults + 1
    /\ proc' = [proc EXCEPT ![p] = "stopping"]
    /\ UNCHANGED <<jobs, task, admin, retries, succeeded, overtaken>>

\* What the process held is gone; nothing tells the table.
Vanish(p) ==
    /\ proc' = [proc EXCEPT ![p] = "down"]
    /\ task' = [t \in Tasks |-> IF t[1] = p THEN Idle ELSE task[t]]
    /\ UNCHANGED <<jobs, admin, retries, succeeded, overtaken>>

\* Run returns: its goroutines have finished, or ShutdownGrace has passed.
Exit(p) ==
    /\ proc[p] = "stopping"
    /\ Vanish(p)
    /\ UNCHANGED faults

Crash(p) ==
    /\ proc[p] # "down"
    /\ faults < MaxFaults
    /\ faults' = faults + 1
    /\ Vanish(p)

\* The service is deployed with restart: unless-stopped.
Restart(p) ==
    /\ proc[p] = "down"
    /\ proc' = [proc EXCEPT ![p] = "running"]
    /\ UNCHANGED <<jobs, task, admin, faults, retries, succeeded, overtaken>>

-----------------------------------------------------------------------------
(* Time.                                                                    *)

\* run_at comes.
BecomeDue(j) ==
    /\ jobs[j].status = "pending"
    /\ ~jobs[j].due
    /\ jobs' = [jobs EXCEPT ![j].due = TRUE]
    /\ UNCHANGED <<proc, task, admin, faults, retries, succeeded, overtaken>>

\* LockTTL passes.  Nothing renews a lock, so whether its holder has finished by
\* then is a matter of timing: LeaseOutlived says whether the model lets it fail
\* to.
LockExpire(j) ==
    /\ jobs[j].status = "processing"
    /\ ~jobs[j].stale
    /\ LeaseOutlived \/ \A t \in Tasks : ~Holds(t, j)
    /\ jobs' = [jobs EXCEPT ![j].stale = TRUE]
    /\ UNCHANGED <<proc, task, admin, faults, retries, succeeded, overtaken>>

-----------------------------------------------------------------------------
(* The admin endpoints.                                                     *)

RetryCheckAnyStatus(a, j) ==
    /\ admin[a] = {}
    /\ retries < MaxRetries
    /\ jobs[j].status # "absent"
    /\ admin' = [admin EXCEPT ![a] = {j}]
    /\ retries' = retries + 1
    /\ UNCHANGED <<jobs, proc, task, faults, succeeded, overtaken>>

\* Retry, first statement: SELECT status; anything but failed is refused.
RetryCheck(a, j) ==
    /\ admin[a] = {}
    /\ retries < MaxRetries
    /\ jobs[j].status = "failed"
    /\ admin' = [admin EXCEPT ![a] = {j}]
    /\ retries' = retries + 1
    /\ UNCHANGED <<jobs, proc, task, faults, succeeded, overtaken>>

\* RetryManyFailed: its CTE reads the failed rows from the statement's snapshot
\* without locking them; the UPDATE then matches them by id alone.
RetryManyPick(a, picked) ==
    /\ admin[a] = {}
    /\ retries < MaxRetries
    /\ picked # {}
    /\ Cardinality(picked) <= RetryLimit
    /\ \A j \in picked : jobs[j].status = "failed"
    /\ admin' = [admin EXCEPT ![a] = picked]
    /\ retries' = retries + 1
    /\ UNCHANGED <<jobs, proc, task, faults, succeeded, overtaken>>

\* Nobody is at work on such a row and its work has not succeeded: putting it back
\* is what a retry is for.
AwaitsWorker(r) == r.status \in {"failed", "pending"}

\* The UPDATE of Retry and of RetryManyFailed: WHERE id alone.  Nothing serialises
\* admin requests, so by now another one may have put the job back, and a worker may
\* be at work on it or have finished it.
RetryApply(a, o) ==
    /\ admin[a] # {}
    /\ o \in Outcomes
    /\ o # "ok" => faults < MaxFaults
    /\ faults' = IF o = "ok" THEN faults ELSE faults + 1
    /\ jobs' = IF Applied(o)
               THEN [j \in Jobs |-> IF j \in admin[a] THEN RetriedRow(jobs[j]) ELSE jobs[j]]
               ELSE jobs
    /\ admin' = [admin EXCEPT ![a] = {}]
    /\ overtaken' = IF Applied(o)
                    THEN overtaken \cup {j \in admin[a] : ~AwaitsWorker(jobs[j])}
                    ELSE overtaken
    /\ UNCHANGED <<proc, task, retries, succeeded>>

-----------------------------------------------------------------------------
\* What runWorker does with the job when execute has returned.
WriteBack(p, s) ==
    \E o \in {"ok", "lost", "unacked"} :
        MarkDone(p, s, o) \/ Reschedule(p, s, o) \/ MarkFailed(p, s, o)

GoroutineStep(p, s) == WriteBack(p, s) \/ \E ok \in BOOLEAN : Execute(p, s, ok)

ProcStep(p) ==
    \/ \E j \in Jobs, o \in {"ok", "lost", "unacked"} : Claim(p, j, o)
    \/ \E s \in Slots : HandOver(p, s) \/ GoroutineStep(p, s)
    \/ DropClaim(p) \/ RequeueStale(p)
    \/ Signal(p) \/ Exit(p) \/ Crash(p) \/ Restart(p)

AdminStep(a) ==
    \/ \E j \in Jobs : RetryCheck(a, j)
    \/ \E picked \in SUBSET Jobs : RetryManyPick(a, picked)
    \/ \E o \in {"ok", "lost", "unacked"} : RetryApply(a, o)

Next ==
    \/ \E j \in Jobs, d \in BOOLEAN : Create(j, d)
    \/ \E j \in Jobs : BecomeDue(j) \/ LockExpire(j)
    \/ \E p \in Procs : ProcStep(p)
    \/ \E a \in Admins : AdminStep(a)

Spec == Init /\ [][Next]_vars

\* All that happens without beginning, carrying on or ending an execution: what is
\* left to this module when another one says what execute does.
QueueStep ==
    \/ \E j \in Jobs, d \in BOOLEAN : Create(j, d)
    \/ \E j \in Jobs : BecomeDue(j) \/ LockExpire(j)
    \/ \E p \in Procs :
          \/ \E j \in Jobs, o \in {"ok", "lost", "unacked"} : Claim(p, j, o)
          \/ \E s \in Slots : WriteBack(p, s)
          \/ DropClaim(p) \/ RequeueStale(p) \/ Signal(p) \/ Restart(p)
    \/ \E a \in Admins : AdminStep(a)

\* Goroutines are scheduled, execute and the statements return (ClaimNext and the
\* requeue by their deadline; MarkDone, Reschedule and MarkFailed have none, so this
\* takes Postgres to answer or the connection to break), the tickers of Run and
\* requeueLoop fire, time passes, a stopping process exits within its grace period
\* and the container runtime restarts it.  No fairness is assumed of clients, admins
\* or faults.
Fairness ==
    /\ \A p \in Procs :
          /\ WF_vars(\E j \in Jobs : Claim(p, j, "ok"))
          /\ WF_vars(RequeueStale(p))
          /\ WF_vars(Exit(p))
          /\ WF_vars(Restart(p))
          /\ \A s \in Slots : WF_vars(HandOver(p, s)) /\ WF_vars(GoroutineStep(p, s))
    /\ \A j \in Jobs : WF_vars(BecomeDue(j)) /\ WF_vars(LockExpire(j))

FairSpec == Spec /\ Fairness

-----------------------------------------------------------------------------
(* Properties.                                                              *)

\* Every statement that moves a row keeps status and lock together: a row is
\* processing exactly when it is locked.  RequeueStaleProcessing finds only rows
\* that have both, so a row with one of them would be lost for ever.
LockedIffProcessing ==
    \A j \in Jobs : jobs[j].status = "processing" <=> jobs[j].locked_by # NoProc

\* What the unfenced writes rely on (runWorker: MarkDone, Reschedule and
\* MarkFailed by id alone): whoever holds a copy of a job is the only holder, and
\* the row is still the one it claimed; unless an admin's UPDATE by id put the job
\* back under its holder.
ClaimExclusive ==
    \A t \in Tasks : task[t].job \notin overtaken \cup {NoJob} =>
        /\ \A u \in Tasks : task[u].job = task[t].job => u = t
        /\ jobs[task[t].job].status = "processing"
        /\ jobs[task[t].job].locked_by = t[1]
        /\ jobs[task[t].job].attempts = task[t].attempts

\* handleFailure dead-letters the last attempt instead of rescheduling it, so a
\* row never reaches max_attempts while pending: ClaimNext would never look at it
\* again.  Only a retry that came late leaves two holders to reschedule one job.
NeverStuckPending ==
    \A j \in Jobs \ overtaken :
        jobs[j].status = "pending" => jobs[j].attempts < MaxAttempts[j]

\* A job that is done stays done and a dead letter leaves the state only through
\* an admin's retry: no late goroutine, requeue or claim touches them.  "Only failed
\* jobs can be retried" (handlers/admin_jobs.go) is true of Retry's check and not of
\* its UPDATE, so there is one way out of done: the UPDATE of a request that had seen
\* the job failed before another request put it back.  It takes two; from then on the
\* job is on its own.
SettledStays ==
    [][\A j \in Jobs \ overtaken :
          jobs[j].status \in {"done", "failed"} /\ jobs'[j] # jobs[j] =>
             /\ \E a \in Admins : j \in admin[a] /\ admin'[a] = {}
             /\ jobs[j].status = "done" => j \in overtaken' /\ retries >= 2]_vars

\* At-least-once, and not more than the faults explain: the work of a job
\* succeeds again only after a crash, a shutdown or a failed write, one fault for
\* every repetition.  A retry of a dead letter repeats nothing that succeeded; one
\* that overtakes a worker, or comes after it has finished, does.
ReexecutionNeedsFault ==
    \A j \in Jobs \ overtaken : succeeded[j] <= 1 + faults

\* Every job that is due for work ends done or dead-lettered, unless a late retry
\* has left it with two holders.
EventuallySettled ==
    \A j \in Jobs :
        jobs[j].status = "pending" ~>
            jobs[j].status \in {"done", "failed"} \/ j \in overtaken

\* When leases are outlived several goroutines hold the same job and each
\* Reschedule adds one to the row, but no more than one per place that can hold a
\* copy: the claims stop at max_attempts.
AttemptsBounded ==
    \A j \in Jobs :
        jobs[j].attempts + 2 <= MaxAttempts[j] + Cardinality(Tasks)

\* docs/day90_worker_reliability.md: a job is dead-lettered "when max attempts
\* are exhausted", so none is found pending with its attempts used up.
ExhaustedIsDeadLettered ==
    \A j \in Jobs :
        jobs[j].attempts >= MaxAttempts[j] => jobs[j].status # "pending"
=============================================================================

