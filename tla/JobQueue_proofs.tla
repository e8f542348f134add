--------------------------- MODULE JobQueue_proofs --------------------------
(***************************************************************************)
(* Theorems about JobQueue, for every set of jobs, processes, goroutines    *)
(* and admins and every bound on faults.                                    *)
(***************************************************************************)
EXTENDS JobQueue, FiniteSetTheorems, TLAPS

-----------------------------------------------------------------------------
(* The statements map rows to rows.                                         *)

\* Every statement yields a row again, and the fields it sets are the ones the
\* UPDATE names.
LEMMA RowFacts ==
    ASSUME NEW r \in Row, NEW p \in Procs
    PROVE  /\ ClaimedRow(r, p) \in Row
           /\ DoneRow(r) \in Row
           /\ FailedRow(r) \in Row
           /\ RescheduledRow(r) \in Row
           /\ RequeuedRow(r) \in Row
           /\ RetriedRow(r) \in Row
  <1>1. \A s \in Statuses : Unlocked(r, s) \in Row
    BY DEF Row, Unlocked
  <1>2. \A q \in Row, n \in Nat : [q EXCEPT !.attempts = n, !.due = FALSE] \in Row
    BY DEF Row
  <1>5. r.attempts + 1 \in Nat
    BY DEF Row
  <1>3. \A q \in Row : [q EXCEPT !.due = TRUE] \in Row
    BY DEF Row
  <1>4. ClaimedRow(r, p) \in Row
    BY DEF Row, ClaimedRow, Statuses
  <1> QED
    BY <1>1, <1>2, <1>3, <1>4, <1>5
    DEF Statuses, DoneRow, FailedRow, RescheduledRow, RequeuedRow, RetriedRow

\* A goroutine with nothing to do is a task.
LEMMA IdleTask == Idle \in Task
  BY DEF Idle, Task, Pcs

\* The empty table and freshly started processes are well typed.
LEMMA TypeInit == Init => TypeOK
  <1> SUFFICES ASSUME Init PROVE TypeOK
    OBVIOUS
  <1>1. AbsentRow \in Row
    BY DEF AbsentRow, Row, Statuses
  <1> QED
    BY <1>1, IdleTask DEF Init, TypeOK

\* Every statement and every step of a process keeps the types.
LEMMA TypeStep ==
    ASSUME TypeOK, [Next]_vars
    PROVE  TypeOK'
  <1> USE ConstantsAssumption
  <1>1. CASE UNCHANGED vars
    BY <1>1 DEF vars, TypeOK
  <1>2. ASSUME NEW j \in Jobs, NEW d \in BOOLEAN, Create(j, d) PROVE TypeOK'
    <2>1. [AbsentRow EXCEPT !.status = "pending", !.due = d] \in Row
      BY DEF AbsentRow, Row, Statuses
    <2> QED
      BY <1>2, <2>1 DEF Create, TypeOK
  <1>3. ASSUME NEW j \in Jobs, BecomeDue(j) \/ LockExpire(j) PROVE TypeOK'
    <2>1. jobs[j] \in Row
      BY DEF TypeOK
    <2>2. /\ [jobs[j] EXCEPT !.due = TRUE] \in Row
          /\ [jobs[j] EXCEPT !.stale = TRUE] \in Row
      BY <2>1 DEF Row
    <2>3. jobs' \in [Jobs -> Row]
      BY <1>3, <2>2 DEF BecomeDue, LockExpire, TypeOK
    <2> QED
      BY <1>3, <2>3 DEF BecomeDue, LockExpire, TypeOK
  <1>4. ASSUME NEW p \in Procs, ProcStep(p) PROVE TypeOK'
    <2>0. \A r \in Row : /\ ClaimedRow(r, p) \in Row /\ DoneRow(r) \in Row
                         /\ FailedRow(r) \in Row /\ RescheduledRow(r) \in Row
                         /\ RequeuedRow(r) \in Row
      BY RowFacts
    <2>1. ASSUME NEW o, Outcome(p, o) PROVE faults' \in Nat
      BY <2>1 DEF Outcome, TypeOK
    <2>2. ASSUME NEW j \in Jobs, NEW o, Claim(p, j, o) PROVE TypeOK'
      <3>1. [pc |-> "handing", job |-> j, attempts |-> jobs[j].attempts] \in Task
        BY DEF TypeOK, Task, Pcs, Row
      <3>2. faults' \in Nat
        BY <2>1, <2>2 DEF Claim
      <3>3. jobs' \in [Jobs -> Row] /\ task' \in [Tasks -> Task]
        BY <2>0, <2>2, <3>1 DEF Claim, TypeOK, Tasks
      <3> QED
        BY <2>2, <3>2, <3>3 DEF Claim, TypeOK
    <2>3. ASSUME NEW s \in Slots, HandOver(p, s) PROVE TypeOK'
      <3>0. task[<<p, Producer>>] \in Task
        BY DEF TypeOK, Tasks
      <3>1. [task[<<p, Producer>>] EXCEPT !.pc = "exec"] \in Task
        BY <3>0 DEF Task, Pcs
      <3> QED
        BY <2>3, <3>1, IdleTask DEF HandOver, TypeOK
    <2>4. ASSUME NEW s \in Slots, NEW ok \in BOOLEAN, Execute(p, s, ok) PROVE TypeOK'
      <3> DEFINE t == <<p, s>>
      <3>1. t \in Tasks /\ task[t] \in Task
        BY DEF TypeOK, Tasks
      <3>2. \A q \in Pcs : [task[t] EXCEPT !.pc = q] \in Task
        BY <3>1 DEF Task
      <3>3. /\ (IF ok THEN "mark_done" ELSE AfterFailure(task[t])) \in Pcs
            /\ task' = [task EXCEPT ![t].pc = IF ok THEN "mark_done" ELSE AfterFailure(task[t])]
        BY <2>4 DEF Execute, AfterFailure, Pcs
      <3>4. task' \in [Tasks -> Task]
        BY <3>1, <3>2, <3>3 DEF TypeOK
      <3>5. succeeded' \in [Jobs -> Nat]
        <4>1. \A k \in Jobs : succeeded[k] \in Nat /\ succeeded[k] + 1 \in Nat
          BY DEF TypeOK
        <4>2. \A k : [succeeded EXCEPT ![k] = succeeded[k] + 1] \in [Jobs -> Nat]
          BY <4>1 DEF TypeOK
        <4> QED
          BY <2>4, <4>2 DEF Execute, TypeOK
      <3> QED
        BY <2>4, <3>4, <3>5 DEF Execute, TypeOK
    <2>5. ASSUME NEW s \in Slots, NEW o,
                 MarkDone(p, s, o) \/ Reschedule(p, s, o) \/ MarkFailed(p, s, o)
          PROVE  TypeOK'
      <3> DEFINE t == <<p, s>>
      <3>1. t \in Tasks /\ task[t] \in Task
        BY DEF TypeOK, Tasks
      <3>2. [task[t] EXCEPT !.pc = "mark_failed"] \in Task
        BY <3>1 DEF Task, Pcs
      <3>3. faults' \in Nat
        BY <2>1, <2>5 DEF MarkDone, Reschedule, MarkFailed
      <3>4. task' \in [Tasks -> Task]
        BY <2>5, <3>1, <3>2, IdleTask DEF MarkDone, Reschedule, MarkFailed, TypeOK
      <3>5. jobs' \in [Jobs -> Row]
        BY <2>0, <2>5 DEF MarkDone, Reschedule, MarkFailed, TypeOK
      <3> QED
        BY <2>5, <3>3, <3>4, <3>5 DEF MarkDone, Reschedule, MarkFailed, TypeOK
    <2>6. CASE DropClaim(p)
      BY <2>6, IdleTask DEF DropClaim, TypeOK
    <2>7. CASE RequeueStale(p)
      BY <2>0, <2>7 DEF RequeueStale, TypeOK
    <2>8. CASE Signal(p) \/ Restart(p)
      BY <2>8 DEF Signal, Restart, TypeOK
    <2>9. CASE Exit(p) \/ Crash(p)
      BY <2>9, IdleTask DEF Exit, Crash, Vanish, TypeOK
    <2> QED
      BY <1>4, <2>2, <2>3, <2>4, <2>5, <2>6, <2>7, <2>8, <2>9 DEF ProcStep, GoroutineStep, WriteBack
  <1>5. ASSUME NEW a \in Admins, AdminStep(a) PROVE TypeOK'
    <2>1. ASSUME NEW j \in Jobs, RetryCheck(a, j) PROVE TypeOK'
      BY <2>1 DEF RetryCheck, TypeOK
    <2>2. ASSUME NEW picked \in SUBSET Jobs, RetryManyPick(a, picked) PROVE TypeOK'
      BY <2>2 DEF RetryManyPick, TypeOK
    <2>3. ASSUME NEW o, RetryApply(a, o) PROVE TypeOK'
      <3>1. \A r \in Row : RetriedRow(r) \in Row
        BY DEF Row, Statuses, RetriedRow, Unlocked
      <3> QED
        BY <2>3, <3>1 DEF RetryApply, TypeOK
    <2> QED
      BY <1>5, <2>1, <2>2, <2>3 DEF AdminStep
  <1> QED
    BY <1>1, <1>2, <1>3, <1>4, <1>5 DEF Next

\* The table, the processes and the requests keep their types under every
\* interleaving of the statements of jobs_repo.go and worker.go.
THEOREM TypeCorrect == Spec => []TypeOK
  BY TypeInit, TypeStep, PTL DEF Spec

-----------------------------------------------------------------------------
(* Status and lock go together.                                             *)

\* The fields of a row after each statement.
LEMMA RowFields ==
    ASSUME NEW r \in Row, NEW p \in Procs
    PROVE  /\ ClaimedRow(r, p).status = "processing"
           /\ ClaimedRow(r, p).locked_by = p
           /\ ClaimedRow(r, p).attempts = r.attempts
           /\ ClaimedRow(r, p).stale = FALSE
           /\ DoneRow(r).status = "done" /\ DoneRow(r).locked_by = NoProc
           /\ DoneRow(r).attempts = r.attempts
           /\ FailedRow(r).status = "failed" /\ FailedRow(r).locked_by = NoProc
           /\ FailedRow(r).attempts = r.attempts
           /\ RescheduledRow(r).status = "pending" /\ RescheduledRow(r).locked_by = NoProc
           /\ RescheduledRow(r).attempts = r.attempts + 1
           /\ RequeuedRow(r).status = "pending" /\ RequeuedRow(r).locked_by = NoProc
           /\ RequeuedRow(r).attempts = r.attempts
           /\ RetriedRow(r).status = "pending" /\ RetriedRow(r).locked_by = NoProc
           /\ RetriedRow(r).attempts = r.attempts
  BY DEF Row, ClaimedRow, DoneRow, FailedRow, RescheduledRow, RequeuedRow, RetriedRow,
         Unlocked

\* Every statement writes status and locked_by together.
LEMMA LockStep ==
    ASSUME TypeOK, LockedIffProcessing, [Next]_vars
    PROVE  LockedIffProcessing'
  <1> USE ConstantsAssumption
  <1> SUFFICES ASSUME NEW k \in Jobs
               PROVE  jobs'[k].status = "processing" <=> jobs'[k].locked_by # NoProc
    BY DEF LockedIffProcessing
  <1>0. /\ jobs[k] \in Row
        /\ jobs[k].status = "processing" <=> jobs[k].locked_by # NoProc
    BY DEF TypeOK, LockedIffProcessing
  <1>1. CASE UNCHANGED jobs
    BY <1>0, <1>1
  <1>2. ASSUME NEW j \in Jobs, NEW d \in BOOLEAN, Create(j, d)
        PROVE  jobs'[k].status = "processing" <=> jobs'[k].locked_by # NoProc
    BY <1>0, <1>2 DEF Create, AbsentRow, TypeOK
  <1>3. ASSUME NEW j \in Jobs, BecomeDue(j) \/ LockExpire(j)
        PROVE  jobs'[k].status = "processing" <=> jobs'[k].locked_by # NoProc
    BY <1>0, <1>3 DEF BecomeDue, LockExpire, TypeOK, Row
  <1>4. ASSUME NEW p \in Procs, ProcStep(p)
        PROVE  jobs'[k].status = "processing" <=> jobs'[k].locked_by # NoProc
    <2>1. ASSUME NEW j \in Jobs, NEW o, Claim(p, j, o)
          PROVE  jobs'[k].status = "processing" <=> jobs'[k].locked_by # NoProc
      <3>1. jobs'[k] = jobs[k] \/ jobs'[k] = ClaimedRow(jobs[k], p)
        BY <2>1 DEF Claim, TypeOK
      <3>2. ClaimedRow(jobs[k], p).status = "processing" /\ ClaimedRow(jobs[k], p).locked_by = p
        BY <1>0 DEF Row, ClaimedRow
      <3> QED
        BY <1>0, <3>1, <3>2
    <2>2. ASSUME NEW s \in Slots, NEW o,
                 MarkDone(p, s, o) \/ Reschedule(p, s, o) \/ MarkFailed(p, s, o)
          PROVE  jobs'[k].status = "processing" <=> jobs'[k].locked_by # NoProc
      <3>1. jobs'[k] \in {jobs[k], DoneRow(jobs[k]), RescheduledRow(jobs[k]), FailedRow(jobs[k])}
        BY <2>2 DEF MarkDone, Reschedule, MarkFailed, TypeOK
      <3>2. \A r \in {DoneRow(jobs[k]), RescheduledRow(jobs[k]), FailedRow(jobs[k])} :
                r.status # "processing" /\ r.locked_by = NoProc
        BY <1>0 DEF Row, DoneRow, RescheduledRow, FailedRow, Unlocked
      <3> QED
        BY <1>0, <3>1, <3>2
    <2>3. CASE RequeueStale(p)
      BY <1>0, <2>3, RowFields DEF RequeueStale
    <2> QED
      BY <1>1, <1>4, <2>1, <2>2, <2>3
      DEF ProcStep, GoroutineStep, WriteBack, HandOver, Execute, DropClaim, Signal, Exit, Crash,
          Vanish, Restart
  <1>5. ASSUME NEW a \in Admins, AdminStep(a)
        PROVE  jobs'[k].status = "processing" <=> jobs'[k].locked_by # NoProc
    <2>1. ASSUME NEW o, RetryApply(a, o)
          PROVE  jobs'[k].status = "processing" <=> jobs'[k].locked_by # NoProc
      <3>1. RetriedRow(jobs[k]).status = "pending" /\ RetriedRow(jobs[k]).locked_by = NoProc
        BY <1>0 DEF Row, RetriedRow, Unlocked
      <3> QED
        BY <1>0, <2>1, <3>1 DEF RetryApply
    <2> QED
      BY <1>1, <1>5, <2>1 DEF AdminStep, RetryCheck, RetryManyPick
  <1> QED
    BY <1>1, <1>2, <1>3, <1>4, <1>5 DEF Next, vars

\* In every reachable table, with leases outlived, writes unacknowledged and
\* admins racing: a row is processing exactly when it is locked, so
\* RequeueStaleProcessing overlooks none.
THEOREM LockConsistent == Spec => []LockedIffProcessing
  <1>1. Init => LockedIffProcessing
    BY DEF Init, LockedIffProcessing, AbsentRow
  <1> QED
    BY <1>1, TypeInit, TypeStep, LockStep, PTL DEF Spec

-----------------------------------------------------------------------------
(* Exclusive claims, when leases are honoured.                              *)

\* The circumstances in which writes by id alone are safe: a failed write was not
\* applied and no lock expires under its holder.
Honest ==
    /\ Outcomes \subseteq {"ok", "lost"}
    /\ LeaseOutlived = FALSE

\* The row of a held job is the one its holder claimed, unless an admin's UPDATE
\* went over it.
HeldRow ==
    \A t \in Tasks : task[t].job \notin overtaken \cup {NoJob} =>
        /\ jobs[task[t].job].status = "processing"
        /\ jobs[task[t].job].locked_by = t[1]
        /\ jobs[task[t].job].attempts = task[t].attempts
        /\ jobs[task[t].job].stale = FALSE

HeldOnce ==
    \A t, u \in Tasks :
        task[t].job \notin overtaken \cup {NoJob} /\ task[u].job = task[t].job => u = t

\* A goroutine about to reschedule has an attempt left.
PcConsistent ==
    \A t \in Tasks :
        /\ task[t].pc = "idle" <=> task[t].job = NoJob
        /\ task[t].pc = "reschedule" => task[t].attempts + 1 < MaxAttempts[task[t].job]

AttemptsLeft == \A j \in Jobs \ overtaken : jobs[j].attempts < MaxAttempts[j]

HonestInv == HeldRow /\ HeldOnce /\ PcConsistent /\ AttemptsLeft

\* Nobody holds a job at the start.
LEMMA HonestInit == Init => HonestInv
  BY ConstantsAssumption
  DEF Init, HonestInv, HeldRow, HeldOnce, PcConsistent, AttemptsLeft, Idle, AbsentRow

\* A step that leaves the tasks alone, and every held row but those an admin's UPDATE
\* overtakes, keeps the agreement.
HeldUntouched ==
    /\ UNCHANGED task
    /\ \A j \in Jobs : j \in overtaken => j \in overtaken'
    /\ \A j \in Jobs : j \notin overtaken' =>
          /\ jobs'[j] # jobs[j] => \A t \in Tasks : ~Holds(t, j)
          /\ jobs'[j].attempts < MaxAttempts[j]

LEMMA RowStep ==
    ASSUME TypeOK, HonestInv, HeldUntouched
    PROVE  HonestInv'
  <1>0. \A t \in Tasks : task'[t] = task[t] /\ (task[t].job # NoJob => task[t].job \in Jobs)
    BY DEF HeldUntouched, TypeOK, Task
  <1>1. HeldRow'
    BY <1>0 DEF HeldUntouched, HonestInv, HeldRow, Holds
  <1>2. HeldOnce'
    BY <1>0 DEF HeldUntouched, HonestInv, HeldOnce
  <1> QED
    BY <1>0, <1>1, <1>2 DEF HeldUntouched, HonestInv, PcConsistent, AttemptsLeft

\* A step that only stops some tasks.
LEMMA StopStep ==
    ASSUME TypeOK, HonestInv, UNCHANGED <<jobs, overtaken>>,
           \A t \in Tasks : task'[t] = task[t] \/ task'[t] = Idle
    PROVE  HonestInv'
  <1>1. HeldRow'
    BY DEF HonestInv, HeldRow, Idle
  <1>2. HeldOnce'
    BY DEF HonestInv, HeldOnce, Idle
  <1>3. PcConsistent'
    BY DEF HonestInv, PcConsistent, Idle
  <1> QED
    BY <1>1, <1>2, <1>3 DEF HonestInv, AttemptsLeft

\* A step that moves one task to its next program counter.
LEMMA PcStep ==
    ASSUME TypeOK, HonestInv, UNCHANGED <<jobs, overtaken>>,
           NEW t \in Tasks, NEW q \in Pcs \ {"idle"},
           task[t].job # NoJob,
           q = "reschedule" => task[t].attempts + 1 < MaxAttempts[task[t].job],
           task' = [task EXCEPT ![t].pc = q]
    PROVE  HonestInv'
  <1>1. \A u \in Tasks : /\ task'[u].job = task[u].job
                         /\ task'[u].attempts = task[u].attempts
                         /\ task'[u].pc = IF u = t THEN q ELSE task[u].pc
    BY DEF TypeOK, Task
  <1>2. HeldRow' /\ HeldOnce'
    BY <1>1 DEF HonestInv, HeldRow, HeldOnce
  <1>3. PcConsistent'
    BY <1>1 DEF HonestInv, PcConsistent
  <1> QED
    BY <1>2, <1>3 DEF HonestInv, AttemptsLeft

\* A write by the holder of a job that succeeds: the row settles or goes back to
\* pending, and the holder lets go of it.
LEMMA ReleaseStep ==
    ASSUME TypeOK, HonestInv, UNCHANGED overtaken,
           NEW t \in Tasks, NEW r,
           task[t].job # NoJob,
           task[t].job \notin overtaken => r.attempts < MaxAttempts[task[t].job],
           jobs' = [jobs EXCEPT ![task[t].job] = r],
           task' = [task EXCEPT ![t] = Idle]
    PROVE  HonestInv'
  <1> DEFINE j == task[t].job
  <1>0. j \in Jobs
    BY DEF TypeOK, Task
  <1>1. \A u \in Tasks : task'[u] = IF u = t THEN Idle ELSE task[u]
    BY DEF TypeOK
  <1>2. \A k \in Jobs : jobs'[k] = IF k = j THEN r ELSE jobs[k]
    BY DEF TypeOK
  <1>3. j \notin overtaken => \A u \in Tasks : u # t => task[u].job # j
    BY DEF HonestInv, HeldOnce
  <1>4. Idle.job = NoJob /\ Idle.pc = "idle"
    BY DEF Idle
  <1>5. HeldRow'
    <2> SUFFICES ASSUME NEW u \in Tasks, task'[u].job \notin overtaken \cup {NoJob}
                 PROVE  /\ jobs'[task'[u].job].status = "processing"
                        /\ jobs'[task'[u].job].locked_by = u[1]
                        /\ jobs'[task'[u].job].attempts = task'[u].attempts
                        /\ jobs'[task'[u].job].stale = FALSE
      BY DEF HeldRow
    <2>1. u # t /\ task'[u] = task[u] /\ task[u].job \in Jobs
      BY <1>1, <1>4 DEF TypeOK, Task
    <2>2. jobs'[task'[u].job] = jobs[task[u].job]
      BY <1>2, <1>3, <2>1
    <2> QED
      BY <2>1, <2>2 DEF HonestInv, HeldRow
  <1>6. HeldOnce'
    BY <1>1, <1>4 DEF HonestInv, HeldOnce
  <1>7. PcConsistent'
    BY <1>1, <1>4 DEF HonestInv, PcConsistent, Idle
  <1>8. AttemptsLeft'
    BY <1>2 DEF HonestInv, AttemptsLeft
  <1> QED
    BY <1>5, <1>6, <1>7, <1>8 DEF HonestInv

\* A step in which no lease is outlived and no applied write goes unacknowledged.
HonestMove ==
    /\ LeaseOutlived = FALSE
    /\ Outcomes \subseteq {"ok", "lost"} \/ UNCHANGED faults

\* While no lease is outlived and no applied write goes unacknowledged, every action
\* keeps the tasks and the rows they hold in agreement.
LEMMA HonestStep ==
    ASSUME HonestMove, TypeOK, HonestInv, [Next]_vars
    PROVE  HonestInv'
  <1> USE ConstantsAssumption
  <1>0. \A j \in Jobs : /\ jobs[j] \in Row
                        /\ j \notin overtaken => jobs[j].attempts < MaxAttempts[j]
    BY DEF TypeOK, HonestInv, AttemptsLeft
  <1>a. \A t \in Tasks : /\ task[t] \in Task
                         /\ task[t].pc = "idle" <=> task[t].job = NoJob
                         /\ task[t].job # NoJob => task[t].job \in Jobs
    BY DEF TypeOK, Task, HonestInv, PcConsistent
  <1>b. \A j \in Jobs \ overtaken, t \in Tasks : Holds(t, j) =>
            /\ jobs[j].status = "processing" /\ jobs[j].stale = FALSE
            /\ jobs[j].locked_by = t[1] /\ jobs[j].attempts = task[t].attempts
    <2> TAKE j \in Jobs \ overtaken, t \in Tasks
    <2> HAVE Holds(t, j)
    <2>1. task[t].job # NoJob /\ task[t].job = j
      BY DEF Holds
    <2> QED
      BY <2>1 DEF HonestInv, HeldRow
  <1>1. CASE UNCHANGED vars
    BY <1>1 DEF vars, HonestInv, HeldRow, HeldOnce, PcConsistent, AttemptsLeft
  <1>2. ASSUME NEW j \in Jobs, NEW d \in BOOLEAN, Create(j, d) PROVE HonestInv'
    <2>1. \A k \in Jobs :
              jobs'[k] = IF k = j THEN [AbsentRow EXCEPT !.status = "pending", !.due = d]
                                  ELSE jobs[k]
      BY <1>2 DEF Create, TypeOK
    <2>2. [AbsentRow EXCEPT !.status = "pending", !.due = d].attempts = 0
      BY DEF AbsentRow
    <2>3. j \notin overtaken => \A t \in Tasks : ~Holds(t, j)
      BY <1>2, <1>b DEF Create
    <2>4. MaxAttempts[j] > 0
      BY ConstantsAssumption
    <2>5. HeldUntouched
      BY <1>0, <1>2, <2>1, <2>2, <2>3, <2>4 DEF Create, HeldUntouched
    <2> QED
      BY <2>5, RowStep
  <1>3. ASSUME NEW j \in Jobs, BecomeDue(j) \/ LockExpire(j) PROVE HonestInv'
    <2>1. \A k \in Jobs : /\ jobs'[k].attempts = jobs[k].attempts
                          /\ k # j => jobs'[k] = jobs[k]
      BY <1>3 DEF BecomeDue, LockExpire, TypeOK, Row
    <2>2. j \notin overtaken => \A t \in Tasks : ~Holds(t, j)
      BY <1>3, <1>b DEF BecomeDue, LockExpire, HonestMove
    <2>3. HeldUntouched
      BY <1>0, <1>3, <2>1, <2>2 DEF BecomeDue, LockExpire, HeldUntouched
    <2> QED
      BY <2>3, RowStep
  <1>4. ASSUME NEW p \in Procs, ProcStep(p) PROVE HonestInv'
    <2>0. ASSUME NEW o, Outcome(p, o) PROVE Applied(o) <=> o = "ok"
      BY <2>0 DEF Outcome, Applied, HonestMove, TypeOK
    <2>1. ASSUME NEW j \in Jobs, NEW o, Claim(p, j, o) PROVE HonestInv'
      <3>1. CASE o # "ok"
        <4>1. HeldUntouched
          BY <1>0, <2>0, <2>1, <3>1 DEF Claim, HeldUntouched
        <4> QED
          BY <4>1, RowStep
      <3>2. CASE o = "ok"
        <4> DEFINE h == <<p, Producer>>
                   c == [pc |-> "handing", job |-> j, attempts |-> jobs[j].attempts]
        <4>1. /\ \A t \in Tasks : task'[t] = IF t = h THEN c ELSE task[t]
              /\ \A k \in Jobs : jobs'[k] = IF k = j THEN ClaimedRow(jobs[j], p) ELSE jobs[k]
              /\ h \in Tasks /\ h[1] = p
          BY <2>0, <2>1, <3>2 DEF Claim, TypeOK, Tasks
        <4>2. j \notin overtaken => \A t \in Tasks : task[t].job # j
          BY <2>1, <1>b DEF Claim, Claimable, Holds
        <4>0. UNCHANGED overtaken
          BY <2>1 DEF Claim
        <4>3. /\ ClaimedRow(jobs[j], p).status = "processing"
              /\ ClaimedRow(jobs[j], p).locked_by = p
              /\ ClaimedRow(jobs[j], p).attempts = jobs[j].attempts
              /\ ClaimedRow(jobs[j], p).stale = FALSE
          BY <1>0 DEF Row, ClaimedRow
        <4>4. c.job = j /\ c.pc = "handing" /\ c.attempts = jobs[j].attempts
          OBVIOUS
        <4> HIDE DEF c
        <4>5. HeldRow'
          <5> SUFFICES ASSUME NEW t \in Tasks, task'[t].job \notin overtaken \cup {NoJob}
                       PROVE  /\ jobs'[task'[t].job].status = "processing"
                              /\ jobs'[task'[t].job].locked_by = t[1]
                              /\ jobs'[task'[t].job].attempts = task'[t].attempts
                              /\ jobs'[task'[t].job].stale = FALSE
            BY <4>0 DEF HeldRow
          <5>1. CASE t = h
            BY <4>1, <4>3, <4>4, <5>1
          <5>2. CASE t # h
            <6>1. task'[t] = task[t] /\ jobs'[task[t].job] = jobs[task[t].job]
              BY <1>a, <4>1, <4>2, <5>2
            <6> QED
              BY <6>1 DEF HonestInv, HeldRow
          <5> QED
            BY <5>1, <5>2
        <4>6. HeldOnce'
          BY <4>0, <4>1, <4>2, <4>4 DEF HonestInv, HeldOnce
        <4>7. PcConsistent'
          BY <4>1, <4>4 DEF HonestInv, PcConsistent
        <4>8. AttemptsLeft'
          BY <4>0, <4>1, <4>3 DEF HonestInv, AttemptsLeft
        <4> QED
          BY <4>5, <4>6, <4>7, <4>8 DEF HonestInv
      <3> QED
        BY <3>1, <3>2
    <2>2. ASSUME NEW s \in Slots, HandOver(p, s) PROVE HonestInv'
      <3> DEFINE h == <<p, Producer>>
                 g == <<p, s>>
      <3>1. /\ h \in Tasks /\ g \in Tasks /\ h # g /\ h[1] = g[1]
            /\ task[h].job # NoJob /\ task[g].job = NoJob
        BY <1>a, <2>2 DEF HandOver, Tasks
      <3>2. \A t \in Tasks : task'[t] = IF t = h THEN Idle
                                        ELSE IF t = g THEN [task[h] EXCEPT !.pc = "exec"]
                                        ELSE task[t]
        BY <2>2, <3>1 DEF HandOver, TypeOK
      <3>3. /\ task'[h].job = NoJob /\ task'[h].pc = "idle"
            /\ task'[g].job = task[h].job /\ task'[g].pc = "exec"
            /\ task'[g].attempts = task[h].attempts
            /\ \A t \in Tasks \ {h, g} : task'[t] = task[t]
        <4>1. /\ [task[h] EXCEPT !.pc = "exec"].job = task[h].job
              /\ [task[h] EXCEPT !.pc = "exec"].pc = "exec"
              /\ [task[h] EXCEPT !.pc = "exec"].attempts = task[h].attempts
          BY <1>a, <3>1 DEF Task
        <4>2. task'[h] = Idle /\ task'[g] = [task[h] EXCEPT !.pc = "exec"]
          BY <3>1, <3>2
        <4> QED
          BY <3>1, <3>2, <4>1, <4>2 DEF Idle
      <3>4. UNCHANGED <<jobs, overtaken>>
        BY <2>2 DEF HandOver
      <3> HIDE DEF h, g
      <3>5. HeldRow'
        BY <3>1, <3>3, <3>4 DEF HonestInv, HeldRow
      <3>6. HeldOnce'
        BY <3>1, <3>3, <3>4 DEF HonestInv, HeldOnce
      <3>7. PcConsistent'
        BY <3>1, <3>3 DEF HonestInv, PcConsistent
      <3> QED
        BY <3>4, <3>5, <3>6, <3>7 DEF HonestInv, AttemptsLeft
    <2>3. ASSUME NEW s \in Slots, NEW ok \in BOOLEAN, Execute(p, s, ok) PROVE HonestInv'
      <3> DEFINE t == <<p, s>>
                 q == IF ok THEN "mark_done" ELSE AfterFailure(task[t])
      <3>1. /\ t \in Tasks /\ task[t].job # NoJob
            /\ task' = [task EXCEPT ![t].pc = q]
            /\ UNCHANGED <<jobs, overtaken>>
        BY <1>a, <2>3 DEF Execute, Tasks
      <3>2. /\ q \in Pcs \ {"idle"}
            /\ q = "reschedule" => task[t].attempts + 1 < MaxAttempts[task[t].job]
        BY DEF AfterFailure, Pcs
      <3> HIDE DEF q
      <3> QED
        BY <3>1, <3>2, PcStep
    <2>4. ASSUME NEW s \in Slots, NEW o,
                 MarkDone(p, s, o) \/ Reschedule(p, s, o) \/ MarkFailed(p, s, o)
          PROVE  HonestInv'
      <3> DEFINE t == <<p, s>>
      <3>1. /\ t \in Tasks /\ task[t].job # NoJob /\ task[t].job \in Jobs
            /\ jobs[task[t].job] \in Row /\ task[t].attempts \in Nat
            /\ task[t].job \notin overtaken =>
                  /\ jobs[task[t].job].attempts = task[t].attempts
                  /\ jobs[task[t].job].attempts < MaxAttempts[task[t].job]
            /\ UNCHANGED overtaken
        <4>1. t \in Tasks /\ task[t].pc # "idle" /\ UNCHANGED overtaken
          BY <2>4 DEF MarkDone, Reschedule, MarkFailed, Tasks
        <4>2. task[t].job # NoJob /\ task[t].job \in Jobs /\ task[t].attempts \in Nat
          BY <1>a, <4>1 DEF Task
        <4>3. task[t].job \notin overtaken => jobs[task[t].job].attempts = task[t].attempts
          BY <1>b, <4>1, <4>2 DEF Holds
        <4> HIDE DEF t
        <4> QED
          BY <1>0, <4>1, <4>2, <4>3
      <3>2. Applied(o) <=> o = "ok"
        BY <2>0, <2>4 DEF MarkDone, Reschedule, MarkFailed
      <3>3. CASE o = "ok"
        <4>1. PICK r \in {DoneRow(jobs[task[t].job]), FailedRow(jobs[task[t].job]),
                          RescheduledRow(jobs[task[t].job])} :
                  /\ jobs' = [jobs EXCEPT ![task[t].job] = r]
                  /\ r = RescheduledRow(jobs[task[t].job]) =>
                        \/ task[t].pc = "reschedule"
                        \/ r \in {DoneRow(jobs[task[t].job]), FailedRow(jobs[task[t].job])}
          BY <2>4, <3>2, <3>3 DEF MarkDone, Reschedule, MarkFailed
        <4>2. task' = [task EXCEPT ![t] = Idle]
          BY <2>4, <3>3 DEF MarkDone, Reschedule, MarkFailed
        <4>3. /\ DoneRow(jobs[task[t].job]).attempts = jobs[task[t].job].attempts
              /\ FailedRow(jobs[task[t].job]).attempts = jobs[task[t].job].attempts
              /\ RescheduledRow(jobs[task[t].job]).attempts = jobs[task[t].job].attempts + 1
          BY <3>1 DEF Row, DoneRow, FailedRow, RescheduledRow, Unlocked
        <4>4. task[t].pc = "reschedule" => task[t].attempts + 1 < MaxAttempts[task[t].job]
          BY <3>1 DEF HonestInv, PcConsistent
        <4>5. task[t].job \notin overtaken => r.attempts < MaxAttempts[task[t].job]
          BY <3>1, <4>1, <4>3, <4>4
        <4> QED
          BY <3>1, <4>1, <4>2, <4>5, ReleaseStep
      <3>4. CASE o # "ok"
        <4>1. UNCHANGED jobs
          BY <2>4, <3>2, <3>4 DEF MarkDone, Reschedule, MarkFailed
        <4>2. CASE MarkFailed(p, s, o)
          <5>1. \A u \in Tasks : task'[u] = task[u] \/ task'[u] = Idle
            BY <4>2 DEF MarkFailed, TypeOK
          <5> QED
            BY <3>1, <4>1, <5>1, StopStep
        <4>3. CASE MarkDone(p, s, o) \/ Reschedule(p, s, o)
          <5>1. task' = [task EXCEPT ![t].pc = "mark_failed"]
            BY <3>4, <4>3 DEF MarkDone, Reschedule
          <5> QED
            BY <3>1, <4>1, <5>1, PcStep DEF Pcs
        <4> QED
          BY <2>4, <4>2, <4>3
      <3> QED
        BY <3>3, <3>4
    <2>5. CASE DropClaim(p)
      <3>1. \A u \in Tasks : task'[u] = task[u] \/ task'[u] = Idle
        BY <2>5 DEF DropClaim, TypeOK
      <3> QED
        BY <2>5, <3>1, StopStep DEF DropClaim
    <2>6. CASE RequeueStale(p)
      <3>1. \A k \in Jobs : RequeuedRow(jobs[k]).attempts = jobs[k].attempts
        BY <1>0 DEF Row, RequeuedRow, Unlocked
      <3>2. \A k \in Jobs : jobs'[k] = IF Requeueable(k) THEN RequeuedRow(jobs[k]) ELSE jobs[k]
        BY <2>6 DEF RequeueStale
      <3>3. \A k \in Jobs \ overtaken : Requeueable(k) => \A t \in Tasks : ~Holds(t, k)
        BY <1>b DEF Requeueable
      <3>4. HeldUntouched
        BY <1>0, <2>6, <3>1, <3>2, <3>3 DEF RequeueStale, HeldUntouched
      <3> QED
        BY <3>4, RowStep
    <2>7. CASE Signal(p) \/ Restart(p)
      <3>1. HeldUntouched
        BY <1>0, <2>7 DEF Signal, Restart, HeldUntouched
      <3> QED
        BY <3>1, RowStep
    <2>8. CASE Exit(p) \/ Crash(p)
      BY <2>8, StopStep DEF Exit, Crash, Vanish
    <2> QED
      BY <1>4, <2>1, <2>2, <2>3, <2>4, <2>5, <2>6, <2>7, <2>8 DEF ProcStep, GoroutineStep, WriteBack
  <1>5. ASSUME NEW a \in Admins, AdminStep(a) PROVE HonestInv'
    <2>2. CASE UNCHANGED <<jobs, task, overtaken>>
      <3>1. HeldUntouched
        BY <1>0, <2>2 DEF HeldUntouched
      <3> QED
        BY <3>1, RowStep
    <2>4. ASSUME NEW o, RetryApply(a, o) PROVE HonestInv'
      <3>1. UNCHANGED task /\ overtaken \subseteq overtaken'
        BY <2>4 DEF RetryApply
      <3>2. \A k \in Jobs : /\ jobs'[k] # jobs[k] => k \in overtaken' \/ AwaitsWorker(jobs[k])
                            /\ jobs'[k] = jobs[k] \/ jobs'[k] = RetriedRow(jobs[k])
        BY <2>4 DEF RetryApply
      <3>3. \A k \in Jobs : RetriedRow(jobs[k]).attempts = jobs[k].attempts
        BY <1>0 DEF Row, RetriedRow, Unlocked
      <3>4. \A k \in Jobs \ overtaken' : jobs'[k] # jobs[k] => \A t \in Tasks : ~Holds(t, k)
        BY <1>b, <3>1, <3>2 DEF AwaitsWorker
      <3>5. HeldUntouched
        BY <1>0, <3>1, <3>2, <3>3, <3>4 DEF HeldUntouched
      <3> QED
        BY <3>5, RowStep
    <2> QED
      BY <1>5, <2>2, <2>4 DEF AdminStep, RetryCheck, RetryManyPick
  <1> QED
    BY <1>1, <1>2, <1>3, <1>4, <1>5 DEF Next

\* The agreement holds in every reachable state.
LEMMA HonestAlways ==
    ASSUME Honest
    PROVE  Spec => [](TypeOK /\ HonestInv)
  <1>1. Init => TypeOK /\ HonestInv
    BY TypeInit, HonestInit
  <1>2. TypeOK /\ HonestInv /\ [Next]_vars => (TypeOK /\ HonestInv)'
    BY TypeStep, HonestStep DEF Honest, HonestMove
  <1> QED
    BY <1>1, <1>2, PTL DEF Spec

\* With leases honoured, crashes, shutdowns, lost writes and retries of dead letters
\* never make two goroutines work on the same job, and the writes by id alone hit the
\* row their goroutine claimed, for any number of admins.
THEOREM ClaimsAreExclusive ==
    ASSUME Honest
    PROVE  Spec => []ClaimExclusive
  <1>1. HonestInv => ClaimExclusive
    BY DEF HonestInv, HeldRow, HeldOnce, ClaimExclusive
  <1> QED
    BY <1>1, HonestAlways, PTL

\* With leases honoured no job is left pending with its attempts used up, out of
\* ClaimNext's sight, unless an admin's UPDATE put it back under its holder.
THEOREM PendingIsClaimable ==
    ASSUME Honest
    PROVE  Spec => []NeverStuckPending
  <1>1. HonestInv => NeverStuckPending
    BY DEF HonestInv, AttemptsLeft, NeverStuckPending
  <1> QED
    BY <1>1, HonestAlways, PTL

\* Only the UPDATE of an admin's request overtakes a job.
LEMMA OvertakenByRetry ==
    ASSUME [Next]_vars, \A a \in Admins, o \in {"ok", "lost", "unacked"} : ~RetryApply(a, o)
    PROVE  UNCHANGED overtaken
  <1>1. ASSUME NEW p \in Procs, ProcStep(p) PROVE UNCHANGED overtaken
    BY <1>1 DEF ProcStep, GoroutineStep, WriteBack, Claim, HandOver, Execute, MarkDone, Reschedule,
                MarkFailed, DropClaim, RequeueStale, Signal, Exit, Crash, Vanish, Restart
  <1>2. ASSUME NEW a \in Admins, AdminStep(a) PROVE UNCHANGED overtaken
    BY <1>2 DEF AdminStep, RetryCheck, RetryManyPick
  <1> QED
    BY <1>1, <1>2 DEF Next, Create, BecomeDue, LockExpire, vars

\* A request counts from its check on; one that is no longer about a failed job was
\* open together with another, and so was one that overtook a job.
RequestsCounted ==
    /\ \A a \in Admins : admin[a] # {} => retries >= 1
    /\ \A a, b \in Admins : a # b /\ admin[a] # {} /\ admin[b] # {} => retries >= 2
    /\ \A a \in Admins : \A j \in admin[a] : jobs[j].status = "failed" \/ retries >= 2
    /\ overtaken # {} => retries >= 2

\* What a step may do to a settled job.
StepSettles(j) ==
    jobs[j].status \in {"done", "failed"} /\ jobs'[j] # jobs[j] =>
       /\ \E a \in Admins : j \in admin[a] /\ admin'[a] = {}
       /\ jobs[j].status = "done" => j \in overtaken' /\ retries >= 2

\* While the tasks and their rows agree, a settled job is moved only by the UPDATE of
\* an admin's request, and a done one only by a request that had seen it failed.
LEMMA SettledStep ==
    ASSUME TypeOK, HonestInv, RequestsCounted, [Next]_vars, NEW j \in Jobs \ overtaken
    PROVE  StepSettles(j)
  <1> USE ConstantsAssumption
  <1>1. SUFFICES ASSUME jobs[j].status \in {"done", "failed"}, jobs'[j] # jobs[j]
                 PROVE  /\ \E a \in Admins : j \in admin[a] /\ admin'[a] = {}
                        /\ jobs[j].status = "done" => j \in overtaken' /\ retries >= 2
    BY DEF StepSettles
  <1>2. \A t \in Tasks : task[t].job # j
    BY <1>1 DEF HonestInv, HeldRow
  <1>3. ~UNCHANGED vars
    BY <1>1 DEF vars
  <1>4. ~ \E k \in Jobs, d \in BOOLEAN : Create(k, d)
    BY <1>1 DEF Create, TypeOK
  <1>5. ~ \E k \in Jobs : BecomeDue(k) \/ LockExpire(k)
    BY <1>1 DEF BecomeDue, LockExpire, TypeOK
  <1>6. ASSUME NEW p \in Procs, ProcStep(p) PROVE FALSE
    <2>1. ~ \E k \in Jobs, o \in {"ok", "lost", "unacked"} : Claim(p, k, o)
      BY <1>1 DEF Claim, Claimable, TypeOK
    <2>2. ASSUME NEW s \in Slots, NEW o,
                 MarkDone(p, s, o) \/ Reschedule(p, s, o) \/ MarkFailed(p, s, o)
          PROVE  FALSE
      <3>1. task[<<p, s>>].job # j
        BY <1>2 DEF Tasks
      <3> QED
        BY <1>1, <2>2, <3>1 DEF MarkDone, Reschedule, MarkFailed, TypeOK
    <2>3. ~RequeueStale(p)
      BY <1>1 DEF RequeueStale, Requeueable
    <2> QED
      BY <1>1, <1>6, <2>1, <2>2, <2>3
      DEF ProcStep, GoroutineStep, WriteBack, HandOver, Execute, DropClaim, Signal, Exit, Crash,
          Vanish, Restart
  <1>7. PICK a \in Admins : AdminStep(a)
    BY <1>3, <1>4, <1>5, <1>6 DEF Next
  <1>8. PICK o : RetryApply(a, o)
    BY <1>1, <1>7 DEF AdminStep, RetryCheck, RetryManyPick
  <1>9. j \in admin[a] /\ admin'[a] = {}
    BY <1>1, <1>8 DEF RetryApply, TypeOK
  <1>10. jobs[j].status = "done" => j \in overtaken' /\ retries >= 2
    BY <1>1, <1>8, <1>9 DEF RetryApply, AwaitsWorker, RequestsCounted
  <1> QED
    BY <1>9, <1>10

\* Requests begin with a failed job, and only another request takes it away from them.
LEMMA CountedStep ==
    ASSUME TypeOK, HonestInv, RequestsCounted, [Next]_vars
    PROVE  RequestsCounted'
  <1>0. retries \in Nat /\ admin \in [Admins -> SUBSET Jobs]
    BY DEF TypeOK
  <1>1. ASSUME NEW a \in Admins, NEW j \in admin[a], admin'[a] = admin[a], retries' = retries
        PROVE  jobs'[j].status = "failed" \/ retries' >= 2
    <2>1. CASE retries >= 2 \/ jobs'[j] = jobs[j]
      BY <1>1, <2>1 DEF RequestsCounted
    <2>2. CASE ~(retries >= 2) /\ jobs'[j] # jobs[j]
      <3>1. j \in Jobs \ overtaken /\ jobs[j].status = "failed"
        BY <1>0, <2>2 DEF RequestsCounted
      <3>2. PICK b \in Admins : j \in admin[b] /\ admin'[b] = {}
        BY <2>2, <3>1, SettledStep DEF StepSettles
      <3>3. a # b /\ admin[a] # {} /\ admin[b] # {}
        BY <1>1, <3>2
      <3> QED
        BY <2>2, <3>3 DEF RequestsCounted
    <2> QED
      BY <2>1, <2>2
  <1>2. ASSUME UNCHANGED <<admin, retries, overtaken>> PROVE RequestsCounted'
    <2>1. \A a \in Admins : \A j \in admin[a] : jobs'[j].status = "failed" \/ retries >= 2
      BY <1>0, <1>1, <1>2
    <2> QED
      BY <1>2, <2>1 DEF RequestsCounted
  <1>3. ASSUME NEW a \in Admins, AdminStep(a) PROVE RequestsCounted'
    <2>1. ASSUME NEW o, RetryApply(a, o) PROVE RequestsCounted'
      <3>1. /\ admin'[a] = {} /\ \A b \in Admins \ {a} : admin'[b] = admin[b]
            /\ retries' = retries
            /\ overtaken' \subseteq overtaken \cup {j \in admin[a] : ~AwaitsWorker(jobs[j])}
        BY <1>0, <2>1 DEF RetryApply
      <3>2. overtaken' # {} => retries >= 2
        BY <3>1 DEF RequestsCounted, AwaitsWorker
      <3>3. \A b \in Admins \ {a} : \A j \in admin[b] : jobs'[j].status = "failed" \/ retries >= 2
        BY <1>0, <1>1, <3>1
      <3> QED
        BY <3>1, <3>2, <3>3 DEF RequestsCounted
    <2>2. ASSUME NEW ids \in SUBSET Jobs, \A j \in ids : jobs[j].status = "failed",
                 admin[a] = {}, admin' = [admin EXCEPT ![a] = ids],
                 retries' = retries + 1, UNCHANGED <<jobs, overtaken>>
          PROVE  RequestsCounted'
      <3>1. /\ admin'[a] = ids /\ \A b \in Admins \ {a} : admin'[b] = admin[b]
            /\ retries' >= 1 /\ (retries >= 1 => retries' >= 2) /\ (retries >= 2 => retries' >= 2)
        BY <1>0, <2>2
      <3> QED
        BY <2>2, <3>1 DEF RequestsCounted
    <2>3. ASSUME NEW j \in Jobs, RetryCheck(a, j) PROVE RequestsCounted'
      BY <2>2, <2>3 DEF RetryCheck
    <2>4. ASSUME NEW picked \in SUBSET Jobs, RetryManyPick(a, picked) PROVE RequestsCounted'
      BY <2>2, <2>4 DEF RetryManyPick
    <2> QED
      BY <1>3, <2>1, <2>3, <2>4 DEF AdminStep
  <1>4. ASSUME NEW p \in Procs, ProcStep(p) PROVE UNCHANGED <<admin, retries, overtaken>>
    BY <1>4 DEF ProcStep, GoroutineStep, WriteBack, Claim, HandOver, Execute, MarkDone, Reschedule,
                MarkFailed, DropClaim, RequeueStale, Signal, Exit, Crash, Vanish, Restart
  <1> QED
    BY <1>2, <1>3, <1>4 DEF Next, Create, BecomeDue, LockExpire, vars

\* Requests are counted in every reachable state.
LEMMA CountedAlways ==
    ASSUME Honest
    PROVE  Spec => []RequestsCounted
  <1>1. Init => RequestsCounted
    BY DEF Init, RequestsCounted
  <1>2. TypeOK /\ HonestInv /\ RequestsCounted /\ [Next]_vars => RequestsCounted'
    BY CountedStep
  <1> QED
    BY <1>1, <1>2, HonestAlways, PTL DEF Spec

\* With leases honoured a settled job is moved only by the UPDATE of an admin's
\* request, and a done one only by a request that had seen it failed before another
\* request put it back, so that it takes two, for any number of admins.
THEOREM SettledJobsStay ==
    ASSUME Honest
    PROVE  Spec => SettledStays
  <1>1. TypeOK /\ HonestInv /\ RequestsCounted /\ [Next]_vars
           => [\A j \in Jobs \ overtaken : StepSettles(j)]_vars
    BY SettledStep
  <1>2. Spec => [][\A j \in Jobs \ overtaken : StepSettles(j)]_vars
    BY <1>1, HonestAlways, CountedAlways, PTL DEF Spec
  <1> QED
    BY <1>2 DEF SettledStays, StepSettles

-----------------------------------------------------------------------------
(* What the queue does for its executions, for the modules that say what     *)
(* execute does.                                                            *)

\* A goroutine is not the producer.
LEMMA NotProducer ==
    ASSUME NEW t \in Goroutines
    PROVE  t \in Tasks /\ \A p \in Procs : t # <<p, Producer>>
  BY ConstantsAssumption DEF Goroutines, Tasks

\* The queue's own steps neither begin nor end an execution nor report a success
\* of their own.
LEMMA QueueKeepsTasks ==
    ASSUME TypeOK, QueueStep, NEW t \in Goroutines
    PROVE  /\ task[t].pc = "exec" \/ task'[t].pc = "exec" => task'[t] = task[t]
           /\ task'[t].pc = "mark_done" => task'[t] = task[t]
           /\ UNCHANGED succeeded
  <1>0. t \in Tasks /\ \A p \in Procs : t # <<p, Producer>>
    BY NotProducer
  <1>1. CASE UNCHANGED <<task, succeeded>>
    BY <1>1
  <1>2. ASSUME NEW p \in Procs, NEW j \in Jobs, NEW o, Claim(p, j, o)
        PROVE  task'[t] = task[t] /\ UNCHANGED succeeded
    BY <1>0, <1>2 DEF Claim, TypeOK
  <1>3. ASSUME NEW p \in Procs, DropClaim(p)
        PROVE  task'[t] = task[t] /\ UNCHANGED succeeded
    BY <1>0, <1>3 DEF DropClaim, TypeOK
  <1>4. ASSUME NEW p \in Procs, NEW s \in Slots, WriteBack(p, s)
        PROVE  /\ task'[t] = task[t] \/ (task'[t].pc \in {"idle", "mark_failed"} /\ task[t].pc # "exec")
               /\ UNCHANGED succeeded
    <2> DEFINE g == <<p, s>>
    <2>1. PICK c : /\ task' = [task EXCEPT ![g] = c]
                   /\ c \in {Idle, [task[g] EXCEPT !.pc = "mark_failed"]}
                   /\ task[g].pc \in {"mark_done", "reschedule", "mark_failed"}
                   /\ UNCHANGED succeeded
      <3>1. PICK o \in {"ok", "lost", "unacked"} :
                MarkDone(p, s, o) \/ Reschedule(p, s, o) \/ MarkFailed(p, s, o)
        BY <1>4 DEF WriteBack
      <3>2. \/ task' = [task EXCEPT ![g] = Idle]
            \/ task' = [task EXCEPT ![g] = [task[g] EXCEPT !.pc = "mark_failed"]]
        BY <3>1 DEF MarkDone, Reschedule, MarkFailed
      <3>3. task[g].pc \in {"mark_done", "reschedule", "mark_failed"} /\ UNCHANGED succeeded
        BY <3>1 DEF MarkDone, Reschedule, MarkFailed
      <3> QED
        BY <3>2, <3>3
    <2>2. g \in Tasks /\ task[g] \in Task
      BY DEF Tasks, TypeOK
    <2>3. c.pc \in {"idle", "mark_failed"}
      BY <2>1, <2>2 DEF Idle, Task
    <2>4. task'[t] = IF t = g THEN c ELSE task[t]
      BY <1>0, <2>1 DEF TypeOK
    <2> QED
      BY <2>1, <2>3, <2>4
  <1> QED
    BY <1>1, <1>2, <1>3, <1>4
    DEF QueueStep, Create, BecomeDue, LockExpire, RequeueStale, Signal, Restart, AdminStep,
        RetryCheck, RetryManyPick, RetryApply

\* A row becomes done only by the MarkDone of a goroutine that is about to report
\* success.
LEMMA DoneByMarkDone ==
    ASSUME TypeOK, QueueStep, NEW k \in Jobs, jobs'[k].status = "done"
    PROVE  \/ jobs[k].status = "done"
           \/ \E t \in Goroutines : task[t].pc = "mark_done" /\ task[t].job = k
  <1>0. jobs[k] \in Row
    BY DEF TypeOK
  <1>1. CASE UNCHANGED jobs
    BY <1>1
  <1>2. ASSUME NEW j \in Jobs, NEW d \in BOOLEAN, Create(j, d) PROVE jobs[k].status = "done"
    BY <1>2 DEF Create, AbsentRow, TypeOK
  <1>3. ASSUME NEW j \in Jobs, BecomeDue(j) \/ LockExpire(j) PROVE jobs[k].status = "done"
    BY <1>0, <1>3 DEF BecomeDue, LockExpire, TypeOK, Row
  <1>4. ASSUME NEW p \in Procs, NEW j \in Jobs, NEW o, Claim(p, j, o)
        PROVE  jobs[k].status = "done"
    <2>1. jobs'[k] = jobs[k] \/ jobs'[k] = ClaimedRow(jobs[k], p)
      BY <1>4 DEF Claim, TypeOK
    <2> QED
      BY <1>0, <2>1, RowFields
  <1>5. ASSUME NEW p \in Procs, NEW s \in Slots, WriteBack(p, s)
        PROVE  \/ jobs[k].status = "done"
               \/ \E t \in Goroutines : task[t].pc = "mark_done" /\ task[t].job = k
    <2>1. PICK o \in {"ok", "lost", "unacked"} :
              MarkDone(p, s, o) \/ Reschedule(p, s, o) \/ MarkFailed(p, s, o)
      BY <1>5 DEF WriteBack
    <2>2. <<p, s>> \in Goroutines
      BY DEF Goroutines
    <2>3. CASE MarkDone(p, s, o)
      BY <2>2, <2>3 DEF MarkDone, TypeOK
    <2>4. CASE Reschedule(p, s, o)
      <3>1. jobs'[k] = jobs[k] \/ jobs'[k] = RescheduledRow(jobs[k])
        BY <2>4 DEF Reschedule, TypeOK
      <3> QED
        BY <1>0, <3>1, RowFields
    <2>5. CASE MarkFailed(p, s, o)
      <3>1. jobs'[k] = jobs[k] \/ jobs'[k] = FailedRow(jobs[k])
        BY <2>5 DEF MarkFailed, TypeOK
      <3> QED
        BY <1>0, <3>1, RowFields
    <2> QED
      BY <2>1, <2>3, <2>4, <2>5
  <1>6. ASSUME NEW p \in Procs, RequeueStale(p) PROVE jobs[k].status = "done"
    <2>1. jobs'[k] = jobs[k] \/ jobs'[k] = RequeuedRow(jobs[k])
      BY <1>6 DEF RequeueStale
    <2> QED
      BY <1>0, <2>1, RowFields
  <1>7. ASSUME NEW a \in Admins, NEW o, RetryApply(a, o) PROVE jobs[k].status = "done"
    <2>1. jobs'[k] = jobs[k] \/ jobs'[k] = RetriedRow(jobs[k])
      BY <1>7 DEF RetryApply
    <2>2. RetriedRow(jobs[k]).status = "pending"
      BY <1>0 DEF Row, RetriedRow, Unlocked
    <2> QED
      BY <2>1, <2>2
  <1> QED
    BY <1>1, <1>2, <1>3, <1>4, <1>5, <1>6, <1>7
    DEF QueueStep, DropClaim, Signal, Restart, AdminStep, RetryCheck, RetryManyPick

\* Nothing takes a row out of the table.
LEMMA RowsStay ==
    ASSUME TypeOK, [Next]_vars, NEW k \in Jobs, jobs[k].status # "absent"
    PROVE  jobs'[k].status # "absent"
  <1>0. jobs[k] \in Row
    BY DEF TypeOK
  <1>1. CASE jobs'[k] = jobs[k]
    BY <1>1
  <1>2. ASSUME NEW j \in Jobs, NEW d \in BOOLEAN, Create(j, d) PROVE jobs'[k] = jobs[k]
    BY <1>2 DEF Create, TypeOK
  <1>3. ASSUME NEW j \in Jobs, BecomeDue(j) \/ LockExpire(j) PROVE jobs'[k].status = jobs[k].status
    BY <1>0, <1>3 DEF BecomeDue, LockExpire, TypeOK, Row
  <1>4. ASSUME NEW p \in Procs, ProcStep(p), jobs'[k] # jobs[k]
        PROVE  jobs'[k].status # "absent"
    <2>1. ASSUME NEW j \in Jobs, NEW o, Claim(p, j, o) PROVE jobs'[k] = ClaimedRow(jobs[k], p)
      BY <1>4, <2>1 DEF Claim, TypeOK
    <2>2. ASSUME NEW s \in Slots, NEW o,
                 MarkDone(p, s, o) \/ Reschedule(p, s, o) \/ MarkFailed(p, s, o)
          PROVE  \/ jobs'[k] = DoneRow(jobs[k])
                 \/ jobs'[k] = RescheduledRow(jobs[k])
                 \/ jobs'[k] = FailedRow(jobs[k])
      BY <1>4, <2>2 DEF MarkDone, Reschedule, MarkFailed, TypeOK
    <2>3. RequeueStale(p) => jobs'[k] = RequeuedRow(jobs[k])
      BY <1>4 DEF RequeueStale
    <2>4. \/ \E j \in Jobs, o \in {"ok", "lost", "unacked"} : Claim(p, j, o)
          \/ \E s \in Slots : WriteBack(p, s)
          \/ RequeueStale(p)
      BY <1>4 DEF ProcStep, GoroutineStep, HandOver, Execute, DropClaim, Signal, Exit, Crash, Vanish,
                  Restart
    <2>5. \/ jobs'[k] = ClaimedRow(jobs[k], p) \/ jobs'[k] = DoneRow(jobs[k])
          \/ jobs'[k] = RescheduledRow(jobs[k]) \/ jobs'[k] = FailedRow(jobs[k])
          \/ jobs'[k] = RequeuedRow(jobs[k])
      BY <2>1, <2>2, <2>3, <2>4 DEF WriteBack
    <2> QED
      BY <1>0, <2>5, RowFields
  <1>5. ASSUME NEW a \in Admins, AdminStep(a), jobs'[k] # jobs[k] PROVE jobs'[k].status # "absent"
    <2>1. jobs'[k] = RetriedRow(jobs[k])
      BY <1>5 DEF AdminStep, RetryCheck, RetryManyPick, RetryApply
    <2>2. RetriedRow(jobs[k]).status = "pending"
      BY <1>0 DEF Row, RetriedRow, Unlocked
    <2> QED
      BY <2>1, <2>2
  <1> QED
    BY <1>1, <1>2, <1>3, <1>4, <1>5 DEF Next, vars

\* Whoever is busy is busy with a job of the table.
BusyHasJob ==
    \A t \in Tasks : task[t].pc # "idle" =>
        task[t].job \in Jobs /\ jobs[task[t].job].status # "absent"

\* No step makes anyone busy with nothing.
LEMMA BusyStep ==
    ASSUME TypeOK, BusyHasJob, [Next]_vars
    PROVE  BusyHasJob'
  <1> USE DEF BusyHasJob
  <1>0. Idle.pc = "idle"
    BY DEF Idle
  <1>a. \A j \in Jobs : jobs[j].status # "absent" => jobs'[j].status # "absent"
    BY RowsStay
  <1>1. CASE UNCHANGED task
    BY <1>1, <1>a
  <1>2. ASSUME NEW t \in Tasks, NEW c, task' = [task EXCEPT ![t] = c],
               c.pc # "idle" => c.job \in Jobs /\ jobs[c.job].status # "absent"
        PROVE  BusyHasJob'
    BY <1>2, <1>a DEF TypeOK
  <1>3. ASSUME NEW t \in Tasks, NEW q, task[t].pc # "idle",
               task' = [task EXCEPT ![t] = [task[t] EXCEPT !.pc = q]]
        PROVE  BusyHasJob'
    <2>1. [task[t] EXCEPT !.pc = q].job = task[t].job
      BY <1>3 DEF TypeOK, Task
    <2> QED
      BY <1>2, <1>3, <2>1
  <1>4. ASSUME NEW p \in Procs, NEW j \in Jobs, NEW o, Claim(p, j, o) PROVE BusyHasJob'
    <2>1. <<p, Producer>> \in Tasks
      BY DEF Tasks
    <2> QED
      BY <1>1, <1>2, <1>4, <2>1 DEF Claim, Claimable
  <1>5. ASSUME NEW p \in Procs, NEW s \in Slots, HandOver(p, s) PROVE BusyHasJob'
    <2> DEFINE g == <<p, s>>  q == <<p, Producer>>
    <2>1. g \in Tasks /\ q \in Tasks /\ g # q
      BY ConstantsAssumption DEF Tasks
    <2>2. [task[q] EXCEPT !.pc = "exec"].job = task[q].job
      BY <2>1 DEF TypeOK, Task
    <2>3. task[q].job \in Jobs /\ jobs[task[q].job].status # "absent"
      BY <1>5, <2>1 DEF HandOver
    <2>4. \A t \in Tasks : task'[t] = IF t = q THEN Idle
                                      ELSE IF t = g THEN [task[q] EXCEPT !.pc = "exec"]
                                      ELSE task[t]
      BY <1>5, <2>1 DEF HandOver, TypeOK
    <2> QED
      BY <1>0, <1>a, <2>2, <2>3, <2>4
  <1>6. ASSUME NEW p \in Procs, DropClaim(p) PROVE BusyHasJob'
    <2>1. <<p, Producer>> \in Tasks
      BY DEF Tasks
    <2> QED
      BY <1>0, <1>2, <1>6, <2>1 DEF DropClaim
  <1>7. ASSUME NEW p \in Procs, NEW s \in Slots, GoroutineStep(p, s) PROVE BusyHasJob'
    <2> DEFINE g == <<p, s>>
    <2>1. g \in Tasks
      BY DEF Tasks
    <2>2. task[g].pc # "idle"
      BY <1>7 DEF GoroutineStep, WriteBack, Execute, MarkDone, Reschedule, MarkFailed
    <2>3. \/ task' = [task EXCEPT ![g] = Idle]
          \/ \E q : task' = [task EXCEPT ![g] = [task[g] EXCEPT !.pc = q]]
      BY <1>7 DEF GoroutineStep, WriteBack, Execute, MarkDone, Reschedule, MarkFailed
    <2> QED
      BY <1>0, <1>2, <1>3, <2>1, <2>2, <2>3
  <1>8. ASSUME NEW p \in Procs, Exit(p) \/ Crash(p) PROVE BusyHasJob'
    BY <1>0, <1>8, <1>a DEF Exit, Crash, Vanish
  <1> QED
    BY <1>1, <1>4, <1>5, <1>6, <1>7, <1>8
    DEF Next, ProcStep, vars, Create, BecomeDue, LockExpire, RequeueStale, Signal, Restart,
        AdminStep, RetryCheck, RetryManyPick, RetryApply

-----------------------------------------------------------------------------
(* How often a row is rescheduled, when leases are outlived and             *)
(* acknowledgements lost.                                                   *)

\* The copies of a job that can still lead to a Reschedule of its row.
MayReschedule(j) ==
    {t \in Tasks : /\ task[t].job = j
                   /\ task[t].pc \in {"handing", "exec", "reschedule"}
                   /\ task[t].attempts + 1 < MaxAttempts[j]}

\* handleFailure chose to reschedule because the copy had an attempt left.
RescheduleChosen ==
    \A t \in Tasks : task[t].pc = "reschedule" =>
        task[t].job \in Jobs /\ task[t].attempts + 1 < MaxAttempts[task[t].job]

\* What the row has used and what its copies may still use make up no more than one
\* attempt per place that can hold a copy, beyond those the last claim left.
AttemptsCounted ==
    \A j \in Jobs :
        jobs[j].attempts + Cardinality(MayReschedule(j)) + 2 <= MaxAttempts[j] + Cardinality(Tasks)

CountInv == TypeOK /\ BusyHasJob /\ RescheduleChosen /\ AttemptsCounted

\* There are finitely many places, at least one, and every set of copies is smaller.
LEMMA TasksFinite ==
    /\ IsFiniteSet(Tasks) /\ Cardinality(Tasks) \in Nat /\ Cardinality(Tasks) >= 1
    /\ \A S \in SUBSET Tasks : /\ IsFiniteSet(S) /\ Cardinality(S) \in Nat
                              /\ Cardinality(S) <= Cardinality(Tasks)
  <1>1. IsFiniteSet(Slots \cup {Producer})
    BY DeploymentAssumption, FS_AddElement
  <1>2. IsFiniteSet(Tasks)
    BY <1>1, DeploymentAssumption, FS_Product DEF Tasks
  <1>3. Cardinality(Tasks) \in Nat
    BY <1>2, FS_CardinalityType
  <1>4. Tasks # {}
    <2>1. PICK p : p \in Procs
      BY DeploymentAssumption
    <2>2. <<p, Producer>> \in Tasks
      BY <2>1 DEF Tasks
    <2> QED
      BY <2>2
  <1>5. Cardinality(Tasks) # 0
    BY <1>2, <1>4, FS_EmptySet
  <1>6. \A S \in SUBSET Tasks : /\ IsFiniteSet(S) /\ Cardinality(S) \in Nat
                              /\ Cardinality(S) <= Cardinality(Tasks)
    BY <1>2, FS_Subset, FS_CardinalityType
  <1> QED
    BY <1>2, <1>3, <1>5, <1>6

\* A row with attempts left for two more, or that was just made, is within the bound
\* whatever copies there are.
LEMMA AttemptsRoom ==
    ASSUME NEW j \in Jobs, NEW S \in SUBSET Tasks, NEW n \in Nat,
           n + 2 <= MaxAttempts[j] \/ (n = 0 /\ (MaxAttempts[j] = 1 => S = {}))
    PROVE  n + Cardinality(S) + 2 <= MaxAttempts[j] + Cardinality(Tasks)
  <1>1. MaxAttempts[j] \in Nat /\ MaxAttempts[j] # 0
    BY ConstantsAssumption
  <1>2. /\ Cardinality(Tasks) \in Nat /\ Cardinality(Tasks) >= 1
        /\ Cardinality(S) \in Nat /\ Cardinality(S) <= Cardinality(Tasks)
    BY TasksFinite
  <1>3. S = {} => Cardinality(S) = 0
    BY FS_EmptySet
  <1> QED
    BY <1>1, <1>2, <1>3

\* A step that adds neither to the attempts of a row nor to the copies that may.
LEMMA AttemptsKept ==
    ASSUME TypeOK, AttemptsCounted, NEW j \in Jobs,
           jobs'[j].attempts = jobs[j].attempts,
           NEW S \in SUBSET MayReschedule(j)
    PROVE  jobs'[j].attempts + Cardinality(S) + 2 <= MaxAttempts[j] + Cardinality(Tasks)
  <1>1. jobs[j].attempts \in Nat /\ MaxAttempts[j] \in Nat
    BY ConstantsAssumption DEF TypeOK, Row
  <1>2. MayReschedule(j) \in SUBSET Tasks
    BY DEF MayReschedule
  <1>3. /\ IsFiniteSet(MayReschedule(j)) /\ Cardinality(MayReschedule(j)) \in Nat
        /\ Cardinality(Tasks) \in Nat
    BY <1>2, TasksFinite
  <1>4. Cardinality(S) \in Nat /\ Cardinality(S) <= Cardinality(MayReschedule(j))
    BY <1>3, FS_Subset, FS_CardinalityType
  <1>5. jobs[j].attempts + Cardinality(MayReschedule(j)) + 2 <= MaxAttempts[j] + Cardinality(Tasks)
    BY DEF AttemptsCounted
  <1> QED
    BY <1>1, <1>3, <1>4, <1>5

\* Only the end of a failed execution chooses to reschedule.
LEMMA RescheduleChosenStep ==
    ASSUME TypeOK, BusyHasJob, RescheduleChosen, [Next]_vars
    PROVE  RescheduleChosen'
  <1> USE DEF RescheduleChosen
  <1>0. Idle.pc = "idle"
    BY DEF Idle
  <1>1. CASE UNCHANGED task
    BY <1>1
  <1>2. ASSUME NEW t \in Tasks, NEW c, task' = [task EXCEPT ![t] = c],
               c.pc = "reschedule" => c.job \in Jobs /\ c.attempts + 1 < MaxAttempts[c.job]
        PROVE  RescheduleChosen'
    BY <1>2 DEF TypeOK
  <1>3. ASSUME NEW p \in Procs, NEW j \in Jobs, NEW o, Claim(p, j, o) PROVE RescheduleChosen'
    <2>1. <<p, Producer>> \in Tasks
      BY DEF Tasks
    <2> QED
      BY <1>1, <1>2, <1>3, <2>1 DEF Claim
  <1>4. ASSUME NEW p \in Procs, NEW s \in Slots, HandOver(p, s) PROVE RescheduleChosen'
    <2> DEFINE g == <<p, s>>  q == <<p, Producer>>
    <2>1. g \in Tasks /\ q \in Tasks /\ g # q
      BY ConstantsAssumption DEF Tasks
    <2>2. [task[q] EXCEPT !.pc = "exec"].pc = "exec"
      BY <2>1 DEF TypeOK, Task
    <2>3. \A t \in Tasks : task'[t] = IF t = q THEN Idle
                                      ELSE IF t = g THEN [task[q] EXCEPT !.pc = "exec"]
                                      ELSE task[t]
      BY <1>4, <2>1 DEF HandOver, TypeOK
    <2> QED
      BY <1>0, <2>2, <2>3
  <1>5. ASSUME NEW p \in Procs, DropClaim(p) PROVE RescheduleChosen'
    <2>1. <<p, Producer>> \in Tasks
      BY DEF Tasks
    <2> QED
      BY <1>0, <1>2, <1>5, <2>1 DEF DropClaim
  <1>6. ASSUME NEW p \in Procs, NEW s \in Slots, WriteBack(p, s) PROVE RescheduleChosen'
    <2> DEFINE g == <<p, s>>
    <2>1. g \in Tasks /\ task[g] \in Task
      BY DEF Tasks, TypeOK
    <2>2. [task[g] EXCEPT !.pc = "mark_failed"].pc = "mark_failed"
      BY <2>1 DEF Task
    <2>3. \/ task' = [task EXCEPT ![g] = Idle]
          \/ task' = [task EXCEPT ![g] = [task[g] EXCEPT !.pc = "mark_failed"]]
      BY <1>6 DEF WriteBack, MarkDone, Reschedule, MarkFailed
    <2> QED
      BY <1>0, <1>2, <2>1, <2>2, <2>3
  <1>7. ASSUME NEW p \in Procs, NEW s \in Slots, NEW ok \in BOOLEAN, Execute(p, s, ok)
        PROVE  RescheduleChosen'
    <2> DEFINE g == <<p, s>>
               q == IF ok THEN "mark_done" ELSE AfterFailure(task[g])
    <2>1. g \in Tasks /\ task[g] \in Task /\ task[g].job \in Jobs
      BY <1>7 DEF Tasks, TypeOK, BusyHasJob, Execute
    <2>2. q = "reschedule" => task[g].attempts + 1 < MaxAttempts[task[g].job]
      BY DEF AfterFailure
    <2>3. task' = [task EXCEPT ![g] = [task[g] EXCEPT !.pc = q]]
      BY <1>7 DEF Execute
    <2> HIDE DEF q
    <2>4. /\ [task[g] EXCEPT !.pc = q].pc = q
          /\ [task[g] EXCEPT !.pc = q].job = task[g].job
          /\ [task[g] EXCEPT !.pc = q].attempts = task[g].attempts
      BY <2>1 DEF Task
    <2> QED
      BY <1>2, <2>1, <2>2, <2>3, <2>4
  <1>8. ASSUME NEW p \in Procs, Exit(p) \/ Crash(p) PROVE RescheduleChosen'
    BY <1>0, <1>8 DEF Exit, Crash, Vanish
  <1> QED
    BY <1>1, <1>3, <1>4, <1>5, <1>6, <1>7, <1>8
    DEF Next, ProcStep, GoroutineStep, vars, Create, BecomeDue, LockExpire, RequeueStale, Signal,
        Restart, AdminStep, RetryCheck, RetryManyPick, RetryApply

\* Each Reschedule takes the copy it rests on out of the count; no other step adds
\* to the count of a row whose claims have run out.
LEMMA AttemptsStep ==
    ASSUME CountInv, [Next]_vars
    PROVE  AttemptsCounted'
  <1> USE DEF CountInv
  <1> DEFINE Bounded(j, S) ==
        jobs'[j].attempts + Cardinality(S) + 2 <= MaxAttempts[j] + Cardinality(Tasks)
  <1> SUFFICES ASSUME NEW j \in Jobs PROVE Bounded(j, MayReschedule(j)')
    BY DEF AttemptsCounted
  <1>a. TypeOK'
    BY TypeStep
  <1>b. /\ jobs[j] \in Row /\ jobs[j].attempts \in Nat
        /\ jobs'[j].attempts \in Nat /\ MaxAttempts[j] \in Nat \ {0}
    BY <1>a, ConstantsAssumption DEF TypeOK, Row
  <1>c. MayReschedule(j)' \in SUBSET Tasks /\ MayReschedule(j) \in SUBSET Tasks
    BY DEF MayReschedule
  <1>0. ASSUME jobs'[j].attempts = jobs[j].attempts,
               \A t \in Tasks : \/ task'[t] = task[t]
                               \/ task'[t].pc \in {"idle", "mark_done", "mark_failed"}
        PROVE  Bounded(j, MayReschedule(j)')
    <2>1. MayReschedule(j)' \in SUBSET MayReschedule(j)
      BY <1>0 DEF MayReschedule
    <2> QED
      BY <1>0, <2>1, AttemptsKept
  <1>1. CASE UNCHANGED <<jobs, task>>
    BY <1>0, <1>1
  <1>2. ASSUME NEW k \in Jobs, NEW d \in BOOLEAN, Create(k, d)
        PROVE  Bounded(j, MayReschedule(j)')
    <2>1. CASE k = j
      <3>1. jobs'[j].attempts = 0
        BY <1>2, <2>1 DEF Create, AbsentRow, TypeOK
      <3>2. MaxAttempts[j] = 1 => MayReschedule(j)' = {}
        BY <1>a DEF MayReschedule, TypeOK, Task
      <3> QED
        BY <1>b, <1>c, <3>1, <3>2, AttemptsRoom
    <2>2. CASE k # j
      BY <1>0, <1>2, <2>2 DEF Create, TypeOK
    <2> QED
      BY <2>1, <2>2
  <1>3. ASSUME NEW k \in Jobs, BecomeDue(k) \/ LockExpire(k)
        PROVE  Bounded(j, MayReschedule(j)')
    <2>1. jobs'[j].attempts = jobs[j].attempts
      BY <1>b, <1>3 DEF BecomeDue, LockExpire, TypeOK, Row
    <2> QED
      BY <1>0, <1>3, <2>1 DEF BecomeDue, LockExpire
  <1>4. ASSUME NEW p \in Procs, NEW k \in Jobs, NEW o, Claim(p, k, o)
        PROVE  Bounded(j, MayReschedule(j)')
    <2> DEFINE h == <<p, Producer>>
               c == [pc |-> "handing", job |-> k, attempts |-> jobs[k].attempts]
    <2>1. jobs'[j].attempts = jobs[j].attempts
      <3>1. jobs'[j] = jobs[j] \/ jobs'[j] = ClaimedRow(jobs[j], p)
        BY <1>4 DEF Claim, TypeOK
      <3>2. ClaimedRow(jobs[j], p).attempts = jobs[j].attempts
        BY <1>b DEF Row, ClaimedRow
      <3> QED
        BY <3>1, <3>2
    <2>2. UNCHANGED task \/ \A t \in Tasks : task'[t] = IF t = h THEN c ELSE task[t]
      BY <1>4 DEF Claim, TypeOK
    <2>3. c.job = k /\ c.attempts = jobs[k].attempts
      OBVIOUS
    <2>4. CASE UNCHANGED task
      BY <1>0, <2>1, <2>4
    <2>5. CASE jobs[j].attempts + 2 <= MaxAttempts[j]
      BY <1>b, <1>c, <2>1, <2>5, AttemptsRoom
    <2>6. CASE /\ \A t \in Tasks : task'[t] = IF t = h THEN c ELSE task[t]
               /\ ~(jobs[j].attempts + 2 <= MaxAttempts[j])
      <3>1. ~(jobs[j].attempts + 1 < MaxAttempts[j])
        BY <1>b, <2>6
      <3> HIDE DEF c, h
      <3>2. MayReschedule(j)' \in SUBSET MayReschedule(j)
        <4> SUFFICES ASSUME NEW t \in MayReschedule(j)' PROVE t \in MayReschedule(j)
          OBVIOUS
        <4>1. /\ t \in Tasks /\ task'[t].job = j
              /\ task'[t].pc \in {"handing", "exec", "reschedule"}
              /\ task'[t].attempts + 1 < MaxAttempts[j]
          BY DEF MayReschedule
        <4>2. task'[t] = task[t]
          BY <2>3, <2>6, <3>1, <4>1
        <4> QED
          BY <4>1, <4>2 DEF MayReschedule
      <3> QED
        BY <2>1, <3>2, AttemptsKept
    <2> QED
      BY <2>2, <2>4, <2>5, <2>6
  <1>5. ASSUME NEW p \in Procs, NEW s \in Slots, HandOver(p, s)
        PROVE  Bounded(j, MayReschedule(j)')
    <2> DEFINE g == <<p, s>>  q == <<p, Producer>>
               M == MayReschedule(j)
    <2>1. g \in Tasks /\ q \in Tasks /\ g # q
      BY ConstantsAssumption DEF Tasks
    <2>2. \A t \in Tasks : task'[t] = IF t = q THEN Idle
                                      ELSE IF t = g THEN [task[q] EXCEPT !.pc = "exec"]
                                      ELSE task[t]
      BY <1>5, <2>1 DEF HandOver, TypeOK
    <2>3. /\ [task[q] EXCEPT !.pc = "exec"].job = task[q].job
          /\ [task[q] EXCEPT !.pc = "exec"].attempts = task[q].attempts
          /\ Idle.pc = "idle" /\ task[q].pc = "handing" /\ task[g].pc = "idle"
          /\ UNCHANGED jobs
      BY <1>5, <2>1 DEF TypeOK, Task, Idle, HandOver
    <2>4. CASE q \in M
      <3>1. MayReschedule(j)' \in SUBSET ((M \ {q}) \cup {g})
        BY <2>1, <2>2, <2>3 DEF MayReschedule
      <3>2. g \notin M
        BY <2>3 DEF MayReschedule
      <3>3. IsFiniteSet(M) /\ Cardinality(M) \in Nat
        BY <1>c, TasksFinite
      <3>4. IsFiniteSet(M \ {q}) /\ Cardinality(M \ {q}) = Cardinality(M) - 1
        BY <2>4, <3>3, FS_RemoveElement
      <3>5. /\ IsFiniteSet((M \ {q}) \cup {g})
            /\ Cardinality((M \ {q}) \cup {g}) = Cardinality(M)
        <4> DEFINE N == M \ {q}
        <4>1. g \notin N /\ IsFiniteSet(N) /\ Cardinality(N) = Cardinality(M) - 1
          BY <3>2, <3>4
        <4> HIDE DEF M, N
        <4>2. IsFiniteSet(N \cup {g}) /\ Cardinality(N \cup {g}) = Cardinality(N) + 1
          BY <4>1, FS_AddElement
        <4>3. Cardinality(N \cup {g}) = Cardinality(M)
          BY <3>3, <4>1, <4>2
        <4> QED
          BY <4>2, <4>3 DEF N
      <3>6. /\ Cardinality(MayReschedule(j)') <= Cardinality(M)
            /\ Cardinality(MayReschedule(j)') \in Nat
        <4> HIDE DEF M
        <4> QED
          BY <1>c, <3>1, <3>5, FS_Subset, TasksFinite
      <3>7. jobs[j].attempts + Cardinality(M) + 2 <= MaxAttempts[j] + Cardinality(Tasks)
        BY DEF AttemptsCounted
      <3> QED
        BY <1>b, <2>3, <3>3, <3>6, <3>7, TasksFinite
    <2>5. CASE q \notin M
      <3>1. MayReschedule(j)' \in SUBSET M
        BY <2>1, <2>2, <2>3, <2>5 DEF MayReschedule
      <3> QED
        BY <2>3, <3>1, AttemptsKept
    <2> QED
      BY <2>4, <2>5
  <1>6. ASSUME NEW p \in Procs, DropClaim(p)
        PROVE  Bounded(j, MayReschedule(j)')
    BY <1>0, <1>6 DEF DropClaim, TypeOK, Idle
  <1>7. ASSUME NEW p \in Procs, NEW s \in Slots, NEW ok \in BOOLEAN, Execute(p, s, ok)
        PROVE  Bounded(j, MayReschedule(j)')
    <2> DEFINE g == <<p, s>>
               q == IF ok THEN "mark_done" ELSE AfterFailure(task[g])
    <2>1. g \in Tasks /\ task[g] \in Task /\ task[g].pc = "exec" /\ UNCHANGED jobs
      BY <1>7 DEF Tasks, TypeOK, Execute
    <2>2. \A t \in Tasks : task'[t] = IF t = g THEN [task[g] EXCEPT !.pc = q] ELSE task[t]
      BY <1>7, <2>1 DEF Execute, TypeOK
    <2> HIDE DEF q
    <2>3. /\ [task[g] EXCEPT !.pc = q].job = task[g].job
          /\ [task[g] EXCEPT !.pc = q].attempts = task[g].attempts
      BY <2>1 DEF Task
    <2>4. MayReschedule(j)' \in SUBSET MayReschedule(j)
      BY <2>1, <2>2, <2>3 DEF MayReschedule
    <2> QED
      BY <2>1, <2>4, AttemptsKept
  <1>8. ASSUME NEW p \in Procs, NEW s \in Slots, NEW o \in {"ok", "lost", "unacked"},
               MarkDone(p, s, o) \/ Reschedule(p, s, o) \/ MarkFailed(p, s, o)
        PROVE  Bounded(j, MayReschedule(j)')
    <2> DEFINE g == <<p, s>>
               c == IF o = "ok" \/ task[g].pc = "mark_failed"
                    THEN Idle ELSE [task[g] EXCEPT !.pc = "mark_failed"]
    <2>1. g \in Tasks /\ task[g] \in Task
      BY DEF Tasks, TypeOK
    <2>2. \A t \in Tasks : task'[t] = IF t = g THEN c ELSE task[t]
      BY <1>8, <2>1 DEF MarkDone, Reschedule, MarkFailed, TypeOK
    <2>3. c.pc \in {"idle", "mark_failed"}
      BY <2>1 DEF Task, Idle
    <2> HIDE DEF c
    <2>4. CASE jobs'[j].attempts = jobs[j].attempts
      BY <1>0, <2>2, <2>3, <2>4
    <2>5. CASE jobs'[j].attempts # jobs[j].attempts
      <3>1. /\ Reschedule(p, s, o) /\ task[g].job = j
            /\ jobs'[j].attempts = jobs[j].attempts + 1
        <4>1. /\ DoneRow(jobs[j]).attempts = jobs[j].attempts
              /\ FailedRow(jobs[j]).attempts = jobs[j].attempts
              /\ RescheduledRow(jobs[j]).attempts = jobs[j].attempts + 1
          BY <1>b DEF Row, DoneRow, FailedRow, RescheduledRow, Unlocked
        <4>2. ~MarkDone(p, s, o)
          <5>1. MarkDone(p, s, o) => jobs'[j] \in {jobs[j], DoneRow(jobs[j])}
            BY DEF MarkDone, TypeOK
          <5> QED
            BY <2>5, <4>1, <5>1
        <4>3. ~MarkFailed(p, s, o)
          <5>1. MarkFailed(p, s, o) => jobs'[j] \in {jobs[j], FailedRow(jobs[j])}
            BY DEF MarkFailed, TypeOK
          <5> QED
            BY <2>5, <4>1, <5>1
        <4>4. Reschedule(p, s, o)
          BY <1>8, <4>2, <4>3
        <4>5. jobs'[j] = RescheduledRow(jobs[j]) /\ task[g].job = j
          BY <2>5, <4>4 DEF Reschedule, TypeOK
        <4> QED
          BY <4>1, <4>4, <4>5
      <3>2. g \in MayReschedule(j)
        BY <2>1, <3>1 DEF MayReschedule, RescheduleChosen, Reschedule
      <3>3. MayReschedule(j)' \in SUBSET (MayReschedule(j) \ {g})
        BY <2>2, <2>3 DEF MayReschedule
      <3>4. IsFiniteSet(MayReschedule(j)) /\ Cardinality(MayReschedule(j)) \in Nat
        BY <1>c, TasksFinite
      <3>5. /\ IsFiniteSet(MayReschedule(j) \ {g})
            /\ Cardinality(MayReschedule(j) \ {g}) = Cardinality(MayReschedule(j)) - 1
        BY <3>2, <3>4, FS_RemoveElement
      <3>6. /\ Cardinality(MayReschedule(j)') <= Cardinality(MayReschedule(j)) - 1
            /\ Cardinality(MayReschedule(j)') \in Nat
        BY <1>c, <3>3, <3>5, FS_Subset, TasksFinite
      <3>7. jobs[j].attempts + Cardinality(MayReschedule(j)) + 2
                <= MaxAttempts[j] + Cardinality(Tasks)
        BY DEF AttemptsCounted
      <3> QED
        BY <1>b, <3>1, <3>4, <3>6, <3>7, TasksFinite
    <2> QED
      BY <2>4, <2>5
  <1>9. ASSUME NEW p \in Procs, RequeueStale(p)
        PROVE  Bounded(j, MayReschedule(j)')
    <2>1. jobs'[j] = jobs[j] \/ jobs'[j] = RequeuedRow(jobs[j])
      BY <1>9 DEF RequeueStale
    <2>2. RequeuedRow(jobs[j]).attempts = jobs[j].attempts
      BY <1>b DEF Row, RequeuedRow, Unlocked
    <2> QED
      BY <1>0, <1>9, <2>1, <2>2 DEF RequeueStale
  <1>10. ASSUME NEW p \in Procs, Exit(p) \/ Crash(p)
         PROVE  Bounded(j, MayReschedule(j)')
    BY <1>0, <1>10 DEF Exit, Crash, Vanish, Idle
  <1>11. ASSUME NEW a \in Admins, NEW o, RetryApply(a, o)
         PROVE  Bounded(j, MayReschedule(j)')
    <2>1. jobs'[j] = jobs[j] \/ jobs'[j] = RetriedRow(jobs[j])
      BY <1>11 DEF RetryApply
    <2>2. RetriedRow(jobs[j]).attempts = jobs[j].attempts
      BY <1>b DEF Row, RetriedRow, Unlocked
    <2> QED
      BY <1>0, <1>11, <2>1, <2>2 DEF RetryApply
  <1> QED
    BY <1>1, <1>2, <1>3, <1>4, <1>5, <1>6, <1>7, <1>8, <1>9, <1>10, <1>11
    DEF Next, vars, ProcStep, GoroutineStep, WriteBack, Signal, Restart, AdminStep, RetryCheck,
        RetryManyPick

\* With leases outlived, acknowledgements lost and admins racing: the attempts of a row
\* exceed max_attempts by less than the number of places that can hold a copy of it.
THEOREM AttemptsAreBounded == Spec => []AttemptsBounded
  <1>1. Init => CountInv
    <2> SUFFICES ASSUME Init PROVE CountInv
      OBVIOUS
    <2>1. TypeOK /\ BusyHasJob /\ RescheduleChosen
      BY TypeInit DEF Init, BusyHasJob, RescheduleChosen, Idle
    <2>2. ASSUME NEW j \in Jobs
          PROVE  jobs[j].attempts + Cardinality(MayReschedule(j)) + 2
                     <= MaxAttempts[j] + Cardinality(Tasks)
      <3>1. jobs[j].attempts = 0 /\ MayReschedule(j) = {}
        BY DEF Init, AbsentRow, MayReschedule, Idle
      <3>2. MayReschedule(j) \in SUBSET Tasks
        BY <3>1
      <3> QED
        BY <3>1, <3>2, AttemptsRoom
    <2> QED
      BY <2>1, <2>2 DEF CountInv, AttemptsCounted
  <1>2. CountInv /\ [Next]_vars => CountInv'
    BY TypeStep, BusyStep, RescheduleChosenStep, AttemptsStep DEF CountInv
  <1>3. CountInv => AttemptsBounded
    <2> SUFFICES ASSUME CountInv, NEW j \in Jobs
                 PROVE  jobs[j].attempts + 2 <= MaxAttempts[j] + Cardinality(Tasks)
      BY DEF AttemptsBounded
    <2>1. MayReschedule(j) \in SUBSET Tasks
      BY DEF MayReschedule
    <2>2. Cardinality(MayReschedule(j)) \in Nat /\ Cardinality(Tasks) \in Nat
      BY <2>1, TasksFinite
    <2>3. jobs[j].attempts \in Nat /\ MaxAttempts[j] \in Nat
      BY ConstantsAssumption DEF CountInv, TypeOK, Row
    <2> QED
      BY <2>2, <2>3 DEF CountInv, AttemptsCounted
  <1> QED
    BY <1>1, <1>2, <1>3, PTL DEF Spec

-----------------------------------------------------------------------------
(* How often a job succeeds, when leases are honoured.                      *)

\* The job is done, or will be if nothing goes wrong any more.
Finishing(j) ==
    \/ jobs[j].status = "done"
    \/ \E t \in Tasks : task[t].job = j /\ task[t].pc = "mark_done" /\ proc[t[1]] = "running"

\* The execution is still to come, in a process whose writes are refused already.
Doomed(t) ==
    /\ task[t].pc \in {"handing", "exec"} /\ proc[t[1]] = "stopping"
    /\ task[t].job \notin overtaken

\* One success is free.  A job whose success was not recorded has cost a fault, and
\* the signal that stopped a process pays for the one success each of its jobs may
\* still have.
SuccessCounted ==
    /\ \A j \in Jobs \ overtaken : succeeded[j] <= 1 + faults
    /\ \A j \in Jobs \ overtaken : ~Finishing(j) => succeeded[j] <= faults
    /\ \A t \in Tasks : Doomed(t) => succeeded[task[t].job] + 1 <= faults

\* A step without a success: whoever stops finishing has met a fault, and so has
\* whoever becomes doomed.
LEMMA SuccessKept ==
    ASSUME TypeOK, TypeOK', SuccessCounted,
           UNCHANGED succeeded, faults' >= faults, overtaken \subseteq overtaken',
           \A j \in Jobs \ overtaken' : Finishing(j) => Finishing(j)' \/ faults' > faults,
           \A t \in Tasks : Doomed(t)' =>
              /\ task'[t].job \in Jobs
              /\ \/ \E u \in Tasks : Doomed(u) /\ task[u].job = task'[t].job
                 \/ faults' > faults /\ ~Finishing(task'[t].job)
    PROVE  SuccessCounted'
  <1>1. \A j \in Jobs : succeeded[j] \in Nat /\ succeeded'[j] = succeeded[j]
    BY DEF TypeOK
  <1>2. faults \in Nat /\ faults' \in Nat
    BY DEF TypeOK
  <1>3. \A j \in Jobs \ overtaken' : succeeded'[j] <= 1 + faults'
    BY <1>1, <1>2 DEF SuccessCounted
  <1>4. \A j \in Jobs \ overtaken' : ~Finishing(j)' => succeeded'[j] <= faults'
    BY <1>1, <1>2 DEF SuccessCounted
  <1>5. ASSUME NEW t \in Tasks, Doomed(t)' PROVE succeeded'[task'[t].job] + 1 <= faults'
    <2>1. task'[t].job \in Jobs \ overtaken
      BY <1>5 DEF Doomed
    <2> QED
      BY <1>1, <1>2, <1>5, <2>1 DEF SuccessCounted
  <1> QED
    BY <1>3, <1>4, <1>5 DEF SuccessCounted

\* A step that moves no task and no process, and leaves what is done.
LEMMA SuccessIdle ==
    ASSUME TypeOK, TypeOK', BusyHasJob, SuccessCounted,
           UNCHANGED <<task, proc, succeeded>>, faults' >= faults, overtaken \subseteq overtaken',
           \A j \in Jobs \ overtaken' : jobs[j].status = "done" => jobs'[j].status = "done"
    PROVE  SuccessCounted'
  <1>1. \A j \in Jobs \ overtaken' : Finishing(j) => Finishing(j)'
    BY DEF Finishing
  <1>2. \A t \in Tasks : Doomed(t)' => Doomed(t) /\ task'[t].job = task[t].job /\ task[t].job \in Jobs
    BY DEF Doomed, BusyHasJob
  <1> QED
    BY <1>1, <1>2, SuccessKept

\* With leases honoured every repetition of a success is paid for by a fault.
LEMMA SuccessStep ==
    ASSUME Honest, TypeOK, HonestInv, BusyHasJob, SuccessCounted, [Next]_vars
    PROVE  SuccessCounted'
  <1>a. TypeOK' /\ BusyHasJob'
    BY TypeStep, BusyStep
  <1>b. faults \in Nat /\ faults' \in Nat /\ \A j \in Jobs : jobs[j] \in Row
    BY <1>a DEF TypeOK
  <1>c. \A t \in Tasks : task[t].pc # "idle" =>
            /\ task[t].job \in Jobs
            /\ task[t].job \notin overtaken =>
                  /\ jobs[task[t].job].status = "processing"
                  /\ \A u \in Tasks : task[u].job = task[t].job => u = t
    BY ConstantsAssumption DEF BusyHasJob, HonestInv, HeldRow, HeldOnce
  <1>d. \A t \in Tasks : Doomed(t) => task[t].job \in Jobs /\ ~Finishing(task[t].job)
    BY <1>c DEF Doomed, Finishing
  <1>e. \A t \in Tasks : Doomed(t)' => task'[t].job \in Jobs
    BY <1>a DEF Doomed, BusyHasJob
  <1>f. ASSUME NEW p \in Procs, NEW o, Outcome(p, o)
        PROVE  /\ Applied(o) <=> o = "ok"
               /\ faults' >= faults
               /\ o # "ok" /\ proc[p] # "stopping" => faults' > faults
               /\ o = "ok" => proc[p] # "stopping"
    BY <1>b, <1>f DEF Outcome, Applied, Honest
  <1>0. CASE UNCHANGED vars
    <2>1. faults' >= faults
      BY <1>0, <1>b DEF vars
    <2> QED
      BY <1>0, <1>a, <2>1, SuccessIdle DEF vars
  <1>1. ASSUME NEW k \in Jobs, NEW d \in BOOLEAN, Create(k, d) PROVE SuccessCounted'
    <2>1. \A j \in Jobs : jobs[j].status = "done" => jobs'[j].status = "done"
      BY <1>1 DEF Create, TypeOK
    <2> QED
      BY <1>1, <1>a, <1>b, <2>1, SuccessIdle DEF Create
  <1>2. ASSUME NEW k \in Jobs, BecomeDue(k) \/ LockExpire(k) PROVE SuccessCounted'
    <2>1. \A j \in Jobs : jobs[j].status = "done" => jobs'[j].status = "done"
      BY <1>2 DEF BecomeDue, LockExpire, TypeOK
    <2> QED
      BY <1>2, <1>a, <1>b, <2>1, SuccessIdle DEF BecomeDue, LockExpire
  <1>3. ASSUME NEW p \in Procs, RequeueStale(p) PROVE SuccessCounted'
    <2>1. \A j \in Jobs : jobs[j].status = "done" => jobs'[j].status = "done"
      BY <1>3 DEF RequeueStale, Requeueable
    <2> QED
      BY <1>3, <1>a, <1>b, <2>1, SuccessIdle DEF RequeueStale
  <1>4. ASSUME NEW a \in Admins, AdminStep(a) PROVE SuccessCounted'
    <2>1. CASE UNCHANGED <<jobs, task, proc, faults, succeeded, overtaken>>
      BY <1>a, <1>b, <2>1, SuccessIdle
    <2>2. ASSUME NEW o, RetryApply(a, o) PROVE SuccessCounted'
      <3>1. \A j \in Jobs \ overtaken' : jobs[j].status = "done" => jobs'[j].status = "done"
        BY <2>2 DEF RetryApply, AwaitsWorker
      <3>2. UNCHANGED <<task, proc, succeeded>> /\ faults' >= faults /\ overtaken \subseteq overtaken'
        BY <1>b, <2>2 DEF RetryApply
      <3> QED
        BY <1>a, <3>1, <3>2, SuccessIdle
    <2> QED
      BY <1>4, <2>1, <2>2 DEF AdminStep, RetryCheck, RetryManyPick
  <1>5. ASSUME NEW p \in Procs, NEW k \in Jobs, NEW o, Claim(p, k, o) PROVE SuccessCounted'
    <2> DEFINE h == <<p, Producer>>
    <2>1. h \in Tasks /\ h[1] = p /\ task[h].pc = "idle" /\ proc[p] = "running"
      BY <1>5 DEF Claim, Tasks
    <2>2. \A t \in Tasks : t # h => task'[t] = task[t]
      BY <1>5 DEF Claim, TypeOK
    <2>3. \A j \in Jobs : jobs[j].status = "done" => jobs'[j].status = "done"
      BY <1>5 DEF Claim, Claimable, TypeOK
    <2>4. UNCHANGED <<proc, succeeded, overtaken>> /\ faults' >= faults
      BY <1>5, <1>f DEF Claim
    <2> HIDE DEF h
    <2>5. \A j \in Jobs : Finishing(j) => Finishing(j)'
      BY <2>1, <2>2, <2>3, <2>4 DEF Finishing
    <2>6. \A t \in Tasks : Doomed(t)' => Doomed(t) /\ task[t].job = task'[t].job
      BY <2>1, <2>2, <2>4 DEF Doomed
    <2> QED
      BY <1>a, <1>e, <2>4, <2>5, <2>6, SuccessKept
  <1>6. ASSUME NEW p \in Procs, NEW s \in Slots, HandOver(p, s) PROVE SuccessCounted'
    <2> DEFINE g == <<p, s>>  q == <<p, Producer>>
    <2>1. g \in Tasks /\ q \in Tasks /\ g # q /\ g[1] = p /\ q[1] = p
      BY ConstantsAssumption DEF Tasks
    <2>2. \A t \in Tasks : task'[t] = IF t = q THEN Idle
                                      ELSE IF t = g THEN [task[q] EXCEPT !.pc = "exec"]
                                      ELSE task[t]
      BY <1>6, <2>1 DEF HandOver, TypeOK
    <2>3. /\ [task[q] EXCEPT !.pc = "exec"].job = task[q].job
          /\ Idle.pc = "idle" /\ task[q].pc = "handing" /\ task[g].pc = "idle"
          /\ UNCHANGED <<jobs, proc, succeeded, faults, overtaken>>
      BY <1>6, <2>1 DEF TypeOK, Task, Idle, HandOver
    <2> HIDE DEF g, q
    <2>4. \A j \in Jobs : Finishing(j) => Finishing(j)'
      BY <2>1, <2>2, <2>3 DEF Finishing
    <2>5. ASSUME NEW t \in Tasks, Doomed(t)'
          PROVE  \E u \in Tasks : Doomed(u) /\ task[u].job = task'[t].job
      <3>1. t # q
        BY <2>1, <2>2, <2>3, <2>5 DEF Doomed
      <3>2. CASE t = g
        <4>1. Doomed(q) /\ task[q].job = task'[t].job
          BY <2>1, <2>2, <2>3, <2>5, <3>2 DEF Doomed
        <4> QED
          BY <2>1, <4>1
      <3>3. CASE t # g
        BY <2>2, <2>3, <2>5, <3>1, <3>3 DEF Doomed
      <3> QED
        BY <3>2, <3>3
    <2> QED
      BY <1>a, <1>b, <1>e, <2>3, <2>4, <2>5, SuccessKept
  <1>7. ASSUME NEW p \in Procs, DropClaim(p) PROVE SuccessCounted'
    <2> DEFINE q == <<p, Producer>>
    <2>1. \A t \in Tasks : task'[t] = IF t = q THEN Idle ELSE task[t]
      BY <1>7 DEF DropClaim, TypeOK
    <2>2. /\ Idle.pc = "idle" /\ task[q].pc = "handing"
          /\ UNCHANGED <<jobs, proc, succeeded, faults, overtaken>>
      BY <1>7 DEF DropClaim, Idle
    <2> HIDE DEF q
    <2>3. \A j \in Jobs : Finishing(j) => Finishing(j)'
      BY <2>1, <2>2 DEF Finishing
    <2>4. \A t \in Tasks : Doomed(t)' => Doomed(t) /\ task[t].job = task'[t].job
      BY <2>1, <2>2 DEF Doomed
    <2> QED
      BY <1>a, <1>b, <1>e, <2>2, <2>3, <2>4, SuccessKept
  <1>8. ASSUME NEW p \in Procs, NEW s \in Slots, NEW ok \in BOOLEAN, Execute(p, s, ok)
        PROVE  SuccessCounted'
    <2> DEFINE g == <<p, s>>  k == task[g].job
               q == IF ok THEN "mark_done" ELSE AfterFailure(task[g])
    <2>1. /\ g \in Tasks /\ task[g] \in Task /\ g[1] = p
          /\ task[g].pc = "exec" /\ proc[p] # "down"
          /\ UNCHANGED <<jobs, proc, faults, overtaken>>
      BY <1>8 DEF Execute, Tasks, TypeOK
    <2>2. /\ k \in Jobs
          /\ k \notin overtaken => /\ jobs[k].status = "processing"
                                   /\ \A u \in Tasks : task[u].job = k => u = g
      BY <1>c, <2>1
    <2>3. q \in {"mark_done", "reschedule", "mark_failed"} /\ (q = "mark_done" <=> ok)
      BY DEF AfterFailure
    <2>4. \A t \in Tasks : task'[t] = IF t = g THEN [task[g] EXCEPT !.pc = q] ELSE task[t]
      BY <1>8, <2>1 DEF Execute, TypeOK
    <2>5. [task[g] EXCEPT !.pc = q].pc = q /\ [task[g] EXCEPT !.pc = q].job = k
      BY <2>1 DEF Task
    <2>6. succeeded' = IF ok THEN [succeeded EXCEPT ![k] = @ + 1] ELSE succeeded
      BY <1>8 DEF Execute
    <2> HIDE DEF g, k, q
    <2>7. \A j \in Jobs : Finishing(j) => Finishing(j)'
      BY <2>1, <2>4 DEF Finishing
    <2>8. \A t \in Tasks : Doomed(t)' => Doomed(t) /\ t # g /\ task[t].job = task'[t].job
      BY <2>1, <2>3, <2>4, <2>5 DEF Doomed
    <2>9. CASE ~ok
      BY <1>a, <1>b, <1>e, <2>1, <2>6, <2>7, <2>8, <2>9, SuccessKept
    <2>10. CASE ok
      <3>1. \A j \in Jobs : /\ succeeded[j] \in Nat
                            /\ succeeded'[j] = IF j = k THEN succeeded[k] + 1 ELSE succeeded[j]
        BY <2>2, <2>6, <2>10 DEF TypeOK
      <3>2. k \notin overtaken => ~Finishing(k) /\ succeeded[k] <= faults
        BY <2>1, <2>2 DEF Finishing, SuccessCounted
      <3>3. k \notin overtaken /\ proc[p] = "stopping" => succeeded[k] + 1 <= faults
        BY <2>1 DEF Doomed, SuccessCounted, k
      <3>4. proc[p] \in {"running", "stopping"}
        BY <2>1 DEF TypeOK
      <3>5. \A j \in Jobs : j = k /\ proc[p] = "running" => Finishing(j)'
        BY <2>1, <2>3, <2>4, <2>5, <2>10 DEF Finishing
      <3>6. \A j \in Jobs \ overtaken' : succeeded'[j] <= 1 + faults'
        BY <1>b, <2>1, <3>1, <3>2 DEF SuccessCounted
      <3>7. \A j \in Jobs \ overtaken' : ~Finishing(j)' => succeeded'[j] <= faults'
        BY <1>b, <2>1, <2>7, <3>1, <3>3, <3>4, <3>5 DEF SuccessCounted
      <3>8. ASSUME NEW t \in Tasks, Doomed(t)' PROVE succeeded'[task'[t].job] + 1 <= faults'
        <4>1. /\ Doomed(t) /\ t # g /\ task[t].job = task'[t].job /\ task[t].job \in Jobs
              /\ task[t].job # k
          BY <1>d, <2>2, <2>8, <3>8 DEF Doomed
        <4> QED
          BY <2>1, <3>1, <4>1 DEF SuccessCounted
      <3> QED
        BY <3>6, <3>7, <3>8 DEF SuccessCounted
    <2> QED
      BY <2>9, <2>10
  <1>9. ASSUME NEW p \in Procs, NEW s \in Slots, NEW o,
               MarkDone(p, s, o) \/ Reschedule(p, s, o) \/ MarkFailed(p, s, o)
        PROVE  SuccessCounted'
    <2> DEFINE g == <<p, s>>  k == task[g].job
               c == task'[g]
    <2>1. /\ g \in Tasks /\ task[g] \in Task /\ g[1] = p
          /\ task[g].pc \in {"mark_done", "reschedule", "mark_failed"} /\ proc[p] # "down"
          /\ UNCHANGED <<proc, succeeded, overtaken>> /\ Outcome(p, o)
      BY <1>9 DEF MarkDone, Reschedule, MarkFailed, Tasks, TypeOK
    <2>2. k \in Jobs /\ (k \notin overtaken => jobs[k].status = "processing")
      BY <1>c, <2>1
    <2>3. /\ \A t \in Tasks : t # g => task'[t] = task[t]
          /\ \A j \in Jobs : j # k => jobs'[j] = jobs[j]
      BY <1>9 DEF MarkDone, Reschedule, MarkFailed, TypeOK
    <2>4. task'[g].pc \in {"idle", "mark_failed"}
      <3>1. [task[g] EXCEPT !.pc = "mark_failed"].pc = "mark_failed" /\ Idle.pc = "idle"
        BY <2>1 DEF Task, Idle
      <3>2. task'[g] \in {Idle, [task[g] EXCEPT !.pc = "mark_failed"]}
        BY <1>9, <2>1 DEF MarkDone, Reschedule, MarkFailed, TypeOK
      <3> QED
        BY <3>1, <3>2
    <2>5. /\ Applied(o) <=> o = "ok"
          /\ faults' >= faults
          /\ o # "ok" /\ proc[p] # "stopping" => faults' > faults
          /\ o = "ok" => proc[p] # "stopping"
      BY <1>f, <2>1
    <2>6. MarkDone(p, s, o) /\ o = "ok" => jobs'[k].status = "done"
      <3>1. DoneRow(jobs[k]).status = "done"
        BY <1>b, <2>2 DEF Row, DoneRow, Unlocked
      <3> QED
        BY <2>2, <2>5, <3>1 DEF MarkDone, TypeOK
    <2>7. task[g].pc = "mark_done" => MarkDone(p, s, o)
      BY <1>9 DEF Reschedule, MarkFailed
    <2> HIDE DEF g, k
    <2>8. ASSUME NEW j \in Jobs \ overtaken, Finishing(j) PROVE Finishing(j)' \/ faults' > faults
      <3>1. CASE jobs[j].status = "done"
        BY <2>2, <2>3, <3>1 DEF Finishing
      <3>2. CASE \E t \in Tasks \ {g} :
                    task[t].job = j /\ task[t].pc = "mark_done" /\ proc[t[1]] = "running"
        BY <2>1, <2>3, <3>2 DEF Finishing
      <3>3. CASE k = j /\ task[g].pc = "mark_done" /\ proc[p] = "running"
        BY <2>5, <2>6, <2>7, <3>3 DEF Finishing
      <3> QED
        BY <2>1, <2>8, <3>1, <3>2, <3>3 DEF Finishing, k
    <2>9. \A t \in Tasks : Doomed(t)' => Doomed(t) /\ task[t].job = task'[t].job
      BY <2>1, <2>3, <2>4 DEF Doomed
    <2> QED
      BY <1>a, <1>e, <2>1, <2>5, <2>8, <2>9, SuccessKept
  <1>10. ASSUME NEW p \in Procs, Signal(p) PROVE SuccessCounted'
    <2>1. /\ faults' = faults + 1 /\ UNCHANGED <<jobs, task, succeeded, overtaken>>
          /\ \A x \in Procs : x # p => proc'[x] = proc[x]
      BY <1>10 DEF Signal, TypeOK
    <2>2. faults' > faults /\ faults' >= faults
      BY <1>b, <2>1
    <2>3. ASSUME NEW t \in Tasks, Doomed(t)' PROVE ~Finishing(task'[t].job)
      <3>1. task[t].pc \in {"handing", "exec"} /\ task[t].job \notin overtaken
        BY <2>1, <2>3 DEF Doomed
      <3> QED
        BY <1>c, <2>1, <3>1 DEF Finishing
    <2> QED
      BY <1>a, <1>e, <2>1, <2>2, <2>3, SuccessKept
  <1>11. ASSUME NEW p \in Procs, Exit(p) \/ Crash(p) PROVE SuccessCounted'
    <2>1. /\ UNCHANGED <<jobs, succeeded, overtaken>>
          /\ \A x \in Procs : proc'[x] = IF x = p THEN "down" ELSE proc[x]
          /\ \A t \in Tasks : task'[t] = IF t[1] = p THEN Idle ELSE task[t]
          /\ Idle.pc = "idle" /\ \A t \in Tasks : t[1] \in Procs
      BY <1>11 DEF Exit, Crash, Vanish, TypeOK, Idle, Tasks
    <2>2. faults' > faults \/ (proc[p] = "stopping" /\ faults' = faults)
      BY <1>11, <1>b DEF Exit, Crash
    <2>3. \A j \in Jobs : Finishing(j) => Finishing(j)' \/ faults' > faults
      BY <2>1, <2>2 DEF Finishing
    <2>4. \A t \in Tasks : Doomed(t)' => Doomed(t) /\ task[t].job = task'[t].job
      BY <2>1 DEF Doomed
    <2>5. faults' >= faults
      BY <1>b, <2>2
    <2> QED
      BY <1>a, <1>e, <2>1, <2>3, <2>4, <2>5, SuccessKept
  <1>12. ASSUME NEW p \in Procs, Restart(p) PROVE SuccessCounted'
    <2>1. /\ UNCHANGED <<jobs, task, faults, succeeded, overtaken>> /\ proc[p] = "down"
          /\ \A x \in Procs : proc'[x] = IF x = p THEN "running" ELSE proc[x]
          /\ \A t \in Tasks : t[1] \in Procs
      BY <1>12 DEF Restart, TypeOK, Tasks
    <2>2. \A j \in Jobs : Finishing(j) => Finishing(j)'
      BY <2>1 DEF Finishing
    <2>3. \A t \in Tasks : Doomed(t)' => Doomed(t) /\ task[t].job = task'[t].job
      BY <2>1 DEF Doomed
    <2> QED
      BY <1>a, <1>b, <1>e, <2>1, <2>2, <2>3, SuccessKept
  <1> QED
    BY <1>0, <1>1, <1>2, <1>3, <1>4, <1>5, <1>6, <1>7, <1>8, <1>9, <1>10, <1>11, <1>12
    DEF Next, ProcStep, GoroutineStep, WriteBack

\* With leases honoured, what execute does for a job succeeds once, and once more at
\* most for every crash, signal and failed write.  Retries of dead letters are free,
\* however many admins send them; only a job whose retry came late is excepted.
THEOREM ReexecutionIsPaidFor ==
    ASSUME Honest
    PROVE  Spec => []ReexecutionNeedsFault
  <1> DEFINE Inv == TypeOK /\ HonestInv /\ BusyHasJob /\ SuccessCounted
  <1>1. Init => Inv
    <2> SUFFICES ASSUME Init PROVE Inv
      OBVIOUS
    <2>1. TypeOK /\ HonestInv
      BY TypeInit, HonestInit
    <2>2. BusyHasJob /\ SuccessCounted
      BY DEF Init, BusyHasJob, SuccessCounted, Doomed, Idle
    <2> QED
      BY <2>1, <2>2
  <1>2. Inv /\ [Next]_vars => Inv'
    BY TypeStep, HonestStep, BusyStep, SuccessStep DEF Honest, HonestMove
  <1>3. Inv => ReexecutionNeedsFault
    BY DEF SuccessCounted, ReexecutionNeedsFault
  <1> QED
    BY <1>1, <1>2, <1>3, PTL DEF Spec

-----------------------------------------------------------------------------
(* What the queue promises of a job's life.                                 *)

Held(j) == \E t \in Tasks : Holds(t, j)

\* A job whose retry came late is out of the queue's hands.
LifeStatus == [j \in Jobs |-> IF j \in overtaken THEN "overtaken" ELSE jobs[j].status]

\* The process of the goroutine, or of the producer, that has the job.
LifeHolder ==
    [j \in Jobs |-> IF Held(j) /\ j \notin overtaken THEN jobs[j].locked_by ELSE NoProc]

Life == INSTANCE JobLife WITH
            Workers <- Procs, Nobody <- NoProc, status <- LifeStatus, holder <- LifeHolder

\* A step that shows neither in a status nor in who holds what.
LifeKept ==
    /\ UNCHANGED overtaken
    /\ \A j \in Jobs \ overtaken : /\ jobs'[j].status = jobs[j].status
                                   /\ jobs'[j].locked_by = jobs[j].locked_by
                                   /\ Held(j)' <=> Held(j)

LEMMA KeptStutters == ASSUME LifeKept PROVE UNCHANGED <<LifeStatus, LifeHolder>>
  <1>1. UNCHANGED overtaken /\ \A j \in Jobs : j \in overtaken' <=> j \in overtaken
    BY DEF LifeKept
  <1>2. UNCHANGED LifeStatus
    BY <1>1 DEF LifeKept, LifeStatus
  <1>3. UNCHANGED LifeHolder
    BY <1>1 DEF LifeKept, LifeHolder
  <1> QED
    BY <1>2, <1>3

\* A step after which the jobs of S are held by nobody, and all else is as before.
LEMMA LetGo ==
    ASSUME UNCHANGED <<jobs, overtaken>>, NEW S \in SUBSET Jobs,
           \A j \in Jobs \ overtaken : IF j \in S THEN ~Held(j)' ELSE Held(j)' <=> Held(j)
    PROVE  Life!Next
  <1>1. UNCHANGED LifeStatus
    BY DEF LifeStatus
  <1>2. LifeHolder' = [j \in Jobs |-> IF j \in S THEN NoProc ELSE LifeHolder[j]]
    BY DEF LifeHolder
  <1>3. Life!Abandon(S)
    BY <1>1, <1>2 DEF Life!Abandon
  <1> QED
    BY <1>3 DEF Life!Next

\* An admin requeues rows that exist.
PickedPresent == \A a \in Admins : \A j \in admin[a] : jobs[j].status # "absent"

LEMMA PickedStep ==
    ASSUME TypeOK, PickedPresent, [Next]_vars
    PROVE  PickedPresent'
  <1> SUFFICES ASSUME NEW b \in Admins, NEW k \in admin'[b]
               PROVE  jobs'[k].status # "absent"
    BY DEF PickedPresent
  <1>0. \A j \in admin[b] : j \in Jobs /\ jobs[j].status # "absent"
    BY DEF TypeOK, PickedPresent
  <1>1. CASE k \in admin[b]
    BY <1>0, <1>1, RowsStay
  <1>2. CASE k \notin admin[b]
    <2>1. ~UNCHANGED admin
      BY <1>2
    <2>2. PICK a \in Admins : AdminStep(a)
      <3>1. ~UNCHANGED vars /\ ~ \E j \in Jobs, d \in BOOLEAN : Create(j, d)
        BY <2>1 DEF vars, Create
      <3>2. ~ \E j \in Jobs : BecomeDue(j) \/ LockExpire(j)
        BY <2>1 DEF BecomeDue, LockExpire
      <3>3. ASSUME NEW p \in Procs, ProcStep(p) PROVE FALSE
        <4>1. ASSUME NEW s \in Slots PROVE ~HandOver(p, s) /\ ~GoroutineStep(p, s)
          BY <2>1 DEF HandOver, GoroutineStep, WriteBack, MarkDone, Reschedule, MarkFailed, Execute
        <4>2. /\ ~ \E j \in Jobs, o \in {"ok", "lost", "unacked"} : Claim(p, j, o)
              /\ ~DropClaim(p) /\ ~RequeueStale(p)
          BY <2>1 DEF Claim, DropClaim, RequeueStale
        <4>3. ~Signal(p) /\ ~Exit(p) /\ ~Crash(p) /\ ~Restart(p)
          BY <2>1 DEF Signal, Exit, Crash, Vanish, Restart
        <4> QED
          BY <3>3, <4>1, <4>2, <4>3 DEF ProcStep
      <3> QED
        BY <3>1, <3>2, <3>3 DEF Next
    <2>3. \A o : ~RetryApply(a, o)
      BY <1>2 DEF RetryApply, TypeOK
    <2> QED
      BY <1>2, <2>2, <2>3 DEF AdminStep, RetryCheck, RetryManyPick, TypeOK
  <1> QED
    BY <1>1, <1>2

\* Every step of the queue is a step of JobLife or does not show in it.
LEMMA LifeStep ==
    ASSUME Honest, TypeOK, HonestInv, PickedPresent, [Next]_vars
    PROVE  Life!Next \/ UNCHANGED <<LifeStatus, LifeHolder>>
  <1> DEFINE Goal == Life!Next \/ UNCHANGED <<LifeStatus, LifeHolder>>
  <1> USE ConstantsAssumption
  <1>0. \A j \in Jobs : jobs[j] \in Row
    BY DEF TypeOK
  <1>a. \A t \in Tasks : /\ task[t] \in Task
                         /\ task[t].pc = "idle" <=> task[t].job = NoJob
                         /\ task[t].job # NoJob => task[t].job \in Jobs
    BY DEF TypeOK, Task, HonestInv, PcConsistent
  <1>b. \A j \in Jobs \ overtaken : Held(j) =>
            /\ jobs[j].status = "processing" /\ jobs[j].stale = FALSE /\ jobs[j].locked_by \in Procs
            /\ \A t \in Tasks : task[t].job = j => jobs[j].locked_by = t[1]
    <2> TAKE j \in Jobs \ overtaken
    <2> HAVE Held(j)
    <2>1. PICK t \in Tasks : task[t].job = j
      BY DEF Held, Holds
    <2>2. j # NoJob /\ t[1] \in Procs
      BY DEF Tasks
    <2> QED
      BY <2>1, <2>2 DEF HonestInv, HeldRow
  <1>c. ASSUME UNCHANGED task PROVE \A j \in Jobs : Held(j)' <=> Held(j)
    BY <1>c DEF Held, Holds
  <1>d. ASSUME NEW t \in Tasks, NEW q, task' = [task EXCEPT ![t] = [task[t] EXCEPT !.pc = q]]
        PROVE  \A j \in Jobs : Held(j)' <=> Held(j)
    <2>1. [task[t] EXCEPT !.pc = q].job = task[t].job
      BY <1>a DEF Task
    <2>2. \A u \in Tasks : task'[u].job = task[u].job
      BY <1>d, <2>1 DEF TypeOK
    <2> QED
      BY <2>2 DEF Held, Holds
  <1>e. ASSUME NEW t \in Tasks, task' = [task EXCEPT ![t] = Idle]
        PROVE  \A j \in Jobs \ overtaken :
                   IF j = task[t].job THEN ~Held(j)' ELSE Held(j)' <=> Held(j)
    <2>1. \A u \in Tasks : task'[u] = IF u = t THEN Idle ELSE task[u]
      BY <1>e DEF TypeOK
    <2>2. Idle.job = NoJob
      BY DEF Idle
    <2>3. \A u \in Tasks :
              task[t].job \notin overtaken \cup {NoJob} /\ task[u].job = task[t].job => u = t
      BY DEF HonestInv, HeldOnce
    <2> QED
      BY <2>1, <2>2, <2>3 DEF Held, Holds
  <1>1. CASE UNCHANGED <<jobs, task, overtaken>>
    BY <1>1, <1>c, KeptStutters DEF LifeKept
  <1>2. ASSUME NEW j \in Jobs, NEW d \in BOOLEAN, Create(j, d) PROVE Goal
    <2>1. /\ jobs[j].status = "absent" /\ jobs'[j].status = "pending"
          /\ \A k \in Jobs : k # j => jobs'[k] = jobs[k]
          /\ UNCHANGED <<task, overtaken>>
      BY <1>2 DEF Create, AbsentRow, TypeOK
    <2>2. /\ j \notin overtaken => ~Held(j)
          /\ \A k \in Jobs : Held(k)' <=> Held(k)
      BY <1>b, <1>c, <2>1
    <2>3. CASE j \in overtaken
      BY <2>1, <2>2, <2>3, KeptStutters DEF LifeKept
    <2>4. CASE j \notin overtaken
      <3>1. Life!Enqueue(j)
        BY <2>1, <2>2, <2>4 DEF Life!Enqueue, LifeStatus, LifeHolder
      <3> QED
        BY <3>1 DEF Life!Next
    <2> QED
      BY <2>3, <2>4
  <1>3. ASSUME NEW j \in Jobs, BecomeDue(j) \/ LockExpire(j) PROVE Goal
    <2>1. \A k \in Jobs : jobs'[k].status = jobs[k].status /\ jobs'[k].locked_by = jobs[k].locked_by
      BY <1>0, <1>3 DEF BecomeDue, LockExpire, TypeOK, Row
    <2> QED
      BY <1>3, <1>c, <2>1, KeptStutters DEF LifeKept, BecomeDue, LockExpire
  <1>4. ASSUME NEW p \in Procs, ProcStep(p) PROVE Goal
    <2>0. ASSUME NEW o, Outcome(p, o) PROVE Applied(o) <=> o = "ok"
      BY <2>0 DEF Outcome, Applied, Honest
    <2>1. ASSUME NEW j \in Jobs, NEW o, Claim(p, j, o) PROVE Goal
      <3>1. CASE o # "ok"
        BY <1>1, <2>0, <2>1, <3>1 DEF Claim
      <3>2. CASE o = "ok"
        <4> DEFINE h == <<p, Producer>>
                   c == [pc |-> "handing", job |-> j, attempts |-> jobs[j].attempts]
        <4>1. /\ \A t \in Tasks : task'[t] = IF t = h THEN c ELSE task[t]
              /\ \A k \in Jobs : jobs'[k] = IF k = j THEN ClaimedRow(jobs[j], p) ELSE jobs[k]
              /\ h \in Tasks /\ UNCHANGED overtaken
          BY <2>0, <2>1, <3>2 DEF Claim, TypeOK, Tasks
        <4>2. /\ ClaimedRow(jobs[j], p).status = "processing"
              /\ ClaimedRow(jobs[j], p).locked_by = p
          BY <1>0 DEF Row, ClaimedRow
        <4>3. jobs[j].status = "pending" /\ task[h].job = NoJob
          BY <1>a, <2>1, <4>1 DEF Claim, Claimable
        <4>4. c.job = j
          OBVIOUS
        <4> HIDE DEF c, h
        <4>5. Held(j)' /\ \A k \in Jobs : k # j => (Held(k)' <=> Held(k))
          BY <4>1, <4>3, <4>4 DEF Held, Holds
        <4>6. CASE j \in overtaken
          BY <4>1, <4>5, <4>6, KeptStutters DEF LifeKept
        <4>7. CASE j \notin overtaken
          <5>1. Life!Take(j, p)
            BY <4>1, <4>2, <4>3, <4>5, <4>7 DEF Life!Take, LifeStatus, LifeHolder
          <5> QED
            BY <5>1 DEF Life!Next
        <4> QED
          BY <4>6, <4>7
      <3> QED
        BY <3>1, <3>2
    <2>2. ASSUME NEW s \in Slots, HandOver(p, s) PROVE Goal
      <3> DEFINE h == <<p, Producer>>
                 g == <<p, s>>
      <3>1. h \in Tasks /\ g \in Tasks /\ h # g /\ task[g].job = NoJob
        BY <1>a, <2>2 DEF HandOver, Tasks
      <3>2. \A t \in Tasks : task'[t] = IF t = h THEN Idle
                                        ELSE IF t = g THEN [task[h] EXCEPT !.pc = "exec"]
                                        ELSE task[t]
        BY <2>2, <3>1 DEF HandOver, TypeOK
      <3>3. [task[h] EXCEPT !.pc = "exec"].job = task[h].job /\ Idle.job = NoJob
        BY <1>a, <3>1 DEF Task, Idle
      <3>4. /\ task'[h].job = NoJob /\ task'[g].job = task[h].job
            /\ \A t \in Tasks \ {h, g} : task'[t] = task[t]
        BY <3>1, <3>2, <3>3
      <3> HIDE DEF h, g
      <3>5. \A k \in Jobs : Held(k)' <=> Held(k)
        BY <3>1, <3>4 DEF Held, Holds
      <3> QED
        BY <2>2, <3>5, KeptStutters DEF LifeKept, HandOver
    <2>3. ASSUME NEW s \in Slots, NEW ok \in BOOLEAN, Execute(p, s, ok) PROVE Goal
      <3>1. <<p, s>> \in Tasks
        BY DEF Tasks
      <3>2. /\ \E q : task' = [task EXCEPT ![<<p, s>>] = [task[<<p, s>>] EXCEPT !.pc = q]]
            /\ UNCHANGED <<jobs, overtaken>>
        BY <2>3 DEF Execute
      <3>3. \A k \in Jobs : Held(k)' <=> Held(k)
        BY <1>d, <3>1, <3>2
      <3> QED
        BY <3>2, <3>3, KeptStutters DEF LifeKept
    <2>4. ASSUME NEW s \in Slots, NEW o,
                 MarkDone(p, s, o) \/ Reschedule(p, s, o) \/ MarkFailed(p, s, o)
          PROVE  Goal
      <3> DEFINE t == <<p, s>>  j == task[t].job
      <3>1. t \in Tasks /\ j \in Jobs /\ Held(j) /\ UNCHANGED overtaken
        <4>1. t \in Tasks /\ task[t].pc # "idle" /\ UNCHANGED overtaken
          BY <2>4 DEF MarkDone, Reschedule, MarkFailed, Tasks
        <4> QED
          BY <1>a, <4>1 DEF Held, Holds
      <3>2. Applied(o) <=> o = "ok"
        BY <2>0, <2>4 DEF MarkDone, Reschedule, MarkFailed
      <3>3. CASE o = "ok"
        <4>1. PICK r \in {DoneRow(jobs[j]), FailedRow(jobs[j]), RescheduledRow(jobs[j])} :
                  jobs' = [jobs EXCEPT ![j] = r]
          BY <2>4, <3>2, <3>3 DEF MarkDone, Reschedule, MarkFailed
        <4>2. task' = [task EXCEPT ![t] = Idle]
          BY <2>4, <3>3 DEF MarkDone, Reschedule, MarkFailed
        <4>3. r.status \in {"pending", "done", "failed"}
          <5>1. jobs[j] \in Row
            BY <1>0, <3>1
          <5>2. /\ DoneRow(jobs[j]).status = "done" /\ FailedRow(jobs[j]).status = "failed"
                /\ RescheduledRow(jobs[j]).status = "pending"
            BY <5>1 DEF Row, DoneRow, FailedRow, RescheduledRow, Unlocked
          <5> QED
            BY <4>1, <5>2
        <4>4. \A k \in Jobs : jobs'[k] = IF k = j THEN r ELSE jobs[k]
          BY <3>1, <4>1 DEF TypeOK
        <4>5. \A k \in Jobs \ overtaken : IF k = j THEN ~Held(k)' ELSE Held(k)' <=> Held(k)
          BY <1>e, <3>1, <4>2
        <4>6. CASE j \in overtaken
          BY <3>1, <4>4, <4>5, <4>6, KeptStutters DEF LifeKept
        <4>7. CASE j \notin overtaken
          <5>1. LifeHolder[j] # NoProc
            BY <1>b, <3>1, <4>7 DEF LifeHolder
          <5>2. /\ LifeStatus' = [LifeStatus EXCEPT ![j] = r.status]
                /\ LifeHolder' = [LifeHolder EXCEPT ![j] = NoProc]
            BY <3>1, <4>4, <4>5, <4>7 DEF LifeStatus, LifeHolder
          <5>3. Life!Report(j, r.status)
            BY <5>1, <5>2 DEF Life!Report
          <5> QED
            BY <3>1, <4>3, <5>3 DEF Life!Next
        <4> QED
          BY <4>6, <4>7
      <3>4. CASE o # "ok"
        <4>1. UNCHANGED jobs
          BY <2>4, <3>2, <3>4 DEF MarkDone, Reschedule, MarkFailed
        <4>2. CASE MarkFailed(p, s, o)
          <5>1. \A k \in Jobs \ overtaken : IF k \in {j} THEN ~Held(k)' ELSE Held(k)' <=> Held(k)
            BY <1>e, <3>1, <4>2 DEF MarkFailed
          <5>2. {j} \in SUBSET Jobs
            BY <3>1
          <5> QED
            BY <3>1, <4>1, <5>1, <5>2, LetGo
        <4>3. CASE MarkDone(p, s, o) \/ Reschedule(p, s, o)
          <5>1. task' = [task EXCEPT ![t] = [task[t] EXCEPT !.pc = "mark_failed"]]
            BY <3>4, <4>3 DEF MarkDone, Reschedule
          <5>2. \A k \in Jobs : Held(k)' <=> Held(k)
            BY <1>d, <3>1, <5>1
          <5> QED
            BY <3>1, <4>1, <5>2, KeptStutters DEF LifeKept
        <4> QED
          BY <2>4, <4>2, <4>3
      <3> QED
        BY <3>3, <3>4
    <2>5. CASE DropClaim(p)
      <3> DEFINE t == <<p, Producer>>
      <3>1. t \in Tasks /\ task' = [task EXCEPT ![t] = Idle] /\ UNCHANGED <<jobs, overtaken>>
        BY <2>5 DEF DropClaim, Tasks
      <3>2. task[t].job \in Jobs
        BY <1>a, <2>5, <3>1 DEF DropClaim
      <3>3. \A k \in Jobs \ overtaken : IF k \in {task[t].job} THEN ~Held(k)' ELSE Held(k)' <=> Held(k)
        BY <1>e, <3>1
      <3>4. {task[t].job} \in SUBSET Jobs
        BY <3>2
      <3> QED
        BY <3>1, <3>3, <3>4, LetGo
    <2>6. CASE RequeueStale(p)
      <3> DEFINE S == {k \in Jobs \ overtaken : Requeueable(k)}
      <3>1. \A k \in Jobs : RequeuedRow(jobs[k]).status = "pending"
        BY <1>0 DEF Row, RequeuedRow, Unlocked
      <3>2. /\ \A k \in Jobs : jobs'[k] = IF Requeueable(k) THEN RequeuedRow(jobs[k]) ELSE jobs[k]
            /\ UNCHANGED <<task, overtaken>>
        BY <2>6 DEF RequeueStale
      <3>3. \A k \in S : jobs[k].status = "processing" /\ ~Held(k)
        BY <1>b DEF Requeueable
      <3>4. \A k \in Jobs : Held(k)' <=> Held(k)
        BY <1>c, <3>2
      <3>5. LifeStatus' = [k \in Jobs |-> IF k \in S THEN "pending" ELSE LifeStatus[k]]
        BY <3>1, <3>2 DEF LifeStatus
      <3>6. UNCHANGED LifeHolder
        BY <3>2, <3>3, <3>4 DEF LifeHolder
      <3>7. \A k \in S : LifeStatus[k] = "processing" /\ LifeHolder[k] = NoProc
        BY <3>3 DEF LifeStatus, LifeHolder
      <3>8. Life!Return(S) /\ S \in SUBSET Jobs
        BY <3>5, <3>6, <3>7 DEF Life!Return
      <3> QED
        BY <3>8 DEF Life!Next
    <2>7. CASE Signal(p) \/ Restart(p)
      BY <1>1, <2>7 DEF Signal, Restart
    <2>8. CASE Exit(p) \/ Crash(p)
      <3> DEFINE S == {k \in Jobs : \E t \in Tasks : t[1] = p /\ task[t].job = k}
      <3>1. /\ \A t \in Tasks : task'[t] = IF t[1] = p THEN Idle ELSE task[t]
            /\ UNCHANGED <<jobs, overtaken>>
        BY <2>8 DEF Exit, Crash, Vanish
      <3>2. Idle.job = NoJob
        BY DEF Idle
      <3>3. \A t, u \in Tasks :
                task[t].job \notin overtaken \cup {NoJob} /\ task[u].job = task[t].job => u = t
        BY DEF HonestInv, HeldOnce
      <3>4. \A k \in Jobs \ overtaken : IF k \in S THEN ~Held(k)' ELSE Held(k)' <=> Held(k)
        BY <3>1, <3>2, <3>3 DEF Held, Holds
      <3>5. S \in SUBSET Jobs
        OBVIOUS
      <3> HIDE DEF S
      <3> QED
        BY <3>1, <3>4, <3>5, LetGo
    <2> HIDE DEF Goal
    <2> QED
      BY <1>4, <2>1, <2>2, <2>3, <2>4, <2>5, <2>6, <2>7, <2>8
      DEF ProcStep, GoroutineStep, WriteBack, Goal
  <1>5. ASSUME NEW a \in Admins, AdminStep(a) PROVE Goal
    <2>1. ASSUME NEW o, RetryApply(a, o), Applied(o) PROVE Goal
      <3>1. \A k \in Jobs : RetriedRow(jobs[k]).status = "pending"
        BY <1>0 DEF Row, RetriedRow, Unlocked
      <3>2. /\ \A k \in Jobs : jobs'[k] = IF k \in admin[a] THEN RetriedRow(jobs[k]) ELSE jobs[k]
            /\ UNCHANGED task /\ admin[a] \in SUBSET Jobs
        BY <2>1 DEF RetryApply, TypeOK
      <3>3. \A k \in Jobs : Held(k)' <=> Held(k)
        BY <1>c, <3>2
      <3> DEFINE S == {k \in admin[a] \ overtaken : AwaitsWorker(jobs[k])}
                 L == {k \in admin[a] \ overtaken : ~AwaitsWorker(jobs[k])}
      <3>4. overtaken' = overtaken \cup L
        BY <2>1 DEF RetryApply
      <3>5. \A k \in S : jobs[k].status \in {"failed", "pending"} /\ ~Held(k)
        BY <1>b, <3>2 DEF AwaitsWorker
      <3>6. \A k \in L : jobs[k].status \in {"processing", "done"}
        <4>1. \A k \in L : jobs[k].status \in Statuses /\ jobs[k].status # "absent"
          BY <1>0, <3>2 DEF PickedPresent, Row
        <4> QED
          BY <4>1 DEF AwaitsWorker, Statuses
      <3>7. LifeStatus' = [k \in Jobs |-> IF k \in L THEN "overtaken"
                                         ELSE IF k \in S THEN "pending" ELSE LifeStatus[k]]
        BY <3>1, <3>2, <3>4 DEF LifeStatus
      <3>8. LifeHolder' = [k \in Jobs |-> IF k \in L THEN NoProc ELSE LifeHolder[k]]
        BY <3>2, <3>3, <3>4, <3>5 DEF LifeHolder
      <3>9. /\ \A k \in S : LifeStatus[k] \in {"failed", "pending"}
            /\ \A k \in L : LifeStatus[k] \in {"processing", "done"}
            /\ S \in SUBSET Jobs /\ L \in SUBSET Jobs
        BY <3>2, <3>5, <3>6 DEF LifeStatus
      <3> HIDE DEF S, L
      <3>10. Life!Retry(S, L)
        BY <3>7, <3>8, <3>9 DEF Life!Retry
      <3> QED
        BY <3>9, <3>10 DEF Life!Next
    <2> QED
      BY <1>1, <1>5, <2>1 DEF AdminStep, RetryCheck, RetryManyPick, RetryApply
  <1> HIDE DEF Goal
  <1>6. UNCHANGED vars => Goal
    BY <1>1 DEF vars, Goal
  <1> QED
    BY <1>2, <1>3, <1>4, <1>5, <1>6 DEF Next, Goal

\* With leases honoured the table, the processes and any number of admins together
\* implement JobLife: nobody but its holder settles a job, and what goes back to the
\* queue was abandoned or has failed, but for the jobs a late retry overtakes.
THEOREM QueueImplementsJobLife ==
    ASSUME Honest
    PROVE  Spec => Life!Spec
  <1>1. Init => Life!Init /\ PickedPresent
    <2> SUFFICES ASSUME Init PROVE Life!Init /\ PickedPresent
      OBVIOUS
    <2>1. \A j \in Jobs : jobs[j].status = "absent" /\ j \notin overtaken
      BY DEF Init, AbsentRow
    <2>2. \A j \in Jobs : ~Held(j)
      BY ConstantsAssumption DEF Init, Idle, Held, Holds
    <2> QED
      BY <2>1, <2>2 DEF Life!Init, LifeStatus, LifeHolder, Init, PickedPresent
  <1>2. TypeOK /\ HonestInv /\ PickedPresent /\ [Next]_vars =>
            PickedPresent' /\ [Life!Next]_<<LifeStatus, LifeHolder>>
    BY LifeStep, PickedStep
  <1> QED
    BY <1>1, <1>2, HonestAlways, PTL DEF Spec, Life!Spec
=============================================================================
