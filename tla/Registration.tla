---------------------------- MODULE Registration ----------------------------
(***************************************************************************)
(* Registering for one event (handlers/registrations.go Register, Cancel;   *)
(* registrations_repo.go CreateTx, Delete; events_repo.go Update, Delete,   *)
(* Restore).                                                                *)
(*                                                                         *)
(* Each request runs one PostgreSQL transaction at READ COMMITTED, one      *)
(* action per statement.  The statement that locks the event row is two     *)
(* steps, as in PostgreSQL: its snapshot, which fixes the count, is taken   *)
(* when it starts, and the row lock may come later.  With the lock the      *)
(* newest version of the event row (capacity, deleted_at) is read, but the  *)
(* count stays that of the snapshot.                                        *)
(*                                                                         *)
(* A registration's id is a fresh UUID, so a request stands for the         *)
(* registration and the confirmation job it may create.                     *)
(***************************************************************************)
EXTENDS Naturals, FiniteSets

CONSTANTS
    Requests,       \* POST /events/:id/register, each made once
    Emails,
    EmailOf,        \* the email in each request
    Capacities,     \* capacities an admin gives the event
    PoolSize,       \* MaxConns: transactions open at a time
    MaxEdits,       \* bound: admin changes of the event
    NoTx

\* The request's binding wants a capacity of at least 1 (domain/event/event.go).
ASSUME RegistrationAssumption ==
    /\ EmailOf \in [Requests -> Emails]
    /\ Capacities \subseteq Nat \ {0}
    /\ Capacities # {}
    /\ PoolSize \in Nat \ {0}
    /\ MaxEdits \in Nat
    /\ NoTx \notin Requests

VARIABLES
    event,          \* the event row
    lockedBy,       \* the transaction that holds the event row FOR UPDATE, or NoTx
    rows,           \* committed registrations
    jobs,           \* committed confirmation jobs
    cancelled,      \* history: registrations deleted by Cancel
    pc,             \* where each request is
    seen,           \* the count of registrations in its snapshot
    answer,         \* the code its client got
    highest,        \* history: the highest capacity the event ever had
    edits

vars == <<event, lockedBy, rows, jobs, cancelled, pc, seen, answer, highest, edits>>

Locking == {"insert", "enqueue", "commit"}        \* holding the event row
Counted == {"lock"} \cup Locking                  \* past the snapshot
Open == {"dup", "snapshot"} \cup Counted          \* in a transaction

TypeOK ==
    /\ event \in [capacity : Capacities, deleted : BOOLEAN]
    /\ lockedBy \in Requests \cup {NoTx}
    /\ rows \subseteq Requests
    /\ jobs \subseteq Requests
    /\ cancelled \subseteq Requests
    /\ pc \in [Requests -> {"idle", "answered"} \cup Open]
    /\ seen \in [Requests -> Nat]
    /\ answer \in [Requests -> {"none", "created", "already_registered", "event_full",
                                "not_found", "error"}]
    /\ highest \in Capacities
    /\ edits \in Nat

Init ==
    /\ event \in [capacity : Capacities, deleted : {FALSE}]
    /\ lockedBy = NoTx
    /\ rows = {}
    /\ jobs = {}
    /\ cancelled = {}
    /\ pc = [r \in Requests |-> "idle"]
    /\ seen = [r \in Requests |-> 0]
    /\ answer = [r \in Requests |-> "none"]
    /\ highest = event.capacity
    /\ edits = 0

-----------------------------------------------------------------------------
(* Register.                                                                *)

Active == {r \in Requests : pc[r] \in Open}

Registered(e) == \E q \in rows : EmailOf[q] = e

Goto(r, l) == pc' = [pc EXCEPT ![r] = l]

FinishKeepingLock(r, a) ==
    /\ pc' = [pc EXCEPT ![r] = "answered"]
    /\ answer' = [answer EXCEPT ![r] = a]
    /\ seen' = [seen EXCEPT ![r] = 0]
    /\ UNCHANGED lockedBy

\* The transaction ends, by Commit or by the deferred Rollback, and gives up its
\* lock; the handler answers.
Finish(r, a) ==
    /\ pc' = [pc EXCEPT ![r] = "answered"]
    /\ answer' = [answer EXCEPT ![r] = a]
    /\ seen' = [seen EXCEPT ![r] = 0]
    /\ lockedBy' = IF lockedBy = r THEN NoTx ELSE lockedBy

\* BeginTx takes a connection from the pool.
Begin(r) ==
    /\ pc[r] = "idle"
    /\ Cardinality(Active) < PoolSize
    /\ Goto(r, "dup")
    /\ UNCHANGED <<event, lockedBy, rows, jobs, cancelled, seen, answer, highest, edits>>

DuplicateCheck(r) ==
    /\ pc[r] = "dup"
    /\ \/ /\ Registered(EmailOf[r])
          /\ Finish(r, "already_registered")
       \/ /\ ~Registered(EmailOf[r])
          /\ Goto(r, "snapshot")
          /\ UNCHANGED <<lockedBy, seen, answer>>
    /\ UNCHANGED <<event, rows, jobs, cancelled, highest, edits>>

\* The capacity statement starts: its snapshot counts the registrations.
CapacitySnapshot(r) ==
    /\ pc[r] = "snapshot"
    /\ \/ /\ event.deleted
          /\ Finish(r, "not_found")
       \/ /\ ~event.deleted
          /\ seen' = [seen EXCEPT ![r] = Cardinality(rows)]
          /\ Goto(r, "lock")
          /\ UNCHANGED <<lockedBy, answer>>
    /\ UNCHANGED <<event, rows, jobs, cancelled, highest, edits>>

CapacityLockOffByOne(r) ==
    /\ pc[r] = "lock"
    /\ lockedBy = NoTx
    /\ \/ /\ event.deleted
          /\ Finish(r, "not_found")
       \/ /\ ~event.deleted
          /\ seen[r] > event.capacity
          /\ Finish(r, "event_full")
       \/ /\ ~event.deleted
          /\ seen[r] <= event.capacity
          /\ lockedBy' = r
          /\ Goto(r, "insert")
          /\ UNCHANGED <<seen, answer>>
    /\ UNCHANGED <<event, rows, jobs, cancelled, highest, edits>>

CapacityLockTrustingSnapshot(r) ==
    /\ pc[r] = "lock"
    /\ lockedBy = NoTx
    /\ \/ /\ seen[r] >= event.capacity
          /\ Finish(r, "event_full")
       \/ /\ seen[r] < event.capacity
          /\ lockedBy' = r
          /\ Goto(r, "insert")
          /\ UNCHANGED <<seen, answer>>
    /\ UNCHANGED <<event, rows, jobs, cancelled, highest, edits>>

\* It gets the row lock, perhaps after waiting: the row is read again, the
\* registrations are not counted again.
CapacityLock(r) ==
    /\ pc[r] = "lock"
    /\ lockedBy = NoTx
    /\ \/ /\ event.deleted
          /\ Finish(r, "not_found")
       \/ /\ ~event.deleted
          /\ seen[r] >= event.capacity
          /\ Finish(r, "event_full")
       \/ /\ ~event.deleted
          /\ seen[r] < event.capacity
          /\ lockedBy' = r
          /\ Goto(r, "insert")
          /\ UNCHANGED <<seen, answer>>
    /\ UNCHANGED <<event, rows, jobs, cancelled, highest, edits>>

InsertUnchecked(r) ==
    /\ pc[r] = "insert"
    /\ Goto(r, "enqueue")
    /\ UNCHANGED <<event, lockedBy, rows, jobs, cancelled, seen, answer, highest, edits>>

\* INSERT, with the unique constraint on (event_id, email).
Insert(r) ==
    /\ pc[r] = "insert"
    /\ \/ /\ Registered(EmailOf[r])
          /\ Finish(r, "already_registered")
       \/ /\ ~Registered(EmailOf[r])
          /\ Goto(r, "enqueue")
          /\ UNCHANGED <<lockedBy, seen, answer>>
    /\ UNCHANGED <<event, rows, jobs, cancelled, highest, edits>>

EnqueueOutsideTx(r) ==
    /\ pc[r] = "enqueue"
    /\ Goto(r, "commit")
    /\ jobs' = jobs \cup {r}
    /\ UNCHANGED <<event, lockedBy, rows, cancelled, seen, answer, highest, edits>>

\* jobsRepo.CreateTx inserts the confirmation job in the same transaction.
Enqueue(r) ==
    /\ pc[r] = "enqueue"
    /\ Goto(r, "commit")
    /\ UNCHANGED <<event, lockedBy, rows, jobs, cancelled, seen, answer, highest, edits>>

CommitIgnoringError(r) ==
    /\ pc[r] = "commit"
    /\ \E kept \in SUBSET {r} : rows' = rows \cup kept /\ jobs' = jobs \cup kept
    /\ Finish(r, "created")
    /\ UNCHANGED <<event, cancelled, highest, edits>>

\* The client may get an error although the commit took place: its
\* acknowledgement can be lost or come after the timeout.
Commit(r) ==
    /\ pc[r] = "commit"
    /\ rows' = rows \cup {r}
    /\ jobs' = jobs \cup {r}
    /\ \E a \in {"created", "error"} : Finish(r, a)
    /\ UNCHANGED <<event, cancelled, highest, edits>>

\* The handler's 2 s timeout, a failed statement or commit, or the end of the
\* process: the transaction is rolled back.
Abort(r) ==
    /\ pc[r] \in Open
    /\ Finish(r, "error")
    /\ UNCHANGED <<event, rows, jobs, cancelled, highest, edits>>

(* Cancel: ownership is checked against columns that never change, so the    *)
(* DELETE is what counts.  It takes no lock on the event row.               *)

Cancel(r) ==
    /\ r \in rows
    /\ rows' = rows \ {r}
    /\ cancelled' = cancelled \cup {r}
    /\ UNCHANGED <<event, lockedBy, jobs, pc, seen, answer, highest, edits>>

(* The admin's changes of the event: single UPDATEs, which wait for the row. *)

Edit(e) ==
    /\ edits < MaxEdits
    /\ edits' = edits + 1
    /\ lockedBy = NoTx
    /\ event' = e
    /\ UNCHANGED <<lockedBy, rows, jobs, cancelled, pc, seen, answer>>

Update(k) ==
    /\ ~event.deleted
    /\ Edit([event EXCEPT !.capacity = k])
    /\ highest' = IF k > highest THEN k ELSE highest

Delete ==
    /\ ~event.deleted
    /\ Edit([event EXCEPT !.deleted = TRUE])
    /\ UNCHANGED highest

Restore ==
    /\ event.deleted
    /\ Edit([event EXCEPT !.deleted = FALSE])
    /\ UNCHANGED highest

-----------------------------------------------------------------------------
Step(r) ==
    \/ Begin(r)
    \/ DuplicateCheck(r)
    \/ CapacitySnapshot(r)
    \/ CapacityLock(r)
    \/ Insert(r)
    \/ Enqueue(r)
    \/ Commit(r)

Next ==
    \/ \E r \in Requests : Step(r) \/ Abort(r) \/ Cancel(r)
    \/ \E k \in Capacities : Update(k)
    \/ Delete
    \/ Restore

Spec == Init /\ [][Next]_vars

\* A request's goroutine runs on.  Nothing is assumed of timeouts, of cancels or of
\* the admin.
FairSpec == Spec /\ \A r \in Requests : WF_vars(Step(r))

-----------------------------------------------------------------------------
(* Properties.                                                              *)

\* One email registers for an event once, although the duplicate check of one
\* request may precede the commit of another.
OneRowPerEmail ==
    \A q, r \in rows : EmailOf[q] = EmailOf[r] => q = r

\* The outbox: a registration is committed with its confirmation job or not at all,
\* whatever fails in between.
EveryRegistrationHasItsJob == jobs = rows \cup cancelled

\* Only "error" leaves a client in doubt: "created" is never said of a registration
\* that was rolled back, nor a refusal of one that was committed.
AnswersAreTrue ==
    \A r \in Requests :
        /\ answer[r] = "created" => r \in rows \cup cancelled
        /\ answer[r] \in {"already_registered", "event_full", "not_found"}
               => r \notin rows \cup cancelled

\* How far an event can be overbooked: a request that counted before the last free
\* place was taken still gets in, and all such requests were open together.
OvershootBounded ==
    Cardinality(rows) <= highest + (PoolSize - 1)

\* Nobody gets into an event that is deleted: the row lock keeps Delete away from
\* the check to the commit.
NeverIntoDeletedEvent == [][~event.deleted \/ rows' \subseteq rows]_vars

\* Every request that began is answered: the event's lock is always given up.
RequestsAnswered ==
    \A r \in Requests : pc[r] = "dup" ~> pc[r] = "answered"

\* "Lock the event row (FOR UPDATE), compute current registrations, enforce
\* capacity." (README.md)
CapacityEnforced == Cardinality(rows) <= highest
=============================================================================
