------------------------ MODULE ConfirmationDelivery ------------------------
(***************************************************************************)
(* The confirmation branch of Worker.execute                                *)
(* (internal/queue/worker/worker.go) and the notification_deliveries table  *)
(* it uses as a send-once gate (notification_deliveries_repo.go).           *)
(*                                                                         *)
(* An executor is one run of execute for a registration's job.  Several may *)
(* run at once for the same registration: a job is requeued while its first *)
(* goroutine still runs, a dead letter is retried.  One SQL statement is    *)
(* one step, and so is the call of the notifier.                            *)
(***************************************************************************)
EXTENDS Naturals

CONSTANTS
    Regs,       \* registrations
    Execs,      \* concurrent executions of confirmation jobs
    Outcomes,   \* what may come of a statement: "ok", "lost", "unacked"
    MaxFaults,  \* bound: crashed executions and failed statements
    NoReg

ASSUME DeliveryAssumption ==
    /\ Outcomes \subseteq {"ok", "lost", "unacked"}
    /\ MaxFaults \in Nat
    /\ NoReg \notin Regs

VARIABLES
    row,        \* notification_deliveries, by registration
    exec,       \* where each execution stands
    sends,      \* confirmations that went out
    acked,      \* registrations for which some execute() returned nil
    faults

vars == <<row, exec, sends, acked, faults>>

-----------------------------------------------------------------------------
Statuses == {"none", "sending", "sent", "failed"}

Pcs == {"idle", "insert", "flip", "look", "send", "mark_sent", "mark_failed"}

TypeOK ==
    /\ row \in [Regs -> [status : Statuses, sent_at : BOOLEAN]]
    /\ exec \in [Execs -> [pc : Pcs, reg : Regs \cup {NoReg}]]
    /\ sends \in [Regs -> Nat]
    /\ acked \subseteq Regs
    /\ faults \in Nat

Idle == [pc |-> "idle", reg |-> NoReg]

Init ==
    /\ row = [r \in Regs |-> [status |-> "none", sent_at |-> FALSE]]
    /\ exec = [e \in Execs |-> Idle]
    /\ sends = [r \in Regs |-> 0]
    /\ acked = {}
    /\ faults = 0

Outcome(o) ==
    /\ o \in Outcomes
    /\ o # "ok" => faults < MaxFaults
    /\ faults' = IF o = "ok" THEN faults ELSE faults + 1

Applied(o) == o \in {"ok", "unacked"}

Goto(e, pc) == exec' = [exec EXCEPT ![e].pc = pc]

\* execute returns: an error leaves the job to be rescheduled or dead-lettered, nil
\* makes it done.
ReturnError(e) == exec' = [exec EXCEPT ![e] = Idle] /\ UNCHANGED acked

ReturnNil(e) ==
    /\ exec' = [exec EXCEPT ![e] = Idle]
    /\ acked' = acked \cup {exec[e].reg}

-----------------------------------------------------------------------------
\* A goroutine starts executing the job of registration r.
Begin(e, r) ==
    /\ exec[e].pc = "idle"
    /\ exec' = [exec EXCEPT ![e] = [pc |-> "insert", reg |-> r]]
    /\ UNCHANGED <<row, sends, acked>>

(* TryStartRegistration, statement by statement.                            *)

\* INSERT ... 'sending': an existing row is a unique violation and leads to the
\* next statement, any other error is returned.
Insert(e, o) ==
    LET r == exec[e].reg IN
    /\ exec[e].pc = "insert"
    /\ row' = IF Applied(o) /\ row[r].status = "none"
              THEN [row EXCEPT ![r].status = "sending"] ELSE row
    /\ IF o = "ok"
       THEN Goto(e, IF row[r].status = "none" THEN "send" ELSE "flip") /\ UNCHANGED acked
       ELSE ReturnError(e)
    /\ UNCHANGED sends

FlipAnyUnsent(e, o) ==
    LET r == exec[e].reg IN
    /\ exec[e].pc = "flip"
    /\ row' = IF Applied(o) /\ row[r].status \in {"failed", "sending"}
              THEN [row EXCEPT ![r].status = "sending"] ELSE row
    /\ IF o = "ok"
       THEN Goto(e, IF row[r].status \in {"failed", "sending"} THEN "send" ELSE "look")
            /\ UNCHANGED acked
       ELSE ReturnError(e)
    /\ UNCHANGED sends

\* UPDATE ... SET status = 'sending' WHERE status = 'failed': one executor at most
\* finds the row failed.
Flip(e, o) ==
    LET r == exec[e].reg IN
    /\ exec[e].pc = "flip"
    /\ row' = IF Applied(o) /\ row[r].status = "failed"
              THEN [row EXCEPT ![r].status = "sending"] ELSE row
    /\ IF o = "ok"
       THEN Goto(e, IF row[r].status = "failed" THEN "send" ELSE "look") /\ UNCHANGED acked
       ELSE ReturnError(e)
    /\ UNCHANGED sends

AlreadySent(r) == row[r].sent_at \/ row[r].status = "sent"

\* SELECT status, sent_at: an error of the query is returned, ErrAlreadySent counts
\* as success, everything else as ErrInProgress, a row that turned failed since the
\* UPDATE included.  Rows are never deleted.
Look(e, o) ==
    LET r == exec[e].reg IN
    /\ exec[e].pc = "look"
    /\ IF o = "ok" /\ AlreadySent(r) THEN ReturnNil(e) ELSE ReturnError(e)
    /\ UNCHANGED <<row, sends>>

(* The notifier, and what execute does with its answer.                     *)

SendForgettingCircuitOpen(e, answer) ==
    LET r == exec[e].reg IN
    /\ exec[e].pc = "send"
    /\ sends' = IF answer = "ok" THEN [sends EXCEPT ![r] = @ + 1] ELSE sends
    /\ IF answer = "circuit_open"
       THEN ReturnError(e)
       ELSE Goto(e, IF answer = "ok" THEN "mark_sent" ELSE "mark_failed") /\ UNCHANGED acked
    /\ UNCHANGED row

\* ProtectedNotifier in front of LogNotifier: nil means the confirmation is out, an
\* error (provider, timeout or ErrCircuitOpen) that it is not.
Send(e, answer) ==
    LET r == exec[e].reg IN
    /\ exec[e].pc = "send"
    /\ sends' = IF answer = "ok" THEN [sends EXCEPT ![r] = @ + 1] ELSE sends
    /\ Goto(e, IF answer = "ok" THEN "mark_sent" ELSE "mark_failed")
    /\ UNCHANGED <<row, acked>>

MarkSentFailingJob(e, o) ==
    LET r == exec[e].reg IN
    /\ exec[e].pc = "mark_sent"
    /\ row' = IF Applied(o)
              THEN [row EXCEPT ![r] = [status |-> "sent", sent_at |-> TRUE]]
              ELSE [row EXCEPT ![r].status = "failed"]
    /\ ReturnNil(e)
    /\ UNCHANGED sends

\* MarkRegistrationConfirmationSent, whose error is only logged.
MarkSent(e, o) ==
    LET r == exec[e].reg IN
    /\ exec[e].pc = "mark_sent"
    /\ row' = IF Applied(o) THEN [row EXCEPT ![r] = [status |-> "sent", sent_at |-> TRUE]]
                            ELSE row
    /\ ReturnNil(e)
    /\ UNCHANGED sends

\* MarkRegistrationConfirmationFailed, whose error is ignored; execute returns the
\* notifier's.
MarkFailed(e, o) ==
    LET r == exec[e].reg IN
    /\ exec[e].pc = "mark_failed"
    /\ row' = IF Applied(o) THEN [row EXCEPT ![r].status = "failed"] ELSE row
    /\ ReturnError(e)
    /\ UNCHANGED sends

\* The executions of a process end where they stand.
Stop(dead) ==
    /\ exec' = [e \in Execs |-> IF e \in dead THEN Idle ELSE exec[e]]
    /\ UNCHANGED <<row, sends, acked>>

-----------------------------------------------------------------------------
\* What an execution does, apart from what becomes of its statements.
Proceed(e, o) ==
    \/ \E answer \in {"ok", "provider_error", "circuit_open"} : Send(e, answer)
    \/ Insert(e, o) \/ Flip(e, o) \/ Look(e, o) \/ MarkSent(e, o) \/ MarkFailed(e, o)

AtDatabase(e) == exec[e].pc \in {"insert", "flip", "look", "mark_sent", "mark_failed"}

\* A failed statement is a fault; the notifier's answer is not.
Step(e) ==
    \E o \in {"ok", "lost", "unacked"} :
        /\ IF AtDatabase(e) THEN Outcome(o) ELSE o = "ok" /\ UNCHANGED faults
        /\ Proceed(e, o)

\* A process dies with all it was executing.
Crash(dead) ==
    /\ dead # {}
    /\ \A e \in dead : exec[e].pc # "idle"
    /\ faults < MaxFaults
    /\ faults' = faults + 1
    /\ Stop(dead)

Next ==
    \/ \E e \in Execs :
          \/ \E r \in Regs : Begin(e, r) /\ UNCHANGED faults
          \/ Step(e)
    \/ \E dead \in SUBSET Execs : Crash(dead)

Spec == Init /\ [][Next]_vars

\* A goroutine that is executing goes on: the notifier has its timeout; the statements
\* have no deadline of their own, so this takes Postgres to answer or the connection to
\* break.  Nothing makes a job begin or a fault happen.
FairSpec == Spec /\ \A e \in Execs : WF_vars(Step(e))

-----------------------------------------------------------------------------
(* Properties.                                                              *)

Holding(e) == exec[e].pc \in {"send", "mark_sent", "mark_failed"}

\* The gate of TryStartRegistration: between it and the write that releases it an
\* execution has the registration to itself, and the row says so.
GateExclusive ==
    \A e \in Execs : Holding(e) =>
        /\ row[exec[e].reg].status = "sending"
        /\ \A f \in Execs : Holding(f) /\ exec[f].reg = exec[e].reg => f = e

\* "one confirmation per registration_id (regardless of job retries or new job
\* ids)": crashes, lost and unacknowledged writes and concurrent executions send no
\* second one.
AtMostOneSend == \A r \in Regs : sends[r] <= 1

\* A confirmation job is reported done only when its confirmation went out.
AckMeansSent == \A r \in acked : sends[r] = 1

\* A delivery recorded as sent is never reopened by a slower execution.
SentStays ==
    [][\A r \in Regs : row[r].status = "sent" => row'[r] = row[r]]_vars

\* The gate implements its promise.
Abstract == INSTANCE SendOnce WITH Regs <- Regs, sends <- sends, acked <- acked
ImplementsSendOnce == Abstract!Spec

\* As long as no execution crashes and no statement fails, a row never stays in
\* `sending': every answer of the notifier is written back.
FaultFreeSendingResolves ==
    \A r \in Regs :
        row[r].status = "sending" ~> row[r].status # "sending" \/ faults > 0

\* "Another attempt is sending == retry later" (worker.go): the attempt that has
\* the row ends, so that a later one finds it sent or failed.
SendingResolves ==
    \A r \in Regs : row[r].status = "sending" ~> row[r].status # "sending"
=============================================================================
