----------------------------- MODULE Attendance -----------------------------
(***************************************************************************)
(* The registrations of one event after they were made: check-in at the     *)
(* door, cancelling, and the event's soft delete                            *)
(* (handlers/registrations.go CheckIn, Cancel; registrations_repo.go        *)
(* CheckInByToken, GetByID, Delete; events_repo.go Delete, Restore).        *)
(*                                                                         *)
(* Both operations are two statements outside any transaction, so calls     *)
(* interleave between them.  A client that got no answer calls again: that  *)
(* is another caller.  The token is unique within its event and stands for  *)
(* the registration.                                                        *)
(***************************************************************************)
EXTENDS Naturals, FiniteSets

CONSTANTS
    Regs,
    Callers,        \* requests to check in or to cancel, each made once
    MayCancel,      \* the registrations each caller owns, or all for an admin
    CallOutcomes,   \* what may come of a call's write: "ok", "lost", "unacked"
    MaxEdits,       \* bound: deletes and restores of the event
    NoReg

ASSUME AttendanceAssumption ==
    /\ MayCancel \in [Callers -> SUBSET Regs]
    /\ CallOutcomes \subseteq {"ok", "lost", "unacked"}
    /\ MaxEdits \in Nat
    /\ NoReg \notin Regs

VARIABLES
    reg,            \* each row: not yet there, checked_in_at NULL or set, or deleted
    call,           \* where each call is, and what it was answered
    deleted,        \* events.deleted_at is set
    edits

attendanceVars == <<reg, call, deleted, edits>>

NoCall == [pc |-> "idle", op |-> "none", reg |-> NoReg, answer |-> "none"]

Answers == {"ok", "already_checked_in", "not_found", "forbidden", "error"}

AttendanceTypeOK ==
    /\ reg \in [Regs -> {"none", "registered", "checked_in", "cancelled"}]
    /\ call \in [Callers -> [pc : {"idle", "exists", "delete", "answered"},
                             op : {"none", "check_in", "cancel"},
                             reg : Regs \cup {NoReg},
                             answer : Answers \cup {"none"}]]
    /\ deleted \in BOOLEAN
    /\ edits \in Nat

AttendanceInit ==
    /\ reg = [r \in Regs |-> "none"]
    /\ call = [c \in Callers |-> NoCall]
    /\ deleted = FALSE
    /\ edits = 0

Exists(r) == reg[r] \in {"registered", "checked_in"}

Goto(c, pc, op, r) ==
    call' = [call EXCEPT ![c] = [pc |-> pc, op |-> op, reg |-> r, answer |-> "none"]]

Answer(c, op, r, a) ==
    call' = [call EXCEPT ![c] = [pc |-> "answered", op |-> op, reg |-> r, answer |-> a]]

\* A write that is lost on the way, or whose acknowledgement is: a 500 either way.
Told(o, a) == IF o = "ok" THEN a ELSE "error"

Took(o) == o \in {"ok", "unacked"}

-----------------------------------------------------------------------------
\* A registration is committed (module Registration).
Registered(r) ==
    /\ reg[r] = "none"
    /\ ~deleted
    /\ reg' = [reg EXCEPT ![r] = "registered"]
    /\ UNCHANGED <<call, deleted, edits>>

CheckInUpdateAgain(c, r, o) ==
    /\ call[c].pc = "idle"
    /\ reg[r] # "none"
    /\ IF Exists(r) \/ o = "lost"
       THEN /\ reg' = IF Took(o) THEN [reg EXCEPT ![r] = "checked_in"] ELSE reg
            /\ Answer(c, "check_in", r, Told(o, "ok"))
       ELSE /\ Goto(c, "exists", "check_in", r)
            /\ UNCHANGED reg
    /\ UNCHANGED <<deleted, edits>>

\* UPDATE ... WHERE checked_in_at IS NULL RETURNING: the row it changes is the
\* answer.  Whether the event is deleted is not asked.
CheckInUpdate(c, r, o) ==
    /\ call[c].pc = "idle"
    /\ reg[r] # "none"
    /\ IF reg[r] = "registered" \/ o # "ok"
       THEN /\ reg' = IF Took(o) /\ reg[r] = "registered"
                      THEN [reg EXCEPT ![r] = "checked_in"] ELSE reg
            /\ Answer(c, "check_in", r, Told(o, "ok"))
       ELSE /\ Goto(c, "exists", "check_in", r)
            /\ UNCHANGED reg
    /\ UNCHANGED <<deleted, edits>>

CheckInExistsSkipped(c, o) ==
    /\ call[c].pc = "exists"
    /\ Answer(c, "check_in", call[c].reg, Told(o, "already_checked_in"))
    /\ UNCHANGED <<reg, deleted, edits>>

\* No row was changed: SELECT EXISTS tells a used ticket from an unknown one.
CheckInExists(c, o) ==
    /\ call[c].pc = "exists"
    /\ Answer(c, "check_in", call[c].reg,
              Told(o, IF reg[call[c].reg] = "checked_in" THEN "already_checked_in" ELSE "not_found"))
    /\ UNCHANGED <<reg, deleted, edits>>

\* Cancel, GetByID and the ownership check.
CancelLoad(c, r, o) ==
    /\ call[c].pc = "idle"
    /\ reg[r] # "none"
    /\ IF o = "ok" /\ Exists(r) /\ r \in MayCancel[c]
       THEN Goto(c, "delete", "cancel", r)
       ELSE Answer(c, "cancel", r, Told(o, IF Exists(r) THEN "forbidden" ELSE "not_found"))
    /\ UNCHANGED <<reg, deleted, edits>>

\* DELETE by id: RowsAffected tells whether this call removed the row.
CancelDelete(c, o) ==
    LET r == call[c].reg IN
    /\ call[c].pc = "delete"
    /\ reg' = IF Took(o) THEN [reg EXCEPT ![r] = "cancelled"] ELSE reg
    /\ Answer(c, "cancel", r, Told(o, IF Exists(r) THEN "ok" ELSE "not_found"))
    /\ UNCHANGED <<deleted, edits>>

\* The admin's DELETE and restore of the event: the registrations stay.
Edit ==
    /\ edits < MaxEdits
    /\ edits' = edits + 1
    /\ deleted' = ~deleted
    /\ UNCHANGED <<reg, call>>

-----------------------------------------------------------------------------
AttendanceNext ==
    \/ \E r \in Regs : Registered(r)
    \/ \E c \in Callers, o \in CallOutcomes :
          \/ \E r \in Regs : CheckInUpdate(c, r, o) \/ CancelLoad(c, r, o)
          \/ CheckInExists(c, o)
          \/ CancelDelete(c, o)
    \/ Edit

AttendanceSpec == AttendanceInit /\ [][AttendanceNext]_attendanceVars

-----------------------------------------------------------------------------
(* Properties.                                                              *)

Calls(op, r, answers) ==
    {c \in Callers : call[c].op = op /\ call[c].reg = r /\ call[c].answer \in answers}

\* "Duplicate registration check-in: first request succeeds; second request returns
\* 409" (docs/day93_idempotency_checks.md): however the two statements of several
\* scans and cancellations interleave, a ticket admits once and is cancelled once.
OneWinner ==
    \A r \in Regs, op \in {"check_in", "cancel"} : Cardinality(Calls(op, r, {"ok"})) <= 1

\* A refusal is never made up: already_checked_in means that another check-in got
\* through, acknowledged or not, and not_found that a cancellation did.
RefusalsExplained ==
    \A r \in Regs :
        /\ Calls("check_in", r, {"already_checked_in"}) # {} =>
               Calls("check_in", r, {"ok", "error"}) # {}
        /\ Calls("check_in", r, {"not_found"}) \cup Calls("cancel", r, {"not_found"}) # {} =>
               Calls("cancel", r, {"ok", "error"}) # {}
=============================================================================
