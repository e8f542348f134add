------------------------- MODULE RegistrationExport -------------------------
(***************************************************************************)
(* Exporting an event's registrations as CSV: the request                   *)
(* (handlers/jobs.go ExportRegistrationsCSV), the export branch of execute  *)
(* (worker.go) with its two statements in the place of JobQueue's Execute,  *)
(* the store (registration_csv_exports_repo.go) and the download, while the *)
(* registrations change under it (Attendance).                              *)
(*                                                                         *)
(* A job is one (event, user): its idempotency key is permanent.  The file  *)
(* is kept under the job's id, the primary key of its table.                *)
(***************************************************************************)
EXTENDS JobQueue, Attendance

CONSTANTS
    MaxExportFaults,    \* bound: failed statements of execute
    NoFile

ASSUME ExportAssumption == MaxExportFaults \in Nat /\ NoFile \notin [listed : SUBSET Regs, checked_in : SUBSET Regs]

VARIABLES
    draft,          \* what the execution of each goroutine has read
    file,           \* registration_csv_exports, by job
    shown,          \* history: what the table showed since the job was requested
    exportFaults

exportVars == <<jobs, proc, task, admin, faults, retries, succeeded, overtaken,
                reg, call, deleted, edits, draft, file, shown, exportFaults>>

CSV == [listed : SUBSET Regs, checked_in : SUBSET Regs]

Draft == [pc : {"idle", "list", "save"}, csv : CSV \cup {NoFile}]

NoDraft == [pc |-> "idle", csv |-> NoFile]

ExportTypeOK ==
    /\ draft \in [Goroutines -> Draft]
    /\ file \in [Jobs -> CSV \cup {NoFile}]
    /\ shown \in [Jobs -> SUBSET CSV]
    /\ exportFaults \in Nat

ExportInit ==
    /\ Init
    /\ AttendanceInit
    /\ draft = [t \in Goroutines |-> NoDraft]
    /\ file = [j \in Jobs |-> NoFile]
    /\ shown = [j \in Jobs |-> {}]
    /\ exportFaults = 0

ExportOutcome(p, o) ==
    IF proc[p] = "stopping"
    THEN o = "lost" /\ UNCHANGED exportFaults
    ELSE /\ o \in Outcomes
         /\ o # "ok" => exportFaults < MaxExportFaults
         /\ exportFaults' = IF o = "ok" THEN exportFaults ELSE exportFaults + 1

-----------------------------------------------------------------------------
ListOfAnyEvent == [listed |-> {r \in Regs : Exists(r)},
                   checked_in |-> {r \in Regs : reg[r] = "checked_in"}]

\* ListForEventExport, one SELECT, and the columns buildRegistrationsCSV makes of
\* it.  A deleted event has no rows.
ListForEventExport ==
    IF deleted
    THEN [listed |-> {}, checked_in |-> {}]
    ELSE [listed |-> {r \in Regs : Exists(r)},
          checked_in |-> {r \in Regs : reg[r] = "checked_in"}]

\* What the table shows of the event, in the words of the property below.
Truth ==
    LET live == {r \in Regs : ~deleted /\ reg[r] \in {"registered", "checked_in"}} IN
    [listed |-> live, checked_in |-> {r \in live : reg[r] = "checked_in"}]

-----------------------------------------------------------------------------
\* ExportRegistrationsCSV enqueues the job to run at once; the second request for
\* the same event meets the unique key and is answered with the existing job.
Request(j) ==
    /\ Create(j, TRUE)
    /\ shown' = [shown EXCEPT ![j] = {Truth}]
    /\ UNCHANGED <<attendanceVars, draft, file, exportFaults>>

StartExport(p, s) ==
    /\ HandOver(p, s)
    /\ draft' = [draft EXCEPT ![<<p, s>>] = [pc |-> "list", csv |-> NoFile]]
    /\ UNCHANGED <<attendanceVars, file, shown, exportFaults>>

List(p, s) ==
    LET t == <<p, s>> IN
    /\ proc[p] = "running"
    /\ draft[t].pc = "list"
    /\ draft' = [draft EXCEPT ![t] = [pc |-> "save", csv |-> ListForEventExport]]
    /\ UNCHANGED <<vars, attendanceVars, file, shown, exportFaults>>

\* execute returns the error of ListForEventExport.
ListFails(p, s) ==
    LET t == <<p, s>> IN
    /\ draft[t].pc = "list"
    /\ ExportOutcome(p, "lost")
    /\ Execute(p, s, FALSE)
    /\ draft' = [draft EXCEPT ![t] = NoDraft]
    /\ UNCHANGED <<attendanceVars, file, shown>>

SaveUpserting(p, s, o) ==
    LET t == <<p, s>>
        j == task[t].job IN
    /\ draft[t].pc = "save"
    /\ ExportOutcome(p, o)
    /\ file' = IF Applied(o) THEN [file EXCEPT ![j] = draft[t].csv] ELSE file
    /\ Execute(p, s, o = "ok")
    /\ draft' = [draft EXCEPT ![t] = NoDraft]
    /\ shown' = [shown EXCEPT ![j] = {}]
    /\ UNCHANGED attendanceVars

SaveIgnoringError(p, s, o) ==
    LET t == <<p, s>>
        j == task[t].job IN
    /\ draft[t].pc = "save"
    /\ ExportOutcome(p, o)
    /\ file' = IF Applied(o) /\ file[j] = NoFile THEN [file EXCEPT ![j] = draft[t].csv] ELSE file
    /\ Execute(p, s, TRUE)
    /\ draft' = [draft EXCEPT ![t] = NoDraft]
    /\ UNCHANGED <<attendanceVars, shown>>

\* Save is a plain INSERT, and execute returns what it returns: a job whose file is
\* already there fails.
Save(p, s, o) ==
    LET t == <<p, s>>
        j == task[t].job IN
    /\ draft[t].pc = "save"
    /\ ExportOutcome(p, o)
    /\ file' = IF Applied(o) /\ file[j] = NoFile THEN [file EXCEPT ![j] = draft[t].csv] ELSE file
    /\ Execute(p, s, o = "ok" /\ file[j] = NoFile)
    /\ draft' = [draft EXCEPT ![t] = NoDraft]
    /\ shown' = IF file' = file THEN shown ELSE [shown EXCEPT ![j] = {}]
    /\ UNCHANGED attendanceVars

EndExport(p) ==
    /\ Exit(p) \/ Crash(p)
    /\ draft' = [t \in Goroutines |-> IF t[1] = p THEN NoDraft ELSE draft[t]]
    /\ UNCHANGED <<attendanceVars, file, shown, exportFaults>>

\* The queue's other steps; the requests of this module are its Create.
OtherQueueStep ==
    /\ QueueStep
    /\ \A j \in Jobs : jobs[j].status = "absent" => jobs'[j].status = "absent"
    /\ UNCHANGED <<attendanceVars, draft, file, shown, exportFaults>>

\* The registrations change; whoever waits for a file may get the new ones.
Change ==
    /\ AttendanceNext
    /\ shown' = [j \in Jobs |-> IF jobs[j].status # "absent" /\ file[j] = NoFile
                                THEN shown[j] \cup {Truth'} ELSE shown[j]]
    /\ UNCHANGED <<vars, draft, file, exportFaults>>

\* DownloadRegistrationsCSV: by the job's id, whatever has become of the job.
Download(j) == file[j]

-----------------------------------------------------------------------------
Work(p, s) ==
    \/ List(p, s) \/ ListFails(p, s)
    \/ \E o \in {"ok", "lost", "unacked"} : Save(p, s, o)

ExportNext ==
    \/ \E j \in Jobs : Request(j)
    \/ \E p \in Procs : EndExport(p)
    \/ \E p \in Procs, s \in Slots : StartExport(p, s) \/ Work(p, s)
    \/ OtherQueueStep
    \/ Change

ExportSpec == ExportInit /\ [][ExportNext]_exportVars

-----------------------------------------------------------------------------
(* Properties.                                                              *)

\* A job that the table calls done has a file to download, after any crash, retry or
\* lost write.
DoneMeansExported == \A j \in Jobs : jobs[j].status = "done" => Download(j) # NoFile

\* A file that could be downloaded once stays as it is: the executions that follow
\* find its row and leave it.
ExportStays == [][\A j \in Jobs : Download(j) # NoFile => Download(j)' = Download(j)]_exportVars

\* A file shows the registrations as they were together at one moment after the
\* request, although check-ins, cancellations and deletes go on while it is made.
ExportIsOneMoment ==
    [][\A j \in Jobs : file'[j] # file[j] => file'[j] \in shown[j]]_exportVars

\* An export is dead-lettered only after a fault: the unique key of the file, on its
\* own, fails no job, and neither do changes of the event and its registrations.
DeadLetterNeedsFault ==
    \A j \in Jobs : jobs[j].status = "failed" => faults + exportFaults > 0
=============================================================================
