------------------------ MODULE ConfirmationPipeline ------------------------
(***************************************************************************)
(* From the outbox to the provider: the job queue and its workers           *)
(* (JobQueue) with the confirmation branch of execute and its delivery gate *)
(* (ConfirmationDelivery) in the place of JobQueue's Execute.               *)
(*                                                                         *)
(* A registration is committed with its job, so one name stands for both.   *)
(* A goroutine of a worker process is an execution of the gate: it begins   *)
(* when it is handed the job, proceeds statement by statement, and what     *)
(* execute returns decides between MarkDone and handleFailure.  When the    *)
(* process ends, its executions end with it.                                *)
(***************************************************************************)
EXTENDS JobQueue

CONSTANT MaxGateFaults      \* bound: failed statements on notification_deliveries

ASSUME PipelineAssumption == MaxGateFaults \in Nat

VARIABLES
    row,        \* notification_deliveries, by registration
    exec,       \* where the execution of each goroutine stands
    sends,      \* confirmations that went out
    acked,      \* registrations for which some execute() returned nil
    gateFaults

gateVars == <<row, exec, sends, acked, gateFaults>>

pipelineVars == <<jobs, proc, task, admin, faults, retries, succeeded, overtaken,
                  row, exec, sends, acked, gateFaults>>

Gate == INSTANCE ConfirmationDelivery WITH
            Regs <- Jobs, Execs <- Goroutines, NoReg <- NoJob,
            MaxFaults <- MaxGateFaults, faults <- gateFaults

PipelineInit == Init /\ Gate!Init

-----------------------------------------------------------------------------
\* runWorker takes the job from the channel and calls execute.
Start(p, s) ==
    /\ HandOver(p, s)
    /\ Gate!Begin(<<p, s>>, task[<<p, Producer>>].job)
    /\ UNCHANGED gateFaults

\* A cancelled context refuses the statements of the gate, the SELECT included, as
\* it does those of the queue.
GateOutcome(p, o) ==
    IF proc[p] = "stopping"
    THEN o = "lost" /\ UNCHANGED gateFaults
    ELSE Gate!Outcome(o)

\* Will the next step of execute, if it returns, return nil?
ReturnsNilIfTaken(t, o) == exec[t].pc \in {"mark_sent", "look"}

ReturnsNil(t, o) ==
    \/ exec[t].pc = "mark_sent"
    \/ exec[t].pc = "look" /\ o = "ok" /\ Gate!AlreadySent(exec[t].reg)

\* execute goes on; when it returns, runWorker does with the job what JobQueue says.
Run(p, s) ==
    LET t == <<p, s>> IN
    /\ proc[p] # "down"
    /\ \E o \in {"ok", "lost", "unacked"} :
          /\ IF Gate!AtDatabase(t) THEN GateOutcome(p, o) ELSE o = "ok" /\ UNCHANGED gateFaults
          /\ Gate!Proceed(t, o)
          /\ IF exec'[t].pc = "idle" THEN Execute(p, s, ReturnsNil(t, o)) ELSE UNCHANGED vars

\* The process ends, in good order or not.
End(p) ==
    /\ Exit(p) \/ Crash(p)
    /\ Gate!Stop({p} \X Slots)
    /\ UNCHANGED gateFaults

PipelineNext ==
    \/ QueueStep /\ UNCHANGED gateVars
    \/ \E p \in Procs : End(p)
    \/ \E p \in Procs, s \in Slots : Start(p, s) \/ Run(p, s)

PipelineSpec == PipelineInit /\ [][PipelineNext]_pipelineVars

-----------------------------------------------------------------------------
(* Properties.  Those of JobQueue hold here too.                            *)

\* A confirmation job that the table calls done has had its confirmation sent,
\* whatever was requeued, retried, lost or overwritten on the way.
DoneMeansConfirmed == \A j \in Jobs : jobs[j].status = "done" => sends[j] = 1

\* End to end, from the job table to the provider: one confirmation at most, and no
\* job counts as successful before its confirmation is out.
EndToEnd == INSTANCE SendOnce WITH
                Regs <- Jobs, sends <- sends, acked <- {j \in Jobs : succeeded[j] > 0}
ImplementsSendOnceEndToEnd == EndToEnd!Spec
=============================================================================
