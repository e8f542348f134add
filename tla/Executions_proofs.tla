------------------------- MODULE Executions_proofs --------------------------
(***************************************************************************)
(* What two branches of execute promise on top of the same queue, proved   *)
(* for every number of jobs, processes, goroutines and faults: the          *)
(* confirmation, from the job table to the provider, and the export, from   *)
(* the registrations to the file.                                           *)
(***************************************************************************)
EXTENDS ConfirmationPipeline, RegistrationExport, JobQueue_proofs

GateP == INSTANCE ConfirmationDelivery_proofs WITH
            Regs <- Jobs, Execs <- Goroutines, NoReg <- NoJob,
            MaxFaults <- MaxGateFaults, faults <- gateFaults

-----------------------------------------------------------------------------
(* The confirmation: the pipeline implements the queue.                     *)

\* Every step of the pipeline is a step of JobQueue or leaves the queue alone.
LEMMA QueueSimulated == ASSUME [PipelineNext]_pipelineVars PROVE [Next]_vars
  <1>1. ASSUME QueueStep PROVE Next
    BY <1>1 DEF QueueStep, Next, ProcStep, GoroutineStep
  <1>2. ASSUME NEW p \in Procs, End(p) PROVE Next
    BY <1>2 DEF End, Next, ProcStep
  <1>3. ASSUME NEW p \in Procs, NEW s \in Slots, Start(p, s) PROVE Next
    BY <1>3 DEF Start, Next, ProcStep
  <1>4. ASSUME NEW p \in Procs, NEW s \in Slots, NEW ok \in BOOLEAN, Execute(p, s, ok)
        PROVE  Next
    BY <1>4 DEF Next, ProcStep, GoroutineStep
  <1>5. ASSUME NEW t, NEW o PROVE ReturnsNil(t, o) \in BOOLEAN
    BY DEF ReturnsNil, Gate!AlreadySent
  <1>6. ASSUME NEW p \in Procs, NEW s \in Slots, Run(p, s) PROVE [Next]_vars
    BY <1>4, <1>5, <1>6 DEF Run
  <1> QED
    BY <1>1, <1>2, <1>3, <1>6 DEF PipelineNext, pipelineVars, vars

\* The gate takes the part of JobQueue's Execute and changes nothing else of the
\* queue: every theorem about JobQueue holds of the pipeline.
THEOREM PipelineImplementsQueue == PipelineSpec => Spec
  <1>1. PipelineInit => Init
    BY DEF PipelineInit
  <1> QED
    BY <1>1, QueueSimulated, PTL DEF PipelineSpec, Spec

\* With leases outlived, acknowledgements lost and confirmations that fail at the gate,
\* no row loses its lock or its status alone and the attempts stay bounded.
COROLLARY PipelineKeepsQueue == PipelineSpec => [](LockedIffProcessing /\ AttemptsBounded)
  BY PipelineImplementsQueue, LockConsistent, AttemptsAreBounded, PTL

-----------------------------------------------------------------------------
(* What the job table says of the provider.                                 *)

\* A goroutine executes exactly while the gate has it executing, for its own job.
Coupled ==
    \A t \in Goroutines :
        /\ task[t].pc = "exec" => exec[t].pc # "idle" /\ exec[t].reg = task[t].job
        /\ exec[t].pc # "idle" => task[t].pc = "exec"

\* Whoever is about to report success has had the confirmation sent, and so has
\* every job for which execute ever returned nil.
SuccessIsSent ==
    /\ \A t \in Goroutines :
          task[t].pc = "mark_done" => task[t].job \in Jobs /\ sends[task[t].job] = 1
    /\ \A j \in Jobs : succeeded[j] > 0 => sends[j] = 1

PipelineInv ==
    /\ TypeOK
    /\ BusyHasJob
    /\ GateP!GateInv
    /\ Coupled
    /\ SuccessIsSent
    /\ DoneMeansConfirmed

Successful == {j \in Jobs : succeeded[j] > 0}

-----------------------------------------------------------------------------
(* The gate's own steps, under the names of the instance that is proved about. *)

\* An execution that proceeds never takes a confirmation back, and what it returns
\* as nil has been sent.
LEMMA GateProceeds ==
    ASSUME GateP!GateInv, NEW t \in Goroutines, NEW o, Gate!Proceed(t, o), gateFaults' \in Nat
    PROVE  /\ GateP!GateInv'
           /\ \A j \in Jobs : sends[j] = 1 => sends'[j] = 1
           /\ \A u \in Goroutines : u # t => exec'[u] = exec[u]
           /\ exec[t].pc # "idle" /\ exec[t].reg \in Jobs
           /\ exec'[t].pc = "idle" \/ exec'[t].reg = exec[t].reg
           /\ ReturnsNil(t, o) => exec'[t].pc = "idle" /\ sends'[exec[t].reg] = 1
  <1>1. GateP!Proceed(t, o)
    BY DEF Gate!Proceed, GateP!Proceed, Gate!Look, GateP!Look, Gate!Send, GateP!Send,
           Gate!Insert, GateP!Insert, Gate!Flip, GateP!Flip, Gate!MarkSent, GateP!MarkSent,
           Gate!MarkFailed, GateP!MarkFailed, Gate!AlreadySent, GateP!AlreadySent,
           Gate!Applied, GateP!Applied, Gate!Goto, GateP!Goto, Gate!ReturnNil, GateP!ReturnNil,
           Gate!ReturnError, GateP!ReturnError, Gate!Idle, GateP!Idle
  <1>2. GateP!GateInv'
    <2>1. GateP!DeliveryAssumption
      BY PipelineAssumption, ConstantsAssumption DEF GateP!DeliveryAssumption
    <2>2. \E e \in Goroutines : \E x : GateP!Proceed(e, x)
      BY <1>1
    <2> QED
      BY <2>1, <2>2, GateP!GateKept
  <1> USE DEF GateP!GateInv
  <1>3. exec[t].pc # "idle" /\ exec[t].reg \in Jobs
    BY <1>1 DEF GateP!BusyHasReg, GateP!Proceed, GateP!Look, GateP!Send, GateP!Insert,
                GateP!Flip, GateP!MarkSent, GateP!MarkFailed
  <1>4. \/ sends' = sends
        \/ sends[exec[t].reg] = 0 /\ sends' = [sends EXCEPT ![exec[t].reg] = @ + 1]
    BY <1>1 DEF GateP!Proceed, GateP!Look, GateP!Send, GateP!Insert, GateP!Flip,
                GateP!MarkSent, GateP!MarkFailed, GateP!CountMatchesHolder
  <1>5. \A j \in Jobs : sends[j] = 1 => sends'[j] = 1
    BY <1>4 DEF GateP!TypeOK
  <1>6. \/ exec' = [exec EXCEPT ![t] = GateP!Idle]
        \/ \E pc \in GateP!Pcs : exec' = [exec EXCEPT ![t].pc = pc]
    BY <1>1 DEF GateP!Proceed, GateP!Look, GateP!Send, GateP!Insert, GateP!Flip,
                GateP!MarkSent, GateP!MarkFailed, GateP!Goto, GateP!ReturnNil,
                GateP!ReturnError, GateP!Pcs
  <1>7. /\ \A u \in Goroutines : u # t => exec'[u] = exec[u]
        /\ exec'[t].pc = "idle" \/ exec'[t].reg = exec[t].reg
    BY <1>6 DEF GateP!TypeOK, GateP!Idle
  <1>8. ASSUME ReturnsNil(t, o) PROVE exec'[t].pc = "idle" /\ sends'[exec[t].reg] = 1
    <2>1. sends[exec[t].reg] = 1
      BY <1>3, <1>8 DEF ReturnsNil, Gate!AlreadySent, GateP!CountMatchesHolder,
                        GateP!CountMatchesRow
    <2>2. exec[t].pc \in {"mark_sent", "look"}
      BY <1>8 DEF ReturnsNil
    <2>3. exec' = [exec EXCEPT ![t] = GateP!Idle]
      BY <1>1, <2>2 DEF GateP!Proceed, GateP!Look, GateP!Send, GateP!Insert, GateP!Flip,
                        GateP!MarkSent, GateP!MarkFailed, GateP!ReturnNil, GateP!ReturnError
    <2>4. exec'[t].pc = "idle"
      BY <2>3 DEF GateP!TypeOK, GateP!Idle
    <2> QED
      BY <1>3, <1>5, <2>1, <2>4
  <1> QED
    BY <1>2, <1>3, <1>5, <1>7, <1>8

-----------------------------------------------------------------------------
(* The invariant, one lemma per kind of step.                                *)

\* Nothing is sent or executing at the start.
LEMMA PipelineInvInit == PipelineInit => PipelineInv
  <1> SUFFICES ASSUME PipelineInit PROVE PipelineInv
    OBVIOUS
  <1>1. Init /\ TypeOK
    BY TypeInit DEF PipelineInit
  <1>2. GateP!Init
    BY DEF PipelineInit, Gate!Init, GateP!Init, Gate!Idle, GateP!Idle
  <1>3. GateP!GateInv
    <2>1. GateP!DeliveryAssumption
      BY PipelineAssumption, ConstantsAssumption DEF GateP!DeliveryAssumption
    <2> QED
      BY <1>2, <2>1, GateP!GateInit
  <1>4. \A t \in Goroutines : t \in Tasks
    BY NotProducer
  <1>5. BusyHasJob /\ Coupled
    BY <1>1, <1>2, <1>4 DEF Init, Idle, BusyHasJob, Coupled, GateP!Init, GateP!Idle
  <1>6. SuccessIsSent /\ DoneMeansConfirmed
    BY <1>1, <1>4 DEF Init, Idle, AbsentRow, SuccessIsSent, DoneMeansConfirmed
  <1> QED
    BY <1>1, <1>3, <1>5, <1>6 DEF PipelineInv

\* A step of the gate that only counts on: the invariant of the gate does not
\* depend on what counts as a fault.
LEMMA GateRests ==
    ASSUME GateP!GateInv, gateFaults' \in Nat,
           \/ UNCHANGED <<row, exec, sends, acked>>
           \/ \E dead \in SUBSET Goroutines : GateP!Stop(dead)
           \/ \E t \in Goroutines, j \in Jobs : GateP!Begin(t, j)
    PROVE  GateP!GateInv'
  <1>1. GateP!DeliveryAssumption
    BY PipelineAssumption, ConstantsAssumption DEF GateP!DeliveryAssumption
  <1> QED
    BY <1>1, GateP!GateKept

\* The queue's own steps.
LEMMA KeptByQueue ==
    ASSUME PipelineInv, QueueStep, UNCHANGED gateVars
    PROVE  /\ GateP!GateInv' /\ Coupled' /\ SuccessIsSent' /\ DoneMeansConfirmed'
           /\ UNCHANGED <<sends, Successful>>
  <1> USE DEF PipelineInv
  <1>1. GateP!GateInv'
    BY GateRests DEF gateVars, GateP!GateInv, GateP!TypeOK
  <1>2. UNCHANGED <<exec, sends>>
    BY DEF gateVars
  <1>3. UNCHANGED succeeded
    <2>1. ASSUME NEW p \in Procs, NEW s \in Slots, WriteBack(p, s) PROVE UNCHANGED succeeded
      BY <2>1 DEF WriteBack, MarkDone, Reschedule, MarkFailed
    <2> QED
      BY <2>1 DEF QueueStep, Create, BecomeDue, LockExpire, Claim, DropClaim, RequeueStale,
                  Signal, Restart, AdminStep, RetryCheck, RetryManyPick, RetryApply
  <1>4. ASSUME NEW t \in Goroutines
        PROVE  /\ task[t].pc = "exec" \/ task'[t].pc = "exec" => task'[t] = task[t]
               /\ task'[t].pc = "mark_done" => task'[t] = task[t]
    BY QueueKeepsTasks
  <1>5. Coupled'
    BY <1>2, <1>4 DEF Coupled
  <1>6. SuccessIsSent'
    BY <1>2, <1>3, <1>4 DEF SuccessIsSent
  <1>7. DoneMeansConfirmed'
    BY <1>2, DoneByMarkDone DEF DoneMeansConfirmed, SuccessIsSent
  <1> QED
    BY <1>1, <1>2, <1>3, <1>5, <1>6, <1>7 DEF Successful

\* A goroutine takes a job.
LEMMA KeptByStart ==
    ASSUME PipelineInv, NEW p \in Procs, NEW s \in Slots, Start(p, s)
    PROVE  /\ GateP!GateInv' /\ Coupled' /\ SuccessIsSent' /\ DoneMeansConfirmed'
           /\ UNCHANGED <<sends, Successful>>
  <1> USE DEF PipelineInv
  <1> DEFINE g == <<p, s>>  q == <<p, Producer>>
  <1>1. g \in Goroutines /\ g \in Tasks /\ q \in Tasks /\ g # q
    BY ConstantsAssumption DEF Goroutines, Tasks
  <1>2. task[q].job \in Jobs
    BY <1>1 DEF Start, HandOver, BusyHasJob
  <1>3. GateP!GateInv'
    <2>1. GateP!Begin(g, task[q].job)
      BY DEF Start, Gate!Begin, GateP!Begin
    <2>2. gateFaults' \in Nat
      BY DEF Start, GateP!GateInv, GateP!TypeOK
    <2> QED
      BY <1>1, <1>2, <2>1, <2>2, GateRests
  <1>4. UNCHANGED <<jobs, sends, succeeded>>
    BY DEF Start, HandOver, Gate!Begin
  <1>5. /\ exec'[g].pc = "insert" /\ exec'[g].reg = task[q].job
        /\ \A t \in Goroutines : t # g => exec'[t] = exec[t]
    BY <1>1 DEF Start, Gate!Begin, GateP!GateInv, GateP!TypeOK
  <1>6. /\ [task[q] EXCEPT !.pc = "exec"].pc = "exec"
        /\ [task[q] EXCEPT !.pc = "exec"].job = task[q].job
    BY <1>1 DEF TypeOK, Task
  <1>7. /\ task'[g] = [task[q] EXCEPT !.pc = "exec"]
        /\ \A t \in Goroutines : t # g => task'[t] = task[t]
    BY <1>1, NotProducer DEF Start, HandOver, TypeOK
  <1>8. Coupled'
    BY <1>5, <1>6, <1>7 DEF Coupled
  <1>9. SuccessIsSent' /\ DoneMeansConfirmed'
    BY <1>4, <1>6, <1>7 DEF SuccessIsSent, DoneMeansConfirmed
  <1> QED
    BY <1>3, <1>4, <1>8, <1>9 DEF Successful

\* A process ends, and its executions with it.
LEMMA KeptByEnd ==
    ASSUME PipelineInv, NEW p \in Procs, End(p)
    PROVE  /\ GateP!GateInv' /\ Coupled' /\ SuccessIsSent' /\ DoneMeansConfirmed'
           /\ UNCHANGED <<sends, Successful>>
  <1> USE DEF PipelineInv
  <1>1. GateP!GateInv'
    <2>1. GateP!Stop({p} \X Slots)
      BY DEF End, Gate!Stop, GateP!Stop, Gate!Idle, GateP!Idle
    <2>2. gateFaults' \in Nat
      BY DEF End, GateP!GateInv, GateP!TypeOK
    <2>3. {p} \X Slots \in SUBSET Goroutines
      BY DEF Goroutines
    <2> QED
      BY <2>1, <2>2, <2>3, GateRests
  <1>2. UNCHANGED <<jobs, sends, succeeded>>
    BY DEF End, Exit, Crash, Vanish, Gate!Stop
  <1>3. Idle.pc = "idle" /\ Gate!Idle.pc = "idle"
    BY DEF Idle, Gate!Idle
  <1>4. ASSUME NEW t \in Goroutines
        PROVE  /\ task'[t] = IF t[1] = p THEN Idle ELSE task[t]
               /\ exec'[t] = IF t[1] = p THEN Gate!Idle ELSE exec[t]
    <2>1. t \in Tasks
      BY NotProducer
    <2>2. t \in {p} \X Slots <=> t[1] = p
      BY DEF Goroutines
    <2> QED
      BY <2>1, <2>2 DEF End, Exit, Crash, Vanish, Gate!Stop
  <1>5. Coupled'
    BY <1>3, <1>4 DEF Coupled
  <1>6. SuccessIsSent' /\ DoneMeansConfirmed'
    BY <1>2, <1>3, <1>4 DEF SuccessIsSent, DoneMeansConfirmed
  <1> QED
    BY <1>1, <1>2, <1>5, <1>6 DEF Successful

\* execute returns: the goroutine goes to MarkDone with a confirmation that is out,
\* or to handleFailure.
LEMMA KeptByReturn ==
    ASSUME PipelineInv, NEW p \in Procs, NEW s \in Slots, NEW ok \in BOOLEAN,
           Execute(p, s, ok),
           GateP!GateInv',
           \A j \in Jobs : sends[j] = 1 => sends'[j] = 1,
           \A u \in Goroutines : u # <<p, s>> => exec'[u] = exec[u],
           exec[<<p, s>>].pc # "idle", exec'[<<p, s>>].pc = "idle",
           ok => sends'[exec[<<p, s>>].reg] = 1
    PROVE  /\ Coupled' /\ SuccessIsSent' /\ DoneMeansConfirmed'
           /\ \/ UNCHANGED Successful
              \/ /\ exec[<<p, s>>].reg \in Jobs
                 /\ Successful' = Successful \cup {exec[<<p, s>>].reg}
                 /\ ok
  <1> USE DEF PipelineInv
  <1> DEFINE g == <<p, s>>
             k == task[g].job
             c == [task[g] EXCEPT !.pc = IF ok THEN "mark_done" ELSE AfterFailure(task[g])]
  <1>1. g \in Goroutines /\ g \in Tasks
    BY DEF Goroutines, Tasks
  <1>2. task[g] \in Task /\ task[g].pc = "exec" /\ k \in Jobs /\ exec[g].reg = k
    BY <1>1 DEF Execute, Coupled, BusyHasJob, TypeOK
  <1>3. \A u \in Goroutines : task'[u] = IF u = g THEN c ELSE task[u]
    BY <1>1, NotProducer DEF Execute, TypeOK
  <1>4. AfterFailure(task[g]) \in {"reschedule", "mark_failed"}
    BY DEF AfterFailure
  <1>5. c.job = k /\ c.pc = IF ok THEN "mark_done" ELSE AfterFailure(task[g])
    BY <1>2 DEF Task
  <1>6. Coupled'
    <2>1. task'[g].pc # "exec"
      <3>1. task'[g].pc = c.pc
        BY <1>1, <1>3
      <3>2. CASE ok
        BY <1>5, <3>1, <3>2
      <3>3. CASE ~ok
        BY <1>4, <1>5, <3>1, <3>3
      <3> QED
        BY <3>2, <3>3
    <2>2. \A u \in Goroutines : u # g => task'[u] = task[u] /\ exec'[u] = exec[u]
      BY <1>3
    <2> QED
      BY <2>1, <2>2 DEF Coupled
  <1>7. UNCHANGED jobs
    BY DEF Execute
  <1>8. \A j \in Jobs : succeeded'[j] > 0 <=> succeeded[j] > 0 \/ (ok /\ j = k)
    BY <1>2 DEF Execute, TypeOK
  <1>9. SuccessIsSent'
    <2>1. \A j \in Jobs : succeeded'[j] > 0 => sends'[j] = 1
      BY <1>2, <1>8 DEF SuccessIsSent
    <2>2. ASSUME NEW u \in Goroutines, task'[u].pc = "mark_done"
          PROVE  task'[u].job \in Jobs /\ sends'[task'[u].job] = 1
      <3>1. CASE u = g
        <4>1. ok
          BY <1>3, <1>4, <1>5, <2>2, <3>1
        <4> QED
          BY <1>2, <1>3, <1>5, <3>1, <4>1
      <3>2. CASE u # g
        BY <1>3, <2>2, <3>2 DEF SuccessIsSent
      <3> QED
        BY <3>1, <3>2
    <2> QED
      BY <2>1, <2>2 DEF SuccessIsSent
  <1>10. DoneMeansConfirmed'
    BY <1>7 DEF DoneMeansConfirmed
  <1>11. CASE ok
    <2>1. Successful' = Successful \cup {k}
      BY <1>2, <1>8, <1>11 DEF Successful
    <2> QED
      BY <1>2, <1>6, <1>9, <1>10, <1>11, <2>1
  <1>12. CASE ~ok
    <2>1. UNCHANGED Successful
      BY <1>8, <1>12 DEF Successful
    <2> QED
      BY <1>6, <1>9, <1>10, <2>1
  <1> QED
    BY <1>11, <1>12

\* execute proceeds by one statement or one call of the notifier.
LEMMA KeptByRun ==
    ASSUME PipelineInv, NEW p \in Procs, NEW s \in Slots, Run(p, s)
    PROVE  /\ GateP!GateInv' /\ Coupled' /\ SuccessIsSent' /\ DoneMeansConfirmed'
           /\ [EndToEnd!Next]_<<sends, Successful>>
  <1> USE DEF PipelineInv
  <1> DEFINE g == <<p, s>>
  <1>1. g \in Goroutines
    BY DEF Goroutines
  <1>2. PICK o : /\ Gate!Proceed(g, o) /\ gateFaults' \in Nat
                 /\ IF exec'[g].pc = "idle" THEN Execute(p, s, ReturnsNil(g, o))
                                            ELSE UNCHANGED vars
    BY DEF Run, GateOutcome, Gate!Outcome, GateP!GateInv, GateP!TypeOK
  <1>3. /\ GateP!GateInv'
        /\ \A j \in Jobs : sends[j] = 1 => sends'[j] = 1
        /\ \A u \in Goroutines : u # g => exec'[u] = exec[u]
        /\ exec[g].pc # "idle" /\ exec[g].reg \in Jobs
        /\ exec'[g].pc = "idle" \/ exec'[g].reg = exec[g].reg
        /\ ReturnsNil(g, o) => exec'[g].pc = "idle" /\ sends'[exec[g].reg] = 1
    BY <1>1, <1>2, GateProceeds
  <1>4. \/ UNCHANGED sends
        \/ /\ sends[exec[g].reg] = 0 /\ exec[g].pc = "send" /\ exec'[g].pc # "idle"
           /\ sends' = [sends EXCEPT ![exec[g].reg] = 1]
    <2>1. CASE UNCHANGED sends
      BY <2>1
    <2>2. CASE \E answer : Gate!Send(g, answer)
      <3>1. PICK answer : Gate!Send(g, answer)
        BY <2>2
      <3>2. exec[g].pc = "send" /\ sends[exec[g].reg] = 0
        BY <1>1, <3>1 DEF Gate!Send, GateP!GateInv, GateP!CountMatchesHolder
      <3>3. CASE answer = "ok"
        <4>1. exec' = [exec EXCEPT ![g].pc = "mark_sent"]
          BY <3>1, <3>3 DEF Gate!Send, Gate!Goto
        <4>2. exec'[g].pc = "mark_sent"
          BY <1>1, <4>1 DEF GateP!GateInv, GateP!TypeOK
        <4>3. sends' = [sends EXCEPT ![exec[g].reg] = 1]
          BY <3>1, <3>2, <3>3 DEF Gate!Send
        <4> QED
          BY <3>2, <4>2, <4>3
      <3>4. CASE answer # "ok"
        BY <3>1, <3>4 DEF Gate!Send
      <3> QED
        BY <3>3, <3>4
    <2> QED
      BY <1>2, <2>1, <2>2 DEF Gate!Proceed, Gate!Look, Gate!Insert, Gate!Flip, Gate!MarkSent,
                              Gate!MarkFailed
  <1>5. CASE exec'[g].pc = "idle"
    <2>1. Execute(p, s, ReturnsNil(g, o)) /\ UNCHANGED sends
      BY <1>2, <1>4, <1>5
    <2>2. ReturnsNil(g, o) \in BOOLEAN
      BY DEF ReturnsNil, Gate!AlreadySent
    <2>3. /\ Coupled' /\ SuccessIsSent' /\ DoneMeansConfirmed'
          /\ \/ UNCHANGED Successful
             \/ /\ exec[g].reg \in Jobs
                /\ Successful' = Successful \cup {exec[g].reg}
                /\ ReturnsNil(g, o)
      BY <1>3, <1>5, <2>1, <2>2, KeptByReturn
    <2>4. CASE UNCHANGED Successful
      BY <1>3, <2>1, <2>3, <2>4
    <2>5. CASE ~UNCHANGED Successful
      <3>1. EndToEnd!Acknowledge(exec[g].reg)
        BY <1>3, <2>1, <2>3, <2>5 DEF EndToEnd!Acknowledge, Successful
      <3>2. exec[g].reg \in Jobs
        BY <1>3
      <3>3. EndToEnd!Next
        BY <3>1, <3>2 DEF EndToEnd!Next, EndToEnd!Acknowledge
      <3>4. Coupled' /\ SuccessIsSent' /\ DoneMeansConfirmed'
        BY <2>3
      <3> QED
        BY <1>3, <3>3, <3>4, Zenon
    <2> QED
      BY <2>4, <2>5
  <1>6. CASE exec'[g].pc # "idle"
    <2>1. UNCHANGED vars
      BY <1>2, <1>6
    <2>2. UNCHANGED <<jobs, task, succeeded>> /\ UNCHANGED Successful
      BY <2>1 DEF vars, Successful
    <2>3. task[g].pc = "exec" /\ exec[g].reg = task[g].job
      BY <1>1, <1>3 DEF Coupled
    <2>4. Coupled'
      BY <1>3, <1>6, <2>2, <2>3 DEF Coupled
    <2>5. SuccessIsSent' /\ DoneMeansConfirmed'
      BY <1>3, <2>2 DEF SuccessIsSent, DoneMeansConfirmed
    <2>6. CASE UNCHANGED sends
      BY <1>3, <2>2, <2>4, <2>5, <2>6
    <2>7. CASE ~UNCHANGED sends
      <3>1. EndToEnd!Deliver(exec[g].reg)
        BY <1>4, <2>2, <2>7 DEF EndToEnd!Deliver, Successful
      <3> QED
        BY <1>3, <2>4, <2>5, <3>1 DEF EndToEnd!Next
    <2> QED
      BY <2>6, <2>7
  <1> QED
    BY <1>5, <1>6

\* Every step keeps the invariant and is a step of SendOnce or invisible to it.
LEMMA PipelineStep ==
    ASSUME PipelineInv, [PipelineNext]_pipelineVars
    PROVE  PipelineInv' /\ [EndToEnd!Next]_<<sends, Successful>>
  <1>1. [Next]_vars
    BY QueueSimulated
  <1>2. TypeOK' /\ BusyHasJob'
    BY <1>1, TypeStep, BusyStep DEF PipelineInv
  <1>3. CASE UNCHANGED pipelineVars
    <2>1. UNCHANGED <<jobs, task, succeeded, row, exec, sends, acked, gateFaults>>
      BY <1>3 DEF pipelineVars
    <2>2. GateP!GateInv'
      BY <2>1, GateRests DEF PipelineInv, GateP!GateInv, GateP!TypeOK
    <2>3. Coupled' /\ SuccessIsSent' /\ DoneMeansConfirmed' /\ UNCHANGED <<sends, Successful>>
      BY <2>1 DEF PipelineInv, Coupled, SuccessIsSent, DoneMeansConfirmed, Successful
    <2> QED
      BY <1>2, <2>2, <2>3 DEF PipelineInv
  <1>4. CASE PipelineNext
    <2>1. /\ GateP!GateInv' /\ Coupled' /\ SuccessIsSent' /\ DoneMeansConfirmed'
          /\ [EndToEnd!Next]_<<sends, Successful>>
      BY <1>4, KeptByQueue, KeptByStart, KeptByEnd, KeptByRun
      DEF PipelineNext
    <2> QED
      BY <1>2, <2>1 DEF PipelineInv
  <1> QED
    BY <1>3, <1>4

\* The job table never calls a confirmation done that did not go out, through
\* crashes, lost writes, requeues of jobs still running and retries of dead letters.
THEOREM DoneIsConfirmed == PipelineSpec => []DoneMeansConfirmed
  <1>1. PipelineInv => DoneMeansConfirmed
    BY DEF PipelineInv
  <1> QED
    BY <1>1, PipelineInvInit, PipelineStep, PTL DEF PipelineSpec

\* The worker and the gate together implement SendOnce: one confirmation at most
\* per registration, and success only after it.
THEOREM PipelineImplementsSendOnce == PipelineSpec => ImplementsSendOnceEndToEnd
  <1>1. PipelineInit => EndToEnd!Init
    BY DEF PipelineInit, Init, Gate!Init, EndToEnd!Init
  <1>2. ASSUME PipelineInv, [PipelineNext]_pipelineVars
        PROVE  [EndToEnd!Next]_<<sends, {j \in Jobs : succeeded[j] > 0}>>
    BY <1>2, PipelineStep DEF Successful
  <1> QED
    BY <1>1, <1>2, PipelineInvInit, PipelineStep, PTL
    DEF PipelineSpec, ImplementsSendOnceEndToEnd, EndToEnd!Spec

-----------------------------------------------------------------------------
(* The registrations that the export reads: check-in and cancel.            *)

\* A call between its two statements has no answer yet, and the row it is about does
\* not go back to what it was.
UnansweredCalls ==
    \A c \in Callers :
        /\ call[c].pc # "answered" => call[c].answer = "none"
        /\ call[c].pc \in {"exists", "delete"} => call[c].reg \in Regs
        /\ call[c].pc = "exists" => reg[call[c].reg] \in {"checked_in", "cancelled"}
        /\ call[c].pc = "delete" => reg[call[c].reg] # "none"

\* Whoever was told ok has moved the row, and nobody else was told the same.
Winners ==
    \A c \in Callers : call[c].answer = "ok" =>
        /\ call[c].op = "check_in" => reg[call[c].reg] \in {"checked_in", "cancelled"}
        /\ call[c].op = "cancel" => reg[call[c].reg] = "cancelled"
        /\ \A d \in Callers :
              call[d].answer = "ok" /\ call[d].op = call[c].op /\ call[d].reg = call[c].reg => d = c

\* Some call has taken effect on the row, acknowledged or not.
Effected(op, r) ==
    \E c \in Callers : call[c].op = op /\ call[c].reg = r /\ call[c].answer \in {"ok", "error"}

\* A row that moved was moved by a call.
MovedByCall ==
    \A r \in Regs :
        /\ reg[r] = "checked_in" => Effected("check_in", r)
        /\ reg[r] = "cancelled" => Effected("cancel", r)

\* Refusals refer to calls that took effect.
RefusalsRefer ==
    \A c \in Callers :
        /\ call[c].answer = "already_checked_in" => Effected("check_in", call[c].reg)
        /\ call[c].answer = "not_found" => Effected("cancel", call[c].reg)

AttendanceInv ==
    AttendanceTypeOK /\ UnansweredCalls /\ Winners /\ MovedByCall /\ RefusalsRefer

\* One statement of a call: what it may do to its row, and when it may say what.
CallMove(c, pc, op, r, a, v) ==
    /\ call[c].pc # "answered"
    /\ pc \in {"exists", "delete", "answered"} /\ op \in {"check_in", "cancel"}
    /\ r \in Regs /\ a \in Answers \cup {"none"}
    /\ v \in {"none", "registered", "checked_in", "cancelled"}
    /\ call' = [call EXCEPT ![c] = [pc |-> pc, op |-> op, reg |-> r, answer |-> a]]
    /\ reg' = [reg EXCEPT ![r] = v]
    /\ UNCHANGED <<deleted, edits>>
    /\ v = reg[r] \/ /\ a \in {"ok", "error"}
                     /\ \/ op = "check_in" /\ reg[r] = "registered" /\ v = "checked_in"
                        \/ op = "cancel" /\ Exists(r) /\ v = "cancelled"
    /\ a = "ok" => v # reg[r]
    /\ a = "already_checked_in" => reg[r] = "checked_in"
    /\ a = "not_found" => reg[r] = "cancelled"
    /\ pc # "answered" => a = "none"
    /\ pc = "exists" => reg[r] \in {"checked_in", "cancelled"}
    /\ pc = "delete" => reg[r] # "none"

\* Such a statement keeps the account.
LEMMA CallStep ==
    ASSUME AttendanceInv, NEW c \in Callers, NEW pc, NEW op, NEW r, NEW a, NEW v,
           CallMove(c, pc, op, r, a, v)
    PROVE  AttendanceInv'
  <1> USE DEF AttendanceInv, CallMove
  <1> DEFINE rec == [pc |-> pc, op |-> op, reg |-> r, answer |-> a]
  <1>1. /\ call'[c] = rec
        /\ rec.pc = pc /\ rec.op = op /\ rec.reg = r /\ rec.answer = a
        /\ \A d \in Callers : d # c => call'[d] = call[d]
    BY DEF AttendanceTypeOK
  <1>2. call[c].answer = "none"
    BY DEF UnansweredCalls
  <1>3. \A x \in Regs : reg'[x] = IF x = r THEN v ELSE reg[x]
    BY DEF AttendanceTypeOK
  <1>4. AttendanceTypeOK'
    <2>1. rec \in [pc : {"idle", "exists", "delete", "answered"},
                   op : {"none", "check_in", "cancel"},
                   reg : Regs \cup {NoReg}, answer : Answers \cup {"none"}]
      OBVIOUS
    <2> QED
      BY <2>1 DEF AttendanceTypeOK
  <1> HIDE DEF rec
  <1>5. v # reg[r] => (reg[r] = "registered" /\ v = "checked_in") \/ v = "cancelled"
    OBVIOUS
  <1>6. UnansweredCalls'
    <2> SUFFICES ASSUME NEW d \in Callers
                 PROVE  /\ call'[d].pc # "answered" => call'[d].answer = "none"
                        /\ call'[d].pc \in {"exists", "delete"} => call'[d].reg \in Regs
                        /\ call'[d].pc = "exists" => reg'[call'[d].reg] \in {"checked_in", "cancelled"}
                        /\ call'[d].pc = "delete" => reg'[call'[d].reg] # "none"
      BY DEF UnansweredCalls
    <2>1. CASE d = c
      BY <1>1, <1>3, <2>1
    <2>2. CASE d # c
      BY <1>1, <1>3, <1>5, <2>2 DEF UnansweredCalls
    <2> QED
      BY <2>1, <2>2
  <1>7. \A o \in {"check_in", "cancel"}, x \in Regs : Effected(o, x) => Effected(o, x)'
    BY <1>1, <1>2 DEF Effected
  <1>8. a \in {"ok", "error"} => \A o, x : o = op /\ x = r => Effected(o, x)'
    BY <1>1 DEF Effected
  <1>9. MovedByCall'
    <2> SUFFICES ASSUME NEW x \in Regs
                 PROVE  /\ reg'[x] = "checked_in" => Effected("check_in", x)'
                        /\ reg'[x] = "cancelled" => Effected("cancel", x)'
      BY DEF MovedByCall
    <2>1. CASE reg'[x] = reg[x]
      BY <1>7, <2>1 DEF MovedByCall
    <2>2. CASE reg'[x] # reg[x]
      BY <1>3, <1>8, <2>2
    <2> QED
      BY <2>1, <2>2
  <1>10. RefusalsRefer'
    <2> SUFFICES ASSUME NEW d \in Callers, NEW x, x = call'[d].reg
                 PROVE  /\ call'[d].answer = "already_checked_in" => Effected("check_in", x)'
                        /\ call'[d].answer = "not_found" => Effected("cancel", x)'
      BY DEF RefusalsRefer, Effected
    <2>1. CASE d = c
      BY <1>1, <1>7, <2>1 DEF MovedByCall
    <2>2. CASE d # c
      <3>1. call'[d] = call[d]
        BY <1>1, <2>2
      <3>2. Effected("check_in", x) => Effected("check_in", x)'
        BY <1>1, <1>2 DEF Effected
      <3>3. Effected("cancel", x) => Effected("cancel", x)'
        BY <1>1, <1>2 DEF Effected
      <3> QED
        BY <3>1, <3>2, <3>3 DEF RefusalsRefer
    <2> QED
      BY <2>1, <2>2
  <1>11. Winners'
    <2>1. ASSUME NEW d \in Callers, call'[d].answer = "ok", d # c
          PROVE  /\ call'[d] = call[d]
                 /\ call[d].op = "check_in" => reg'[call[d].reg] \in {"checked_in", "cancelled"}
                 /\ call[d].op = "cancel" => reg'[call[d].reg] = "cancelled"
                 /\ ~(a = "ok" /\ call[d].op = op /\ call[d].reg = r)
      <3>1. call'[d] = call[d] /\ call[d].answer = "ok"
        BY <1>1, <2>1
      <3>2. /\ call[d].op = "check_in" => reg[call[d].reg] \in {"checked_in", "cancelled"}
            /\ call[d].op = "cancel" => reg[call[d].reg] = "cancelled"
        BY <3>1 DEF Winners
      <3>3. CASE call[d].reg = r
        BY <1>3, <3>1, <3>2, <3>3 DEF Exists
      <3>4. CASE call[d].reg # r
        <4>1. reg'[call[d].reg] = reg[call[d].reg]
          BY <3>4 DEF AttendanceTypeOK
        <4> QED
          BY <3>1, <3>2, <3>4, <4>1
      <3> QED
        BY <3>3, <3>4
    <2>2. a = "ok" => /\ op = "check_in" => reg'[r] = "checked_in"
                      /\ op = "cancel" => reg'[r] = "cancelled"
      BY <1>3
    <2> SUFFICES ASSUME NEW d \in Callers, call'[d].answer = "ok"
                 PROVE  /\ call'[d].op = "check_in" => reg'[call'[d].reg] \in {"checked_in", "cancelled"}
                        /\ call'[d].op = "cancel" => reg'[call'[d].reg] = "cancelled"
                        /\ \A e \in Callers :
                              /\ call'[e].answer = "ok" /\ call'[e].op = call'[d].op
                              /\ call'[e].reg = call'[d].reg
                              => e = d
      BY DEF Winners
    <2>3. CASE d = c
      <3>1. call'[d].op = op /\ call'[d].reg = r /\ a = "ok"
        BY <1>1, <2>3
      <3> QED
        BY <2>1, <2>2, <2>3, <3>1
    <2>4. CASE d # c
      <3>1. call'[d] = call[d]
        BY <2>1, <2>4
      <3>2. ASSUME NEW e \in Callers, call'[e].answer = "ok", call'[e].op = call'[d].op,
                   call'[e].reg = call'[d].reg
            PROVE  e = d
        <4>1. e # c
          BY <1>1, <2>1, <2>4, <3>1, <3>2
        <4> QED
          BY <2>1, <3>1, <3>2, <4>1 DEF Winners
      <3> QED
        BY <2>1, <2>4, <3>1, <3>2
    <2> QED
      BY <2>3, <2>4
  <1> QED
    BY <1>4, <1>6, <1>9, <1>10, <1>11

\* Every statement of CheckIn and Cancel, every new registration and every edit of
\* the event keeps the account of who did what.
LEMMA AttendanceStep ==
    ASSUME AttendanceInv, [AttendanceNext]_attendanceVars
    PROVE  AttendanceInv'
  <1> USE DEF AttendanceInv
  <1>a. \A r \in Regs : /\ reg[r] \in {"none", "registered", "checked_in", "cancelled"}
                        /\ reg = [reg EXCEPT ![r] = reg[r]]
                        /\ Exists(r) <=> reg[r] \in {"registered", "checked_in"}
    BY DEF AttendanceTypeOK, Exists
  <1>b. \A o : o \in CallOutcomes => o \in {"ok", "lost", "unacked"}
    BY AttendanceAssumption
  <1>1. CASE UNCHANGED <<reg, call>> /\ edits' \in Nat /\ deleted' \in BOOLEAN
    BY <1>1 DEF AttendanceTypeOK, UnansweredCalls, Winners, MovedByCall, RefusalsRefer, Effected
  <1>2. ASSUME NEW r \in Regs, Registered(r) PROVE AttendanceInv'
    <2>1. /\ reg[r] = "none" /\ UNCHANGED <<call, deleted, edits>>
          /\ \A x \in Regs : reg'[x] = IF x = r THEN "registered" ELSE reg[x]
      BY <1>2 DEF Registered, AttendanceTypeOK
    <2>2. AttendanceTypeOK'
      BY <1>2 DEF Registered, AttendanceTypeOK
    <2>3. UnansweredCalls'
      BY <2>1 DEF UnansweredCalls
    <2>4. ASSUME NEW c \in Callers, call[c].answer = "ok", call[c].op \in {"check_in", "cancel"}
          PROVE  reg'[call[c].reg] = reg[call[c].reg]
      <3>1. call[c].reg # r
        BY <2>1, <2>4 DEF Winners
      <3> QED
        BY <1>2, <3>1 DEF Registered, AttendanceTypeOK
    <2>5. Winners'
      BY <2>1, <2>4 DEF Winners
    <2>6. MovedByCall' /\ RefusalsRefer'
      BY <2>1 DEF MovedByCall, RefusalsRefer, Effected
    <2> QED
      BY <2>2, <2>3, <2>5, <2>6
  <1>3. ASSUME NEW c \in Callers, NEW r \in Regs, NEW o \in CallOutcomes, CheckInUpdate(c, r, o)
        PROVE  AttendanceInv'
    <2>0. call[c].pc # "answered" /\ reg[r] # "none" /\ UNCHANGED <<deleted, edits>>
      BY <1>3 DEF CheckInUpdate
    <2>1. CASE reg[r] = "registered" \/ o # "ok"
      <3> DEFINE v == IF Took(o) /\ reg[r] = "registered" THEN "checked_in" ELSE reg[r]
                 a == Told(o, "ok")
      <3>1. /\ call' = [call EXCEPT ![c] = [pc |-> "answered", op |-> "check_in", reg |-> r, answer |-> a]]
            /\ reg' = [reg EXCEPT ![r] = v]
        BY <1>3, <1>a, <2>1 DEF CheckInUpdate, Answer
      <3>2. /\ v \in {"none", "registered", "checked_in", "cancelled"}
            /\ a \in {"ok", "error"} /\ a \in Answers
            /\ v = reg[r] \/ (reg[r] = "registered" /\ v = "checked_in")
            /\ a = "ok" => v # reg[r]
        BY <1>a, <2>1 DEF Took, Told, Answers
      <3> HIDE DEF v, a
      <3>9. CallMove(c, "answered", "check_in", r, a, v)
        BY <2>0, <3>1, <3>2 DEF CallMove
      <3> QED
        BY <3>9, CallStep
    <2>2. CASE ~(reg[r] = "registered" \/ o # "ok")
      <3>1. /\ call' = [call EXCEPT ![c] = [pc |-> "exists", op |-> "check_in", reg |-> r, answer |-> "none"]]
            /\ reg' = [reg EXCEPT ![r] = reg[r]]
        BY <1>3, <1>a, <2>2 DEF CheckInUpdate, Goto
      <3>2. reg[r] \in {"checked_in", "cancelled"}
        BY <1>a, <2>0, <2>2
      <3>9. CallMove(c, "exists", "check_in", r, "none", reg[r])
        BY <1>a, <2>0, <3>1, <3>2 DEF CallMove
      <3> QED
        BY <3>9, CallStep
    <2> QED
      BY <2>1, <2>2
  <1>4. ASSUME NEW c \in Callers, NEW o \in CallOutcomes, CheckInExists(c, o)
        PROVE  AttendanceInv'
    <2> DEFINE r == call[c].reg
               a == Told(o, IF reg[r] = "checked_in" THEN "already_checked_in" ELSE "not_found")
    <2>1. call[c].pc # "answered" /\ r \in Regs /\ reg[r] \in {"checked_in", "cancelled"}
      BY <1>4 DEF CheckInExists, UnansweredCalls
    <2>2. /\ call' = [call EXCEPT ![c] = [pc |-> "answered", op |-> "check_in", reg |-> r, answer |-> a]]
          /\ reg' = [reg EXCEPT ![r] = reg[r]] /\ UNCHANGED <<deleted, edits>>
      BY <1>4, <1>a, <2>1 DEF CheckInExists, Answer
    <2>3. /\ a \in Answers /\ a # "ok"
          /\ a = "already_checked_in" => reg[r] = "checked_in"
          /\ a = "not_found" => reg[r] = "cancelled"
      BY <2>1 DEF Told, Answers
    <2> HIDE DEF a, r
    <2>9. CallMove(c, "answered", "check_in", r, a, reg[r])
      BY <1>a, <2>1, <2>2, <2>3 DEF CallMove
    <2> QED
      BY <2>9, CallStep
  <1>5. ASSUME NEW c \in Callers, NEW r \in Regs, NEW o \in CallOutcomes, CancelLoad(c, r, o)
        PROVE  AttendanceInv'
    <2>0. /\ call[c].pc # "answered" /\ reg[r] # "none" /\ UNCHANGED <<deleted, edits>>
          /\ reg' = [reg EXCEPT ![r] = reg[r]]
      BY <1>5, <1>a DEF CancelLoad
    <2>1. CASE o = "ok" /\ Exists(r) /\ r \in MayCancel[c]
      <3>1. call' = [call EXCEPT ![c] = [pc |-> "delete", op |-> "cancel", reg |-> r, answer |-> "none"]]
        BY <1>5, <2>1 DEF CancelLoad, Goto
      <3>9. CallMove(c, "delete", "cancel", r, "none", reg[r])
        BY <1>a, <2>0, <3>1 DEF CallMove
      <3> QED
        BY <3>9, CallStep
    <2>2. CASE ~(o = "ok" /\ Exists(r) /\ r \in MayCancel[c])
      <3> DEFINE a == Told(o, IF Exists(r) THEN "forbidden" ELSE "not_found")
      <3>1. call' = [call EXCEPT ![c] = [pc |-> "answered", op |-> "cancel", reg |-> r, answer |-> a]]
        BY <1>5, <2>2 DEF CancelLoad, Answer
      <3>2. a \in Answers /\ a \notin {"ok", "already_checked_in"} /\ (a = "not_found" => reg[r] = "cancelled")
        BY <1>a, <2>0 DEF Told, Answers
      <3> HIDE DEF a
      <3>9. CallMove(c, "answered", "cancel", r, a, reg[r])
        BY <1>a, <2>0, <3>1, <3>2 DEF CallMove
      <3> QED
        BY <3>9, CallStep
    <2> QED
      BY <2>1, <2>2
  <1>6. ASSUME NEW c \in Callers, NEW o \in CallOutcomes, CancelDelete(c, o)
        PROVE  AttendanceInv'
    <2> DEFINE r == call[c].reg
               v == IF Took(o) THEN "cancelled" ELSE reg[r]
               a == Told(o, IF Exists(r) THEN "ok" ELSE "not_found")
    <2>1. call[c].pc # "answered" /\ r \in Regs /\ reg[r] # "none"
      BY <1>6 DEF CancelDelete, UnansweredCalls
    <2>2. /\ call' = [call EXCEPT ![c] = [pc |-> "answered", op |-> "cancel", reg |-> r, answer |-> a]]
          /\ reg' = [reg EXCEPT ![r] = v] /\ UNCHANGED <<deleted, edits>>
      BY <1>6, <1>a, <2>1 DEF CancelDelete, Answer
    <2>3. /\ v \in {"none", "registered", "checked_in", "cancelled"}
          /\ a \in Answers /\ a # "already_checked_in"
          /\ v = reg[r] \/ (Exists(r) /\ v = "cancelled" /\ a \in {"ok", "error"})
          /\ a = "ok" => v # reg[r]
          /\ a = "not_found" => reg[r] = "cancelled"
      BY <1>a, <1>b, <2>1 DEF Told, Took, Answers
    <2> HIDE DEF a, v, r
    <2>9. CallMove(c, "answered", "cancel", r, a, v)
      BY <2>1, <2>2, <2>3 DEF CallMove
    <2> QED
      BY <2>9, CallStep
  <1>7. CASE Edit
    <2>1. edits' \in Nat /\ deleted' \in BOOLEAN /\ UNCHANGED <<reg, call>>
      BY <1>7 DEF Edit, AttendanceTypeOK
    <2> QED
      BY <1>1, <2>1
  <1>8. CASE UNCHANGED attendanceVars
    <2>1. edits' \in Nat /\ deleted' \in BOOLEAN /\ UNCHANGED <<reg, call>>
      BY <1>8 DEF attendanceVars, AttendanceTypeOK
    <2> QED
      BY <1>1, <2>1
  <1> HIDE DEF AttendanceInv
  <1>9. ASSUME NEW c \in Callers, NEW o \in CallOutcomes,
               \/ \E r \in Regs : CheckInUpdate(c, r, o) \/ CancelLoad(c, r, o)
               \/ CheckInExists(c, o)
               \/ CancelDelete(c, o)
        PROVE  AttendanceInv'
    BY <1>3, <1>4, <1>5, <1>6, <1>9
  <1> QED
    BY <1>2, <1>7, <1>8, <1>9 DEF AttendanceNext

\* The account is kept in every reachable state.
LEMMA AttendanceAlways == AttendanceSpec => []AttendanceInv
  <1>1. ASSUME AttendanceInit PROVE AttendanceInv
    <2>1. AttendanceTypeOK
      BY <1>1 DEF AttendanceInit, AttendanceTypeOK, NoCall
    <2>2. /\ \A r \in Regs : reg[r] = "none"
          /\ \A c \in Callers : call[c].pc = "idle" /\ call[c].answer = "none"
      BY <1>1 DEF AttendanceInit, NoCall
    <2> QED
      BY <2>1, <2>2 DEF AttendanceInv, UnansweredCalls, Winners, MovedByCall, RefusalsRefer
  <1> QED
    BY <1>1, AttendanceStep, PTL DEF AttendanceSpec

\* Rows and calls keep their types.
THEOREM AttendanceTypeCorrect == AttendanceSpec => []AttendanceTypeOK
  <1>1. AttendanceInv => AttendanceTypeOK
    BY DEF AttendanceInv
  <1> QED
    BY <1>1, AttendanceAlways, PTL

\* However many scans and cancellations of a ticket overlap, with answers lost and the
\* event deleted meanwhile: one check-in and one cancellation of it succeed at most.
THEOREM TicketAdmitsOnce == AttendanceSpec => []OneWinner
  <1>1. ASSUME AttendanceInv, NEW r \in Regs, NEW op \in {"check_in", "cancel"}
        PROVE  Cardinality(Calls(op, r, {"ok"})) <= 1
    <2> DEFINE S == Calls(op, r, {"ok"})
    <2>1. \A c, d \in S : c = d
      BY <1>1 DEF AttendanceInv, Winners, Calls
    <2>2. CASE S = {}
      BY <2>2, FS_EmptySet
    <2>3. CASE S # {}
      <3>1. PICK c : S = {c}
        BY <2>1, <2>3
      <3>2. Cardinality({c}) = 1
        BY FS_Singleton
      <3> QED
        BY <3>1, <3>2
    <2> QED
      BY <2>2, <2>3
  <1>2. AttendanceInv => OneWinner
    BY <1>1 DEF OneWinner
  <1> QED
    BY <1>2, AttendanceAlways, PTL

\* No refusal is made up, whatever happened between the two statements of the refused
\* call.
THEOREM RefusalsAreExplained == AttendanceSpec => []RefusalsExplained
  <1>1. AttendanceInv => RefusalsExplained
    <2> SUFFICES ASSUME AttendanceInv, NEW r \in Regs
                 PROVE  /\ Calls("check_in", r, {"already_checked_in"}) # {} =>
                               Calls("check_in", r, {"ok", "error"}) # {}
                        /\ Calls("check_in", r, {"not_found"}) \cup Calls("cancel", r, {"not_found"}) # {} =>
                               Calls("cancel", r, {"ok", "error"}) # {}
      BY DEF RefusalsExplained
    <2>1. \A op : Effected(op, r) => Calls(op, r, {"ok", "error"}) # {}
      BY DEF Effected, Calls
    <2>2. Calls("check_in", r, {"already_checked_in"}) # {} => Effected("check_in", r)
      BY DEF AttendanceInv, RefusalsRefer, Calls
    <2>3. Calls("check_in", r, {"not_found"}) \cup Calls("cancel", r, {"not_found"}) # {} =>
              Effected("cancel", r)
      BY DEF AttendanceInv, RefusalsRefer, Calls
    <2> QED
      BY <2>1, <2>2, <2>3
  <1> QED
    BY <1>1, AttendanceAlways, PTL

-----------------------------------------------------------------------------
(* The export: what it is to the queue and to the registrations.            *)

\* Every step of the export is a step of JobQueue or leaves the queue alone, and the
\* same of the registrations.
LEMMA ExportSimulated ==
    ASSUME [ExportNext]_exportVars
    PROVE  [Next]_vars /\ [AttendanceNext]_attendanceVars
  <1>1. ASSUME OtherQueueStep PROVE Next /\ UNCHANGED attendanceVars
    BY <1>1 DEF OtherQueueStep, QueueStep, Next, ProcStep, GoroutineStep
  <1>2. ASSUME NEW p \in Procs, EndExport(p) PROVE Next /\ UNCHANGED attendanceVars
    BY <1>2 DEF EndExport, Next, ProcStep
  <1>3. ASSUME NEW p \in Procs, NEW s \in Slots, StartExport(p, s)
        PROVE  Next /\ UNCHANGED attendanceVars
    BY <1>3 DEF StartExport, Next, ProcStep
  <1>4. ASSUME NEW p \in Procs, NEW s \in Slots, NEW ok \in BOOLEAN, Execute(p, s, ok)
        PROVE  Next
    BY <1>4 DEF Next, ProcStep, GoroutineStep
  <1>5. ASSUME NEW p \in Procs, NEW s \in Slots, Work(p, s)
        PROVE  [Next]_vars /\ UNCHANGED attendanceVars
    BY <1>4, <1>5 DEF Work, List, ListFails, Save
  <1>6. ASSUME NEW j \in Jobs, Request(j) PROVE Next /\ UNCHANGED attendanceVars
    BY <1>6 DEF Request, Next
  <1>7. ASSUME Change PROVE AttendanceNext /\ UNCHANGED vars
    BY <1>7 DEF Change
  <1> QED
    BY <1>1, <1>2, <1>3, <1>5, <1>6, <1>7 DEF ExportNext, exportVars, vars, attendanceVars

\* The two statements of the export take the part of JobQueue's Execute and change
\* nothing else of the queue: every theorem about JobQueue holds of it.
THEOREM ExportImplementsQueue == ExportSpec => Spec
  <1>1. ExportInit => Init
    BY DEF ExportInit
  <1>2. [ExportNext]_exportVars => [Next]_vars
    BY ExportSimulated
  <1> QED
    BY <1>1, <1>2, PTL DEF ExportSpec, Spec

\* The export only reads the registrations: every theorem about Attendance holds of
\* the two together.
THEOREM ExportImplementsAttendance == ExportSpec => AttendanceSpec
  <1>1. ExportInit => AttendanceInit
    BY DEF ExportInit
  <1>2. [ExportNext]_exportVars => [AttendanceNext]_attendanceVars
    BY ExportSimulated
  <1> QED
    BY <1>1, <1>2, PTL DEF ExportSpec, AttendanceSpec

\* Tickets admit once and refusals are explained while exports run.
COROLLARY ExportKeepsAttendance == ExportSpec => [](OneWinner /\ RefusalsExplained)
  BY ExportImplementsAttendance, TicketAdmitsOnce, RefusalsAreExplained, PTL

-----------------------------------------------------------------------------
(* From the registrations to the file.                                      *)

\* One SELECT reads the table as it is.
LEMMA ListIsTruth == ListForEventExport = Truth /\ Truth \in CSV
  <1> DEFINE live == {r \in Regs : ~deleted /\ reg[r] \in {"registered", "checked_in"}}
             there == {r \in live : reg[r] = "checked_in"}
  <1>1. Truth = [listed |-> live, checked_in |-> there]
    BY DEF Truth
  <1>2. live \in SUBSET Regs /\ there \in SUBSET Regs
    OBVIOUS
  <1>3. CASE deleted
    <2>1. live = {} /\ there = {}
      BY <1>3
    <2> QED
      BY <1>1, <1>3, <2>1 DEF ListForEventExport, CSV
  <1>4. CASE ~deleted
    <2>1. live = {r \in Regs : Exists(r)} /\ there = {r \in Regs : reg[r] = "checked_in"}
      BY <1>4 DEF Exists
    <2>2. ListForEventExport = [listed |-> live, checked_in |-> there]
      BY <1>4, <2>1 DEF ListForEventExport
    <2> QED
      BY <1>1, <1>2, <2>2 DEF CSV
  <1> QED
    BY <1>3, <1>4

\* A goroutine has read something exactly while it executes.
Drafted ==
    \A t \in Goroutines :
        /\ draft[t].pc # "idle" <=> task[t].pc = "exec"
        /\ draft[t].pc = "save" => draft[t].csv \in CSV

\* Whoever is about to report success has a file.
Exported ==
    \A t \in Goroutines : task[t].pc = "mark_done" => file[task[t].job] # NoFile

\* What the table shows now, and what a goroutine has read of it, it has shown since
\* the request, for every job that still waits for its file.
Witnessed ==
    /\ \A j \in Jobs : jobs[j].status # "absent" /\ file[j] = NoFile => Truth \in shown[j]
    /\ \A t \in Goroutines :
          draft[t].pc = "save" /\ file[task[t].job] = NoFile => draft[t].csv \in shown[task[t].job]

ExportInv ==
    /\ TypeOK
    /\ BusyHasJob
    /\ ExportTypeOK
    /\ Drafted
    /\ Exported
    /\ DoneMeansExported
    /\ Witnessed

\* A step that leaves the files and the registrations alone: each goroutine keeps, drops,
\* begins or makes its draft, and nobody comes to report a success.
WithoutFile ==
    /\ UNCHANGED <<file, shown, reg, deleted>>
    /\ \A j \in Jobs : jobs[j].status = "absent" => jobs'[j].status = "absent"
    /\ \A j \in Jobs : jobs'[j].status = "done" =>
          \/ jobs[j].status = "done"
          \/ \E t \in Goroutines : task[t].pc = "mark_done" /\ task[t].job = j
    /\ \A t \in Goroutines :
          /\ task'[t].pc = "mark_done" => task'[t] = task[t]
          /\ draft'[t].pc # "idle" <=> task'[t].pc = "exec"
          /\ draft'[t].pc = "save" =>
                /\ task'[t] = task[t] /\ task[t].pc = "exec"
                /\ draft'[t] = draft[t] \/ draft'[t].csv = ListForEventExport

\* Such a step keeps every account of the files.
LEMMA WithoutFileStep ==
    ASSUME ExportInv, WithoutFile
    PROVE  Drafted' /\ Exported' /\ DoneMeansExported' /\ Witnessed'
  <1> USE DEF ExportInv, WithoutFile
  <1>1. Truth' = Truth
    BY DEF Truth
  <1>2. \A t \in Goroutines : draft'[t].pc = "save" =>
            /\ task[t].job \in Jobs /\ jobs[task[t].job].status # "absent"
            /\ draft'[t] = draft[t] \/ draft'[t].csv = Truth
    BY NotProducer, ListIsTruth DEF BusyHasJob
  <1>3. Drafted'
    BY <1>2, ListIsTruth DEF Drafted
  <1>4. Exported'
    BY DEF Exported
  <1>5. DoneMeansExported'
    BY DEF DoneMeansExported, Exported, Download
  <1>6. Witnessed'
    <2>1. \A j \in Jobs : jobs'[j].status # "absent" /\ file'[j] = NoFile => Truth' \in shown'[j]
      BY <1>1 DEF Witnessed
    <2>2. ASSUME NEW t \in Goroutines, draft'[t].pc = "save", file'[task'[t].job] = NoFile
          PROVE  draft'[t].csv \in shown'[task'[t].job]
      <3>1. /\ task'[t] = task[t] /\ task[t].job \in Jobs /\ jobs[task[t].job].status # "absent"
            /\ file[task[t].job] = NoFile
        BY <1>2, <2>2
      <3>2. CASE draft'[t] = draft[t]
        BY <2>2, <3>1, <3>2 DEF Witnessed
      <3>3. CASE draft'[t].csv = Truth
        BY <3>1, <3>3 DEF Witnessed
      <3> QED
        BY <1>2, <2>2, <3>2, <3>3
    <2> QED
      BY <2>1, <2>2 DEF Witnessed
  <1> QED
    BY <1>3, <1>4, <1>5, <1>6

\* What the end of an execution does to its goroutine.
LEMMA ExecuteMoves ==
    ASSUME TypeOK, NEW p \in Procs, NEW s \in Slots, NEW ok \in BOOLEAN, Execute(p, s, ok)
    PROVE  /\ <<p, s>> \in Goroutines /\ task[<<p, s>>].pc = "exec"
           /\ \A t \in Tasks : t # <<p, s>> => task'[t] = task[t]
           /\ task'[<<p, s>>].job = task[<<p, s>>].job
           /\ ok => task'[<<p, s>>].pc = "mark_done"
           /\ ~ok => task'[<<p, s>>].pc \in {"reschedule", "mark_failed"}
           /\ UNCHANGED <<jobs, proc, admin, faults>>
  <1> DEFINE g == <<p, s>>
             q == IF ok THEN "mark_done" ELSE AfterFailure(task[g])
  <1>1. g \in Tasks /\ g \in Goroutines /\ task[g] \in Task
    BY DEF Tasks, Goroutines, TypeOK
  <1>2. /\ [task[g] EXCEPT !.pc = q].pc = q /\ [task[g] EXCEPT !.pc = q].job = task[g].job
        /\ task' = [task EXCEPT ![g] = [task[g] EXCEPT !.pc = q]]
    BY <1>1 DEF Execute, Task
  <1>3. ok => q = "mark_done"
    OBVIOUS
  <1>4. ~ok => q \in {"reschedule", "mark_failed"}
    BY DEF AfterFailure
  <1> HIDE DEF q
  <1>5. task'[g] = [task[g] EXCEPT !.pc = q] /\ \A t \in Tasks : t # g => task'[t] = task[t]
    BY <1>1, <1>2 DEF TypeOK
  <1> QED
    BY <1>1, <1>2, <1>3, <1>4, <1>5 DEF Execute

\* Every step keeps the accounts of the files; a file is made once, and of what the
\* table has shown since the request.
LEMMA ExportStep ==
    ASSUME ExportInv, [ExportNext]_exportVars
    PROVE  /\ ExportInv'
           /\ \A j \in Jobs : file[j] # NoFile => file'[j] = file[j]
           /\ \A j \in Jobs : file'[j] # file[j] => file'[j] \in shown[j]
  <1> DEFINE Result == /\ ExportTypeOK' /\ Drafted' /\ Exported' /\ DoneMeansExported' /\ Witnessed'
                       /\ \A j \in Jobs : file[j] # NoFile => file'[j] = file[j]
                       /\ \A j \in Jobs : file'[j] # file[j] => file'[j] \in shown[j]
  <1> USE DEF ExportInv
  <1>a. TypeOK' /\ BusyHasJob'
    BY ExportSimulated, TypeStep, BusyStep
  <1>b. \A t \in Goroutines : /\ t \in Tasks /\ \A p \in Procs : t # <<p, Producer>>
                              /\ task[t].pc = "exec" => task[t].job \in Jobs
                              /\ task[t].pc = "exec" => jobs[task[t].job].status # "absent"
    BY NotProducer DEF BusyHasJob
  <1>c. NoDraft \in Draft /\ [pc |-> "list", csv |-> NoFile] \in Draft
    BY DEF Draft, NoDraft
  <1>d. \A p \in Procs, s \in Slots : <<p, s>> \in Goroutines /\ <<p, s>> \in Tasks
    BY DEF Goroutines, Tasks
  <1>e. ASSUME NEW p \in Procs, NEW o, ExportOutcome(p, o) PROVE exportFaults' \in Nat
    BY <1>e DEF ExportOutcome, ExportTypeOK
  <1>1. ASSUME WithoutFile, ExportTypeOK' PROVE Result
    BY <1>1, WithoutFileStep DEF WithoutFile
  <1>2. ASSUME NEW p \in Procs, EndExport(p) PROVE Result
    <2>1. ExportTypeOK'
      BY <1>2, <1>c DEF EndExport, ExportTypeOK
    <2>2. \A t \in Goroutines : /\ task'[t] = IF t[1] = p THEN Idle ELSE task[t]
                                /\ draft'[t] = IF t[1] = p THEN NoDraft ELSE draft[t]
      BY <1>2, <1>b DEF EndExport, Exit, Crash, Vanish
    <2>3. UNCHANGED <<jobs, file, shown, reg, deleted>>
      BY <1>2 DEF EndExport, Exit, Crash, Vanish, attendanceVars
    <2>4. WithoutFile
      BY <2>2, <2>3 DEF WithoutFile, Drafted, Idle, NoDraft
    <2> QED
      BY <1>1, <2>1, <2>4
  <1>3. ASSUME NEW p \in Procs, NEW s \in Slots, StartExport(p, s) PROVE Result
    <2> DEFINE g == <<p, s>>  q == <<p, Producer>>  c == [task[q] EXCEPT !.pc = "exec"]
    <2>1. ExportTypeOK'
      BY <1>3, <1>c DEF StartExport, ExportTypeOK
    <2>2. q \in Tasks /\ g \in Goroutines /\ c.pc = "exec"
      BY <1>d DEF Tasks, TypeOK, Task
    <2>3. \A t \in Goroutines :
              /\ task'[t] = IF t = g THEN c ELSE task[t]
              /\ draft'[t] = IF t = g THEN [pc |-> "list", csv |-> NoFile] ELSE draft[t]
      BY <1>3, <1>b, <1>d, <2>2 DEF StartExport, HandOver, TypeOK, ExportTypeOK
    <2>4. UNCHANGED <<jobs, file, shown, reg, deleted>>
      BY <1>3 DEF StartExport, HandOver, attendanceVars
    <2> HIDE DEF c
    <2>5. WithoutFile
      BY <2>2, <2>3, <2>4 DEF WithoutFile, Drafted
    <2> QED
      BY <1>1, <2>1, <2>5
  <1>4. ASSUME NEW p \in Procs, NEW s \in Slots, List(p, s) PROVE Result
    <2> DEFINE g == <<p, s>>  d == [pc |-> "save", csv |-> ListForEventExport]
    <2>1. d \in Draft /\ d.pc = "save" /\ d.csv = ListForEventExport
      BY ListIsTruth DEF Draft
    <2> HIDE DEF d
    <2>2. draft' = [draft EXCEPT ![g] = d] /\ draft[g].pc = "list"
      BY <1>4 DEF List, d
    <2>3. UNCHANGED <<jobs, task, file, shown, reg, deleted, exportFaults>>
      BY <1>4 DEF List, vars, attendanceVars
    <2>4. ExportTypeOK'
      BY <2>1, <2>2, <2>3 DEF ExportTypeOK
    <2>5. \A t \in Goroutines : draft'[t] = IF t = g THEN d ELSE draft[t]
      BY <2>2 DEF ExportTypeOK
    <2>6. WithoutFile
      BY <1>d, <2>1, <2>2, <2>3, <2>5 DEF WithoutFile, Drafted
    <2> QED
      BY <1>1, <2>4, <2>6
  <1>5. ASSUME NEW p \in Procs, NEW s \in Slots, ListFails(p, s) PROVE Result
    <2> DEFINE g == <<p, s>>
    <2>1. ExportTypeOK'
      BY <1>5, <1>c, <1>e DEF ListFails, ExportTypeOK
    <2>2. /\ \A t \in Tasks : t # g => task'[t] = task[t]
          /\ task'[g].pc \in {"reschedule", "mark_failed"} /\ UNCHANGED jobs
      BY <1>5, ExecuteMoves DEF ListFails
    <2>3. \A t \in Goroutines : draft'[t] = IF t = g THEN NoDraft ELSE draft[t]
      BY <1>5 DEF ListFails, ExportTypeOK
    <2>4. UNCHANGED <<file, shown, reg, deleted>>
      BY <1>5 DEF ListFails, attendanceVars
    <2>5. WithoutFile
      BY <1>b, <2>2, <2>3, <2>4 DEF WithoutFile, Drafted, NoDraft
    <2> QED
      BY <1>1, <2>1, <2>5
  <1>6. ASSUME OtherQueueStep PROVE Result
    <2>1. QueueStep /\ UNCHANGED <<draft, file, shown, exportFaults, reg, deleted>>
      BY <1>6 DEF OtherQueueStep, attendanceVars
    <2>2. \A t \in Goroutines : /\ task[t].pc = "exec" \/ task'[t].pc = "exec" => task'[t] = task[t]
                                /\ task'[t].pc = "mark_done" => task'[t] = task[t]
      BY <2>1, QueueKeepsTasks
    <2>3. \A j \in Jobs : jobs'[j].status = "done" =>
              \/ jobs[j].status = "done"
              \/ \E t \in Goroutines : task[t].pc = "mark_done" /\ task[t].job = j
      BY <2>1, DoneByMarkDone
    <2>4. WithoutFile
      BY <1>6, <2>1, <2>2, <2>3 DEF WithoutFile, OtherQueueStep, Drafted
    <2>5. ExportTypeOK'
      BY <2>1 DEF ExportTypeOK
    <2> QED
      BY <1>1, <2>4, <2>5
  <1>7. ASSUME UNCHANGED exportVars PROVE Result
    <2>1. UNCHANGED <<jobs, task, draft, file, shown, exportFaults, reg, deleted>>
      BY <1>7 DEF exportVars
    <2>2. WithoutFile
      BY <2>1 DEF WithoutFile, Drafted
    <2>3. ExportTypeOK'
      BY <2>1 DEF ExportTypeOK
    <2> QED
      BY <1>1, <2>2, <2>3
  <1>8. ASSUME NEW j \in Jobs, Request(j) PROVE Result
    <2>1. /\ jobs[j].status = "absent" /\ jobs'[j].status = "pending"
          /\ \A i \in Jobs : i # j => jobs'[i] = jobs[i]
      BY <1>8 DEF Request, Create, AbsentRow, TypeOK
    <2>2. UNCHANGED <<task, draft, file, exportFaults, reg, deleted>>
      BY <1>8 DEF Request, Create, attendanceVars
    <2>3. \A i \in Jobs : shown'[i] = IF i = j THEN {Truth} ELSE shown[i]
      BY <1>8 DEF Request, ExportTypeOK
    <2>4. ExportTypeOK'
      BY <1>8, <2>2, ListIsTruth DEF Request, ExportTypeOK
    <2>5. Drafted' /\ Exported' /\ DoneMeansExported'
      BY <2>1, <2>2 DEF Drafted, Exported, DoneMeansExported, Download
    <2>6. Truth' = Truth
      BY <2>2 DEF Truth
    <2>7. Witnessed'
      BY <1>b, <2>1, <2>2, <2>3, <2>6 DEF Witnessed, Drafted
    <2> QED
      BY <2>2, <2>4, <2>5, <2>7
  <1>9. ASSUME Change PROVE Result
    <2>1. UNCHANGED <<jobs, task, draft, file, exportFaults>>
      BY <1>9 DEF Change, vars
    <2>2. \A j \in Jobs : shown'[j] = IF jobs[j].status # "absent" /\ file[j] = NoFile
                                      THEN shown[j] \cup {Truth'} ELSE shown[j]
      BY <1>9 DEF Change
    <2>3. Truth' \in CSV
      BY DEF Truth, CSV
    <2>4. shown' \in [Jobs -> SUBSET CSV]
      BY <1>9, <2>3 DEF Change, ExportTypeOK
    <2>5. ExportTypeOK' /\ Drafted' /\ Exported' /\ DoneMeansExported'
      BY <2>1, <2>4 DEF ExportTypeOK, Drafted, Exported, DoneMeansExported, Download
    <2>6. Witnessed'
      BY <1>b, <2>1, <2>2 DEF Witnessed, Drafted
    <2> QED
      BY <2>1, <2>5, <2>6
  <1>10. ASSUME NEW p \in Procs, NEW s \in Slots, NEW o, Save(p, s, o) PROVE Result
    <2> DEFINE g == <<p, s>>  j == task[g].job  ok == o = "ok" /\ file[j] = NoFile
    <2>1. draft[g].pc = "save" /\ g \in Goroutines /\ j \in Jobs /\ draft[g].csv \in CSV
      BY <1>10, <1>b, <1>d DEF Save, Drafted
    <2>2. draft[g].csv # NoFile
      BY <2>1, ExportAssumption DEF CSV
    <2>3. /\ \A t \in Tasks : t # g => task'[t] = task[t]
          /\ task'[g].job = j /\ task'[g].pc # "exec"
          /\ task'[g].pc = "mark_done" => ok
          /\ UNCHANGED jobs
      <3>1. ok \in BOOLEAN /\ Execute(p, s, ok)
        BY <1>10 DEF Save
      <3> HIDE DEF ok
      <3> QED
        BY <3>1, ExecuteMoves
    <2>4. \A t \in Goroutines : draft'[t] = IF t = g THEN NoDraft ELSE draft[t]
      BY <1>10 DEF Save, ExportTypeOK
    <2>5. UNCHANGED <<reg, deleted>> /\ Truth' = Truth
      BY <1>10 DEF Save, attendanceVars, Truth
    <2>6. CASE Applied(o) /\ file[j] = NoFile
      <3>1. /\ \A i \in Jobs : file'[i] = IF i = j THEN draft[g].csv ELSE file[i]
            /\ file' \in [Jobs -> CSV \cup {NoFile}]
        BY <1>10, <2>1, <2>6 DEF Save, ExportTypeOK
      <3>2. file' # file
        BY <2>1, <2>2, <2>6, <3>1
      <3>3. /\ \A i \in Jobs : i # j => shown'[i] = shown[i]
            /\ shown' \in [Jobs -> SUBSET CSV]
        BY <1>10, <3>2, <2>1 DEF Save, ExportTypeOK
      <3>4. ExportTypeOK'
        BY <1>10, <1>c, <1>e, <3>1, <3>3 DEF Save, ExportTypeOK
      <3>5. Drafted'
        BY <1>b, <2>3, <2>4 DEF Drafted, NoDraft
      <3>6. ASSUME NEW t \in Goroutines, task'[t].pc = "mark_done"
            PROVE  file'[task'[t].job] # NoFile
        <4>1. CASE t = g
          BY <2>1, <2>2, <2>3, <3>1, <4>1
        <4>2. CASE t # g
          <5>1. task'[t] = task[t] /\ task[t].job \in Jobs /\ file[task[t].job] # NoFile
            BY <1>b, <2>3, <3>6, <4>2 DEF Exported, BusyHasJob
          <5> QED
            BY <2>2, <3>1, <5>1
        <4> QED
          BY <4>1, <4>2
      <3>7. Exported' /\ DoneMeansExported'
        BY <2>2, <2>3, <3>1, <3>6 DEF Exported, DoneMeansExported, Download
      <3>8. Witnessed'
        BY <1>b, <2>2, <2>3, <2>4, <2>5, <3>1, <3>3 DEF Witnessed, Drafted, NoDraft
      <3>9. draft[g].csv \in shown[j]
        BY <2>1, <2>6 DEF Witnessed
      <3> QED
        BY <2>6, <3>1, <3>4, <3>5, <3>7, <3>8, <3>9
    <2>7. CASE ~(Applied(o) /\ file[j] = NoFile)
      <3>1. UNCHANGED <<file, shown>>
        BY <1>10, <2>7 DEF Save
      <3>2. ~ok
        BY <2>7 DEF Applied
      <3> HIDE DEF ok
      <3>3. ExportTypeOK'
        BY <1>10, <1>c, <1>e, <3>1 DEF Save, ExportTypeOK
      <3>4. WithoutFile
        BY <1>b, <2>3, <2>4, <2>5, <3>1, <3>2 DEF WithoutFile, Drafted, NoDraft
      <3> QED
        BY <1>1, <3>3, <3>4
    <2> QED
      BY <2>6, <2>7
  <1> HIDE DEF Result
  <1>11. Result
    BY <1>2, <1>3, <1>4, <1>5, <1>6, <1>7, <1>8, <1>9, <1>10 DEF ExportNext, Work
  <1> QED
    BY <1>a, <1>11 DEF Result

\* The accounts are kept in every reachable state.
LEMMA ExportAlways == ExportSpec => []ExportInv
  <1>1. ASSUME ExportInit PROVE ExportInv
    <2>1. TypeOK
      BY <1>1, TypeInit DEF ExportInit
    <2>2. \A t \in Tasks : task[t].pc = "idle"
      BY <1>1 DEF ExportInit, Init, Idle
    <2>3. \A j \in Jobs : jobs[j].status = "absent"
      BY <1>1 DEF ExportInit, Init, AbsentRow
    <2>4. \A t \in Goroutines : draft[t].pc = "idle"
      BY <1>1 DEF ExportInit, NoDraft
    <2>5. ExportTypeOK
      BY <1>1 DEF ExportInit, ExportTypeOK, Draft, NoDraft
    <2> QED
      BY <2>1, <2>2, <2>3, <2>4, <2>5, NotProducer
      DEF ExportInv, BusyHasJob, Drafted, Exported, DoneMeansExported, Witnessed
  <1>2. ExportInv /\ [ExportNext]_exportVars => ExportInv'
    BY ExportStep
  <1> QED
    BY <1>1, <1>2, PTL DEF ExportSpec

\* Drafts, files and counters keep their types.
THEOREM ExportTypeCorrect == ExportSpec => []ExportTypeOK
  <1>1. ExportInv => ExportTypeOK
    BY DEF ExportInv
  <1> QED
    BY <1>1, ExportAlways, PTL

\* After any crash, retry, outlived lease or lost write, a job that the table calls
\* done has its file.
THEOREM DoneIsExported == ExportSpec => []DoneMeansExported
  <1>1. ExportInv => DoneMeansExported
    BY DEF ExportInv
  <1> QED
    BY <1>1, ExportAlways, PTL

\* No execution changes or removes the file of another, however many of one job
\* overlap.
THEOREM FilesStay == ExportSpec => ExportStays
  <1> DEFINE Same == \A j \in Jobs : Download(j) # NoFile => Download(j)' = Download(j)
  <1>1. ExportInv /\ [ExportNext]_exportVars => [Same]_exportVars
    BY ExportStep DEF Download
  <1>2. ExportSpec => [][Same]_exportVars
    BY <1>1, ExportAlways, PTL DEF ExportSpec
  <1> QED
    BY <1>2 DEF ExportStays

\* Whatever changes between the SELECT and the INSERT, the file shows the event as it
\* was at one moment after the request.
THEOREM FilesShowOneMoment == ExportSpec => ExportIsOneMoment
  <1> DEFINE Moment == \A j \in Jobs : file'[j] # file[j] => file'[j] \in shown[j]
  <1>1. ExportInv /\ [ExportNext]_exportVars => [Moment]_exportVars
    BY ExportStep
  <1>2. ExportSpec => [][Moment]_exportVars
    BY <1>1, ExportAlways, PTL DEF ExportSpec
  <1> QED
    BY <1>2 DEF ExportIsOneMoment

-----------------------------------------------------------------------------
(* Without a fault, no export is dead-lettered.                             *)

\* Nothing has gone wrong: every process runs, nobody has a failure to report and no
\* admin one to undo, and whoever made a file has reported it or is about to.
Calm ==
    /\ HonestInv
    /\ \A p \in Procs : proc[p] = "running"
    /\ \A a \in Admins : admin[a] = {}
    /\ overtaken = {}
    /\ \A t \in Tasks : task[t].pc \notin {"reschedule", "mark_failed"}
    /\ \A j \in Jobs : jobs[j].status # "failed"
    /\ \A j \in Jobs : file[j] # NoFile =>
          \/ jobs[j].status = "done"
          \/ \E t \in Goroutines : task[t].pc = "mark_done" /\ task[t].job = j

FaultFree == faults + exportFaults = 0 => Calm

\* Faults are counted, never forgotten.
LEMMA FaultsGrow ==
    ASSUME ExportInv, [ExportNext]_exportVars
    PROVE  faults' \in Nat /\ exportFaults' \in Nat /\ faults' >= faults /\ exportFaults' >= exportFaults
  <1>0. faults \in Nat /\ exportFaults \in Nat /\ faults' \in Nat /\ exportFaults' \in Nat
    BY ExportSimulated, TypeStep, ExportStep DEF ExportInv, TypeOK, ExportTypeOK
  <1>1. faults' = faults \/ faults' = faults + 1
    <2>1. ASSUME NEW p \in Procs, ProcStep(p) PROVE faults' = faults \/ faults' = faults + 1
      BY <2>1 DEF ProcStep, GoroutineStep, WriteBack, Claim, HandOver, Execute, MarkDone, Reschedule,
                  MarkFailed, DropClaim, RequeueStale, Signal, Exit, Crash, Vanish, Restart, Outcome
    <2>2. ASSUME NEW a \in Admins, AdminStep(a) PROVE faults' = faults \/ faults' = faults + 1
      BY <2>2 DEF AdminStep, RetryCheck, RetryManyPick, RetryApply
    <2>3. [Next]_vars
      BY ExportSimulated
    <2> QED
      BY <2>1, <2>2, <2>3 DEF Next, Create, BecomeDue, LockExpire, vars
  <1>2. exportFaults' = exportFaults \/ exportFaults' = exportFaults + 1
    <2>1. ASSUME NEW p \in Procs, NEW s \in Slots, Work(p, s)
          PROVE  exportFaults' = exportFaults \/ exportFaults' = exportFaults + 1
      <3>1. CASE List(p, s)
        BY <3>1 DEF List
      <3>2. CASE ListFails(p, s)
        BY <3>2 DEF ListFails, ExportOutcome
      <3>3. ASSUME NEW o \in {"ok", "lost", "unacked"}, Save(p, s, o)
            PROVE  exportFaults' = exportFaults \/ exportFaults' = exportFaults + 1
        BY <3>3 DEF Save, ExportOutcome
      <3> QED
        BY <2>1, <3>1, <3>2, <3>3 DEF Work
    <2>2. ASSUME NEW j \in Jobs, Request(j) PROVE exportFaults' = exportFaults
      BY <2>2 DEF Request
    <2>3. ASSUME NEW p \in Procs, EndExport(p) PROVE exportFaults' = exportFaults
      BY <2>3 DEF EndExport
    <2>4. ASSUME NEW p \in Procs, NEW s \in Slots, StartExport(p, s)
          PROVE  exportFaults' = exportFaults
      BY <2>4 DEF StartExport
    <2>5. ASSUME OtherQueueStep \/ Change PROVE exportFaults' = exportFaults
      BY <2>5 DEF OtherQueueStep, Change
    <2> QED
      BY <2>1, <2>2, <2>3, <2>4, <2>5 DEF ExportNext, exportVars
  <1> QED
    BY <1>0, <1>1, <1>2

\* The queue's own steps keep the calm: a write that is not lost is a success.
LEMMA CalmQueue ==
    ASSUME ExportInv, Calm, QueueStep, UNCHANGED faults
    PROVE  /\ UNCHANGED <<proc, admin>>
           /\ \A t \in Tasks : task'[t].pc \notin {"reschedule", "mark_failed"}
           /\ \A j \in Jobs : jobs'[j].status # "failed"
           /\ \A t \in Goroutines : task[t].pc = "mark_done" =>
                 task'[t] = task[t] \/ jobs'[task[t].job].status = "done"
  <1> DEFINE Kept == /\ UNCHANGED <<proc, admin>>
                     /\ \A t \in Tasks : task'[t].pc \notin {"reschedule", "mark_failed"}
                     /\ \A j \in Jobs : jobs'[j].status # "failed"
                     /\ \A t \in Goroutines : task[t].pc = "mark_done" =>
                           task'[t] = task[t] \/ jobs'[task[t].job].status = "done"
  <1> USE DEF ExportInv, Calm
  <1>0. faults \in Nat /\ \A j \in Jobs : jobs[j] \in Row
    BY DEF TypeOK
  <1>a. \A t \in Goroutines : t \in Tasks /\ \A p \in Procs : t # <<p, Producer>>
    BY NotProducer
  <1>b. ASSUME NEW p \in Procs, NEW o, Outcome(p, o) PROVE o = "ok"
    BY <1>0, <1>b DEF Outcome
  <1>c. Idle.pc = "idle"
    BY DEF Idle
  <1>1. ASSUME NEW j \in Jobs, NEW d \in BOOLEAN, Create(j, d) PROVE Kept
    BY <1>1 DEF Create, AbsentRow, TypeOK
  <1>2. ASSUME NEW j \in Jobs, BecomeDue(j) \/ LockExpire(j) PROVE Kept
    <2>0. /\ [jobs[j] EXCEPT !.due = TRUE].status = jobs[j].status
          /\ [jobs[j] EXCEPT !.stale = TRUE].status = jobs[j].status
      BY <1>0 DEF Row
    <2>1. \A i \in Jobs : jobs'[i].status = jobs[i].status
      BY <1>2, <2>0 DEF BecomeDue, LockExpire, TypeOK
    <2> QED
      BY <1>2, <2>1 DEF BecomeDue, LockExpire
  <1>3. ASSUME NEW p \in Procs, NEW j \in Jobs, NEW o, Claim(p, j, o) PROVE Kept
    <2>1. o = "ok"
      BY <1>3, <1>b DEF Claim
    <2>2. \A i \in Jobs : jobs'[i] = jobs[i] \/ jobs'[i] = ClaimedRow(jobs[i], p)
      BY <1>3 DEF Claim, TypeOK
    <2>3. \A i \in Jobs : jobs'[i].status # "failed"
      <3>1. \A i \in Jobs : ClaimedRow(jobs[i], p).status = "processing"
        BY <1>0 DEF ClaimedRow, Row
      <3> QED
        BY <2>2, <3>1
    <2>4. \A t \in Tasks : task'[t] = task[t] \/ task'[t].pc = "handing"
      BY <1>3, <2>1 DEF Claim, TypeOK
    <2>5. \A t \in Goroutines : task'[t] = task[t]
      BY <1>3, <1>a DEF Claim, TypeOK
    <2> QED
      BY <1>3, <2>3, <2>4, <2>5 DEF Claim
  <1>4. ASSUME NEW p \in Procs, NEW s \in Slots, WriteBack(p, s) PROVE Kept
    <2> DEFINE g == <<p, s>>
    <2>1. g \in Goroutines /\ g \in Tasks
      BY DEF Goroutines, Tasks
    <2>2. PICK o \in {"ok", "lost", "unacked"} : MarkDone(p, s, o)
      BY <1>4, <2>1 DEF WriteBack, Reschedule, MarkFailed
    <2>3. o = "ok"
      BY <1>b, <2>2 DEF MarkDone
    <2>4. task[g].job \in Jobs
      BY <2>1, <2>2 DEF MarkDone, BusyHasJob
    <2>5. /\ jobs'[task[g].job] = DoneRow(jobs[task[g].job])
          /\ \A i \in Jobs : jobs'[i] = jobs[i] \/ jobs'[i] = DoneRow(jobs[i])
          /\ \A t \in Tasks : task'[t] = IF t = g THEN Idle ELSE task[t]
      BY <2>1, <2>2, <2>3, <2>4 DEF MarkDone, Applied, TypeOK
    <2>6. \A i \in Jobs : DoneRow(jobs[i]).status = "done"
      BY <1>0 DEF DoneRow, Unlocked, Row
    <2>7. \A t \in Tasks : task'[t].pc \notin {"reschedule", "mark_failed"}
      BY <1>c, <2>5
    <2>8. \A i \in Jobs : jobs'[i].status # "failed"
      BY <2>5, <2>6
    <2>9. \A t \in Goroutines : task[t].pc = "mark_done" =>
              task'[t] = task[t] \/ jobs'[task[t].job].status = "done"
      BY <1>a, <2>4, <2>5, <2>6
    <2> QED
      BY <2>2, <2>7, <2>8, <2>9 DEF MarkDone
  <1>5. ASSUME NEW p \in Procs, RequeueStale(p) PROVE Kept
    <2>1. \A i \in Jobs : jobs'[i] = jobs[i] \/ jobs'[i] = RequeuedRow(jobs[i])
      BY <1>5 DEF RequeueStale
    <2>2. \A i \in Jobs : RequeuedRow(jobs[i]).status = "pending"
      BY <1>0 DEF RequeuedRow, Unlocked, Row
    <2> QED
      BY <1>5, <2>1, <2>2 DEF RequeueStale
  <1>6. ASSUME NEW p \in Procs PROVE ~DropClaim(p) /\ ~Signal(p) /\ ~Restart(p)
    BY <1>0 DEF DropClaim, Signal, Restart
  <1>7. ASSUME NEW a \in Admins PROVE ~AdminStep(a)
    BY DEF AdminStep, RetryCheck, RetryManyPick, RetryApply
  <1> HIDE DEF Kept
  <1>8. Kept
    BY <1>1, <1>2, <1>3, <1>4, <1>5, <1>6, <1>7 DEF QueueStep
  <1> QED
    BY <1>8 DEF Kept

\* While no lease is outlived and nothing fails, every step keeps the calm: an INSERT
\* that met the unique key would need a second execution of the job, and there is none.
LEMMA CalmStep ==
    ASSUME LeaseOutlived = FALSE, ExportInv, Calm, [ExportNext]_exportVars,
           UNCHANGED <<faults, exportFaults>>
    PROVE  Calm'
  <1> DEFINE Reported(j) == \/ jobs[j].status = "done"
                            \/ \E t \in Goroutines : task[t].pc = "mark_done" /\ task[t].job = j
             Rest == /\ UNCHANGED <<proc, admin>>
                     /\ \A t \in Tasks : task'[t].pc \notin {"reschedule", "mark_failed"}
                     /\ \A j \in Jobs : jobs'[j].status # "failed"
                     /\ \A j \in Jobs : file'[j] # NoFile => Reported(j)'
  <1>0. TypeOK /\ BusyHasJob /\ faults \in Nat /\ exportFaults \in Nat
    BY DEF ExportInv, TypeOK, ExportTypeOK
  <1>a. [Next]_vars
    BY ExportSimulated
  <1>b. HonestInv'
    BY <1>0, <1>a, HonestStep DEF HonestMove, Calm
  <1>c. \A j \in Jobs : jobs[j].status = "done" => jobs'[j].status = "done"
    <2>1. RequestsCounted
      BY DEF Calm, RequestsCounted
    <2> QED
      BY <1>0, <1>a, <2>1, SettledStep DEF Calm, StepSettles
  <1>g. overtaken' = {}
    BY <1>a, OvertakenByRetry DEF Calm, RetryApply
  <1>d. ASSUME NEW p \in Procs, NEW o, ExportOutcome(p, o) PROVE o = "ok"
    BY <1>0, <1>d DEF ExportOutcome, Calm
  <1>e. \A t \in Goroutines : t \in Tasks /\ \A p \in Procs : t # <<p, Producer>>
    BY NotProducer
  <1>f. \A p \in Procs, s \in Slots : <<p, s>> \in Goroutines /\ <<p, s>> \in Tasks
    BY DEF Goroutines, Tasks
  <1>1. ASSUME UNCHANGED <<proc, admin, file>>,
               \A t \in Tasks : task'[t].pc \notin {"reschedule", "mark_failed"},
               \A j \in Jobs : jobs'[j].status # "failed",
               \A t \in Goroutines : task[t].pc = "mark_done" =>
                  task'[t] = task[t] \/ jobs'[task[t].job].status = "done"
        PROVE  Rest
    BY <1>1, <1>c DEF Calm
  <1>2. ASSUME NEW j \in Jobs, Request(j) PROVE Rest
    <2>1. \A i \in Jobs : jobs'[i].status # "failed"
      BY <1>0, <1>2 DEF Request, Create, AbsentRow, TypeOK, Calm
    <2>2. UNCHANGED <<proc, task, admin, file>>
      BY <1>2 DEF Request, Create
    <2> QED
      BY <1>1, <2>1, <2>2 DEF Calm
  <1>3. ASSUME NEW p \in Procs PROVE ~EndExport(p)
    BY <1>0 DEF EndExport, Exit, Crash, Calm
  <1>4. ASSUME NEW p \in Procs, NEW s \in Slots, StartExport(p, s) PROVE Rest
    <2> DEFINE g == <<p, s>>  q == <<p, Producer>>  c == [task[q] EXCEPT !.pc = "exec"]
    <2>1. q \in Tasks /\ g \in Goroutines /\ c.pc = "exec"
      BY <1>0, <1>f DEF Tasks, TypeOK, Task
    <2>2. /\ \A t \in Tasks : task'[t] \in {c, Idle, task[t]}
          /\ \A t \in Goroutines : task[t].pc = "mark_done" => task'[t] = task[t]
      BY <1>0, <1>4, <1>e, <2>1 DEF StartExport, HandOver, TypeOK
    <2>3. UNCHANGED <<jobs, proc, admin, file>>
      BY <1>4 DEF StartExport, HandOver
    <2> HIDE DEF c
    <2>4. \A t \in Tasks : task'[t].pc \notin {"reschedule", "mark_failed"}
      BY <2>1, <2>2 DEF Calm, Idle
    <2> QED
      BY <1>1, <2>2, <2>3, <2>4 DEF Calm
  <1>5. ASSUME UNCHANGED <<vars, file>> PROVE Rest
    BY <1>1, <1>5 DEF vars, Calm
  <1>6. ASSUME NEW p \in Procs, NEW s \in Slots PROVE ~ListFails(p, s)
    BY <1>d DEF ListFails
  <1>7. ASSUME NEW p \in Procs, NEW s \in Slots, NEW o, Save(p, s, o) PROVE Rest
    <2> DEFINE g == <<p, s>>  j == task[g].job
    <2>1. o = "ok" /\ g \in Goroutines /\ g \in Tasks
      BY <1>7, <1>d, <1>f DEF Save
    <2>2. task[g].pc = "exec" /\ j \in Jobs
      BY <1>0, <1>7, <2>1 DEF Save, Execute, BusyHasJob
    <2>3. jobs[j].status = "processing" /\ \A t \in Tasks : task[t].job = j => t = g
      BY <2>1, <2>2, ConstantsAssumption DEF Calm, HonestInv, HeldRow, HeldOnce
    <2>4. file[j] = NoFile
      BY <1>e, <2>2, <2>3 DEF Calm
    <2>5. Execute(p, s, TRUE)
      BY <1>7, <2>1, <2>4 DEF Save
    <2>6. /\ \A t \in Tasks : t # g => task'[t] = task[t]
          /\ task'[g].job = j /\ task'[g].pc = "mark_done"
          /\ UNCHANGED <<jobs, proc, admin>>
      BY <1>0, <2>5, ExecuteMoves
    <2>7. \A t \in Tasks : task'[t].pc \notin {"reschedule", "mark_failed"}
      BY <2>6 DEF Calm
    <2>8. \A i \in Jobs : i # j => file'[i] = file[i]
      BY <1>7, <2>1, <2>2 DEF Save, ExportInv, ExportTypeOK
    <2>9. ASSUME NEW i \in Jobs, file'[i] # NoFile PROVE Reported(i)'
      <3>1. CASE i = j
        BY <2>1, <2>6, <3>1
      <3>2. CASE i # j
        <4>1. Reported(i)
          BY <2>8, <2>9, <3>2 DEF Calm
        <4>2. CASE jobs[i].status = "done"
          BY <2>6, <4>2
        <4>3. ASSUME NEW t \in Goroutines, task[t].pc = "mark_done", task[t].job = i
              PROVE  Reported(i)'
          BY <1>e, <2>6, <3>2, <4>3
        <4> QED
          BY <4>1, <4>2, <4>3
      <3> QED
        BY <3>1, <3>2
    <2> QED
      BY <2>6, <2>7, <2>9 DEF Calm
  <1>8. ASSUME OtherQueueStep PROVE Rest
    <2>1. QueueStep /\ UNCHANGED file
      BY <1>8 DEF OtherQueueStep
    <2> QED
      BY <1>1, <2>1, CalmQueue
  <1> HIDE DEF Rest
  <1>9. ASSUME NEW p \in Procs, NEW s \in Slots, StartExport(p, s) \/ Work(p, s) PROVE Rest
    BY <1>4, <1>5, <1>6, <1>7, <1>9 DEF Work, List
  <1>10. Rest
    <2>1. Change \/ UNCHANGED exportVars => UNCHANGED <<vars, file>>
      BY DEF Change, exportVars, vars
    <2> QED
      BY <1>2, <1>3, <1>5, <1>8, <1>9, <2>1 DEF ExportNext
  <1> QED
    BY <1>b, <1>g, <1>10 DEF Rest, Calm

\* As long as no lease is outlived, a dead-lettered export has a fault behind it: the
\* unique key of the file and the changes of the event fail no job.
THEOREM DeadLettersHaveFaults ==
    ASSUME LeaseOutlived = FALSE
    PROVE  ExportSpec => []DeadLetterNeedsFault
  <1>1. ExportInit => FaultFree
    <2> SUFFICES ASSUME ExportInit PROVE Calm
      BY DEF FaultFree
    <2>1. Init /\ HonestInv
      BY HonestInit DEF ExportInit
    <2> QED
      BY <2>1 DEF Calm, Init, ExportInit, Idle, AbsentRow
  <1>2. ASSUME ExportInv, FaultFree, [ExportNext]_exportVars PROVE FaultFree'
    <2> SUFFICES ASSUME faults' + exportFaults' = 0 PROVE Calm'
      BY DEF FaultFree
    <2>1. faults \in Nat /\ exportFaults \in Nat
      BY <1>2 DEF ExportInv, TypeOK, ExportTypeOK
    <2>2. UNCHANGED <<faults, exportFaults>> /\ faults + exportFaults = 0
      BY <1>2, <2>1, FaultsGrow
    <2> QED
      BY <1>2, <2>2, CalmStep DEF FaultFree
  <1>3. ExportInv /\ FaultFree => DeadLetterNeedsFault
    BY DEF ExportInv, TypeOK, ExportTypeOK, FaultFree, Calm, DeadLetterNeedsFault
  <1> QED
    BY <1>1, <1>2, <1>3, ExportAlways, PTL DEF ExportSpec
=============================================================================
