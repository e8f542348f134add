------------------------------ MODULE JobLife -------------------------------
(***************************************************************************)
(* What the queue promises of a job's life, as long as leases are honoured  *)
(* and failed writes were not applied: one worker at a time, whose report is *)
(* the only way to settle the job, and nobody else touches it before the    *)
(* worker has let go of it.  The promise has one hole, an admin's retry that *)
(* comes late: about a job it overtakes nothing more is said.               *)
(***************************************************************************)
CONSTANTS Jobs, Workers, Nobody

VARIABLES
    status,     \* of each job
    holder      \* who is at work on it

Init ==
    /\ status = [j \in Jobs |-> "absent"]
    /\ holder = [j \in Jobs |-> Nobody]

\* A job is enqueued once.
Enqueue(j) ==
    /\ status[j] = "absent"
    /\ status' = [status EXCEPT ![j] = "pending"]
    /\ UNCHANGED holder

Take(j, w) ==
    /\ status[j] = "pending"
    /\ status' = [status EXCEPT ![j] = "processing"]
    /\ holder' = [holder EXCEPT ![j] = w]

\* Whoever holds the job says what becomes of it.
Report(j, s) ==
    /\ holder[j] # Nobody
    /\ status' = [status EXCEPT ![j] = s]
    /\ holder' = [holder EXCEPT ![j] = Nobody]

\* A worker is gone, or gives up without a word.
Abandon(S) ==
    /\ holder' = [j \in Jobs |-> IF j \in S THEN Nobody ELSE holder[j]]
    /\ UNCHANGED status

\* The jobs of S, which were abandoned, go back to the queue.
Return(S) ==
    /\ \A j \in S : status[j] = "processing" /\ holder[j] = Nobody
    /\ status' = [j \in Jobs |-> IF j \in S THEN "pending" ELSE status[j]]
    /\ UNCHANGED holder

\* An admin's request puts back the jobs of S, which have failed or wait already, and
\* overtakes those of L, which another request has put back and a worker has taken
\* since.
Retry(S, L) ==
    /\ \A j \in S : status[j] \in {"failed", "pending"}
    /\ \A j \in L : status[j] \in {"processing", "done"}
    /\ status' = [j \in Jobs |-> IF j \in L THEN "overtaken"
                                ELSE IF j \in S THEN "pending" ELSE status[j]]
    /\ holder' = [j \in Jobs |-> IF j \in L THEN Nobody ELSE holder[j]]

Next ==
    \/ \E j \in Jobs : Enqueue(j)
    \/ \E j \in Jobs, w \in Workers : Take(j, w)
    \/ \E j \in Jobs, s \in {"pending", "done", "failed"} : Report(j, s)
    \/ \E S \in SUBSET Jobs : Abandon(S) \/ Return(S)
    \/ \E S, L \in SUBSET Jobs : Retry(S, L)

Spec == Init /\ [][Next]_<<status, holder>>
=============================================================================
