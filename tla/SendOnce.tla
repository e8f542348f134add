------------------------------ MODULE SendOnce ------------------------------
(***************************************************************************)
(* What the send-once gate promises to the rest of the system              *)
(* (db/migrations/20260122151736_add_notfication_deliveries.sql: "one       *)
(* confirmation per registration_id (regardless of job retries or new job   *)
(* ids)"): a registration is sent its confirmation once at most, and its job *)
(* is reported as successful only when the confirmation is out.             *)
(***************************************************************************)
EXTENDS Naturals

CONSTANT Regs

VARIABLES
    sends,      \* how many confirmations went out to each registration
    acked       \* registrations whose confirmation job has succeeded

Init ==
    /\ sends = [r \in Regs |-> 0]
    /\ acked = {}

Deliver(r) ==
    /\ sends[r] = 0
    /\ sends' = [sends EXCEPT ![r] = 1]
    /\ UNCHANGED acked

Acknowledge(r) ==
    /\ sends[r] = 1
    /\ acked' = acked \cup {r}
    /\ UNCHANGED sends

Next == \E r \in Regs : Deliver(r) \/ Acknowledge(r)

Spec == Init /\ [][Next]_<<sends, acked>>
=============================================================================
