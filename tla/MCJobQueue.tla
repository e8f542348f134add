----------------------------- MODULE MCJobQueue -----------------------------
(***************************************************************************)
(* Small instances of JobQueue for TLC.                                     *)
(***************************************************************************)
EXTENDS JobQueue

\* Two attempts: one reschedule, then the dead letter.
TwoAttempts == [j \in Jobs |-> 2]
=============================================================================
