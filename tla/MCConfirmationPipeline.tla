----------------------- MODULE MCConfirmationPipeline -----------------------
(***************************************************************************)
(* Small instances of ConfirmationPipeline for TLC.                         *)
(***************************************************************************)
EXTENDS ConfirmationPipeline, TLC

\* Two attempts: one reschedule, then the dead letter.
TwoAttempts == [j \in Jobs |-> 2]
\* The processes are interchangeable.
Symmetry == Permutations(Procs)
=============================================================================
