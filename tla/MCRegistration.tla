--------------------------- MODULE MCRegistration ---------------------------
(***************************************************************************)
(* Small instances of Registration for TLC: r1 and r4 give the same email.  *)
(***************************************************************************)
EXTENDS Registration, TLC

CONSTANTS r1, r2, r3, r4, ann, bob, cyd

EmailsGiven == (r1 :> ann) @@ (r2 :> bob) @@ (r3 :> cyd) @@ (r4 :> ann)
=============================================================================
