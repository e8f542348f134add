------------------------- MODULE MCRegistrationExport -------------------------
(***************************************************************************)
(* A small instance of RegistrationExport for TLC.  c1 is an admin's request, *)
(* c2 the attendee's of r1.                                                  *)
(***************************************************************************)
EXTENDS RegistrationExport, TLC

CONSTANTS j1, a1, p1, r1, r2, c1, c2

AttemptsGiven == j1 :> 2

CancelsGiven == (c1 :> {r1, r2}) @@ (c2 :> {r1})
===============================================================================
