----------------------- MODULE MCConfirmationDelivery -----------------------
(***************************************************************************)
(* Small instances of ConfirmationDelivery for TLC.                         *)
(***************************************************************************)
EXTENDS ConfirmationDelivery
=============================================================================
