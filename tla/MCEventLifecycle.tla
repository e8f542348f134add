--------------------------- MODULE MCEventLifecycle ---------------------------
(* EventLifecycle for TLC: the constants are given in the .cfg file.           *)
EXTENDS EventLifecycle
=============================================================================
