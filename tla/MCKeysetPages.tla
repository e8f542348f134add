---------------------------- MODULE MCKeysetPages ----------------------------
(***************************************************************************)
(* A small instance of KeysetPages for TLC.                                  *)
(***************************************************************************)
EXTENDS KeysetPages
=============================================================================
