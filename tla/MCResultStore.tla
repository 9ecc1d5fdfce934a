---------------------------- MODULE MCResultStore ----------------------------
(* Small instances of ResultStore for TLC.                                   *)
EXTENDS ResultStore
=============================================================================
