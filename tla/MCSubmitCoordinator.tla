------------------------- MODULE MCSubmitCoordinator -------------------------
(* Small instances of SubmitCoordinator for TLC.                             *)
EXTENDS SubmitCoordinator
=============================================================================
