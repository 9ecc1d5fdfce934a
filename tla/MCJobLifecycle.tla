--------------------------- MODULE MCJobLifecycle ---------------------------
(* Small instances of JobLifecycle for TLC.                                  *)
EXTENDS JobLifecycle, TLC

\* Clients are interchangeable: nothing orders or names them.
ClientSymmetry == Permutations(Client)
=============================================================================
