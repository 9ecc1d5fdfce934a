--------------------------- MODULE MCJobDirectory ---------------------------
(* JobDirectory with interchangeable clients. *)
EXTENDS JobDirectory, TLC

ClientSymmetry == Permutations(Clients)
=============================================================================
