--------------------------- MODULE MCArchiveStore ---------------------------
(***************************************************************************)
(* Instances of ArchiveStore for TLC.  Processes are interchangeable.      *)
(***************************************************************************)
EXTENDS ArchiveStore, TLC

Symmetry == Permutations(Process)
=============================================================================
