----------------------------- MODULE MCFileLock -----------------------------
(***************************************************************************)
(* Instances of FileLock for TLC.  The asynchronous processes are          *)
(* interchangeable.                                                        *)
(***************************************************************************)
EXTENDS FileLock, TLC

Symmetry == Permutations(Proc \ Sync)
=============================================================================
