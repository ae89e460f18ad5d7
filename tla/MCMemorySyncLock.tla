-------------------------- MODULE MCMemorySyncLock --------------------------
(***************************************************************************)
(* Instances of MemorySyncLock for TLC: the pids and labels are model      *)
(* values.  Processes that differ only in their pid are interchangeable.   *)
(***************************************************************************)
EXTENDS MemorySyncLock, TLC

Symmetry == Permutations(Pid \ ReadOnly)
=============================================================================
