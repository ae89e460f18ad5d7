-------------------------- MODULE MCMemoryConverge --------------------------
(***************************************************************************)
(* Instances of MemoryConverge for TLC.  Periodic cycles are               *)
(* interchangeable.                                                        *)
(***************************************************************************)
EXTENDS MemoryConverge, TLC

Symmetry == Permutations(Cycle \ {Startup})
=============================================================================
