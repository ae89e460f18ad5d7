---------------------------- MODULE MCTurnStore ----------------------------
(***************************************************************************)
(* Instances of TurnStore for TLC.  Calls and digests are interchangeable. *)
(***************************************************************************)
EXTENDS TurnStore, TLC

Symmetry == Permutations(Call) \cup Permutations(Digest)
=============================================================================
