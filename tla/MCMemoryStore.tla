---------------------------- MODULE MCMemoryStore ----------------------------
(***************************************************************************)
(* Instances of MemoryStore for TLC.  Checkouts and pages are              *)
(* interchangeable.                                                        *)
(***************************************************************************)
EXTENDS MemoryStore, TLC

Symmetry == Permutations(Checkout) \cup Permutations(Page)
=============================================================================
