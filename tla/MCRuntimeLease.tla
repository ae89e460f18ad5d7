--------------------------- MODULE MCRuntimeLease ---------------------------
(***************************************************************************)
(* Instances of RuntimeLease for TLC.  Requests, intents and replicas are  *)
(* interchangeable.                                                        *)
(***************************************************************************)
EXTENDS RuntimeLease, TLC

Symmetry == Permutations(Call) \cup Permutations(Replica) \cup Permutations(Intent)
=============================================================================
