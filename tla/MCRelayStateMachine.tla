------------------------ MODULE MCRelayStateMachine ------------------------
(***************************************************************************)
(* Instances of RelayStateMachine for TLC.  References, handles and        *)
(* commands are interchangeable.                                           *)
(***************************************************************************)
EXTENDS RelayStateMachine, TLC

Symmetry == Permutations(Ref) \cup Permutations(Handle) \cup Permutations(Command)
=============================================================================
