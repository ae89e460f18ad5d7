------------------------ MODULE MCConnectorRegistry ------------------------
(***************************************************************************)
(* Instances of ConnectorRegistry for TLC.  Commands are interchangeable,  *)
(* and so are sessions.                                                    *)
(***************************************************************************)
EXTENDS ConnectorRegistry, TLC

Symmetry == Permutations(Command) \cup Permutations(Session)
=============================================================================
