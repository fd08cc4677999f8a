----------------------------- MODULE MCCircuit -----------------------------
(***************************************************************************)
(* Nodes for TLC.  With one node of each type a retry always meets the     *)
(* keys of the attempt before; CircuitProofs has the safety properties for *)
(* any nodes.                                                              *)
(***************************************************************************)
EXTENDS Circuit

CONSTANTS g1, r1, e1

OneGuard == {g1}
OneRelay == {r1}
OneExit == {e1}
=============================================================================
