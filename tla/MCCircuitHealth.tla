--------------------------- MODULE MCCircuitHealth ---------------------------
(***************************************************************************)
(* Nodes for TLC: two relays, so that a rebuild shares guard and exit with *)
(* the circuit it replaces.                                                *)
(***************************************************************************)
EXTENDS CircuitHealth

CONSTANTS g1, r1, r2, e1

OneGuard == {g1}
TwoRelays == {r1, r2}
OneExit == {e1}
=============================================================================
