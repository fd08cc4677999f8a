-------------------------- MODULE MCFailureRecovery --------------------------
(***************************************************************************)
(* Nodes for TLC: one hop and two guards, one of which registers late.     *)
(* (The state space of three hops is too large for the liveness            *)
(* properties; FailureRecoveryProofs has the invariants for any number.)   *)
(***************************************************************************)
EXTENDS FailureRecovery

CONSTANTS g1, g2

TwoGuards == {g1, g2}
NoNode == {}
LateGuard == {g2}
=============================================================================
