---------------------------- MODULE MCMembership ----------------------------
(***************************************************************************)
(* One relay process for TLC.  A unit of time is 5 seconds.                *)
(***************************************************************************)
EXTENDS Membership

CONSTANT relay

OneProcess == {relay}
Types == [p \in OneProcess |-> "relay"]
=============================================================================
