---------------------------- MODULE MCSteppedLoad ----------------------------
(***************************************************************************)
(* Levels for TLC.  A test over circuits is the same for one and for three *)
(* hops.                                                                   *)
(***************************************************************************)
EXTENDS SteppedLoad

ThreeLevels == <<1, 2, 3>>
=============================================================================
