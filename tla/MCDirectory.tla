---------------------------- MODULE MCDirectory ----------------------------
(***************************************************************************)
(* The directory's registrations for TLC.                                  *)
(***************************************************************************)
EXTENDS Directory

\* One guard, registering with a good body or with the one its agent sends
\* when it could not resolve its own address: an empty host.
OneNode ==
    {[nodeId |-> "g1", nodeType |-> "guard", host |-> "10.0.1.1", port |-> 8080],
     [nodeId |-> "g1", nodeType |-> "guard", host |-> "", port |-> 8080]}
=============================================================================
