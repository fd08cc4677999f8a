--------------------------- MODULE FailureDetector ---------------------------
(***************************************************************************)
(* What the directory promises to whoever reads GET /nodes, GET /circuit   *)
(* or GET /debug/nodes, with the ticker, the lock and the handlers left    *)
(* out: a real-time failure detector.                                      *)
(*                                                                         *)
(*   - a node becomes HEALTHY only by a sign of life (a registration or a  *)
(*     heartbeat) at most Lag old when it takes effect;                    *)
(*   - a node is suspected only when its recorded sign of life is more     *)
(*     than Timeout old, and stays on record;                              *)
(*   - time does not pass while a HEALTHY node's record is Bound old: by   *)
(*     then it has been refreshed, suspected or removed;                   *)
(*   - a node leaves the record alone (deregistration) or with all the     *)
(*     others (the directory restarts).                                    *)
(***************************************************************************)
EXTENDS Integers

CONSTANTS
    Id,         \* the node ids that can appear
    Timeout,    \* age a record must exceed before its node may be suspected
    Lag,        \* greatest age of a sign of life when it takes effect
    Bound,      \* greatest age of the record of a HEALTHY node
    Horizon     \* bound on the clock

VARIABLES
    clock,      \* real time
    view        \* [known id -> [seen, status]], what /debug/nodes shows

vars == <<clock, view>>

Status == {"HEALTHY", "UNHEALTHY"}

Init == clock = 0 /\ view = [i \in {} |-> 0]

\* A sign of life of `id`, at most Lag old, takes effect.
Hear(id) ==
    \E t \in {u \in 0..clock : clock <= u + Lag} :
        /\ view' = [i \in DOMAIN view \cup {id} |->
                      IF i = id THEN [seen |-> t, status |-> "HEALTHY"]
                                ELSE view[i]]
        /\ UNCHANGED clock

\* Some HEALTHY nodes, all of them silent for more than Timeout, are suspected.
Suspect ==
    \E S \in SUBSET {i \in DOMAIN view : /\ view[i].status = "HEALTHY"
                                         /\ clock - view[i].seen > Timeout} :
        /\ view' = [i \in DOMAIN view |->
                      IF i \in S THEN [view[i] EXCEPT !.status = "UNHEALTHY"]
                                 ELSE view[i]]
        /\ UNCHANGED clock

Leave(id) ==
    /\ view' = [i \in DOMAIN view \ {id} |-> view[i]]
    /\ UNCHANGED clock

Restart ==
    /\ view' = [i \in {} |-> 0]
    /\ UNCHANGED clock

Tick ==
    /\ clock < Horizon
    /\ \A i \in DOMAIN view :
          view[i].status = "HEALTHY" => clock + 1 - view[i].seen <= Bound
    /\ clock' = clock + 1
    /\ UNCHANGED view

Next ==
    \/ \E id \in Id : Hear(id) \/ Leave(id)
    \/ Suspect
    \/ Restart
    \/ Tick

Spec == Init /\ [][Next]_vars
=============================================================================
