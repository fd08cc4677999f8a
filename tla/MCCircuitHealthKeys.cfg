\* Three hops: a rebuild is given up half-way.
CONSTANTS
    g1 = g1
    r1 = r1
    r2 = r2
    e1 = e1
    Guard <- OneGuard
    Relay <- TwoRelays
    Exit <- OneExit
    Hops = 3

SPECIFICATION Spec

INVARIANTS
    HoldsItsSessionKeys

\* A check that finds all nodes listed changes nothing.
CHECK_DEADLOCK FALSE
