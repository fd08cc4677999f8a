\* Three hops: every interleaving of checks, rebuilds and late setups, until
\* nothing new goes wrong.
CONSTANTS
    g1 = g1
    r1 = r1
    r2 = r2
    e1 = e1
    Guard <- OneGuard
    Relay <- TwoRelays
    Exit <- OneExit
    Hops = 3

SPECIFICATION FairSpec

INVARIANTS
    OnlyStraysDisplace

PROPERTIES
    StaleCircuitIsReplaced

\* A check that finds all nodes listed changes nothing.
CHECK_DEADLOCK FALSE
