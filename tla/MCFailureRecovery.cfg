\* One hop, with pre-detection; a node may stay unlisted although it runs.
\* Polls may succeed or not, so a user without pre-detection is included.
CONSTANTS
    g1 = g1
    g2 = g2
    Guard <- TwoGuards
    Relay <- NoNode
    Exit <- NoNode
    Late <- LateGuard
    Hops = 1
    HealthCheck = TRUE

SPECIFICATION UserSpec

INVARIANTS
    KeysMatchCircuit
    FailedIsDiscarded

PROPERTIES
    Recovers
    UnlistedIsReplaced

\* A user without a first circuit is gone.
CHECK_DEADLOCK FALSE
