\* Two attempts over the same three nodes, and one crash anywhere, so that a
\* handler can be left waiting for a dead node.
CONSTANTS
    g1 = g1
    r1 = r1
    e1 = e1
    Guard <- OneGuard
    Relay <- OneRelay
    Exit <- OneExit
    Destination = Destination
    None = None
    Hops = 3
    MaxAttempts = 2
    MaxCrashes = 1

SPECIFICATION FairSpec

INVARIANTS
    ResponseDecrypts
    SuccessIsThisAttempts
    UnknownOnlyAfterRestart
    EventsMatchAttempts
    BlamedHopIsTheLastCalled

PROPERTIES
    RetryFencesOff
    ImplementsOneRequest
    Termination

\* The system stops when the client is done and every handler has answered.
CHECK_DEADLOCK FALSE
