\* One guard, handlers up to 2 units late, a timeout of 3 and a sweep every 2
\* units over 10 units: the node can register, be suspected, recover and be
\* suspected again, and two of its handlers can take the mutex out of order.
CONSTANTS
    Registration <- OneNode
    HeartbeatTimeout = 3
    CleanupInterval = 2
    HandlerDelay = 2
    MonitorDelay = 1
    MaxTime = 10

SPECIFICATION Spec

INVARIANTS
    ListedAreRecent
    CircuitsAreRecent
    RegressionBound

PROPERTIES
    EarlySuspicionBound
    ImplementsDetector
