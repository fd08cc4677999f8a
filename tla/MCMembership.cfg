\* Close to the default times in units of 3.75 s: heartbeats every 11 s,
\* suspected after 30 s, swept every 11 s, HTTP time-out 4 s, the backoff capped at
\* 15 s; a handler may wait 4 s for the mutex, a request may arrive 4 s after its
\* caller has given up.
CONSTANTS
    relay = relay
    Process <- OneProcess
    TypeOf <- Types
    Registration <- Bodies
    HeartbeatTimeout = 8
    CleanupInterval = 3
    HandlerDelay = 1
    MonitorDelay = 0
    HeartbeatInterval = 3
    HttpTimeout = 1
    MaxBackoff = 4
    Linger = 1
    MaxStarts = 2
    MaxTime = 13

SPECIFICATION SystemSpec

INVARIANTS
    DeadAreUnlisted
    MissesToSuspect
    RegistersSoon

PROPERTIES
    ForgottenStaysForgotten
    DeadDoNotReturn

\* Time is bounded.
CHECK_DEADLOCK FALSE
