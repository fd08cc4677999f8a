\* Two users with pre-detection; without it they do a part of that.
CONSTANTS
    User = {u1, u2}
    HealthCheck = TRUE
    Second = 2
    RunDuration = 3
    MaxRows = 2
    MaxTime = 5

SPECIFICATION Spec

INVARIANTS
    RowsFitTheRun
    DetectionWithinRebuild

\* The run is over.
CHECK_DEADLOCK FALSE
