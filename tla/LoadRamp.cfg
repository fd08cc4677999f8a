\* Four steps of two units, one to four users.  A third of the events may fail
\* and half of them may be slow; tick() may be called late.
CONSTANTS
    MinUsers = 1
    MaxUsers = 4
    StepSize = 1
    StepDuration = 2
    ErrorPercent = 30
    Percentile = 50
    TickDelay = 2
    MaxEvents = 5
    MaxTime = 10

SPECIFICATION FairSpec

INVARIANTS
    CeilingIsLastWithin
    RecordsFollowSteps
    SetupsFeedRequests

PROPERTIES
    RampEnds

\* The test ends.
CHECK_DEADLOCK FALSE
