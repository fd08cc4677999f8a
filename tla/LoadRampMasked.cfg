\* Four steps of two units, one to four users, until a step is accepted on the
\* strength of the steps before it.
CONSTANTS
    MinUsers = 1
    MaxUsers = 4
    StepSize = 1
    StepDuration = 2
    ErrorPercent = 30
    Percentile = 50
    TickDelay = 2
    MaxEvents = 5
    MaxTime = 10

SPECIFICATION Spec

INVARIANT
    CeilingStayedWithinBounds

\* The test ends.
CHECK_DEADLOCK FALSE
