\* Four steps of two units, one to four users, until a test ends within bounds
\* that has not looked at its last step.
CONSTANTS
    MinUsers = 1
    MaxUsers = 4
    StepSize = 1
    StepDuration = 2
    ErrorPercent = 30
    Percentile = 50
    TickDelay = 2
    MaxEvents = 5
    MaxTime = 10

SPECIFICATION Spec

INVARIANT
    EveryStepIsSampled

\* The test ends.
CHECK_DEADLOCK FALSE
