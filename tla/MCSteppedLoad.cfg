\* A direct test or one over circuits: three levels of four seconds.
CONSTANTS
    Scenarios = {"direct", "1-hop"}
    Levels <- ThreeLevels
    StageDuration = 4
    TickDelay = 2
    SpawnDelay = 1
    MaxEvents = 3

SPECIFICATION FairSpec

INVARIANTS
    SteadySamplesAreLate
    NoLevelIsMissing

PROPERTIES
    TestEnds

\* The test is done.
CHECK_DEADLOCK FALSE
