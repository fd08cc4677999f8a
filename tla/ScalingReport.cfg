\* Two relay counts, two services, two tests and two exports in three minutes.
CONSTANTS
    Count = {1, 2}
    Service = {"guard-node", "relay-node"}
    Rates = {2}
    MinTest = 1
    MaxTests = 2
    MaxExports = 2
    EndOfTime = 6

SPECIFICATION ReportSpec

INVARIANTS
    SummaryIsLatest
    
    CpuPointsAreOfTheTest

\* The time is up.
CHECK_DEADLOCK FALSE
