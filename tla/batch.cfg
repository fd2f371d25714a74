SPECIFICATION FairSpec
CONSTANTS
    Count = 2
    Stage <- MCStage
    MaxFaults = 1
    EarlyUnits = {2}
    Gone = Gone
INVARIANTS TypeOK SummaryNotEarly CountedOnce NothingLeftRunning OrderKept
PROPERTIES SummaryComes 
CHECK_DEADLOCK FALSE
