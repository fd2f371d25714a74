SPECIFICATION FairSpec
CONSTANTS
    Entrypoints <- MCEntrypoints
    RouteCount <- MCRouteCount
    Dns = TRUE
    MaxFaults = 1
    NoRow = NoRow
INVARIANTS TypeOK NothingLost NoPeerSlipsIn OverrunBounded KeysReachAnsible
PROPERTIES JobEnds CleanupNotBlocked
CHECK_DEADLOCK FALSE
