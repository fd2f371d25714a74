SPECIFICATION Spec
CONSTANTS
    Names <- MCNames
    None = None
    Modes = {"FRESH", "FRESH_IMPORT", "AGGRESSIVE"}
    First <- MCFirst
    Pushes <- MCPushes
    Available <- MCAvailable
    MaxCommits = 2
    MaxTrouble = 1
    AtOnce = 2
    Viewers = {v1, v2}
    MaxConsole = 1
    ConsoleSites <- MCConsoleSites
INVARIANTS TypeOK InstanceMatches ImportRefreshes UsageHonest  AnsibleReaches  WaitHasJob
PROPERTIES ConsolesCome
CHECK_DEADLOCK FALSE
