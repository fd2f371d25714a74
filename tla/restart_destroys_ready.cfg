SPECIFICATION Spec
CONSTANTS
    Alloc = {a1, a2}
    First = a1
    Clean = {c1}
    Web = {w1}
    MaxCrashes = 0
    None = None
PROPERTIES RestartSparesReady
CHECK_DEADLOCK FALSE
