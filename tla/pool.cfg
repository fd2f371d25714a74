SPECIFICATION Spec
CONSTANTS
    Unit = {u1, u2, u3}
    Chain = {c1, c2}
    Thread = {t1}
    Counts <- MCCounts
    Sizes = {1, 2}
    None = None
INVARIANTS TypeOK SizeCoversUnits KeysOutliveUnits
PROPERTIES AccountsKept
SYMMETRY Symmetry
CHECK_DEADLOCK FALSE
