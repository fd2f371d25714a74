SPECIFICATION Spec
CONSTANTS
    Alloc = {a1}
    First = a1
    Clean = {c1, c2}
    Web = {w1}
    MaxCrashes = 1
    None = None
INVARIANTS GoneIsGone OrphanNeedsOverlap
PROPERTIES AccountKept
SYMMETRY Symmetry
CHECK_DEADLOCK FALSE
