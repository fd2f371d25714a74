SPECIFICATION Spec
CONSTANTS
    Unit = {u1, u2, u3}
    Chain = {c1, c2}
    Thread = {t1}
    Counts = {1}
    Sizes = {2}
    None = None
INVARIANT ForcedPoolGone

CHECK_DEADLOCK FALSE
