SPECIFICATION Spec
CONSTANTS
    Sandbox = {1, 2}
    User = {alice, bob}
    Staff = {bob}
    Thread = {t1, t2, t3}
    Nobody = Nobody
INVARIANTS TypeOK HandoutsHold NoRowDeadlock
PROPERTIES LocksKept
SYMMETRY Symmetry
CHECK_DEADLOCK FALSE
