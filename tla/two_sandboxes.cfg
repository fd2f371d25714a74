SPECIFICATION Spec
CONSTANTS
    Sandbox = {1, 2}
    User = {alice}
    Staff = {}
    Thread = {t1, t2}
    Nobody = Nobody
PROPERTIES OneSandboxPerTrainee
CHECK_DEADLOCK FALSE
