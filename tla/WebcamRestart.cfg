SPECIFICATION Spec
CONSTANTS
    Nobody = Nobody
    Cameras = {c1} Tasks = {t1}
INVARIANT FailsSafe
CHECK_DEADLOCK FALSE
