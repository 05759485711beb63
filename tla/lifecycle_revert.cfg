SPECIFICATION Spec
CONSTANTS
    N = 1
    Capable = {1}
INVARIANTS
    HostIsReset
CHECK_DEADLOCK FALSE
