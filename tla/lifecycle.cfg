SPECIFICATION FairSpec
CONSTANTS
    N = 2
    Capable = {1}
INVARIANTS
    TypeOK
    HostIsSetWhileLoaded
    HostIsResetAfterLoaded
PROPERTIES
    SetupsEnd
    FirstEntryServes
CHECK_DEADLOCK FALSE
