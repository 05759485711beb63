SPECIFICATION FairSpec
CONSTANTS
    events = events
    secondary = secondary
    Pollers = {events, secondary}
    Events = events
    Requests = 2
    MaxReboots = 1
    None = None
INVARIANTS
    TypeOK
    AloneReauthOnlyIfRejected
PROPERTIES
    ReauthAfterRetry
    RefusalReachesUser
    RecoversAlone
