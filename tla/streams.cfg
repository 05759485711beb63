SPECIFICATION DiscoverSpec
CONSTANTS
    Cameras = 2
    Transient = 2
INVARIANTS
    StreamTypeOK
    RequiredStreamsFound
    FallbackIsForRecorders
CHECK_DEADLOCK FALSE
